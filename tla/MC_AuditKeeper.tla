-------------------------- MODULE MC_AuditKeeper --------------------------
(* A small instance of AuditKeeper for TLC.                                *)
EXTENDS AuditKeeper, TLC

CONSTANTS c1, c2, e1, e2

P(allowed, open, cap, limit) ==
    [AllowedAuditors |-> allowed, Permissionless |-> open,
     MaxDataSize |-> cap, MaxAuditsPerBlockPerCreator |-> limit]

\* Open to all with a limit of 1; one auditor with a limit of 2 and a smaller
\* cap; the last is rejected by Params.Validate.
OpenParams == P({}, TRUE, 2, 1)
MCParamChoices == {OpenParams, P({c1}, FALSE, 1, 2), P({}, TRUE, 3, 1)}

\* An empty chain, and a file without a limit whose counter lags behind its ids,
\* which have a gap, with a log dated before 1970 and one ahead of the chain.
MCGeneses ==
    {[Params |-> OpenParams, Logs |-> <<>>, Counter |-> 0]}
    \cup {[Params |-> P({}, TRUE, 2, 0), Counter |-> 1,
           Logs |-> [id \in {0, 2} |-> [Actor |-> c1, EventType |-> e, Data |-> 2,
                                        Timestamp |-> IF id = 0 THEN -1 ELSE 2]]]
             : e \in EventTypes}

\* Event types are interchangeable; creators are not.
MCSymmetry == Permutations({e1, e2})
=============================================================================
