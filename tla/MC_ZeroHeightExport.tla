------------------------ MODULE MC_ZeroHeightExport ------------------------
(* A small instance of ZeroHeightExport for TLC.                           *)
EXTENDS ZeroHeightExport, TLC

CONSTANTS v1, v2, d1, d2

\* Reference counts of a validator at the given period: one for its last
\* period, one for each delegation that starts from a period.
History(period, starts) ==
    [p \in {period - 1} \cup Range(starts) |->
        (IF p = period - 1 THEN 1 ELSE 0) + Cardinality({d \in DOMAIN starts : starts[d] = p})]

V(commission, dust, rewards, period, starts, place, power) ==
    [commission |-> commission, outstanding |-> commission + dust + rewards, period |-> period,
     history |-> History(period, starts), jailed |-> place = 0, place |-> place,
     power |-> power, unbondingHeight |-> 5, startHeight |-> 3]

\* Two delegations to one validator, started in different periods, while the
\* other validator is jailed or a candidate; one delegation to each; and the one
\* with power jailed, so that only one without is left to walk.
SharedChain(place) ==
    [height |-> 9,
     val |-> v1 :> V(5, 1, 6, 4, d1 :> 1 @@ d2 :> 3, 1, 4) @@ v2 :> V(0, 1, 0, 2, <<>>, place, 2),
     del |-> [d \in {d1, d2} |-> [val |-> v1, reward |-> IF d = d1 THEN 5 ELSE 1, height |-> 2,
                                  period |-> IF d = d1 THEN 1 ELSE 3]],
     red |-> 1 :> 4, ubd |-> <<6, 7>>, pool |-> 3, balance |-> 16]
SplitChain ==
    [height |-> 9,
     val |-> v1 :> V(2, 0, 3, 3, d1 :> 2, 2, 1) @@ v2 :> V(4, 0, 0, 3, d2 :> 1, 1, 1),
     del |-> [d \in {d1, d2} |-> [val |-> IF d = d1 THEN v1 ELSE v2, height |-> 2,
                                  reward |-> IF d = d1 THEN 3 ELSE 0,
                                  period |-> IF d = d1 THEN 2 ELSE 1]],
     red |-> <<>>, ubd |-> 1 :> 8, pool |-> 1, balance |-> 10]

PowerlessChain ==
    [SharedChain(0) EXCEPT
        !.val = v1 :> V(5, 1, 6, 4, d1 :> 1 @@ d2 :> 3, 0, 4) @@ v2 :> V(0, 1, 0, 2, <<>>, 1, 0)]

MCChains == {SharedChain(0), SharedChain(2), SplitChain, PowerlessChain}
=============================================================================
