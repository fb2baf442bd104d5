--------------------------- MODULE MC_EnergyKeeper ---------------------------
(* Small instances of EnergyKeeper for TLC.                                *)
EXTENDS EnergyKeeper, TLC

CONSTANTS s1, s2, c1, c2, h1, h2, padded, custom

\* "energy-02" parses to 2 but is not what GenerateID prints; "legacy" does
\* not parse.
MCForeignIDs == {padded, custom}
MCForeignNum == (padded :> 2) @@ (custom :> 0)

P(size, allowed, open, cap, limit) ==
    [MaxBatchSize |-> size, AllowedSubmitters |-> allowed, Permissionless |-> open,
     MaxMetadataSize |-> cap, MaxSubmissionsPerBlockPerSubmitter |-> limit]

\* Open to all with a limit of 1; one whitelisted submitter, with a limit of 2
\* and a cap below the metadata used until the upgrade raises it.  The last two
\* choices are rejected by Params.Validate.
OpenParams == P(2, {}, TRUE, 2, 1)
StrictParams == P(1, {s1}, FALSE, 1, 2)
MCParamChoices == {OpenParams, StrictParams, P(0, {}, TRUE, 2, 1), P(1, {}, TRUE, 4, 1)}

EmptyGenesis(p) ==
    [Params |-> p, DataRecords |-> <<>>, Batches |-> <<>>, NextID |-> 0]

\* A hand-made genesis of an older chain: foreign ids, no NextID and no limit.
LegacyGenesis(c, h) ==
    [Params |-> P(2, {}, TRUE, 2, 0),
     DataRecords |-> [id \in {padded, custom, EnergyID(1)} |->
        [Category |-> c, Submitter |-> s1, DataHash |-> h, Metadata |-> 2]],
     Batches |-> <<>>, NextID |-> 0]

MCGeneses == {EmptyGenesis(OpenParams)}
             \cup {LegacyGenesis(c, h) : c \in Categories, h \in Hashes}

\* Categories are interchangeable, and so are hashes; submitters are not.
MCSymmetry == Permutations({c1, c2}) \cup Permutations({h1, h2})
=============================================================================
