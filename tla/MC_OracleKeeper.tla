--------------------------- MODULE MC_OracleKeeper ---------------------------
(* Small instances of OracleKeeper for TLC.                                *)
EXTENDS OracleKeeper, TLC

CONSTANTS o1, o2, c1, c2

P(min, age, cap) == [MinSubmissions |-> min, DataMaxAge |-> age, MaxMetadataSize |-> cap]

MCGenesisParams == P(1, 1, 2)

\* The last two are rejected by Params.Validate.
MCParamChoices == {MCGenesisParams, P(1, 2, 1), P(1, 3, 1), P(0, 1, 1)}

\* No oracle; one that the file lists as inactive; or one with two datapoints
\* out of order, the first dated ahead and the second without a submitter.
MCGeneses ==
    {[Params |-> MCGenesisParams, Oracles |-> <<>>, Data |-> <<>>],
     [Params |-> MCGenesisParams, Data |-> <<>>,
      Oracles |-> o1 :> [Active |-> FALSE, AuthorizedCategories |-> {}]],
     [Params |-> MCGenesisParams,
      Oracles |-> o1 :> [Active |-> TRUE, AuthorizedCategories |-> {c1}],
      Data |-> << [Category |-> c1, Timestamp |-> 4, Submitter |-> o1,
                   Metadata |-> 2, BlockHeight |-> 0],
                  [Category |-> c1, Timestamp |-> 3, Submitter |-> NoSubmitter,
                   Metadata |-> 2, BlockHeight |-> 0] >>]}
=============================================================================
