---------------------------- MODULE OracleKeeper ----------------------------
(***************************************************************************)
(* x/oracle: registered oracles feed time-stamped datapoints per category. *)
(* A datapoint is written twice, to the time series Data and to the O(1)   *)
(* cache LatestData; governance adds and removes oracles and changes the   *)
(* parameters; the chain may be exported and restarted from the export.    *)
(*                                                                         *)
(* A handler that fails leaves no trace (baseapp drops its writes, as in   *)
(* EnergyKeeper), so a handler is one step.  Values and names are left     *)
(* out, metadata is its size, and the block height a record carries, which *)
(* no code reads, is represented by the block time, which grows with it,   *)
(* and by 0 in a record of the first genesis file.                         *)
(***************************************************************************)
EXTENDS Integers, Sequences, FiniteSets

CONSTANTS
    Addresses,       \* bech32 addresses
    Categories,      \* non-empty category strings
    Timestamps,      \* positive timestamps a message may carry
    MetadataSizes,   \* metadata lengths a message may carry
    ParamChoices,    \* parameters a governance proposal may carry
    Geneses,         \* genesis files the chain may be started from
    NoSubmitter      \* the empty submitter, which a genesis file may hold

\* The limits of types/types.go and keeper.go.
CONSTANTS
    OracleMaxMetadataLowerBound, OracleMaxMetadataUpperBound,
    OracleDataMaxAgeUpperBound, MaxOracles, MaxHistoryResults

\* Bounds of the model.
CONSTANTS
    MaxTime,         \* on the block time
    MaxData          \* on the datapoints stored

VARIABLES
    params,          \* Keeper.Params
    oracles,         \* Keeper.Oracles: address -> OracleInfo
    data,            \* Keeper.Data: (category, timestamp) -> datapoint
    latest,          \* Keeper.LatestData: category -> datapoint
    now              \* block time

vars == <<params, oracles, data, latest, now>>

-----------------------------------------------------------------------------
Params == [MinSubmissions : Nat, DataMaxAge : Int, MaxMetadataSize : Nat]

OracleInfo == [Active : BOOLEAN, AuthorizedCategories : SUBSET Categories]

OracleData == [Category : Categories, Timestamp : Timestamps,
               Submitter : Addresses \cup {NoSubmitter}, Metadata : MetadataSizes,
               BlockHeight : Nat]

IsMap(f, K, V) == DOMAIN f \subseteq K /\ f \in [DOMAIN f -> V]
MapSet(f, k, v) == [x \in DOMAIN f \cup {k} |-> IF x = k THEN v ELSE f[x]]

TypeOK ==
    /\ params \in Params
    /\ IsMap(oracles, Addresses, OracleInfo)
    /\ IsMap(data, Categories \X Timestamps, OracleData)
    /\ IsMap(latest, Categories, OracleData)
    /\ now \in 1..MaxTime

\* Params.Validate
ParamsValid(p) ==
    /\ p.MinSubmissions > 0
    /\ p.DataMaxAge \in 1..OracleDataMaxAgeUpperBound
    /\ p.MaxMetadataSize \in OracleMaxMetadataLowerBound..OracleMaxMetadataUpperBound

\* OracleInfo.IsAuthorizedFor: no categories means all of them.
IsAuthorizedFor(oracle, c) ==
    /\ oracle.Active
    /\ oracle.AuthorizedCategories # {} => c \in oracle.AuthorizedCategories

IsAuthorizedOracle(o, c) == o \in DOMAIN oracles /\ IsAuthorizedFor(oracles[o], c)

\* Mutant: off by one.
MetadataFitsOffByOne(m) == params.MaxMetadataSize > 0 => m - 1 <= params.MaxMetadataSize

MetadataFits(m) == params.MaxMetadataSize > 0 => m <= params.MaxMetadataSize

\* A timestamp may differ from the block time by DataMaxAge, or by an hour
\* when that is not positive.
MaxDrift == IF params.DataMaxAge <= 0 THEN 3600 ELSE params.DataMaxAge

\* Mutant: only the past is bounded.
WithinDriftOfPast(ts) == ts >= now - MaxDrift

WithinDrift(ts) == ts \in (now - MaxDrift)..(now + MaxDrift)

\* GetFreshLatestData, for a category that has data.
Stale(c) == params.DataMaxAge > 0 /\ now - latest[c].Timestamp > params.DataMaxAge

\* The bound MaxData.
HasRoom(c, ts) == Cardinality(DOMAIN data \cup {<<c, ts>>}) <= MaxData

-----------------------------------------------------------------------------
ASSUME ConstantsAssumption ==
    /\ Timestamps \subseteq Nat \ {0} /\ MetadataSizes \subseteq Nat
    /\ OracleMaxMetadataLowerBound \in Nat \ {0} /\ OracleMaxMetadataUpperBound \in Nat
    /\ OracleDataMaxAgeUpperBound \in Nat
    /\ MaxOracles \in Nat /\ MaxHistoryResults \in Nat
    /\ MaxTime \in Nat \ {0} /\ MaxData \in Nat
    /\ ParamChoices \subseteq Params

Key(d) == <<d.Category, d.Timestamp>>

\* GenesisState.Validate: addrs are the addresses of the oracles, distinct as keys
\* of a map, and recs the records, at their place in a file or, for an export,
\* under their key.
GenesisValid(p, addrs, recs) ==
    /\ ParamsValid(p)
    /\ \A i \in DOMAIN recs :
          /\ recs[i].Timestamp > 0
          /\ recs[i].Submitter # NoSubmitter => recs[i].Submitter \in addrs
          /\ recs[i].Metadata <= p.MaxMetadataSize
          /\ \A j \in DOMAIN recs \ {i} : Key(recs[j]) # Key(recs[i])

\* A first genesis file lists its datapoints by hand, in any order.
IsGenesisState(gs) ==
    /\ gs.Params \in Params
    /\ IsMap(gs.Oracles, Addresses, OracleInfo) /\ IsFiniteSet(DOMAIN gs.Oracles)
    /\ gs.Data \in Seq(OracleData)
    /\ \A i \in DOMAIN gs.Data : gs.Data[i].BlockHeight = 0

ASSUME GenesesAssumption ==
    \A gs \in Geneses :
        /\ IsGenesisState(gs)
        /\ GenesisValid(gs.Params, DOMAIN gs.Oracles, gs.Data)

\* Keeper.InitGenesis writes the records in their order in the file, each to the
\* series and to the cache, so the last one of a key, or of a category, stays.
Last(S) == CHOOSE i \in S : \A j \in S : j <= i
ImportedData(recs) ==
    [k \in {Key(recs[i]) : i \in DOMAIN recs} |->
        recs[Last({i \in DOMAIN recs : Key(recs[i]) = k})]]
ImportedLatest(recs) ==
    [c \in {recs[i].Category : i \in DOMAIN recs} |->
        recs[Last({i \in DOMAIN recs : recs[i].Category = c})]]

Init ==
    \E gs \in Geneses :
        /\ params = gs.Params
        /\ oracles = gs.Oracles
        /\ data = ImportedData(gs.Data)
        /\ latest = ImportedLatest(gs.Data)
        /\ now = 1

\* Keeper.SetOracleData: the series and the cache.
SetOracleData(d) ==
    /\ data' = MapSet(data, <<d.Category, d.Timestamp>>, d)
    /\ latest' = MapSet(latest, d.Category, d)

\* Mutant: it is enough that the sender is registered.
SubmitDataRegisteredOnly(o, c, ts, m) ==
    /\ o \in DOMAIN oracles
    /\ MetadataFits(m)
    /\ WithinDrift(ts)
    /\ HasRoom(c, ts)
    /\ SetOracleData([Category |-> c, Timestamp |-> ts, Submitter |-> o,
                      Metadata |-> m, BlockHeight |-> now])
    /\ UNCHANGED <<params, oracles, now>>

\* msgServer.SubmitData
SubmitData(o, c, ts, m) ==
    /\ IsAuthorizedOracle(o, c)
    /\ MetadataFits(m)
    /\ WithinDrift(ts)
    /\ HasRoom(c, ts)
    /\ SetOracleData([Category |-> c, Timestamp |-> ts, Submitter |-> o,
                      Metadata |-> m, BlockHeight |-> now])
    /\ UNCHANGED <<params, oracles, now>>

\* msgServer.AddOracle, by the gov authority; a second one replaces the first.
AddOracle(o, cats) ==
    /\ oracles' = MapSet(oracles, o, [Active |-> TRUE, AuthorizedCategories |-> cats])
    /\ UNCHANGED <<params, data, latest, now>>

\* msgServer.RemoveOracle; its datapoints stay.
RemoveOracle(o) ==
    /\ o \in DOMAIN oracles
    /\ oracles' = [x \in DOMAIN oracles \ {o} |-> oracles[x]]
    /\ UNCHANGED <<params, data, latest, now>>

\* msgServer.UpdateParams
UpdateParams(p) ==
    /\ ParamsValid(p)
    /\ params' = p
    /\ UNCHANGED <<oracles, data, latest, now>>

NextBlock ==
    /\ now' \in (now + 1)..MaxTime
    /\ UNCHANGED <<params, oracles, data, latest>>

-----------------------------------------------------------------------------
(* Export and restart                                                      *)

\* What GetAllOracles returns: all oracles, or the first MaxOracles in address
\* order, whichever they are.
ExportedOracles ==
    {S \in SUBSET DOMAIN oracles :
        Cardinality(S) = IF Cardinality(DOMAIN oracles) > MaxOracles
                         THEN MaxOracles ELSE Cardinality(DOMAIN oracles)}

\* Mutant: the series is replayed in descending order.
ReplayedLatestDescending(c) ==
    CHOOSE d \in {data[k] : k \in {j \in DOMAIN data : j[1] = c}} :
        \A k \in DOMAIN data : k[1] = c => k[2] >= d.Timestamp

\* InitGenesis replays the exported series in key order, by category and then
\* by timestamp, so the last record of a category that it writes to the cache
\* is the one with the highest timestamp.
ReplayedLatest(c) ==
    CHOOSE d \in {data[k] : k \in {j \in DOMAIN data : j[1] = c}} :
        \A k \in DOMAIN data : k[1] = c => k[2] <= d.Timestamp

\* Keeper.ExportGenesis, then Keeper.InitGenesis on an empty store.
RestartFromExport(kept) ==
    /\ oracles' = [o \in kept |-> oracles[o]]
    /\ latest' = [c \in {k[1] : k \in DOMAIN data} |-> ReplayedLatest(c)]
    /\ UNCHANGED <<params, data, now>>

Next ==
    \/ \E o \in Addresses, c \in Categories, ts \in Timestamps, m \in MetadataSizes :
          SubmitData(o, c, ts, m)
    \/ \E o \in Addresses, cats \in SUBSET Categories : AddOracle(o, cats)
    \/ \E o \in Addresses : RemoveOracle(o)
    \/ \E p \in ParamChoices : UpdateParams(p)
    \/ NextBlock
    \/ \E kept \in ExportedOracles : RestartFromExport(kept)

Spec == Init /\ [][Next]_vars

-----------------------------------------------------------------------------
(* Queries                                                                 *)

\* Keeper.GetDataHistory, the keys of what it returns: a half-open range of
\* keys, walked in order up to MaxHistoryResults.
GetDataHistory(c, from, to) ==
    LET range == {k \in DOMAIN data : k[1] = c /\ from <= k[2] /\ k[2] < to + 1}
    IN  IF from < 0 \/ to < from
        THEN {}
        ELSE {k \in range : Cardinality({j \in range : j[2] < k[2]}) < MaxHistoryResults}

\* Mutant: the upper bound is exclusive, as that of the range of keys is.
DataHistoryExclusive(c, from, to) ==
    {k \in DOMAIN data :
        /\ k[1] = c
        /\ from <= data[k].Timestamp
        /\ to = 0 \/ data[k].Timestamp < to}

\* queryServer.DataHistory, over all its pages: a filter on the stored
\* timestamps; a window without an end reaches to the end.
DataHistory(c, from, to) ==
    {k \in DOMAIN data :
        /\ k[1] = c
        /\ from <= data[k].Timestamp
        /\ to = 0 \/ data[k].Timestamp <= to}

-----------------------------------------------------------------------------
(* The registered invariant on the cache: TRUE where it reports nothing.   *)

LatestDataConsistencyInvariant ==
    \A c \in DOMAIN latest :
        LET k == <<c, latest[c].Timestamp>>
        IN  k \in DOMAIN data /\ data[k].Submitter = latest[c].Submitter

-----------------------------------------------------------------------------
(* Properties                                                              *)

InCategory(c) == {data[k] : k \in {j \in DOMAIN data : j[1] = c}}

\* Every entry of the cache is the record the series holds at its timestamp,
\* the whole of it, even after another oracle overwrote that timestamp, and
\* every category with data has an entry; so the registered invariant, which
\* compares values and submitters only, never reports anything.  The entry is
\* the most recently written datapoint of its category, those of the first
\* genesis file counting as written at once, or, after a restart from an export,
\* the one with the highest timestamp; never any other.  The collections have
\* their types.
LatestConsistent ==
    /\ TypeOK
    /\ LatestDataConsistencyInvariant
    /\ DOMAIN latest = {k[1] : k \in DOMAIN data}
    /\ \A c \in DOMAIN latest :
          /\ <<c, latest[c].Timestamp>> \in DOMAIN data
          /\ data[<<c, latest[c].Timestamp>>] = latest[c]
          /\ \/ \A d \in InCategory(c) : d.BlockHeight <= latest[c].BlockHeight
             \/ \A d \in InCategory(c) : d.Timestamp <= latest[c].Timestamp

\* An answer that is not flagged stale was written no longer ago than the
\* freshness window plus the largest drift a submission was ever allowed: an
\* oracle cannot keep a value fresh for good by dating it far ahead.  Only a
\* record of the first genesis file can, which GenesisState.Validate lets be dated
\* up to the year 9999.
FreshIsRecent ==
    \A c \in DOMAIN latest :
        ~Stale(c) /\ latest[c].BlockHeight > 0 =>
            now - latest[c].BlockHeight <= params.DataMaxAge + OracleDataMaxAgeUpperBound

\* No step loses a datapoint, and one that is new or different was written by an
\* oracle registered for its category at that moment: removing an oracle,
\* changing the parameters or restarting rewrites no history.
HistoryOnlyByOracles ==
    [][/\ DOMAIN data \subseteq DOMAIN data'
       /\ \A k \in DOMAIN data' :
             \/ k \in DOMAIN data /\ data'[k] = data[k]
             \/ IsAuthorizedOracle(data'[k].Submitter, k[1])]_vars

ExportValid == \A kept \in ExportedOracles : GenesisValid(params, kept, data)

\* InitGenesis takes a file that GenesisState.Validate refuses, so the chain
\* itself never notices.  An export that validates goes on to, through every
\* message and restart, with three exceptions: an oracle is removed whose
\* datapoints stay, the cap is lowered below the metadata that is stored, or
\* there are more oracles than an export lists.
ExportStaysValid ==
    [][ExportValid =>
          \/ ExportValid'
          \/ \E k \in DOMAIN data : data[k].Submitter \in DOMAIN oracles \ DOMAIN oracles'
          \/ \E k \in DOMAIN data : data[k].Metadata > params'.MaxMetadataSize
          \/ Cardinality(DOMAIN oracles') > MaxOracles]_vars

\* The three ways to read a category agree, whatever was overwritten, replayed
\* or cut off: the keeper's history is the RPC history of the same window, or
\* its earliest MaxHistoryResults records, and the history of the very second
\* of the latest value is that value.
HistoryQueriesAgree ==
    \A c \in Categories :
        /\ \A from \in 0..MaxTime, to \in 1..MaxTime :
              LET all == DataHistory(c, from, to)
                  first == GetDataHistory(c, from, to)
              IN  /\ first \subseteq all
                  /\ first # all => Cardinality(first) = MaxHistoryResults
                  /\ \A j \in first, k \in all \ first : j[2] < k[2]
        /\ c \in DOMAIN latest =>
              LET ts == latest[c].Timestamp
              IN  {data[k] : k \in DataHistory(c, ts, ts)} = {latest[c]}
=============================================================================
