---------------------------- MODULE AuditKeeper ----------------------------
(***************************************************************************)
(* x/audit: an append-only log with numeric ids, indexed by actor, event   *)
(* type and time, and rate-limited per creator and block.  Transactions    *)
(* run as in EnergyKeeper: on a cache of the block's state that is written *)
(* back whole or dropped, the parameters included: MsgUpdateParams is a    *)
(* message like the others.  After a block the chain may be exported and   *)
(* restarted.                                                              *)
(*                                                                         *)
(* Of a log, what is indexed, checked or queried is kept; data is its      *)
(* size.  RetentionBlocks and LargeTransferThreshold are only validated by *)
(* the code and left out.                                                  *)
(***************************************************************************)
EXTENDS Integers, FiniteSets

CONSTANTS
    Creators,        \* bech32 addresses that may sign messages
    EventTypes,      \* non-empty event types
    DataSizes,       \* data lengths a message may carry
    ParamChoices,    \* parameters a MsgUpdateParams may carry
    Geneses,         \* genesis files the chain may be started from
    StartTimes       \* block times of the first block

\* The limits of types/types.go and MaxQueryResults of keeper.go.
CONSTANTS
    AuditMaxDataLowerBound, AuditMaxDataUpperBound, AuditMaxAuditsPerBlockUpper,
    MaxQueryResults

\* Bounds of the model.
CONSTANTS
    MaxSeq,          \* on the id sequence (2^64 - 1 in the code)
    MaxTime          \* on the block time

VARIABLES
    params,          \* Keeper.Params
    store,           \* the block's state: committed transactions only
    cache,           \* the running transaction's view of it
    txParams,        \* and its view of the parameters
    phase,           \* as in EnergyKeeper: "begin", "tx", "deliver"
    now,             \* block time in seconds
    executed,        \* history: messages a creator ran under a limit in this tx
    landed,          \* history: the same, for the committed txs of this block
    txRules,         \* history: parameters in force at some moment of this tx
    blockRules       \* history: the same, for this block and its committed txs

vars == <<params, store, cache, txParams, phase, now, executed, landed, txRules, blockRules>>

-----------------------------------------------------------------------------
(* State                                                                   *)

Params == [AllowedAuditors : SUBSET Creators, Permissionless : BOOLEAN,
           MaxDataSize : Nat, MaxAuditsPerBlockPerCreator : Nat]

IDs == 0..MaxSeq

AuditLog == [Actor : Creators, EventType : EventTypes, Data : DataSizes, Timestamp : Int]

IsMap(f, K, V) == DOMAIN f \subseteq K /\ f \in [DOMAIN f -> V]
MapSet(f, k, v) == [x \in DOMAIN f \cup {k} |-> IF x = k THEN v ELSE f[x]]

Zero == [c \in Creators |-> 0]

\* The collections of the keeper, and the transient per-block counters.
IsStore(st) ==
    /\ st = [seq |-> st.seq, logs |-> st.logs, byActor |-> st.byActor,
             byEventType |-> st.byEventType, byTime |-> st.byTime, count |-> st.count]
    /\ st.seq \in IDs
    /\ IsMap(st.logs, IDs, AuditLog)
    /\ st.byActor \subseteq Creators \X IDs
    /\ st.byEventType \subseteq EventTypes \X IDs
    /\ st.byTime \subseteq Nat \X IDs
    /\ st.count \in [Creators -> Nat]

TypeOK ==
    /\ params \in Params
    /\ IsStore(store)
    /\ IsStore(cache)
    /\ txParams \in Params
    /\ phase \in {"begin", "tx", "deliver"}
    /\ now \in Nat
    /\ executed \in [Creators -> Nat]
    /\ landed \in [Creators -> Nat]
    /\ txRules \subseteq Params
    /\ blockRules \subseteq Params

-----------------------------------------------------------------------------
(* Keeper operations                                                       *)

\* Params.Validate
ParamsValid(p) ==
    /\ p.MaxDataSize \in AuditMaxDataLowerBound..AuditMaxDataUpperBound
    /\ p.MaxAuditsPerBlockPerCreator <= AuditMaxAuditsPerBlockUpper

isAllowedAuditor(p, c) == p.Permissionless \/ c \in p.AllowedAuditors

DataFits(p, d) == p.MaxDataSize > 0 => d <= p.MaxDataSize

\* CheckAndIncrAuditCount: the check, then the write.
UnderAuditLimit(st, c) ==
    LET limit == txParams.MaxAuditsPerBlockPerCreator
    IN  limit > 0 => st.count[c] < limit
IncrAuditCount(st, c) ==
    IF txParams.MaxAuditsPerBlockPerCreator = 0
    THEN st
    ELSE [st EXCEPT !.count = [st.count EXCEPT ![c] = @ + 1]]

\* Negative timestamps, which only a genesis file can hold, share the key 0.
timestampToKey(ts) == IF ts < 0 THEN 0 ELSE ts

GetNextID(st) == st.seq + 1
IncrementCounter(st, id) == [st EXCEPT !.seq = id]

\* Keeper.RecordAuditLog: the log and its three index entries.
RecordAuditLog(st, id, log) ==
    [st EXCEPT !.logs = MapSet(@, id, log),
               !.byActor = @ \cup {<<log.Actor, id>>},
               !.byEventType = @ \cup {<<log.EventType, id>>},
               !.byTime = @ \cup {<<timestampToKey(log.Timestamp), id>>}]

-----------------------------------------------------------------------------
(* Genesis                                                                 *)

IsGenesisState(gs) ==
    /\ gs.Params \in Params
    /\ IsMap(gs.Logs, IDs, AuditLog)
    /\ gs.Counter \in IDs

\* GenesisState.Validate; ids are unique and strings non-empty by the types.
GenesisValid(gs) ==
    /\ ParamsValid(gs.Params)
    /\ \A id \in DOMAIN gs.Logs : gs.Logs[id].Data <= gs.Params.MaxDataSize

Highest(S) == CHOOSE n \in S : \A m \in S : n >= m

ActorIndex(logs) == {<<logs[id].Actor, id>> : id \in DOMAIN logs}
TypeIndex(logs) == {<<logs[id].EventType, id>> : id \in DOMAIN logs}
TimeIndex(logs) == {<<timestampToKey(logs[id].Timestamp), id>> : id \in DOMAIN logs}

\* Mutant: the counter is taken from the file as it is.
InitGenesisCounterOnly(gs) ==
    [seq |-> gs.Counter, logs |-> gs.Logs, byActor |-> ActorIndex(gs.Logs),
     byEventType |-> TypeIndex(gs.Logs), byTime |-> TimeIndex(gs.Logs), count |-> Zero]

\* Keeper.InitGenesis on an empty store: the logs with their indexes, and a
\* counter no smaller than any id.
InitGenesis(gs) ==
    [seq |-> Highest({gs.Counter} \cup DOMAIN gs.Logs),
     logs |-> gs.Logs, byActor |-> ActorIndex(gs.Logs),
     byEventType |-> TypeIndex(gs.Logs), byTime |-> TimeIndex(gs.Logs), count |-> Zero]

\* Mutant: the export stops where the queries stop.
ExportGenesisCapped ==
    [Params |-> params, Counter |-> store.seq,
     Logs |-> [id \in {i \in DOMAIN store.logs :
                          Cardinality({j \in DOMAIN store.logs : j < i}) < MaxQueryResults}
                  |-> store.logs[id]]]

ExportGenesis == [Params |-> params, Logs |-> store.logs, Counter |-> store.seq]

ASSUME ConstantsAssumption ==
    /\ MaxSeq \in Nat
    /\ StartTimes \subseteq Nat /\ MaxTime \in Nat
    /\ AuditMaxDataLowerBound \in Nat /\ AuditMaxDataUpperBound \in Nat
    /\ MaxQueryResults \in Nat
    /\ DataSizes \subseteq Nat
    /\ ParamChoices \subseteq Params

ASSUME GenesesAssumption ==
    \A gs \in Geneses : IsGenesisState(gs) /\ GenesisValid(gs)

Init ==
    \E gs \in Geneses, t \in StartTimes :
        /\ params = gs.Params
        /\ store = InitGenesis(gs)
        /\ cache = store
        /\ phase = "begin"
        /\ now = t
        /\ executed = Zero
        /\ landed = Zero
        /\ txParams = params
        /\ txRules = {}
        /\ blockRules = {params}

-----------------------------------------------------------------------------
(* Transactions                                                            *)

BeginTx ==
    /\ phase \in {"begin", "deliver"}
    /\ phase' = "tx"
    /\ cache' = store
    /\ txParams' = params
    /\ executed' = Zero
    /\ txRules' = {params}
    /\ UNCHANGED <<params, store, now, landed, blockRules>>

\* msgServer.RecordAudit, when every check passes.
RecordAudit(c, e, d) ==
    /\ phase = "tx"
    /\ isAllowedAuditor(txParams, c)
    /\ DataFits(txParams, d)
    /\ UnderAuditLimit(cache, c)
    /\ cache.seq < MaxSeq
    /\ LET id == GetNextID(cache)
       IN  cache' = IncrementCounter(
                        RecordAuditLog(IncrAuditCount(cache, c), id,
                            [Actor |-> c, EventType |-> e, Data |-> d, Timestamp |-> now]),
                        id)
    /\ executed' = IF txParams.MaxAuditsPerBlockPerCreator = 0
                   THEN executed ELSE [executed EXCEPT ![c] = @ + 1]
    /\ UNCHANGED <<params, txParams, store, phase, now, landed, txRules, blockRules>>

\* msgServer.UpdateParams, signed by the gov module account: the message of a
\* proposal, or of an authz MsgExec under a grant of that account.
UpdateParams(p) ==
    /\ phase = "tx"
    /\ ParamsValid(p)
    /\ txParams' = p
    /\ txRules' = txRules \cup {p}
    /\ UNCHANGED <<params, store, cache, phase, now, executed, landed, blockRules>>

CommitTx ==
    /\ phase = "tx"
    /\ store' = cache
    /\ params' = txParams
    /\ landed' = [c \in Creators |-> landed[c] + executed[c]]
    /\ executed' = Zero
    /\ phase' = "deliver"
    /\ blockRules' = blockRules \cup txRules
    /\ txRules' = {}
    /\ UNCHANGED <<txParams, cache, now>>

\* Mutant: the transient counters survive a failed transaction.
AbortTxKeepCount ==
    /\ phase = "tx"
    /\ store' = [store EXCEPT !.count = cache.count]
    /\ cache' = store'
    /\ txParams' = params
    /\ executed' = Zero
    /\ txRules' = {}
    /\ phase' = "deliver"
    /\ UNCHANGED <<params, now, landed, blockRules>>

\* A message failed or ran out of gas: the cache is dropped.
AbortTx ==
    /\ phase = "tx"
    /\ cache' = store
    /\ txParams' = params
    /\ executed' = Zero
    /\ txRules' = {}
    /\ phase' = "deliver"
    /\ UNCHANGED <<params, store, now, landed, blockRules>>

-----------------------------------------------------------------------------
(* Block boundaries                                                        *)

\* The next block, in the same second or later.
NextBlock ==
    /\ phase \in {"begin", "deliver"}
    /\ now' \in now..MaxTime
    /\ store' = [store EXCEPT !.count = Zero]
    /\ cache' = store'
    /\ landed' = Zero
    /\ blockRules' = {params}
    /\ phase' = "begin"
    /\ UNCHANGED <<params, txParams, executed, txRules>>

\* The chain is exported after a block and a new one started from the file.
RestartFromExport ==
    /\ phase = "begin"
    /\ params' = ExportGenesis.Params
    /\ store' = InitGenesis(ExportGenesis)
    /\ cache' = store'
    /\ txParams' = params'
    /\ landed' = Zero
    /\ blockRules' = {params'}
    /\ UNCHANGED <<phase, now, executed, txRules>>

Next ==
    \/ BeginTx
    \/ \E c \in Creators, e \in EventTypes, d \in DataSizes : RecordAudit(c, e, d)
    \/ CommitTx
    \/ AbortTx
    \/ \E p \in ParamChoices : UpdateParams(p)
    \/ NextBlock
    \/ RestartFromExport

Spec == Init /\ [][Next]_vars

-----------------------------------------------------------------------------
(* Queries                                                                 *)

\* Mutant: the upper bound is exclusive, as that of the index walk is.
AuditLogsExclusive(actor, eventType, from, to) ==
    {id \in DOMAIN store.logs :
        /\ store.logs[id].Actor = actor /\ store.logs[id].EventType = eventType
        /\ from <= store.logs[id].Timestamp /\ store.logs[id].Timestamp < to}

\* queryServer.AuditLogs with an actor and an event type: the ids its filter
\* lets through, over all pages.  A range without an end ends now, no range at
\* all filters nothing, and a range that ends before it starts is an error.
AuditLogs(actor, eventType, from, to) ==
    LET hasTimeRange == from > 0 \/ to > 0
        until == IF to = 0 THEN now ELSE to
    IN  IF hasTimeRange /\ from > until
        THEN {}
        ELSE {id \in DOMAIN store.logs :
                 /\ store.logs[id].Actor = actor /\ store.logs[id].EventType = eventType
                 /\ hasTimeRange => store.logs[id].Timestamp \in from..until}

\* Key order of ByTime.
KeyLess(j, k) == j[1] < k[1] \/ (j[1] = k[1] /\ j[2] < k[2])

\* A walk of ByTime that stops after MaxQueryResults logs.
WalkCapped(keys) ==
    {k \in keys : Cardinality({j \in keys : KeyLess(j, k)}) < MaxQueryResults}

\* Mutant: the upper bound is left out.
GetAuditLogsByTimeRangeOpen(from, to) ==
    LET keys == {k \in store.byTime : timestampToKey(from) <= k[1] /\ k[1] < timestampToKey(to)}
    IN  IF from < 0 \/ to < from THEN {} ELSE {k[2] : k \in WalkCapped(keys)}

\* The ids of the logs it returns; the range of keys is half open.
GetAuditLogsByTimeRange(from, to) ==
    LET startKey == timestampToKey(from)
        endKey == timestampToKey(to) + 1
        keys == {k \in store.byTime : startKey <= k[1] /\ k[1] < endKey}
    IN  IF from < 0 \/ to < from THEN {} ELSE {k[2] : k \in WalkCapped(keys)}

-----------------------------------------------------------------------------
(* The module's registered invariants, on the committed store.  Each is    *)
(* TRUE where the code reports nothing.                                    *)

IDSequenceMonotonicInvariant == \A id \in DOMAIN store.logs : id <= store.seq

\* extract is the field that the index is on.
IndexConsistencyInvariant(index, extract) ==
    \A key \in index :
        key[2] \in DOMAIN store.logs /\ store.logs[key[2]][extract] = key[1]

-----------------------------------------------------------------------------
(* Properties                                                              *)

IndexesMatch(st) ==
    /\ st.byActor = ActorIndex(st.logs)
    /\ st.byEventType = TypeIndex(st.logs)
    /\ st.byTime = TimeIndex(st.logs)

\* Each of the three indexes has an entry for every log and no other; the
\* registered invariants look for dangling entries in two of them.
IndexesConsistent ==
    /\ IndexConsistencyInvariant(store.byActor, "Actor")
    /\ IndexConsistencyInvariant(store.byEventType, "EventType")
    /\ IndexesMatch(store)

\* n messages of a creator are within the limit of one of the parameters.
WithinLimit(n, rules) == n > 0 => \E p \in rules : n <= p.MaxAuditsPerBlockPerCreator

\* The counter of CheckAndIncrAuditCount is the number of messages the creator has
\* committed in this block while a limit was set, whatever was rolled back and
\* wherever the limit was changed, and within the largest limit in force at some
\* moment of the block.
RateLimitExact ==
    \A c \in Creators :
        /\ store.count[c] = landed[c]
        /\ WithinLimit(landed[c], blockRules)

\* A query from one second to another finds the logs of both and of all between,
\* none outside, and when it stops at MaxQueryResults it has left out later logs
\* only.
TimeRangeExact ==
    \A from, to \in 0..MaxTime :
        from <= to =>
            LET key(id) == timestampToKey(store.logs[id].Timestamp)
                match == {id \in DOMAIN store.logs : key(id) \in from..to}
                got == GetAuditLogsByTimeRange(from, to)
            IN  /\ got \subseteq match
                /\ Cardinality(got) = IF Cardinality(match) > MaxQueryResults
                                      THEN MaxQueryResults ELSE Cardinality(match)
                /\ \A i \in got, j \in match \ got : key(i) <= key(j)

\* The RPC listing, a filtered scan of the logs, and the indexes, which the
\* keeper's own queries walk, name the same logs for every actor, event type and
\* range, from = 0, to = 0 and negative ends included, with one exception: a log
\* that a genesis file dates before 1970 is filed under second 0, so the index
\* still has it in a range that begins after its date, and the RPC leaves it out.
\* A range without an end reaches every log up to the present block.
ListingsAgree ==
    \A c \in Creators, e \in EventTypes, from, to \in (-MaxTime)..MaxTime :
        LET until == IF to = 0 THEN now ELSE to
            indexed == {id \in DOMAIN store.logs :
                           <<c, id>> \in store.byActor /\ <<e, id>> \in store.byEventType}
            dated == {id \in indexed : \E t \in from..until : <<t, id>> \in store.byTime}
            clamped == {id \in indexed : /\ store.logs[id].Timestamp < 0
                                         /\ store.logs[id].Timestamp < from}
        IN  AuditLogs(c, e, from, to) =
                IF from <= 0 /\ to <= 0 THEN indexed ELSE dated \ clamped

\* The audit log is immutable: the committed logs behave as an append-only log
\* (AttestationLog, without batches) under every transaction, rollback, change
\* of parameters and restart.
NoItems(id, b) == {}
Log == INSTANCE AttestationLog WITH log <- store.logs, batches <- <<>>, ItemIDs <- NoItems
LogSpec == Log!Spec

\* The committed store after any mix of rolled-back transactions, restarts and
\* genesis files with gaps or a counter that lags behind: its collections have
\* their types, the next id is above every stored one, the three indexes are
\* those of the logs, and no registered invariant reports anything.
StoreConsistent == TypeOK /\ IDSequenceMonotonicInvariant /\ IndexesConsistent
=============================================================================
