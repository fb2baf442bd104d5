------------------------- MODULE AuditKeeper_proofs -------------------------
(***************************************************************************)
(* Proofs about AuditKeeper for any creators, event types, genesis files,  *)
(* parameters, limits and bounds: the committed store, the rate limit, the *)
(* queries, and that the keeper implements an append-only log.             *)
(***************************************************************************)
EXTENDS AuditKeeper, TLAPS, NaturalsInduction, FiniteSetTheorems

-----------------------------------------------------------------------------
(* The inductive invariant.                                                *)

SequenceCovers(st) == \A id \in DOMAIN st.logs : id <= st.seq

\* What holds of the block's state and of the transaction's view alike.
StoreInv(st) == SequenceCovers(st) /\ IndexesMatch(st)

\* The cache adds logs to those of the store and changes none of them.
CacheExtends == Log!Extends(store.logs, cache.logs)

\* Outside a transaction the cache is the store.
Idle == phase # "tx" => cache = store

\* The parameters a handler reads are among those of its transaction.
InForce == phase = "tx" => txParams \in txRules

\* The counters, committed and running, against the history variables.
Counters ==
    \A c \in Creators :
        /\ store.count[c] = landed[c]
        /\ WithinLimit(landed[c], blockRules)
        /\ phase = "tx" => /\ cache.count[c] = landed[c] + executed[c]
                           /\ executed[c] > 0 => WithinLimit(cache.count[c], txRules)

IInv == /\ TypeOK
        /\ StoreInv(store)
        /\ StoreInv(cache)
        /\ CacheExtends
        /\ InForce
        /\ Idle
        /\ Counters

-----------------------------------------------------------------------------
(* The sequence restored by InitGenesis.                                   *)

\* Highest, the running maximum of InitGenesis, is the largest member of a
\* non-empty set of ids.
LEMMA HighestIsMax ==
  ASSUME NEW S, S \subseteq IDs, S # {}
  PROVE  Highest(S) \in S /\ \A m \in S : Highest(S) >= m
<1> DEFINE T == {x \in Nat : MaxSeq - x \in S}
<1>1. \A m \in S : m \in Nat /\ MaxSeq - m \in T /\ MaxSeq - (MaxSeq - m) = m
  BY ConstantsAssumption DEF IDs
<1>2. T \subseteq Nat /\ T # {}
  BY <1>1
<1>3. PICK x \in T : \A y \in T : ~(<<y, x>> \in OpToRel(<, Nat))
  <2> HIDE DEF T
  <2> QED
    BY <1>2, NatLessThanWellFounded, WFMin
<1>4. \A y \in T : x <= y
  <2>1. \A a, b \in Nat : a < b => <<a, b>> \in OpToRel(<, Nat)
    BY DEF OpToRel
  <2>2. \A y \in T : y \in Nat /\ ~(y < x)
    BY <1>3, <2>1, Zenon
  <2> QED
    BY <2>2
<1>5. \A m \in S : MaxSeq - x >= m
  <2> HIDE DEF T
  <2> SUFFICES ASSUME NEW m \in S PROVE MaxSeq - x >= m
    OBVIOUS
  <2>1. x \in Nat /\ x <= MaxSeq - m
    BY <1>1, <1>2, <1>4
  <2> QED
    BY <1>1, <2>1, ConstantsAssumption
<1>6. MaxSeq - x \in S
  OBVIOUS
<1> QED
  BY <1>5, <1>6 DEF Highest

\* If a member of the set is already an upper bound, Highest is that member.
LEMMA HighestIs ==
  ASSUME NEW S, S \subseteq IDs, NEW n \in S, \A m \in S : n >= m
  PROVE  Highest(S) = n
<1>1. Highest(S) \in S /\ Highest(S) >= n /\ n >= Highest(S)
  BY HighestIsMax
<1>2. \A m \in S : m \in Nat
  BY ConstantsAssumption DEF IDs
<1> QED
  BY <1>1, <1>2

-----------------------------------------------------------------------------
(* Keeper operations.                                                      *)

\* The index entries of well-typed logs are well typed.
LEMMA IndexTypes ==
  ASSUME NEW logs, IsMap(logs, IDs, AuditLog)
  PROVE  /\ ActorIndex(logs) \subseteq Creators \X IDs
         /\ TypeIndex(logs) \subseteq EventTypes \X IDs
         /\ TimeIndex(logs) \subseteq Nat \X IDs
<1>1. \A id \in DOMAIN logs :
        /\ id \in IDs
        /\ logs[id].Actor \in Creators /\ logs[id].EventType \in EventTypes
        /\ logs[id].Timestamp \in Int
  BY DEF IsMap, AuditLog
<1>2. \A t \in Int : timestampToKey(t) \in Nat
  BY DEF timestampToKey
<1> QED
  BY <1>1, <1>2 DEF ActorIndex, TypeIndex, TimeIndex

\* InitGenesis builds a consistent store with the logs of the file.
LEMMA InitGenesisFacts ==
  ASSUME NEW gs, IsMap(gs.Logs, IDs, AuditLog), gs.Counter \in IDs
  PROVE  LET st == InitGenesis(gs)
         IN  /\ IsStore(st) /\ StoreInv(st)
             /\ st.logs = gs.Logs /\ st.count = Zero
<1> DEFINE S == {gs.Counter} \cup DOMAIN gs.Logs
           top == Highest(S)
           st == InitGenesis(gs)
<1>1. S \subseteq IDs /\ S # {}
  BY DEF IsMap
<1>2. top \in IDs /\ \A m \in S : m <= top
  <2>1. top \in S /\ \A m \in S : top >= m
    BY <1>1, HighestIsMax
  <2>2. \A m \in S : m \in Nat
    BY <1>1 DEF IDs
  <2> HIDE DEF S, top
  <2> QED
    BY <1>1, <2>1, <2>2
<1>3. st = [seq |-> top, logs |-> gs.Logs, byActor |-> ActorIndex(gs.Logs),
            byEventType |-> TypeIndex(gs.Logs), byTime |-> TimeIndex(gs.Logs),
            count |-> Zero]
  BY DEF InitGenesis
<1>4. Zero \in [Creators -> Nat]
  BY DEF Zero
<1>5. \A m \in DOMAIN gs.Logs : m <= top
  BY <1>2
<1> HIDE DEF st, top, S
<1>6. IsStore(st)
  BY <1>2, <1>3, <1>4, IndexTypes DEF IsStore
<1>7. StoreInv(st)
  BY <1>3, <1>5 DEF StoreInv, SequenceCovers, IndexesMatch
<1> QED
  BY <1>3, <1>6, <1>7 DEF st

\* The rate-limit write touches the counters only.
LEMMA IncrFacts ==
  ASSUME NEW st, IsStore(st), NEW c \in Creators
  PROVE  LET st2 == IncrAuditCount(st, c)
         IN  /\ IsStore(st2)
             /\ st2.seq = st.seq /\ st2.logs = st.logs
             /\ st2.byActor = st.byActor /\ st2.byEventType = st.byEventType
             /\ st2.byTime = st.byTime
             /\ st2.count = IF txParams.MaxAuditsPerBlockPerCreator = 0
                            THEN st.count ELSE [st.count EXCEPT ![c] = @ + 1]
<1> DEFINE st2 == IncrAuditCount(st, c)
           cnt == [st.count EXCEPT ![c] = @ + 1]
<1>1. \/ st2 = st /\ txParams.MaxAuditsPerBlockPerCreator = 0
      \/ /\ txParams.MaxAuditsPerBlockPerCreator # 0
         /\ st2 = [seq |-> st.seq, logs |-> st.logs, byActor |-> st.byActor,
                   byEventType |-> st.byEventType, byTime |-> st.byTime, count |-> cnt]
  <2>1. txParams.MaxAuditsPerBlockPerCreator # 0 => st2 = [st EXCEPT !.count = cnt]
    BY DEF IncrAuditCount
  <2>2. txParams.MaxAuditsPerBlockPerCreator = 0 => st2 = st
    BY DEF IncrAuditCount
  <2> HIDE DEF st2, cnt
  <2> QED
    BY <2>1, <2>2 DEF IsStore
<1>2. cnt \in [Creators -> Nat]
  BY DEF IsStore
<1> HIDE DEF st2, cnt
<1> QED
  BY <1>1, <1>2 DEF IsStore, st2, cnt

\* Storing a log under the next id, which no log has, keeps the sequence above
\* every id, adds the log's three index entries and leaves every other log as
\* it was.
LEMMA RecordFacts ==
  ASSUME NEW st, IsStore(st), StoreInv(st), st.seq < MaxSeq, NEW log \in AuditLog
  PROVE  LET id == GetNextID(st)
             st2 == IncrementCounter(RecordAuditLog(st, id, log), id)
         IN  /\ IsStore(st2) /\ StoreInv(st2)
             /\ st2.count = st.count
             /\ Log!Extends(st.logs, st2.logs)
<1> DEFINE id == st.seq + 1
           st2 == IncrementCounter(RecordAuditLog(st, id, log), id)
           logs2 == MapSet(st.logs, id, log)
           ba == st.byActor \cup {<<log.Actor, id>>}
           be == st.byEventType \cup {<<log.EventType, id>>}
           bt == st.byTime \cup {<<timestampToKey(log.Timestamp), id>>}
<1>1. st2 = [seq |-> id, logs |-> logs2, byActor |-> ba, byEventType |-> be,
             byTime |-> bt, count |-> st.count]
  <2>1. RecordAuditLog(st, id, log) =
            [st EXCEPT !.logs = logs2, !.byActor = ba, !.byEventType = be, !.byTime = bt]
    BY DEF RecordAuditLog, IsStore
  <2>2. st2 = [RecordAuditLog(st, id, log) EXCEPT !.seq = id]
    BY DEF IncrementCounter
  <2> HIDE DEF id, logs2, ba, be, bt, st2
  <2>3. RecordAuditLog(st, id, log) =
            [seq |-> st.seq, logs |-> logs2, byActor |-> ba, byEventType |-> be,
             byTime |-> bt, count |-> st.count]
    BY <2>1 DEF IsStore
  <2> QED
    BY <2>2, <2>3
<1>2. id \in IDs /\ st.seq \in Nat
  BY ConstantsAssumption DEF IsStore, IDs
<1>3. id \notin DOMAIN st.logs
  BY <1>2 DEF StoreInv, SequenceCovers
<1>4. IsMap(st.logs, IDs, AuditLog)
  BY DEF IsStore
<1>5. \A x \in DOMAIN st.logs : x <= id
  <2>1. \A x \in DOMAIN st.logs : x \in Nat /\ x <= st.seq
    BY <1>4 DEF StoreInv, SequenceCovers, IsMap, IDs
  <2> QED
    BY <1>2, <2>1
<1>6. id = GetNextID(st)
  BY DEF GetNextID
<1>7. id <= id
  BY <1>2
<1> HIDE DEF id
<1>8. /\ IsMap(logs2, IDs, AuditLog)
      /\ DOMAIN logs2 = DOMAIN st.logs \cup {id}
      /\ logs2[id] = log
      /\ \A x \in DOMAIN st.logs : logs2[x] = st.logs[x]
  BY <1>2, <1>3, <1>4 DEF IsMap, MapSet
<1> HIDE DEF logs2
<1>9. /\ ActorIndex(logs2) = ActorIndex(st.logs) \cup {<<log.Actor, id>>}
      /\ TypeIndex(logs2) = TypeIndex(st.logs) \cup {<<log.EventType, id>>}
      /\ TimeIndex(logs2) = TimeIndex(st.logs) \cup {<<timestampToKey(log.Timestamp), id>>}
  BY <1>8 DEF ActorIndex, TypeIndex, TimeIndex
<1>10. /\ ba = ActorIndex(logs2) /\ be = TypeIndex(logs2) /\ bt = TimeIndex(logs2)
  BY <1>9 DEF StoreInv, IndexesMatch
<1> HIDE DEF ba, be, bt, st2
<1>11. IsStore(st2)
  BY <1>1, <1>2, <1>8, <1>10, IndexTypes DEF IsStore
<1>12. StoreInv(st2)
  BY <1>1, <1>5, <1>7, <1>8, <1>10 DEF StoreInv, SequenceCovers, IndexesMatch
<1>13. Log!Extends(st.logs, st2.logs)
  BY <1>1, <1>8 DEF Log!Extends
<1> QED
  BY <1>1, <1>6, <1>11, <1>12, <1>13 DEF st2

-----------------------------------------------------------------------------
(* The steps.                                                              *)

\* A genesis file leads to a state of the invariant.
LEMMA InitIInv == Init => IInv
<1> SUFFICES ASSUME NEW gs \in Geneses, NEW t \in StartTimes,
                    params = gs.Params, store = InitGenesis(gs), cache = store,
                    phase = "begin", now = t, executed = Zero, landed = Zero,
                    txParams = params, txRules = {}, blockRules = {params}
             PROVE  IInv
  BY DEF Init
<1>1. IsGenesisState(gs)
  BY GenesesAssumption
<1>2. /\ IsStore(store) /\ StoreInv(store) /\ store.count = Zero
  BY <1>1, InitGenesisFacts DEF IsGenesisState
<1>3. Zero \in [Creators -> Nat] /\ \A c \in Creators : Zero[c] = 0
  BY DEF Zero
<1>4. TypeOK
  BY <1>1, <1>2, <1>3, ConstantsAssumption DEF TypeOK, IsGenesisState
<1>5. Counters
  BY <1>2, <1>3 DEF Counters, WithinLimit
<1> QED
  BY <1>2, <1>4, <1>5 DEF IInv, CacheExtends, Log!Extends, InForce, Idle

\* A transaction starts from the store, or ends by dropping its cache.
LEMMA BeginOrAbortIInv == IInv /\ (BeginTx \/ AbortTx) => IInv'
<1> SUFFICES ASSUME IInv, BeginTx \/ AbortTx PROVE IInv'
  OBVIOUS
<1>1. /\ cache' = store /\ executed' = Zero /\ txParams' = params
      /\ UNCHANGED <<params, store, now, landed, blockRules>>
      /\ \/ phase' = "tx" /\ txRules' = {params}
         \/ phase' = "deliver" /\ txRules' = {}
  BY DEF BeginTx, AbortTx
<1>2. Zero \in [Creators -> Nat] /\ \A c \in Creators : Zero[c] = 0
  BY DEF Zero
<1>3. TypeOK'
  BY <1>1, <1>2 DEF IInv, TypeOK
<1>4. Counters'
  <2>1. landed \in [Creators -> Nat]
    BY DEF IInv, TypeOK
  <2> QED
    BY <1>1, <1>2, <2>1 DEF IInv, Counters, WithinLimit
<1>5. StoreInv(store)' /\ StoreInv(cache)'
  BY <1>1 DEF IInv, StoreInv, SequenceCovers, IndexesMatch
<1> QED
  BY <1>1, <1>3, <1>4, <1>5 DEF IInv, CacheExtends, Log!Extends, InForce, Idle

\* A transaction ends by writing its cache to the store.
LEMMA CommitTxIInv == IInv /\ CommitTx => IInv'
<1> SUFFICES ASSUME IInv, CommitTx PROVE IInv'
  OBVIOUS
<1>1. /\ store' = cache /\ cache' = cache /\ params' = txParams /\ now' = now
      /\ txParams' = txParams /\ blockRules' = blockRules \cup txRules /\ txRules' = {}
      /\ phase = "tx" /\ phase' = "deliver" /\ executed' = Zero
      /\ landed' = [c \in Creators |-> landed[c] + executed[c]]
  BY DEF CommitTx
<1>2. Zero \in [Creators -> Nat]
  BY DEF Zero
<1>3. landed' \in [Creators -> Nat]
  BY <1>1 DEF IInv, TypeOK
<1>4. TypeOK'
  BY <1>1, <1>2, <1>3 DEF IInv, TypeOK
<1>5. Counters'
  BY <1>1 DEF IInv, TypeOK, Counters, WithinLimit
<1>6. StoreInv(store)' /\ StoreInv(cache)'
  BY <1>1 DEF IInv, StoreInv, SequenceCovers, IndexesMatch
<1> QED
  BY <1>1, <1>4, <1>5, <1>6 DEF IInv, CacheExtends, Log!Extends, InForce, Idle

\* A message adds one log to the cache and, if there is a limit, one to the
\* counter of its creator.
LEMMA RecordAuditIInv ==
  ASSUME IInv, NEW c \in Creators, NEW e \in EventTypes, NEW d \in DataSizes,
         RecordAudit(c, e, d)
  PROVE  IInv'
<1> DEFINE st == IncrAuditCount(cache, c)
           log == [Actor |-> c, EventType |-> e, Data |-> d, Timestamp |-> now]
           limit == txParams.MaxAuditsPerBlockPerCreator
<1>1. /\ phase = "tx"
      /\ UNCHANGED <<params, txParams, store, phase, now, landed, txRules, blockRules>>
      /\ UnderAuditLimit(cache, c) /\ cache.seq < MaxSeq
      /\ executed' = IF limit = 0 THEN executed ELSE [executed EXCEPT ![c] = @ + 1]
  BY DEF RecordAudit
<1>2. /\ IsStore(cache) /\ StoreInv(cache) /\ limit \in Nat
      /\ executed \in [Creators -> Nat] /\ landed \in [Creators -> Nat]
  BY DEF IInv, TypeOK, Params
<1>3. /\ IsStore(st) /\ st.seq = cache.seq /\ st.logs = cache.logs
      /\ st.byActor = cache.byActor /\ st.byEventType = cache.byEventType
      /\ st.byTime = cache.byTime
      /\ st.count = IF limit = 0 THEN cache.count ELSE [cache.count EXCEPT ![c] = @ + 1]
  BY <1>2, IncrFacts
<1>4. log \in AuditLog
  BY DEF AuditLog, IInv, TypeOK
<1>5. cache' = IncrementCounter(RecordAuditLog(st, GetNextID(st), log), GetNextID(st))
  <2>1. GetNextID(cache) = GetNextID(st)
    BY <1>3 DEF GetNextID
  <2> QED
    BY <2>1 DEF RecordAudit
<1> HIDE DEF st, log
<1>6. StoreInv(st)
  BY <1>2, <1>3 DEF StoreInv, SequenceCovers, IndexesMatch
<1>7. /\ IsStore(cache') /\ StoreInv(cache')
      /\ cache'.count = st.count /\ Log!Extends(st.logs, cache'.logs)
  BY <1>1, <1>3, <1>4, <1>5, <1>6, RecordFacts
<1>8. TypeOK'
  BY <1>1, <1>2, <1>7 DEF IInv, TypeOK
<1>9. StoreInv(store)' /\ StoreInv(cache)'
  BY <1>1, <1>7 DEF IInv, StoreInv, SequenceCovers, IndexesMatch
<1>10. CacheExtends'
  BY <1>1, <1>3, <1>7 DEF IInv, CacheExtends, Log!Extends
<1>11. Counters'
  <2>1. \A x \in Creators :
           /\ store.count[x] = landed[x] /\ WithinLimit(landed[x], blockRules)
           /\ cache.count[x] = landed[x] + executed[x]
           /\ executed[x] > 0 => WithinLimit(cache.count[x], txRules)
    BY <1>1 DEF IInv, Counters
  <2>2. limit > 0 => WithinLimit(cache.count[c] + 1, txRules)
    <3>1. txParams \in txRules /\ cache.count[c] \in Nat
      BY <1>1, <1>2 DEF IInv, InForce, IsStore
    <3> QED
      BY <1>1, <1>2, <3>1 DEF UnderAuditLimit, WithinLimit
  <2>3. /\ cache'.count = IF limit = 0 THEN cache.count ELSE [cache.count EXCEPT ![c] = @ + 1]
        /\ cache.count \in [Creators -> Nat]
    BY <1>2, <1>3, <1>7 DEF IsStore
  <2> HIDE DEF limit
  <2>4. \A x \in Creators : /\ cache'.count[x] = landed[x] + executed'[x]
                            /\ executed'[x] > 0 => WithinLimit(cache'.count[x], txRules)
    <3> SUFFICES ASSUME NEW x \in Creators
                 PROVE  /\ cache'.count[x] = landed[x] + executed'[x]
                        /\ executed'[x] > 0 => WithinLimit(cache'.count[x], txRules)
      OBVIOUS
    <3>1. CASE limit = 0 \/ x # c
      <4>1. cache'.count[x] = cache.count[x] /\ executed'[x] = executed[x]
        BY <1>1, <1>2, <2>3, <3>1
      <4> QED
        BY <2>1, <4>1
    <3>2. CASE limit # 0 /\ x = c
      <4>1. cache'.count[x] = cache.count[c] + 1 /\ executed'[x] = executed[c] + 1 /\ limit > 0
        BY <1>1, <1>2, <2>3, <3>2
      <4> QED
        BY <1>2, <2>1, <2>2, <2>3, <3>2, <4>1
    <3> QED
      BY <3>1, <3>2
  <2> QED
    BY <1>1, <2>1, <2>4 DEF Counters, WithinLimit
<1> QED
  BY <1>1, <1>8, <1>9, <1>10, <1>11 DEF IInv, InForce, Idle

\* A change of parameters adds to those of the transaction and touches no record.
LEMMA UpdateParamsIInv ==
  ASSUME IInv, NEW p \in ParamChoices, UpdateParams(p)
  PROVE  IInv'
<1>1. /\ txParams' = p /\ txRules' = txRules \cup {p} /\ phase = "tx"
      /\ UNCHANGED <<params, store, cache, phase, now, executed, landed, blockRules>>
  BY DEF UpdateParams
<1>2. TypeOK'
  BY <1>1, ConstantsAssumption DEF IInv, TypeOK
<1>3. StoreInv(store)' /\ StoreInv(cache)'
  BY <1>1 DEF IInv, StoreInv, SequenceCovers, IndexesMatch
<1>4. Counters'
  BY <1>1 DEF IInv, Counters, WithinLimit
<1> QED
  BY <1>1, <1>2, <1>3, <1>4 DEF IInv, CacheExtends, Log!Extends, InForce, Idle

\* A new store without counts begins a block.
LEMMA FreshBlock ==
  ASSUME IInv, IsStore(store'), StoreInv(store'), store'.count = Zero,
         cache' = store', landed' = Zero, executed' = executed, now' \in Nat,
         params' = params, phase' = "begin", txParams' \in Params, txRules' = txRules,
         blockRules' = {params}
  PROVE  IInv'
<1>1. Zero \in [Creators -> Nat] /\ \A c \in Creators : Zero[c] = 0
  BY DEF Zero
<1>2. TypeOK'
  BY <1>1 DEF IInv, TypeOK
<1>4. Counters'
  BY <1>1 DEF Counters, WithinLimit
<1>5. StoreInv(store)' /\ StoreInv(cache)'
  BY DEF StoreInv, SequenceCovers, IndexesMatch
<1> QED
  BY <1>2, <1>4, <1>5 DEF IInv, CacheExtends, Log!Extends, InForce, Idle

\* A new block clears the counters and keeps the logs.
LEMMA NextBlockFacts ==
  ASSUME IInv, NextBlock
  PROVE  IInv' /\ store'.logs = store.logs
<1>1. store' = [seq |-> store.seq, logs |-> store.logs, byActor |-> store.byActor,
                byEventType |-> store.byEventType, byTime |-> store.byTime, count |-> Zero]
  BY DEF NextBlock, IInv, TypeOK, IsStore
<1>2. /\ cache' = store' /\ landed' = Zero /\ executed' = executed /\ params' = params
      /\ phase' = "begin" /\ now' \in now..MaxTime
      /\ txParams' = txParams /\ txRules' = txRules /\ blockRules' = {params}
  BY DEF NextBlock
<1>3. now' \in Nat /\ txParams' \in Params
  BY <1>2, ConstantsAssumption DEF IInv, TypeOK
<1>4. Zero \in [Creators -> Nat]
  BY DEF Zero
<1>5. IsStore(store') /\ StoreInv(store')
  BY <1>1, <1>4 DEF IInv, TypeOK, IsStore, StoreInv, SequenceCovers, IndexesMatch
<1> QED
  BY <1>1, <1>2, <1>3, <1>5, FreshBlock

\* An export loses no log, and the sequence of the new chain goes on where that
\* of the old one stood.
LEMMA RestartFacts ==
  ASSUME IInv, RestartFromExport
  PROVE  IInv' /\ store'.logs = store.logs /\ store'.seq = store.seq
<1> DEFINE gs == ExportGenesis
<1>1. /\ params' = gs.Params /\ store' = InitGenesis(gs) /\ cache' = store'
      /\ landed' = Zero /\ executed' = executed /\ now' = now
      /\ phase = "begin" /\ phase' = phase
      /\ txParams' = params' /\ txRules' = txRules /\ blockRules' = {params'}
  BY DEF RestartFromExport
<1>2. gs.Params = params /\ gs.Logs = store.logs /\ gs.Counter = store.seq
  BY DEF ExportGenesis
<1>3. IsMap(store.logs, IDs, AuditLog) /\ store.seq \in IDs /\ now \in Nat /\ params \in Params
  BY DEF IInv, TypeOK, IsStore
<1> HIDE DEF gs
<1>4. /\ IsStore(store') /\ StoreInv(store')
      /\ store'.logs = store.logs /\ store'.count = Zero
  BY <1>1, <1>2, <1>3, InitGenesisFacts
<1>5. store'.seq = store.seq
  <2> DEFINE S == {store.seq} \cup DOMAIN store.logs
  <2>1. store'.seq = Highest(S)
    BY <1>1, <1>2 DEF InitGenesis
  <2>2. S \subseteq IDs /\ store.seq \in S /\ \A m \in S : m \in Nat
    BY <1>3, ConstantsAssumption DEF IsMap, IDs
  <2>3. \A m \in S : store.seq >= m
    BY <2>2 DEF IInv, StoreInv, SequenceCovers
  <2> HIDE DEF S
  <2> QED
    BY <2>1, <2>2, <2>3, HighestIs
<1> QED
  BY <1>1, <1>2, <1>3, <1>4, <1>5, FreshBlock

\* The invariant is one of the state.
LEMMA StutterIInv == IInv /\ UNCHANGED vars => IInv'
  BY DEF vars, IInv, TypeOK, StoreInv, SequenceCovers, IndexesMatch, CacheExtends,
         Log!Extends, InForce, Idle, Counters, WithinLimit

\* Every step keeps the invariant.
LEMMA NextIInv == IInv /\ [Next]_vars => IInv'
  BY BeginOrAbortIInv, CommitTxIInv, RecordAuditIInv, UpdateParamsIInv, NextBlockFacts,
     RestartFacts, StutterIInv
  DEF Next

-----------------------------------------------------------------------------
(* The theorems.                                                           *)

\* Every step keeps the inductive invariant.
LEMMA InvariantHolds == Spec => []IInv
  BY InitIInv, NextIInv, PTL DEF Spec

\* The committed store keeps its types, its sequence stays above every id and
\* its three indexes are those of the logs, so that the registered invariants
\* report nothing, after any rollback, restart and genesis file.
THEOREM StoreAlwaysConsistent == Spec => []StoreConsistent
<1>1. IInv => StoreConsistent
  <2> SUFFICES ASSUME IInv PROVE IndexesConsistent /\ IDSequenceMonotonicInvariant
    BY DEF StoreConsistent, IInv
  <2>1. IndexesMatch(store) /\ IDSequenceMonotonicInvariant
    BY DEF IInv, StoreInv, SequenceCovers, IDSequenceMonotonicInvariant
  <2>2. /\ IndexConsistencyInvariant(store.byActor, "Actor")
        /\ IndexConsistencyInvariant(store.byEventType, "EventType")
    BY <2>1 DEF IndexesMatch, IndexConsistencyInvariant, ActorIndex, TypeIndex
  <2> QED
    BY <2>1, <2>2 DEF IndexesConsistent
<1> QED
  BY <1>1, InvariantHolds, PTL

\* CheckAndIncrAuditCount counts exactly the committed messages of the block and
\* keeps every creator within the limit, wherever the limit changes.
THEOREM RateLimitHolds == Spec => []RateLimitExact
<1>1. IInv => RateLimitExact
  BY DEF IInv, Counters, RateLimitExact
<1> QED
  BY <1>1, InvariantHolds, PTL

\* The filtered scan of the RPC and the walk of the indexes name the same logs in
\* every range, but for those that a genesis file dates before 1970 and before the
\* start of the range.
THEOREM ListingsAlwaysAgree == Spec => []ListingsAgree
<1>1. IInv => ListingsAgree
  <2> SUFFICES ASSUME IInv, NEW c \in Creators, NEW e \in EventTypes,
                      NEW from \in (-MaxTime)..MaxTime, NEW to \in (-MaxTime)..MaxTime
               PROVE  LET until == IF to = 0 THEN now ELSE to
                          indexed == {id \in DOMAIN store.logs :
                                         /\ <<c, id>> \in store.byActor
                                         /\ <<e, id>> \in store.byEventType}
                          dated == {id \in indexed :
                                       \E t \in from..until : <<t, id>> \in store.byTime}
                          clamped == {id \in indexed : /\ store.logs[id].Timestamp < 0
                                                       /\ store.logs[id].Timestamp < from}
                      IN  AuditLogs(c, e, from, to) =
                             IF from <= 0 /\ to <= 0 THEN indexed ELSE dated \ clamped
    BY DEF ListingsAgree
  <2> DEFINE until == IF to = 0 THEN now ELSE to
             indexed == {id \in DOMAIN store.logs :
                            <<c, id>> \in store.byActor /\ <<e, id>> \in store.byEventType}
             dated == {id \in indexed : \E t \in from..until : <<t, id>> \in store.byTime}
             clamped == {id \in indexed : /\ store.logs[id].Timestamp < 0
                                          /\ store.logs[id].Timestamp < from}
  <2>1. from \in Int /\ to \in Int /\ now \in Nat /\ until \in Int
    BY ConstantsAssumption DEF IInv, TypeOK
  <2>2. \A id \in DOMAIN store.logs :
           /\ id \in indexed <=> store.logs[id].Actor = c /\ store.logs[id].EventType = e
           /\ \A t : <<t, id>> \in store.byTime <=> timestampToKey(store.logs[id].Timestamp) = t
           /\ store.logs[id].Timestamp \in Int
    <3>1. \A id \in DOMAIN store.logs : store.logs[id].Timestamp \in Int
      BY DEF IInv, TypeOK, IsStore, IsMap, AuditLog
    <3> QED
      BY <3>1 DEF IInv, StoreInv, IndexesMatch, ActorIndex, TypeIndex, TimeIndex
  <2>3. indexed \subseteq DOMAIN store.logs
    OBVIOUS
  <2> HIDE DEF indexed
  <2>4. CASE from <= 0 /\ to <= 0
    <3>1. ~ (from > 0 \/ to > 0)
      BY <2>1, <2>4
    <3>2. AuditLogs(c, e, from, to) = {id \in DOMAIN store.logs :
             store.logs[id].Actor = c /\ store.logs[id].EventType = e}
      BY <3>1 DEF AuditLogs
    <3> QED
      BY <2>2, <2>3, <2>4, <3>2 DEF indexed
  <2>5. CASE ~ (from <= 0 /\ to <= 0)
    <3>1. (from > 0 \/ to > 0) /\ (from <= until => until >= 0)
      BY <2>1, <2>5
    <3>2. ASSUME NEW id \in DOMAIN store.logs
          PROVE  store.logs[id].Timestamp \in from..until <=>
                    /\ \E t \in from..until : <<t, id>> \in store.byTime
                    /\ ~ (store.logs[id].Timestamp < 0 /\ store.logs[id].Timestamp < from)
      <4> DEFINE ts == store.logs[id].Timestamp
      <4>1. ts \in Int /\ (timestampToKey(ts) \in from..until <=>
                              \E t \in from..until : <<t, id>> \in store.byTime)
        BY <2>2
      <4>2. ts \in from..until <=>
               timestampToKey(ts) \in from..until /\ ~ (ts < 0 /\ ts < from)
        <5> HIDE DEF until, ts
        <5> QED
          BY <2>1, <3>1, <4>1 DEF timestampToKey
      <4> QED
        BY <4>1, <4>2
    <3>3. AuditLogs(c, e, from, to) = {id \in DOMAIN store.logs :
             /\ store.logs[id].Actor = c /\ store.logs[id].EventType = e
             /\ store.logs[id].Timestamp \in from..until}
      <4>1. from > until => from..until = {}
        BY <2>1
      <4> HIDE DEF until
      <4> QED
        BY <3>1, <4>1 DEF AuditLogs, until
    <3> HIDE DEF until
    <3>4. AuditLogs(c, e, from, to) = dated \ clamped
      BY <2>2, <2>3, <3>2, <3>3
    <3> QED
      BY <2>5, <3>4 DEF until, indexed
  <2> QED
    BY <2>4, <2>5
<1> QED
  BY <1>1, InvariantHolds, PTL

\* Key order is a strict total order of the keys of ByTime.
LEMMA KeyOrder ==
  ASSUME NEW j \in Nat \X Nat, NEW k \in Nat \X Nat
  PROVE  /\ ~ KeyLess(k, k)
         /\ j # k => KeyLess(j, k) \/ KeyLess(k, j)
         /\ \A i \in Nat \X Nat : KeyLess(i, j) /\ KeyLess(j, k) => KeyLess(i, k)
         /\ j[1] < k[1] => KeyLess(j, k)
<1>1. /\ j = <<j[1], j[2]>> /\ j[1] \in Nat /\ j[2] \in Nat
      /\ k = <<k[1], k[2]>> /\ k[1] \in Nat /\ k[2] \in Nat
      /\ \A i \in Nat \X Nat : i[1] \in Nat /\ i[2] \in Nat
  OBVIOUS
<1>2. j # k => j[1] # k[1] \/ j[2] # k[2]
  BY <1>1
<1> QED
  BY <1>1, <1>2 DEF KeyLess

\* A walk over finitely many keys returns as many as it may, the first ones in
\* key order: ranking the keys by the number of smaller ones is a bijection with
\* 0..n-1, and the walk returns those of rank below MaxQueryResults.
LEMMA WalkFacts ==
  ASSUME NEW K, K \subseteq Nat \X Nat, IsFiniteSet(K)
  PROVE  LET W == WalkCapped(K)
         IN  /\ W \subseteq K
             /\ Cardinality(W) = IF Cardinality(K) > MaxQueryResults
                                 THEN MaxQueryResults ELSE Cardinality(K)
             /\ \A i \in W, j \in K \ W : i[1] <= j[1]
<1> DEFINE below(k) == {j \in K : KeyLess(j, k)}
           rank == [k \in K |-> Cardinality(below(k))]
           n == Cardinality(K)
           W == WalkCapped(K)
<1>1. n \in Nat
  BY FS_CardinalityType
<1>2. ASSUME NEW k \in K
      PROVE  IsFiniteSet(below(k)) /\ rank[k] \in Nat /\ rank[k] \in 0..(n - 1)
  <2>1. below(k) \in SUBSET (K \ {k})
    BY KeyOrder
  <2>2. IsFiniteSet(K \ {k}) /\ Cardinality(K \ {k}) = n - 1
    BY FS_RemoveElement
  <2>3. IsFiniteSet(below(k)) /\ Cardinality(below(k)) <= n - 1
    <3> HIDE DEF below
    <3>1. /\ IsFiniteSet(below(k))
          /\ Cardinality(below(k)) <= Cardinality(K \ {k})
      BY <2>1, <2>2, FS_Subset
    <3> QED
      BY <2>2, <3>1
  <2>4. Cardinality(below(k)) \in Nat
    BY <2>3, FS_CardinalityType
  <2> QED
    BY <1>1, <2>3, <2>4
<1>3. ASSUME NEW j \in K, NEW k \in K, KeyLess(j, k)
      PROVE  rank[j] < rank[k]
  <2>1. below(j) \in SUBSET below(k) /\ j \in below(k) /\ j \notin below(j)
    BY <1>3, KeyOrder
  <2>2. IsFiniteSet(below(k))
    BY <1>2
  <2> HIDE DEF below
  <2>3. /\ Cardinality(below(j)) <= Cardinality(below(k))
        /\ Cardinality(below(k)) # Cardinality(below(j))
    BY <2>1, <2>2, FS_Subset
  <2>4. rank[j] = Cardinality(below(j)) /\ rank[k] = Cardinality(below(k))
    OBVIOUS
  <2>5. rank[j] \in Nat /\ rank[k] \in Nat
    BY <1>2
  <2> QED
    BY <2>3, <2>4, <2>5
<1>4. \A k \in K : k \in W <=> rank[k] < MaxQueryResults
  BY DEF WalkCapped
<1>5. W \subseteq K
  BY DEF WalkCapped
<1> HIDE DEF below, W
<1>6. rank \in Surjection(K, 0..(n - 1)) /\ rank \in Injection(K, 0..(n - 1))
  <2>1. rank \in [K -> 0..(n - 1)]
    BY <1>2
  <2> HIDE DEF rank
  <2>2. \A j, k \in K : rank[j] = rank[k] => j = k
    <3> SUFFICES ASSUME NEW j \in K, NEW k \in K, j # k PROVE rank[j] # rank[k]
      OBVIOUS
    <3>1. KeyLess(j, k) \/ KeyLess(k, j)
      BY KeyOrder
    <3>2. rank[j] \in Nat /\ rank[k] \in Nat
      BY <1>2
    <3> QED
      BY <1>3, <3>1, <3>2
  <2>3. rank \in Injection(K, 0..(n - 1))
    BY <2>1, <2>2 DEF Injection, IsInjective
  <2>4. IsFiniteSet(0..(n - 1)) /\ Cardinality(0..(n - 1)) = n
    <3> HIDE DEF n
    <3> QED
      BY <1>1, FS_Interval
  <2> QED
    BY <2>3, <2>4, FS_Injection
<1> HIDE DEF rank, n
<1> DEFINE m == IF n > MaxQueryResults THEN MaxQueryResults ELSE n
           rankW == [k \in W |-> rank[k]]
<1>7. m \in Nat /\ m <= n /\ m <= MaxQueryResults
  BY <1>1, ConstantsAssumption
<1>8. Cardinality(W) = m
  <2>1. \A k \in W : rank[k] \in 0..(m - 1)
    BY <1>1, <1>2, <1>4, <1>5, ConstantsAssumption
  <2>2. \A r \in 0..(m - 1) : \E k \in W : rank[k] = r
    <3> SUFFICES ASSUME NEW r \in 0..(m - 1) PROVE \E k \in W : rank[k] = r
      OBVIOUS
    <3>1. r \in 0..(n - 1) /\ r < MaxQueryResults
      BY <1>1, <1>7, ConstantsAssumption
    <3>2. PICK k \in K : rank[k] = r
      BY <1>6, <3>1 DEF Surjection
    <3> QED
      BY <1>4, <3>1, <3>2
  <2>3. \A j, k \in W : rank[j] = rank[k] => j = k
    BY <1>5, <1>6 DEF Injection, IsInjective
  <2> HIDE DEF m
  <2>4. rankW \in Bijection(W, 0..(m - 1))
    BY <2>1, <2>2, <2>3 DEF Bijection, Injection, Surjection, IsInjective
  <2>5. ExistsBijection(W, 0..(m - 1))
    BY <2>4 DEF ExistsBijection
  <2>6. IsFiniteSet(W)
    BY <1>5, FS_Subset
  <2>7. Cardinality(0..(m - 1)) = Cardinality(W)
    BY <2>5, <2>6, FS_Bijection
  <2> QED
    BY <1>7, <2>7, FS_Interval
<1>9. ASSUME NEW i \in W, NEW j \in K \ W PROVE i[1] <= j[1]
  <2>1. i \in Nat \X Nat /\ j \in Nat \X Nat /\ i \in K /\ j \in K
    BY <1>5
  <2>2. rank[i] < rank[j]
    BY <1>2, <1>4, <2>1, ConstantsAssumption
  <2>3. ~ (rank[j] < rank[i])
    BY <1>2, <2>1, <2>2
  <2>4. ~ (j[1] < i[1])
    BY <1>3, <2>1, <2>3, KeyOrder
  <2>5. i[1] \in Nat /\ j[1] \in Nat
    BY <2>1
  <2> QED
    BY <2>4, <2>5
<1> QED
  BY <1>5, <1>8, <1>9 DEF W, n

\* For every range of seconds GetAuditLogsByTimeRange finds the logs of both ends
\* and of all between, none outside, and when it stops at MaxQueryResults it has
\* left out later logs only.
THEOREM TimeRangeAlwaysExact == Spec => []TimeRangeExact
<1>1. IInv => TimeRangeExact
  <2> SUFFICES ASSUME IInv, NEW from \in 0..MaxTime, NEW to \in 0..MaxTime, from <= to
               PROVE  LET key(id) == timestampToKey(store.logs[id].Timestamp)
                          match == {id \in DOMAIN store.logs : key(id) \in from..to}
                          got == GetAuditLogsByTimeRange(from, to)
                      IN  /\ got \subseteq match
                          /\ Cardinality(got) = IF Cardinality(match) > MaxQueryResults
                                                THEN MaxQueryResults ELSE Cardinality(match)
                          /\ \A i \in got, j \in match \ got : key(i) <= key(j)
    BY DEF TimeRangeExact
  <2> DEFINE key(id) == timestampToKey(store.logs[id].Timestamp)
             match == {id \in DOMAIN store.logs : key(id) \in from..to}
             got == GetAuditLogsByTimeRange(from, to)
             K == {k \in store.byTime : from <= k[1] /\ k[1] < to + 1}
             W == WalkCapped(K)
             of == [id \in match |-> <<key(id), id>>]
             idOf == [k \in W |-> k[2]]
  <2>1. /\ from \in Nat /\ to \in Nat /\ ~ (from < 0 \/ to < from)
        /\ timestampToKey(from) = from /\ timestampToKey(to) = to
    BY ConstantsAssumption DEF timestampToKey
  <2>2. got = {k[2] : k \in W}
    BY <2>1 DEF GetAuditLogsByTimeRange
  <2>3. \A id \in DOMAIN store.logs : id \in Nat /\ id \in IDs /\ key(id) \in Nat
    BY ConstantsAssumption DEF IInv, TypeOK, IsStore, IsMap, IDs, AuditLog, timestampToKey
  <2>4. store.byTime = {<<key(id), id>> : id \in DOMAIN store.logs}
    BY DEF IInv, StoreInv, IndexesMatch, TimeIndex
  <2> HIDE DEF key
  <2>5. K = {<<key(id), id>> : id \in match}
    BY <2>1, <2>3, <2>4
  <2>6. IsFiniteSet(match)
    <3>1. match \in SUBSET (0..MaxSeq)
      BY <2>3 DEF IDs
    <3>2. IsFiniteSet(0..MaxSeq)
      <4>1. 0 \in Int /\ MaxSeq \in Int
        BY ConstantsAssumption
      <4> QED
        BY <4>1, FS_Interval
    <3> HIDE DEF match
    <3> QED
      BY <3>1, <3>2, FS_Subset
  <2>7. K \subseteq Nat \X Nat
    BY <2>3, <2>5
  <2> HIDE DEF K, W, got
  <2>8. IsFiniteSet(K) /\ Cardinality(K) = Cardinality(match)
    <3>1. of \in Bijection(match, K)
      <4>1. of \in [match -> K] /\ \A id \in match : of[id] = <<key(id), id>>
        BY <2>5
      <4> HIDE DEF match, of
      <4>2. \A i, j \in match : of[i] = of[j] => i = j
        BY <4>1
      <4>3. \A k \in K : \E id \in match : of[id] = k
        BY <2>5, <4>1
      <4> QED
        BY <4>1, <4>2, <4>3 DEF Bijection, Injection, Surjection, IsInjective
    <3> HIDE DEF match, of
    <3>2. ExistsBijection(match, K)
      BY <3>1 DEF ExistsBijection
    <3> QED
      BY <2>6, <3>2, FS_Bijection
  <2>9. /\ W \subseteq K
        /\ Cardinality(W) = IF Cardinality(K) > MaxQueryResults
                            THEN MaxQueryResults ELSE Cardinality(K)
        /\ \A i \in W, j \in K \ W : i[1] <= j[1]
    BY <2>7, <2>8, WalkFacts DEF W
  <2>10. \A k \in K : k = <<key(k[2]), k[2]>> /\ k[2] \in match
    BY <2>5
  <2>11. \A id \in match : <<key(id), id>> \in K /\ (id \in got <=> <<key(id), id>> \in W)
    BY <2>2, <2>5, <2>9, <2>10
  <2> HIDE DEF match
  <2>12. got \subseteq match
    BY <2>2, <2>9, <2>10
  <2>13. Cardinality(got) = Cardinality(W)
    <3>1. IsFiniteSet(W)
      BY <2>8, <2>9, FS_Subset
    <3>2. idOf \in Bijection(W, got)
      <4>1. idOf \in [W -> got] /\ \A k \in W : idOf[k] = k[2]
        BY <2>2
      <4> HIDE DEF idOf
      <4>2. \A j, k \in W : idOf[j] = idOf[k] => j = k
        BY <2>9, <2>10, <4>1
      <4>3. \A id \in got : \E k \in W : idOf[k] = id
        BY <2>2, <4>1
      <4> QED
        BY <4>1, <4>2, <4>3 DEF Bijection, Injection, Surjection, IsInjective
    <3> HIDE DEF idOf
    <3>3. ExistsBijection(W, got)
      BY <3>2 DEF ExistsBijection
    <3> QED
      BY <3>1, <3>3, FS_Bijection
  <2>14. \A i \in got, j \in match \ got : key(i) <= key(j)
    <3> SUFFICES ASSUME NEW i \in got, NEW j \in match \ got PROVE key(i) <= key(j)
      OBVIOUS
    <3>1. <<key(i), i>> \in W /\ <<key(j), j>> \in K \ W
      BY <2>11, <2>12
    <3> QED
      BY <2>9, <3>1
  <2> QED
    BY <2>8, <2>9, <2>12, <2>13, <2>14 DEF match, got, key
<1> QED
  BY <1>1, InvariantHolds, PTL

\* Every step of the keeper is a step of the append-only log or leaves it as it
\* is.
LEMMA StepRefinesLog == IInv /\ [Next]_vars => [Log!Publish]_(Log!vars)
<1> SUFFICES ASSUME IInv, [Next]_vars
             PROVE  Log!Publish \/ UNCHANGED Log!vars
  OBVIOUS
<1>1. CASE CommitTx
  <2>1. Log!Extends(store.logs, store'.logs)
    BY <1>1 DEF CommitTx, IInv, CacheExtends
  <2> QED
    BY <2>1 DEF Log!Publish, Log!Extends
<1>2. CASE NextBlock \/ RestartFromExport
  BY <1>2, NextBlockFacts, RestartFacts DEF Log!vars
<1>3. CASE store' = store
  BY <1>3 DEF Log!vars
<1> QED
  BY <1>1, <1>2, <1>3 DEF Next, vars, BeginTx, RecordAudit, AbortTx, UpdateParams

\* The keeper implements the append-only log: through rollbacks, restarts and
\* parameter changes no committed log is altered or lost.
THEOREM RefinesLog == Spec => LogSpec
<1>1. Init => Log!Init
  BY DEF Log!Init, NoItems
<1> QED
  BY <1>1, InvariantHolds, StepRefinesLog, PTL DEF Spec, LogSpec, Log!Spec
=============================================================================
