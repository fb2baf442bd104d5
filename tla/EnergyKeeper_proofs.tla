------------------------ MODULE EnergyKeeper_proofs ------------------------
(***************************************************************************)
(* Proofs about x/energy: EnergyKeeper, for any submitters, categories,    *)
(* hashes, genesis files, parameters and bounds, and EnergyClient, with    *)
(* the Merkle tree and the paged listing it is made of, for any hashes,    *)
(* categories, page limits and bounds.                                     *)
(***************************************************************************)
EXTENDS EnergyKeeper, EnergyClient, TLAPS, FiniteSetTheorems, SequenceTheorems,
        NaturalsInduction, WellFoundedInduction

-----------------------------------------------------------------------------
(* The inductive invariant.                                                *)

\* What holds of the block's state and of the transaction's view alike.
StoreInv(st) == SequenceCovers(st) /\ IndexesMatch(st) /\ BatchesAreComplete(st)

\* The cache adds to the store and changes nothing in it; the batches it adds
\* have ids above every id in the store.
CacheExtends ==
    /\ store.seq <= cache.seq
    /\ Log!Extends(store.data, cache.data)
    /\ Log!Extends(store.batches, cache.batches)
    /\ \A id \in DOMAIN cache.batches \ DOMAIN store.batches :
          \E n \in (store.seq + 1)..MaxSeq : id = EnergyID(n)

\* A batch in progress owns the ids from its own to the end of its items; those
\* of the items stored so far hold what the header will announce.
PendingMatches ==
    batch # NoBatch =>
        /\ phase = "tx"
        /\ batch.stored <= Len(batch.items)
        /\ batch.num > store.seq
        /\ batch.num + Len(batch.items) <= MaxSeq
        /\ cache.seq = batch.num + batch.stored
        /\ EnergyID(batch.num) \notin DOMAIN cache.batches
        /\ \A i \in 1..batch.stored :
              /\ EnergyID(batch.num + i) \in DOMAIN cache.data
              /\ LET d == cache.data[EnergyID(batch.num + i)]
                 IN  /\ d.Category = batch.Category
                     /\ d.Submitter = batch.Submitter
                     /\ d.DataHash = batch.items[i].DataHash
        /\ \E p \in txRules :
              /\ IsAllowedSubmitter(p, batch.Submitter)
              /\ \A i \in DOMAIN batch.items : MetadataFits(p, batch.items[i].Metadata)

\* The parameters a handler reads are among those of its transaction.
InForce == phase = "tx" => txParams \in txRules

\* Outside a transaction the cache is the store.
Idle == phase # "tx" => cache = store /\ batch = NoBatch

\* The counters, committed and running, against the history variables.
Counters ==
    /\ phase = "begin" => landed = Zero
    /\ \A s \in Submitters :
          /\ store.count[s] = landed[s]
          /\ WithinLimit(landed[s], blockRules)
          /\ phase = "tx" => /\ cache.count[s] = landed[s] + executed[s]
                             /\ executed[s] > 0 => WithinLimit(cache.count[s], txRules)

\* What the transaction has added is admitted by parameters in force during it.
CacheAdmitted ==
    \A id \in DOMAIN cache.data \ DOMAIN store.data :
        \E p \in txRules : /\ IsAllowedSubmitter(p, cache.data[id].Submitter)
                           /\ MetadataFits(p, cache.data[id].Metadata)

IInv == /\ TypeOK
        /\ StoreInv(store)
        /\ StoreInv(cache)
        /\ CacheExtends
        /\ PendingMatches
        /\ InForce
        /\ Idle
        /\ Counters
        /\ CacheAdmitted

-----------------------------------------------------------------------------
(* The sequence restored by InitGenesis.                                   *)

\* Highest, the running maximum of InitGenesis, is an upper bound of a non-empty
\* bounded set of numbers and one of its members.
LEMMA HighestIsMax ==
  ASSUME NEW N \in Nat, NEW S, S \subseteq 0..N, S # {}
  PROVE  Highest(S) \in S /\ \A m \in S : Highest(S) >= m
<1> DEFINE T == {x \in Nat : N - x \in S}
<1>1. PICK m0 \in S : m0 \in 0..N
  OBVIOUS
<1>2. N - m0 \in T
  BY <1>1
<1>3. \E x \in T : \A y \in T : ~(<<y, x>> \in OpToRel(<, Nat))
  <2>1. T \subseteq Nat /\ T # {}
    BY <1>2
  <2> HIDE DEF T
  <2> QED
    BY <2>1, NatLessThanWellFounded, WFMin
<1>4. PICK x \in T : \A y \in T : ~(<<y, x>> \in OpToRel(<, Nat))
  BY <1>3
<1>5. \A y \in T : x <= y
  <2>1. \A a, b \in Nat : a < b => <<a, b>> \in OpToRel(<, Nat)
    BY DEF OpToRel
  <2>2. \A y \in T : y \in Nat /\ ~(y < x)
    BY <1>4, <2>1, Zenon
  <2> QED
    BY <2>2
<1>6. \A m \in S : N - x >= m
  <2> SUFFICES ASSUME NEW m \in S PROVE N - x >= m
    OBVIOUS
  <2>1. m \in 0..N /\ N - m \in Nat /\ N - (N - m) = m
    OBVIOUS
  <2>2. N - m \in T
    BY <2>1
  <2> QED
    BY <2>1, <2>2, <1>5
<1> QED
  BY <1>6 DEF Highest

\* If a member of the set is already an upper bound, Highest is that member.
LEMMA HighestIs ==
  ASSUME NEW N \in Nat, NEW S, S \subseteq 0..N, NEW n \in S, \A m \in S : n >= m
  PROVE  Highest(S) = n
<1>1. Highest(S) \in S /\ Highest(S) >= n
  BY HighestIsMax
<1>2. n \in 0..N /\ Highest(S) \in 0..N
  BY <1>1
<1> QED
  BY <1>1, <1>2

-----------------------------------------------------------------------------
(* Ids and maps.                                                           *)

\* Numbering is injective and parseEnergyID inverts it.
LEMMA IDFacts ==
  /\ \A n \in 1..MaxSeq : EnergyID(n) \in IDs /\ parseEnergyID(EnergyID(n)) = n
  /\ \A m, n \in Nat : EnergyID(m) = EnergyID(n) => m = n
  /\ \A id \in IDs : parseEnergyID(id) \in 0..MaxSeq
  /\ \A id \in IDs : id \in ForeignIDs \/ \E n \in 1..MaxSeq : id = EnergyID(n)
<1>1. \A n \in 1..MaxSeq : EnergyID(n) \in IDs /\ parseEnergyID(EnergyID(n)) = n
  BY ForeignIDsAssumption DEF IDs, EnergyID, parseEnergyID
<1>2. \A m, n \in Nat : EnergyID(m) = EnergyID(n) => m = n
  BY DEF EnergyID
<1>3. \A id \in IDs : id \in ForeignIDs \/ \E n \in 1..MaxSeq : id = EnergyID(n)
  BY DEF IDs
<1>4. \A id \in IDs : parseEnergyID(id) \in 0..MaxSeq
  BY <1>1, <1>3, ForeignIDsAssumption, ConstantsAssumption DEF parseEnergyID
<1> QED
  BY <1>1, <1>2, <1>3, <1>4

-----------------------------------------------------------------------------
(* Keeper operations.                                                      *)

\* The rate-limit write touches the counters only.
LEMMA IncrFacts ==
  ASSUME NEW st, IsStore(st), NEW s \in Submitters
  PROVE  LET st2 == IncrSubmitCount(st, s)
         IN  /\ IsStore(st2)
             /\ st2.seq = st.seq /\ st2.data = st.data /\ st2.batches = st.batches
             /\ st2.byCategory = st.byCategory /\ st2.bySubmitter = st.bySubmitter
             /\ StoreInv(st) => StoreInv(st2)
             /\ st2.count = IF txParams.MaxSubmissionsPerBlockPerSubmitter = 0
                            THEN st.count ELSE [st.count EXCEPT ![s] = @ + 1]
<1> DEFINE st2 == IncrSubmitCount(st, s)
           cnt == [st.count EXCEPT ![s] = @ + 1]
<1>1. \/ st2 = st /\ txParams.MaxSubmissionsPerBlockPerSubmitter = 0
      \/ /\ txParams.MaxSubmissionsPerBlockPerSubmitter # 0
         /\ st2 = [seq |-> st.seq, data |-> st.data, byCategory |-> st.byCategory,
                   bySubmitter |-> st.bySubmitter, batches |-> st.batches, count |-> cnt]
  <2>1. txParams.MaxSubmissionsPerBlockPerSubmitter # 0 => st2 = [st EXCEPT !.count = cnt]
    BY DEF IncrSubmitCount
  <2>2. txParams.MaxSubmissionsPerBlockPerSubmitter = 0 => st2 = st
    BY DEF IncrSubmitCount
  <2> HIDE DEF st2, cnt
  <2> QED
    BY <2>1, <2>2 DEF IsStore
<1>2. cnt \in [Submitters -> Nat]
  BY DEF IsStore
<1>3. /\ IsStore(st2)
      /\ st2.seq = st.seq /\ st2.data = st.data /\ st2.batches = st.batches
      /\ st2.byCategory = st.byCategory /\ st2.bySubmitter = st.bySubmitter
      /\ st2.count = IF txParams.MaxSubmissionsPerBlockPerSubmitter = 0 THEN st.count ELSE cnt
  <2> HIDE DEF st2, cnt
  <2> QED
    BY <1>1, <1>2 DEF IsStore
<1>4. StoreInv(st) => StoreInv(st2)
  BY <1>3 DEF StoreInv, SequenceCovers, IndexesMatch, BatchesAreComplete, BatchIsComplete
<1> QED
  BY <1>3, <1>4

\* GenerateID advances the sequence and touches nothing else.
LEMMA AdvanceFacts ==
  ASSUME NEW st, IsStore(st), st.seq < MaxSeq
  PROVE  LET st2 == AdvanceSequence(st)
         IN  /\ IsStore(st2)
             /\ st2.seq = st.seq + 1 /\ st2.data = st.data /\ st2.batches = st.batches
             /\ st2.byCategory = st.byCategory /\ st2.bySubmitter = st.bySubmitter
             /\ st2.count = st.count
             /\ StoreInv(st) => StoreInv(st2)
<1> DEFINE st2 == AdvanceSequence(st)
<1>1. st2 = [seq |-> st.seq + 1, data |-> st.data, byCategory |-> st.byCategory,
             bySubmitter |-> st.bySubmitter, batches |-> st.batches, count |-> st.count]
  BY DEF AdvanceSequence, IsStore
<1>2. /\ IsStore(st2)
      /\ st2.seq = st.seq + 1 /\ st2.data = st.data /\ st2.batches = st.batches
      /\ st2.byCategory = st.byCategory /\ st2.bySubmitter = st.bySubmitter
      /\ st2.count = st.count
  <2> HIDE DEF st2
  <2> QED
    BY <1>1, ConstantsAssumption DEF IsStore
<1>3. ASSUME StoreInv(st) PROVE StoreInv(st2)
  <2> HIDE DEF st2
  <2>1. SequenceCovers(st2)
    <3> SUFFICES ASSUME NEW id \in DOMAIN st.data \cup DOMAIN st.batches
                 PROVE  parseEnergyID(id) <= st.seq + 1
      BY <1>2 DEF SequenceCovers
    <3>1. parseEnergyID(id) \in 0..MaxSeq /\ st.seq \in 0..MaxSeq
      BY IDFacts DEF IsStore, IsMap
    <3> QED
      BY <1>3, <3>1 DEF StoreInv, SequenceCovers
  <2> QED
    BY <1>2, <1>3, <2>1 DEF StoreInv, IndexesMatch, BatchesAreComplete, BatchIsComplete
<1> QED
  BY <1>2, <1>3

\* Storing a record under the last generated id, when that id is unused, keeps
\* the sequence above every id, adds the record's two index entries and leaves
\* every other record as it was.
LEMMA SetEnergyDataFacts ==
  ASSUME NEW st, IsStore(st), StoreInv(st), NEW d \in EnergyData,
         st.seq > 0, EnergyID(st.seq) \notin DOMAIN st.data
  PROVE  LET id == EnergyID(st.seq)
             st2 == SetEnergyData(st, id, d)
         IN  /\ IsStore(st2) /\ StoreInv(st2)
             /\ st2.seq = st.seq /\ st2.batches = st.batches /\ st2.count = st.count
             /\ DOMAIN st2.data = DOMAIN st.data \cup {id}
             /\ st2.data[id] = d
             /\ \A x \in DOMAIN st.data : st2.data[x] = st.data[x]
<1> DEFINE id == EnergyID(st.seq)
           st2 == SetEnergyData(st, id, d)
           data2 == MapSet(st.data, id, d)
<1>1. st2 = [seq |-> st.seq, data |-> data2,
             byCategory |-> st.byCategory \cup {<<d.Category, id>>},
             bySubmitter |-> st.bySubmitter \cup {<<d.Submitter, id>>},
             batches |-> st.batches, count |-> st.count]
  <2>1. st2 = [st EXCEPT !.data = data2,
                         !.byCategory = st.byCategory \cup {<<d.Category, id>>},
                         !.bySubmitter = st.bySubmitter \cup {<<d.Submitter, id>>}]
    BY DEF SetEnergyData, IsStore
  <2> HIDE DEF id, st2, data2
  <2> QED
    BY <2>1 DEF IsStore
<1>2. st.seq \in 1..MaxSeq /\ id \in IDs /\ parseEnergyID(id) = st.seq
  BY IDFacts, ConstantsAssumption DEF IsStore
<1>3. /\ IsMap(data2, IDs, EnergyData)
      /\ DOMAIN data2 = DOMAIN st.data \cup {id}
      /\ data2[id] = d
      /\ \A x \in DOMAIN st.data : x # id => data2[x] = st.data[x]
  <2>1. IsMap(st.data, IDs, EnergyData)
    BY DEF IsStore
  <2>2. id \in IDs
    BY <1>2
  <2>3. d \in EnergyData
    OBVIOUS
  <2> HIDE DEF id
  <2> QED
    BY <2>1, <2>2, <2>3 DEF IsMap, MapSet
<1>4. id \notin DOMAIN st.data
  OBVIOUS
<1> HIDE DEF id, st2, data2
<1>5. IsStore(st2)
  BY <1>1, <1>2, <1>3 DEF IsStore, EnergyData
<1>6. SequenceCovers(st2)
  BY <1>1, <1>2, <1>3 DEF StoreInv, SequenceCovers
<1>7. IndexesMatch(st2)
  BY <1>1, <1>3, <1>4 DEF StoreInv, IndexesMatch
<1>8. BatchesAreComplete(st2)
  BY <1>1, <1>3, <1>4 DEF StoreInv, BatchesAreComplete, BatchIsComplete
<1> QED
  BY <1>1, <1>3, <1>4, <1>5, <1>6, <1>7, <1>8 DEF StoreInv, id, st2

\* Storing the header of a batch whose records are all there completes it.
LEMMA SetBatchFacts ==
  ASSUME NEW st, IsStore(st), StoreInv(st), NEW n \in 1..st.seq,
         NEW b \in BatchSubmission, EnergyID(n) \notin DOMAIN st.batches,
         BatchIsComplete(st, n, b)
  PROVE  LET st2 == SetBatch(st, EnergyID(n), b)
         IN  /\ IsStore(st2) /\ StoreInv(st2)
             /\ st2.seq = st.seq /\ st2.data = st.data /\ st2.count = st.count
             /\ DOMAIN st2.batches = DOMAIN st.batches \cup {EnergyID(n)}
             /\ st2.batches[EnergyID(n)] = b
             /\ \A x \in DOMAIN st.batches : st2.batches[x] = st.batches[x]
<1> DEFINE id == EnergyID(n)
           st2 == SetBatch(st, id, b)
           batches2 == MapSet(st.batches, id, b)
<1>1. st2 = [seq |-> st.seq, data |-> st.data, byCategory |-> st.byCategory,
             bySubmitter |-> st.bySubmitter, batches |-> batches2, count |-> st.count]
  <2>1. st2 = [st EXCEPT !.batches = batches2]
    BY DEF SetBatch, IsStore
  <2> HIDE DEF id, st2, batches2
  <2> QED
    BY <2>1 DEF IsStore
<1>2. n \in 1..MaxSeq /\ n \in Nat /\ id \in IDs /\ parseEnergyID(id) = n /\ n <= st.seq
  BY IDFacts, ConstantsAssumption DEF IsStore
<1>3. /\ IsMap(batches2, IDs, BatchSubmission)
      /\ DOMAIN batches2 = DOMAIN st.batches \cup {id}
      /\ batches2[id] = b
      /\ \A x \in DOMAIN st.batches : x # id => batches2[x] = st.batches[x]
  <2>1. IsMap(st.batches, IDs, BatchSubmission) /\ id \in IDs
    BY <1>2 DEF IsStore
  <2> HIDE DEF id
  <2> QED
    BY <2>1 DEF IsMap, MapSet
<1>4. id \notin DOMAIN st.batches
  OBVIOUS
<1>5. \A m \in 1..MaxSeq : EnergyID(m) = id => m = n
  BY <1>2, IDFacts
<1>6. BatchIsComplete(st2, n, b)
  BY <1>1 DEF BatchIsComplete
<1>7. \A m \in 1..MaxSeq : \A c : BatchIsComplete(st, m, c) => BatchIsComplete(st2, m, c)
  BY <1>1 DEF BatchIsComplete
<1> HIDE DEF id, st2, batches2
<1>8. IsStore(st2)
  BY <1>1, <1>3 DEF IsStore
<1>9. SequenceCovers(st2)
  BY <1>1, <1>2, <1>3 DEF StoreInv, SequenceCovers
<1>10. IndexesMatch(st2)
  BY <1>1 DEF StoreInv, IndexesMatch
<1>11. BatchesAreComplete(st2)
  <2> SUFFICES ASSUME NEW m \in 1..MaxSeq, EnergyID(m) \in DOMAIN st2.batches
               PROVE  BatchIsComplete(st2, m, st2.batches[EnergyID(m)])
    BY DEF BatchesAreComplete
  <2>1. CASE EnergyID(m) = id
    BY <1>1, <1>3, <1>5, <1>6, <2>1
  <2>2. CASE EnergyID(m) # id
    <3>1. /\ EnergyID(m) \in DOMAIN st.batches
          /\ st2.batches[EnergyID(m)] = st.batches[EnergyID(m)]
      BY <1>1, <1>3, <2>2
    <3>2. BatchIsComplete(st, m, st.batches[EnergyID(m)])
      BY <3>1 DEF StoreInv, BatchesAreComplete
    <3> QED
      BY <1>7, <3>1, <3>2
  <2> QED
    BY <2>1, <2>2
<1> QED
  BY <1>1, <1>3, <1>4, <1>8, <1>9, <1>10, <1>11 DEF StoreInv, id, st2

\* InitGenesis builds a consistent store from any well-typed genesis, whether or
\* not the file carries NextID.
LEMMA InitGenesisFacts ==
  ASSUME NEW gs, IsGenesisState(gs), BatchesAreComplete(InitGenesis(gs))
  PROVE  /\ IsStore(InitGenesis(gs)) /\ StoreInv(InitGenesis(gs))
         /\ InitGenesis(gs).data = gs.DataRecords
         /\ InitGenesis(gs).batches = gs.Batches
         /\ InitGenesis(gs).count = Zero
<1> DEFINE st == InitGenesis(gs)
           S == {gs.NextID}
                \cup {parseEnergyID(id) : id \in DOMAIN gs.DataRecords}
                \cup {parseEnergyID(id) : id \in DOMAIN gs.Batches}
           cats == {<<gs.DataRecords[id].Category, id>> : id \in DOMAIN gs.DataRecords}
           subs == {<<gs.DataRecords[id].Submitter, id>> : id \in DOMAIN gs.DataRecords}
<1>1. S \subseteq 0..MaxSeq /\ S # {}
  BY IDFacts DEF IsGenesisState, IsMap
<1>2. Highest(S) \in S /\ \A m \in S : Highest(S) >= m
  <2> HIDE DEF S
  <2> QED
    BY <1>1, HighestIsMax, ConstantsAssumption
<1>3. st = [seq |-> Highest(S), data |-> gs.DataRecords, byCategory |-> cats,
            bySubmitter |-> subs, batches |-> gs.Batches, count |-> Zero]
  BY DEF InitGenesis
<1>4. cats \subseteq Categories \X IDs /\ subs \subseteq Submitters \X IDs
  BY DEF IsGenesisState, IsMap, EnergyData
<1>5. Zero \in [Submitters -> Nat]
  BY DEF Zero
<1>6. SequenceCovers(st)
  <2> SUFFICES ASSUME NEW id \in DOMAIN gs.DataRecords \cup DOMAIN gs.Batches
               PROVE  parseEnergyID(id) <= Highest(S)
    BY <1>3 DEF SequenceCovers
  <2>1. parseEnergyID(id) \in S
    OBVIOUS
  <2> HIDE DEF S
  <2> QED
    BY <1>1, <1>2, <2>1
<1>7. IndexesMatch(st)
  <2> HIDE DEF S
  <2> QED
    BY <1>3 DEF IndexesMatch
<1>8. IsStore(st)
  <2> HIDE DEF S, cats, subs, st
  <2> QED
    BY <1>1, <1>2, <1>3, <1>4, <1>5 DEF IsStore, IsGenesisState
<1> QED
  BY <1>3, <1>6, <1>7, <1>8 DEF StoreInv

-----------------------------------------------------------------------------
(* The invariant holds initially and is preserved by every action.         *)

LEMMA InitIInv == Init => IInv
<1> SUFFICES ASSUME Init PROVE IInv
  OBVIOUS
<1>1. PICK gs \in Geneses :
        /\ params = gs.Params /\ store = InitGenesis(gs) /\ cache = store
        /\ phase = "begin" /\ batch = NoBatch /\ executed = Zero /\ landed = Zero
        /\ txParams = params /\ txRules = {} /\ blockRules = {params}
  BY DEF Init
<1>2. IsGenesisState(gs) /\ BatchesAreComplete(InitGenesis(gs))
  BY GenesesAssumption
<1>3. /\ IsStore(store) /\ StoreInv(store) /\ store.count = Zero
      /\ IsStore(cache) /\ StoreInv(cache)
  BY <1>1, <1>2, InitGenesisFacts
<1>4. TypeOK
  BY <1>1, <1>2, <1>3 DEF TypeOK, IsGenesisState, Phases, Zero
<1>5. CacheExtends
  BY <1>1, <1>3 DEF CacheExtends, Log!Extends, IsStore
<1>6. Counters
  <2>1. \A s \in Submitters : store.count[s] = 0 /\ landed[s] = 0
    BY <1>1, <1>3 DEF Zero
  <2>2. phase # "tx" /\ landed = Zero
    BY <1>1
  <2> QED
    BY <2>1, <2>2 DEF Counters, WithinLimit
<1>7. InForce
  BY <1>1 DEF InForce
<1> QED
  BY <1>1, <1>3, <1>4, <1>5, <1>6, <1>7 DEF IInv, PendingMatches, Idle, CacheAdmitted

LEMMA BeginTxIInv == IInv /\ BeginTx => IInv'
<1> SUFFICES ASSUME IInv, BeginTx PROVE IInv'
  OBVIOUS
<1> USE DEF IInv, BeginTx
<1>1. TypeOK'
  BY DEF TypeOK, Phases, Zero
<1>2. StoreInv(store)' /\ StoreInv(cache)'
  BY DEF StoreInv, SequenceCovers, IndexesMatch, BatchesAreComplete, BatchIsComplete
<1>3. CacheExtends'
  BY DEF CacheExtends, Log!Extends, TypeOK, IsStore
<1>4. PendingMatches' /\ InForce' /\ Idle' /\ CacheAdmitted'
  BY DEF PendingMatches, InForce, Idle, CacheAdmitted
<1>5. Counters'
  BY DEF Counters, WithinLimit, TypeOK, Zero
<1> QED
  BY <1>1, <1>2, <1>3, <1>4, <1>5

LEMMA CommitTxIInv == IInv /\ CommitTx => IInv'
<1> SUFFICES ASSUME IInv, CommitTx PROVE IInv'
  OBVIOUS
<1> USE DEF IInv, CommitTx
<1>1. TypeOK'
  BY DEF TypeOK, Phases, Zero
<1>2. StoreInv(store)' /\ StoreInv(cache)'
  BY DEF StoreInv, SequenceCovers, IndexesMatch, BatchesAreComplete, BatchIsComplete
<1>3. CacheExtends'
  BY DEF CacheExtends, Log!Extends, TypeOK, IsStore
<1>4. PendingMatches' /\ InForce' /\ Idle' /\ CacheAdmitted'
  BY DEF PendingMatches, InForce, Idle, CacheAdmitted
<1>5. Counters'
  BY DEF Counters, WithinLimit, TypeOK, Zero
<1> QED
  BY <1>1, <1>2, <1>3, <1>4, <1>5

LEMMA AbortTxIInv == IInv /\ AbortTx => IInv'
<1> SUFFICES ASSUME IInv, AbortTx PROVE IInv'
  OBVIOUS
<1> USE DEF IInv, AbortTx
<1>1. TypeOK'
  BY DEF TypeOK, Phases, Zero
<1>2. StoreInv(store)' /\ StoreInv(cache)'
  BY DEF StoreInv, SequenceCovers, IndexesMatch, BatchesAreComplete, BatchIsComplete
<1>3. CacheExtends'
  BY DEF CacheExtends, Log!Extends, TypeOK, IsStore
<1>4. PendingMatches' /\ InForce' /\ Idle' /\ CacheAdmitted'
  BY DEF PendingMatches, InForce, Idle, CacheAdmitted
<1>5. Counters'
  BY DEF Counters, WithinLimit, TypeOK, Zero
<1> QED
  BY <1>1, <1>2, <1>3, <1>4, <1>5

LEMMA UpdateParamsIInv ==
  ASSUME NEW p \in ParamChoices
  PROVE  IInv /\ UpdateParams(p) => IInv'
<1> SUFFICES ASSUME IInv, UpdateParams(p) PROVE IInv'
  OBVIOUS
<1> USE DEF IInv, UpdateParams
<1>1. TypeOK'
  BY ConstantsAssumption DEF TypeOK, Phases
<1>2. StoreInv(store)' /\ StoreInv(cache)'
  BY DEF StoreInv, SequenceCovers, IndexesMatch, BatchesAreComplete, BatchIsComplete
<1>3. CacheExtends'
  BY DEF CacheExtends, Log!Extends
<1>4. PendingMatches' /\ InForce' /\ Idle'
  BY DEF PendingMatches, InForce, Idle
<1>5. CacheAdmitted'
  BY DEF CacheAdmitted, IsAllowedSubmitter, MetadataFits
<1>6. Counters'
  BY DEF Counters, WithinLimit
<1> QED
  BY <1>1, <1>2, <1>3, <1>4, <1>5, <1>6

LEMMA BumpIInv == IInv /\ BumpEnergyMetadataCap => IInv'
<1> SUFFICES ASSUME IInv, BumpEnergyMetadataCap PROVE IInv'
  OBVIOUS
<1> USE DEF IInv, BumpEnergyMetadataCap
<1>1. params' \in Params
  BY ConstantsAssumption DEF TypeOK, Params
<1>2. TypeOK'
  BY <1>1 DEF TypeOK
<1>3. StoreInv(store)' /\ StoreInv(cache)'
  BY DEF StoreInv, SequenceCovers, IndexesMatch, BatchesAreComplete, BatchIsComplete
<1>4. CacheExtends'
  BY DEF CacheExtends, Log!Extends
<1>5. PendingMatches' /\ InForce' /\ Idle' /\ CacheAdmitted'
  BY DEF PendingMatches, InForce, Idle, CacheAdmitted
<1>6. Counters'
  <2>1. \A s \in Submitters : landed[s] = 0
    BY DEF Counters, Zero
  <2> QED
    BY <2>1 DEF Counters, WithinLimit
<1> QED
  BY <1>2, <1>3, <1>4, <1>5, <1>6

\* A store and its exported form hold the same records and batches.
LEMMA ExportFacts ==
  ASSUME TypeOK, StoreInv(store), NEW nextID \in {0, store.seq}
  PROVE  /\ IsGenesisState(ExportGenesis(nextID))
         /\ BatchesAreComplete(InitGenesis(ExportGenesis(nextID)))
         /\ ExportGenesis(nextID).DataRecords = store.data
         /\ ExportGenesis(nextID).Batches = store.batches
<1>1. IsGenesisState(ExportGenesis(nextID))
  BY ConstantsAssumption DEF IsGenesisState, ExportGenesis, TypeOK, IsStore
<1>2. BatchesAreComplete(InitGenesis(ExportGenesis(nextID)))
  <2>1. /\ InitGenesis(ExportGenesis(nextID)).data = store.data
        /\ InitGenesis(ExportGenesis(nextID)).batches = store.batches
    BY DEF InitGenesis, ExportGenesis
  <2> QED
    BY <2>1 DEF StoreInv, BatchesAreComplete, BatchIsComplete
<1> QED
  BY <1>1, <1>2 DEF ExportGenesis

LEMMA RestartIInv ==
  ASSUME NEW nextID \in {0, store.seq}
  PROVE  IInv /\ RestartFromExport(nextID) => IInv'
<1> SUFFICES ASSUME IInv, RestartFromExport(nextID) PROVE IInv'
  OBVIOUS
<1> USE DEF IInv
<1>1. /\ IsStore(store') /\ StoreInv(store')
      /\ store'.data = store.data /\ store'.batches = store.batches /\ store'.count = Zero
  BY ExportFacts, InitGenesisFacts DEF RestartFromExport
<1>2. params' = params /\ cache' = store' /\ landed' = Zero /\ phase = "begin"
      /\ phase' = phase /\ batch' = batch /\ executed' = executed
      /\ txParams' = params' /\ blockRules' = {params'} /\ txRules' = txRules
  BY DEF RestartFromExport, ExportGenesis
<1>3. TypeOK'
  BY <1>1, <1>2 DEF TypeOK, Zero
<1>4. StoreInv(store)' /\ StoreInv(cache)'
  <2>1. StoreInv(store')
    BY <1>1
  <2>2. cache' = store'
    BY <1>2
  <2> QED
    BY ONLY <2>1, <2>2 DEF StoreInv, SequenceCovers, IndexesMatch, BatchesAreComplete, BatchIsComplete
<1>5. CacheExtends'
  BY <1>1, <1>2 DEF CacheExtends, Log!Extends, IsStore
<1>6. PendingMatches' /\ InForce' /\ Idle' /\ CacheAdmitted'
  BY <1>2 DEF PendingMatches, InForce, Idle, CacheAdmitted
<1>7. Counters'
  <2>1. \A s \in Submitters : store'.count[s] = 0 /\ landed'[s] = 0
    BY <1>1, <1>2 DEF Zero
  <2> QED
    BY <2>1, <1>2 DEF Counters, WithinLimit, Zero
<1> QED
  BY <1>3, <1>4, <1>5, <1>6, <1>7

LEMMA NextBlockIInv == IInv /\ NextBlock => IInv'
<1> SUFFICES ASSUME IInv, NextBlock PROVE IInv'
  OBVIOUS
<1> USE DEF IInv
<1>1. store' = [seq |-> store.seq, data |-> store.data, byCategory |-> store.byCategory,
                bySubmitter |-> store.bySubmitter, batches |-> store.batches, count |-> Zero]
  BY DEF NextBlock, TypeOK, IsStore
<1>2. params' = params /\ cache' = store' /\ landed' = Zero /\ phase # "tx"
      /\ phase' = "begin" /\ batch' = batch /\ executed' = executed
      /\ txParams' = txParams /\ blockRules' = {params} /\ txRules' = txRules
  BY DEF NextBlock
<1>3. Zero \in [Submitters -> Nat]
  BY DEF Zero
<1>4. IsStore(store')
  BY <1>1, <1>3 DEF TypeOK, IsStore
<1>5. TypeOK'
  BY <1>2, <1>3, <1>4 DEF TypeOK, Phases
<1>6. StoreInv(store)' /\ StoreInv(cache)'
  <2>1. /\ store'.seq = store.seq /\ store'.data = store.data
        /\ store'.byCategory = store.byCategory /\ store'.bySubmitter = store.bySubmitter
        /\ store'.batches = store.batches
    BY <1>1
  <2>2. StoreInv(store')
    BY <2>1 DEF StoreInv, SequenceCovers, IndexesMatch, BatchesAreComplete, BatchIsComplete
  <2> QED
    BY <2>2, <1>2 DEF StoreInv, SequenceCovers, IndexesMatch, BatchesAreComplete, BatchIsComplete
<1>7. CacheExtends'
  BY <1>2, <1>4 DEF CacheExtends, Log!Extends, IsStore
<1>8. PendingMatches' /\ InForce' /\ Idle' /\ CacheAdmitted'
  BY <1>2 DEF PendingMatches, InForce, Idle, CacheAdmitted
<1>9. Counters'
  <2>1. \A s \in Submitters : store'.count[s] = 0 /\ landed'[s] = 0
    BY <1>1, <1>2 DEF Zero
  <2> QED
    BY <2>1, <1>2 DEF Counters, WithinLimit, Zero
<1> QED
  BY <1>5, <1>6, <1>7, <1>8, <1>9

\* StartMsg counts a message exactly when the rate limit is on.
LEMMA StartMsgFacts ==
  ASSUME TypeOK, NEW s \in Submitters, StartMsg(s)
  PROVE  /\ phase = "tx" /\ batch = NoBatch /\ executed' \in [Submitters -> Nat]
         /\ executed' = IF txParams.MaxSubmissionsPerBlockPerSubmitter = 0
                        THEN executed ELSE [executed EXCEPT ![s] = @ + 1]
BY DEF StartMsg, TypeOK

\* The rate-limit part of both handlers keeps the running counter at the number
\* of messages of the block and within the limit.
LEMMA CountersAfterMsg ==
  ASSUME IInv, NEW s \in Submitters, StartMsg(s), UnderSubmitLimit(cache, s),
         phase' = phase, store' = store, landed' = landed,
         txRules' = txRules, blockRules' = blockRules,
         cache'.count = IncrSubmitCount(cache, s).count
  PROVE  Counters'
<1> DEFINE limit == txParams.MaxSubmissionsPerBlockPerSubmitter
<1>1. limit \in Nat /\ cache.count \in [Submitters -> Nat]
      /\ executed \in [Submitters -> Nat] /\ landed \in [Submitters -> Nat]
  BY DEF IInv, TypeOK, Params, IsStore
<1>2. /\ phase = "tx" /\ txParams \in txRules
      /\ executed' = IF limit = 0 THEN executed ELSE [executed EXCEPT ![s] = @ + 1]
  BY StartMsgFacts DEF IInv, InForce
<1>3. cache'.count = IF limit = 0 THEN cache.count ELSE [cache.count EXCEPT ![s] = @ + 1]
  BY IncrFacts DEF IInv, TypeOK
<1>4. \A t \in Submitters :
         /\ store.count[t] = landed[t] /\ WithinLimit(landed[t], blockRules)
         /\ cache.count[t] = landed[t] + executed[t]
         /\ executed[t] > 0 => WithinLimit(cache.count[t], txRules)
  BY <1>2 DEF IInv, Counters
<1>5. limit > 0 => WithinLimit(cache.count[s] + 1, txRules)
  BY <1>1, <1>2 DEF UnderSubmitLimit, WithinLimit
<1> HIDE DEF limit
<1>6. \A t \in Submitters : /\ cache'.count[t] = landed[t] + executed'[t]
                            /\ executed'[t] > 0 => WithinLimit(cache'.count[t], txRules)
  <2> SUFFICES ASSUME NEW t \in Submitters
               PROVE  /\ cache'.count[t] = landed[t] + executed'[t]
                      /\ executed'[t] > 0 => WithinLimit(cache'.count[t], txRules)
    OBVIOUS
  <2>1. CASE limit = 0 \/ t # s
    <3>1. cache'.count[t] = cache.count[t] /\ executed'[t] = executed[t]
      BY <1>1, <1>2, <1>3, <2>1
    <3> QED
      BY <1>4, <3>1
  <2>2. CASE limit # 0 /\ t = s
    <3>1. cache'.count[t] = cache.count[s] + 1 /\ executed'[t] = executed[s] + 1 /\ limit > 0
      BY <1>1, <1>2, <1>3, <2>2
    <3> QED
      BY <1>1, <1>4, <1>5, <2>2, <3>1
  <2> QED
    BY <2>1, <2>2
<1> QED
  BY <1>2, <1>4, <1>6 DEF Counters, WithinLimit

\* Generating the next id and storing a record under it.
LEMMA StoreNextRecord ==
  ASSUME NEW st, IsStore(st), StoreInv(st), st.seq < MaxSeq, NEW d \in EnergyData
  PROVE  LET id == EnergyID(st.seq + 1)
             st2 == SetEnergyData(AdvanceSequence(st), id, d)
         IN  /\ IsStore(st2) /\ StoreInv(st2)
             /\ st2.seq = st.seq + 1 /\ st2.batches = st.batches /\ st2.count = st.count
             /\ id \notin DOMAIN st.data
             /\ DOMAIN st2.data = DOMAIN st.data \cup {id}
             /\ st2.data[id] = d
             /\ \A x \in DOMAIN st.data : st2.data[x] = st.data[x]
<1> DEFINE adv == AdvanceSequence(st)
<1>1. /\ IsStore(adv) /\ StoreInv(adv) /\ adv.seq = st.seq + 1 /\ adv.data = st.data
      /\ adv.batches = st.batches /\ adv.count = st.count
  BY AdvanceFacts
<1>2. st.seq \in Nat /\ st.seq + 1 \in 1..MaxSeq
  BY ConstantsAssumption DEF IsStore
<1>3. EnergyID(st.seq + 1) \notin DOMAIN st.data
  <2>1. parseEnergyID(EnergyID(st.seq + 1)) = st.seq + 1
    BY <1>2, IDFacts
  <2> QED
    BY <1>2, <2>1 DEF StoreInv, SequenceCovers
<1> HIDE DEF adv
<1>4. adv.seq > 0 /\ EnergyID(adv.seq) \notin DOMAIN adv.data
  BY <1>1, <1>2, <1>3
<1>5. /\ IsStore(SetEnergyData(adv, EnergyID(adv.seq), d))
      /\ StoreInv(SetEnergyData(adv, EnergyID(adv.seq), d))
      /\ SetEnergyData(adv, EnergyID(adv.seq), d).seq = adv.seq
      /\ SetEnergyData(adv, EnergyID(adv.seq), d).batches = adv.batches
      /\ SetEnergyData(adv, EnergyID(adv.seq), d).count = adv.count
      /\ DOMAIN SetEnergyData(adv, EnergyID(adv.seq), d).data = DOMAIN adv.data \cup {EnergyID(adv.seq)}
      /\ SetEnergyData(adv, EnergyID(adv.seq), d).data[EnergyID(adv.seq)] = d
      /\ \A x \in DOMAIN adv.data : SetEnergyData(adv, EnergyID(adv.seq), d).data[x] = adv.data[x]
  BY <1>1, <1>4, SetEnergyDataFacts
<1> QED
  BY <1>1, <1>3, <1>5 DEF adv

LEMMA SubmitEnergyDataIInv ==
  ASSUME NEW s \in Submitters, NEW c \in Categories, NEW h \in Hashes, NEW m \in MetadataSizes
  PROVE  IInv /\ SubmitEnergyData(s, c, h, m) => IInv'
<1> SUFFICES ASSUME IInv, SubmitEnergyData(s, c, h, m) PROVE IInv'
  OBVIOUS
<1> DEFINE d == [Category |-> c, Submitter |-> s, DataHash |-> h, Metadata |-> m]
           st == IncrSubmitCount(cache, s)
           id == EnergyID(cache.seq + 1)
<1>1. /\ StartMsg(s) /\ Admitted(s) /\ MetadataFits(txParams, m) /\ cache.seq < MaxSeq
      /\ cache' = SetEnergyData(AdvanceSequence(st), id, d)
      /\ UNCHANGED <<params, txParams, store, phase, batch, landed, txRules, blockRules>>
  BY DEF SubmitEnergyData, GenerateID
<1>2. /\ TypeOK /\ IsStore(cache) /\ StoreInv(cache) /\ StoreInv(store) /\ IsStore(store)
      /\ CacheExtends /\ PendingMatches /\ InForce /\ Idle /\ CacheAdmitted
  BY DEF IInv, TypeOK
<1>3. /\ IsStore(st) /\ StoreInv(st) /\ st.seq = cache.seq /\ st.data = cache.data
      /\ st.batches = cache.batches
  BY <1>2, IncrFacts
<1>4. d \in EnergyData
  BY DEF EnergyData
<1>5. phase = "tx" /\ batch = NoBatch /\ executed' \in [Submitters -> Nat]
  BY <1>1, <1>2, StartMsgFacts
<1>6. /\ IsStore(cache') /\ StoreInv(cache') /\ cache'.seq = cache.seq + 1
      /\ cache'.batches = cache.batches /\ cache'.count = st.count
      /\ id \notin DOMAIN cache.data /\ DOMAIN cache'.data = DOMAIN cache.data \cup {id}
      /\ cache'.data[id] = d /\ \A x \in DOMAIN cache.data : cache'.data[x] = cache.data[x]
  <2> HIDE DEF d, st
  <2> QED
    BY <1>1, <1>3, <1>4, StoreNextRecord
<1>7. d.Submitter = s /\ d.Metadata = m
  OBVIOUS
<1>8. cache'.count = IncrSubmitCount(cache, s).count
  BY <1>6
<1> HIDE DEF d, st, id
<1>9. TypeOK'
  BY <1>1, <1>2, <1>5, <1>6 DEF TypeOK
<1>10. StoreInv(store)' /\ StoreInv(cache)'
  BY <1>1, <1>2, <1>6 DEF StoreInv, SequenceCovers, IndexesMatch, BatchesAreComplete, BatchIsComplete
<1>11. CacheExtends'
  BY <1>1, <1>2, <1>6 DEF CacheExtends, Log!Extends, IsStore
<1>12. PendingMatches' /\ InForce' /\ Idle'
  BY <1>1, <1>2, <1>5 DEF PendingMatches, InForce, Idle
<1>13. Counters'
  BY <1>1, <1>8, CountersAfterMsg DEF Admitted
<1>14. CacheAdmitted'
  <2>1. txParams \in txRules /\ IsAllowedSubmitter(txParams, s)
    BY <1>1, <1>2, <1>5 DEF InForce, Admitted
  <2> QED
    BY <1>1, <1>2, <1>6, <1>7, <2>1 DEF CacheAdmitted, IsAllowedSubmitter, MetadataFits
<1> QED
  BY <1>9, <1>10, <1>11, <1>12, <1>13, <1>14 DEF IInv

LEMMA BatchSubmitIInv ==
  ASSUME NEW s \in Submitters, NEW c \in Categories, NEW list \in Items
  PROVE  IInv /\ BatchSubmit(s, c, list) => IInv'
<1> SUFFICES ASSUME IInv, BatchSubmit(s, c, list) PROVE IInv'
  OBVIOUS
<1> DEFINE st == IncrSubmitCount(cache, s)
<1>1. /\ StartMsg(s) /\ Admitted(s) /\ cache.seq + Len(list) < MaxSeq
      /\ \A i \in DOMAIN list : MetadataFits(txParams, list[i].Metadata)
      /\ Len(list) \in 1..txParams.MaxBatchSize
      /\ cache' = AdvanceSequence(st)
      /\ batch' = [num |-> cache.seq + 1, Submitter |-> s, Category |-> c,
                   items |-> list, stored |-> 0]
      /\ UNCHANGED <<params, txParams, store, phase, landed, txRules, blockRules>>
  BY DEF BatchSubmit
<1>2. /\ TypeOK /\ IsStore(cache) /\ StoreInv(cache) /\ StoreInv(store) /\ IsStore(store)
      /\ CacheExtends /\ InForce /\ CacheAdmitted
  BY DEF IInv, TypeOK
<1>3. /\ IsStore(st) /\ StoreInv(st) /\ st.seq = cache.seq /\ st.data = cache.data
      /\ st.batches = cache.batches
  BY <1>2, IncrFacts
<1>4. list \in Seq(BatchItem) /\ Len(list) \in Nat
  BY ConstantsAssumption DEF Items
<1>5. phase = "tx" /\ executed' \in [Submitters -> Nat]
  BY <1>1, <1>2, StartMsgFacts
<1>6. cache.seq \in Nat /\ store.seq \in Nat /\ cache.seq + 1 \in 1..MaxSeq
      /\ st.seq < MaxSeq /\ cache.seq + 1 + Len(list) <= MaxSeq
  BY <1>1, <1>2, <1>3, <1>4, ConstantsAssumption DEF IsStore
<1>7. /\ IsStore(cache') /\ StoreInv(cache') /\ cache'.seq = cache.seq + 1
      /\ cache'.data = cache.data /\ cache'.batches = cache.batches /\ cache'.count = st.count
  <2> HIDE DEF st
  <2> QED
    BY <1>1, <1>3, <1>6, AdvanceFacts
<1>8. EnergyID(cache.seq + 1) \notin DOMAIN cache.batches
  <2>1. parseEnergyID(EnergyID(cache.seq + 1)) = cache.seq + 1
    BY <1>6, IDFacts
  <2> QED
    BY <1>2, <1>6, <2>1 DEF StoreInv, SequenceCovers
<1>9. cache'.count = IncrSubmitCount(cache, s).count
  BY <1>7
<1> HIDE DEF st
<1>10. TypeOK'
  <2>1. batch' \in PendingBatch
    BY <1>1, <1>4, <1>6 DEF PendingBatch
  <2> QED
    BY <1>1, <1>2, <1>5, <1>7, <2>1 DEF TypeOK
<1>11. StoreInv(store)' /\ StoreInv(cache)'
  BY <1>1, <1>2, <1>7 DEF StoreInv, SequenceCovers, IndexesMatch, BatchesAreComplete, BatchIsComplete
<1>12. CacheExtends'
  BY <1>1, <1>2, <1>6, <1>7 DEF CacheExtends, Log!Extends
<1>13. PendingMatches'
  <2>1. /\ batch'.num = cache.seq + 1 /\ batch'.Submitter = s /\ batch'.items = list
        /\ batch'.stored = 0
    BY <1>1
  <2>2. IsAllowedSubmitter(txParams, s) /\ txParams \in txRules
    BY <1>1, <1>2, <1>5 DEF Admitted, InForce
  <2>3. store.seq <= cache.seq
    BY <1>2 DEF CacheExtends
  <2> QED
    BY <1>1, <1>4, <1>5, <1>6, <1>7, <1>8, <2>1, <2>2, <2>3
       DEF PendingMatches, IsAllowedSubmitter, MetadataFits
<1>14. InForce' /\ Idle'
  BY <1>1, <1>2, <1>5 DEF InForce, Idle
<1>15. Counters'
  BY <1>1, <1>9, CountersAfterMsg DEF Admitted
<1>16. CacheAdmitted'
  BY <1>1, <1>2, <1>7 DEF CacheAdmitted, IsAllowedSubmitter, MetadataFits
<1> QED
  BY <1>10, <1>11, <1>12, <1>13, <1>14, <1>15, <1>16 DEF IInv

LEMMA BatchStoreItemIInv == IInv /\ BatchStoreItem => IInv'
<1> SUFFICES ASSUME IInv, BatchStoreItem PROVE IInv'
  OBVIOUS
<1> DEFINE item == batch.items[batch.stored + 1]
           d == [Category |-> batch.Category, Submitter |-> batch.Submitter,
                 DataHash |-> item.DataHash, Metadata |-> item.Metadata]
           id == EnergyID(cache.seq + 1)
<1>1. /\ batch # NoBatch /\ batch.stored < Len(batch.items)
      /\ cache' = SetEnergyData(AdvanceSequence(cache), id, d)
      /\ batch' = [batch EXCEPT !.stored = @ + 1]
      /\ UNCHANGED <<params, txParams, store, phase, executed, landed, txRules, blockRules>>
  BY DEF BatchStoreItem, GenerateID
<1>2. /\ TypeOK /\ IsStore(cache) /\ StoreInv(cache) /\ StoreInv(store) /\ IsStore(store)
      /\ CacheExtends /\ PendingMatches /\ InForce /\ CacheAdmitted /\ Counters
  BY DEF IInv, TypeOK
<1>3. batch \in PendingBatch /\ batch.items \in Seq(BatchItem) /\ Len(batch.items) \in Nat
      /\ batch.stored \in Nat /\ batch.num \in 1..MaxSeq
  BY <1>1, <1>2 DEF TypeOK, PendingBatch
<1>4. /\ phase = "tx" /\ batch.num > store.seq
      /\ batch.num + Len(batch.items) <= MaxSeq
      /\ cache.seq = batch.num + batch.stored
      /\ EnergyID(batch.num) \notin DOMAIN cache.batches
      /\ \E p \in txRules :
            /\ IsAllowedSubmitter(p, batch.Submitter)
            /\ \A i \in DOMAIN batch.items : MetadataFits(p, batch.items[i].Metadata)
  BY <1>1, <1>2 DEF PendingMatches
<1>5. batch.stored + 1 \in DOMAIN batch.items /\ item \in BatchItem /\ cache.seq < MaxSeq
  <2>1. batch.stored + 1 \in DOMAIN batch.items
    BY <1>1, <1>3
  <2>2. item \in BatchItem
    BY <1>3, <2>1
  <2>3. cache.seq < MaxSeq
    BY <1>1, <1>3, <1>4, ConstantsAssumption
  <2> QED
    BY <2>1, <2>2, <2>3
<1>6. d \in EnergyData
  BY <1>3, <1>5 DEF EnergyData, BatchItem, PendingBatch
<1>7. d.Category = batch.Category /\ d.Submitter = batch.Submitter
      /\ d.DataHash = batch.items[batch.stored + 1].DataHash
      /\ d.Metadata = batch.items[batch.stored + 1].Metadata
  OBVIOUS
<1>8. /\ IsStore(cache') /\ StoreInv(cache') /\ cache'.seq = cache.seq + 1
      /\ cache'.batches = cache.batches /\ cache'.count = cache.count
      /\ id \notin DOMAIN cache.data /\ DOMAIN cache'.data = DOMAIN cache.data \cup {id}
      /\ cache'.data[id] = d /\ \A x \in DOMAIN cache.data : cache'.data[x] = cache.data[x]
  <2> HIDE DEF d
  <2> QED
    BY <1>1, <1>2, <1>5, <1>6, StoreNextRecord
<1>9. id = EnergyID(batch.num + (batch.stored + 1))
  BY <1>3, <1>4
<1>10. batch' = [num |-> batch.num, Submitter |-> batch.Submitter, Category |-> batch.Category,
                items |-> batch.items, stored |-> batch.stored + 1]
  BY <1>1, <1>3 DEF PendingBatch
<1> HIDE DEF d, id, item
<1>11. TypeOK'
  <2>1. batch' \in PendingBatch
    BY <1>3, <1>10 DEF PendingBatch
  <2> QED
    BY <1>1, <1>2, <1>8, <2>1 DEF TypeOK
<1>12. StoreInv(store)' /\ StoreInv(cache)'
  BY <1>1, <1>2, <1>8 DEF StoreInv, SequenceCovers, IndexesMatch, BatchesAreComplete, BatchIsComplete
<1>13. CacheExtends'
  BY <1>1, <1>2, <1>8 DEF CacheExtends, Log!Extends, IsStore
<1>14. PendingMatches'
  <2>1. /\ batch'.num = batch.num /\ batch'.Submitter = batch.Submitter
        /\ batch'.Category = batch.Category /\ batch'.items = batch.items
        /\ batch'.stored = batch.stored + 1
    BY <1>10
  <2>2. ASSUME NEW i \in 1..(batch.stored + 1)
        PROVE  /\ EnergyID(batch.num + i) \in DOMAIN cache'.data
               /\ cache'.data[EnergyID(batch.num + i)].Category = batch.Category
               /\ cache'.data[EnergyID(batch.num + i)].Submitter = batch.Submitter
               /\ cache'.data[EnergyID(batch.num + i)].DataHash = batch.items[i].DataHash
    <3>1. CASE i = batch.stored + 1
      BY <1>7, <1>8, <1>9, <3>1
    <3>2. CASE i \in 1..batch.stored
      <4>1. /\ EnergyID(batch.num + i) \in DOMAIN cache.data
            /\ cache.data[EnergyID(batch.num + i)].Category = batch.Category
            /\ cache.data[EnergyID(batch.num + i)].Submitter = batch.Submitter
            /\ cache.data[EnergyID(batch.num + i)].DataHash = batch.items[i].DataHash
        BY <1>1, <1>2, <3>2 DEF PendingMatches
      <4> QED
        BY <1>8, <4>1
    <3> QED
      BY <1>3, <3>1, <3>2
  <2>3. /\ batch.stored + 1 <= Len(batch.items)
        /\ cache'.seq = batch.num + (batch.stored + 1)
    BY <1>1, <1>3, <1>4, <1>8
  <2> QED
    BY <1>1, <1>4, <1>8, <2>1, <2>2, <2>3 DEF PendingMatches, IsAllowedSubmitter, MetadataFits
<1>15. InForce' /\ Idle'
  BY <1>1, <1>2, <1>4 DEF InForce, Idle
<1>16. Counters'
  BY <1>1, <1>2, <1>8 DEF Counters, WithinLimit
<1>17. CacheAdmitted'
  BY <1>1, <1>2, <1>4, <1>5, <1>7, <1>8 DEF CacheAdmitted, IsAllowedSubmitter, MetadataFits
<1> QED
  BY <1>11, <1>12, <1>13, <1>14, <1>15, <1>16, <1>17 DEF IInv

\* The root lists the hashes of the items.
LEMMA MerkleRootFacts ==
  ASSUME NEW list \in Seq(BatchItem)
  PROVE  /\ MerkleRoot(list) \in Seq(Hashes)
         /\ Len(MerkleRoot(list)) = Len(list)
         /\ \A i \in 1..Len(list) : MerkleRoot(list)[i] = list[i].DataHash
<1> DEFINE n == Len(list)
           r == [i \in 1..n |-> list[i].DataHash]
<1>1. n \in Nat /\ DOMAIN list = 1..n /\ MerkleRoot(list) = r
  BY DEF MerkleRoot
<1>2. \A i \in 1..n : list[i].DataHash \in Hashes
  <2>1. \A i \in 1..n : list[i] \in BatchItem
    BY <1>1
  <2> QED
    BY <2>1 DEF BatchItem
<1>3. r \in [1..n -> Hashes]
  BY <1>2
<1> HIDE DEF n
<1>4. r \in Seq(Hashes) /\ Len(r) = n
  BY <1>1, <1>3
<1>5. \A i \in 1..n : r[i] = list[i].DataHash
  OBVIOUS
<1> QED
  BY <1>1, <1>4, <1>5 DEF n

LEMMA BatchFinishIInv == IInv /\ BatchFinish => IInv'
<1> SUFFICES ASSUME IInv, BatchFinish PROVE IInv'
  OBVIOUS
<1> DEFINE b == [Category |-> batch.Category, Submitter |-> batch.Submitter,
                 DataCount |-> Len(batch.items), MerkleRoot |-> MerkleRoot(batch.items)]
           n == batch.num
<1>1. /\ batch # NoBatch /\ batch.stored = Len(batch.items)
      /\ cache' = SetBatch(cache, EnergyID(n), b)
      /\ batch' = NoBatch
      /\ UNCHANGED <<params, txParams, store, phase, executed, landed, txRules, blockRules>>
  BY DEF BatchFinish
<1>2. /\ TypeOK /\ IsStore(cache) /\ StoreInv(cache) /\ StoreInv(store) /\ IsStore(store)
      /\ CacheExtends /\ PendingMatches /\ InForce /\ CacheAdmitted /\ Counters
  BY DEF IInv, TypeOK
<1>3. batch \in PendingBatch /\ batch.items \in Seq(BatchItem) /\ Len(batch.items) \in Nat
      /\ n \in 1..MaxSeq
  BY <1>1, <1>2 DEF TypeOK, PendingBatch
<1>4. /\ phase = "tx" /\ n > store.seq /\ cache.seq = n + Len(batch.items)
      /\ EnergyID(n) \notin DOMAIN cache.batches
  BY <1>1, <1>2 DEF PendingMatches
<1>5. /\ MerkleRoot(batch.items) \in Seq(Hashes)
      /\ Len(MerkleRoot(batch.items)) = Len(batch.items)
      /\ \A i \in 1..Len(batch.items) : MerkleRoot(batch.items)[i] = batch.items[i].DataHash
  BY <1>3, MerkleRootFacts
<1>6. b \in BatchSubmission
  BY <1>3, <1>5 DEF BatchSubmission, PendingBatch
<1>7. BatchIsComplete(cache, n, b)
  <2>1. /\ b.DataCount = Len(batch.items) /\ b.MerkleRoot = MerkleRoot(batch.items)
        /\ b.Category = batch.Category /\ b.Submitter = batch.Submitter
    OBVIOUS
  <2> HIDE DEF b
  <2> QED
    BY <1>1, <1>2, <1>4, <1>5, <2>1 DEF BatchIsComplete, PendingMatches, IsStore
<1>8. n \in 1..cache.seq
  BY <1>2, <1>3, <1>4 DEF IsStore
<1>9. /\ IsStore(cache') /\ StoreInv(cache')
      /\ cache'.seq = cache.seq /\ cache'.data = cache.data /\ cache'.count = cache.count
      /\ DOMAIN cache'.batches = DOMAIN cache.batches \cup {EnergyID(n)}
      /\ \A x \in DOMAIN cache.batches : cache'.batches[x] = cache.batches[x]
  <2> HIDE DEF b, n
  <2> QED
    BY <1>1, <1>2, <1>4, <1>6, <1>7, <1>8, SetBatchFacts
<1> HIDE DEF b
<1>10. TypeOK'
  BY <1>1, <1>2, <1>9 DEF TypeOK
<1>11. StoreInv(store)' /\ StoreInv(cache)'
  BY <1>1, <1>2, <1>9 DEF StoreInv, SequenceCovers, IndexesMatch, BatchesAreComplete, BatchIsComplete
<1>12. CacheExtends'
  <2>1. n \in (store.seq + 1)..MaxSeq
    BY <1>2, <1>3, <1>4 DEF IsStore
  <2> HIDE DEF n
  <2> QED
    BY <1>1, <1>2, <1>9, <2>1 DEF CacheExtends, Log!Extends
<1>13. PendingMatches' /\ InForce' /\ Idle'
  BY <1>1, <1>2, <1>4 DEF PendingMatches, InForce, Idle
<1>14. Counters'
  BY <1>1, <1>2, <1>9 DEF Counters, WithinLimit
<1>15. CacheAdmitted'
  BY <1>1, <1>2, <1>9 DEF CacheAdmitted, IsAllowedSubmitter, MetadataFits
<1> QED
  BY <1>10, <1>11, <1>12, <1>13, <1>14, <1>15 DEF IInv

LEMMA NextIInv == IInv /\ [Next]_vars => IInv'
<1> SUFFICES ASSUME IInv, [Next]_vars PROVE IInv'
  OBVIOUS
<1>1. CASE UNCHANGED vars
  BY <1>1 DEF vars, IInv, TypeOK, StoreInv, SequenceCovers, IndexesMatch, BatchesAreComplete,
              BatchIsComplete, CacheExtends, Log!Extends, PendingMatches, InForce, Idle,
              Counters, WithinLimit, CacheAdmitted
<1>2. CASE Next
  BY <1>2, BeginTxIInv, SubmitEnergyDataIInv, BatchSubmitIInv, BatchStoreItemIInv,
     BatchFinishIInv, CommitTxIInv, AbortTxIInv, UpdateParamsIInv, NextBlockIInv,
     BumpIInv, RestartIInv DEF Next
<1> QED
  BY <1>1, <1>2

LEMMA InvariantHolds == Spec => []IInv
BY InitIInv, NextIInv, PTL DEF Spec

-----------------------------------------------------------------------------
(* The theorems.                                                           *)

\* Every reachable state of the keeper is well typed: no handler, restart or
\* upgrade leaves a collection holding keys or values it should not.
THEOREM TypeCorrect == Spec => []TypeOK
<1>1. IInv => TypeOK
  BY DEF IInv
<1> QED
  BY <1>1, InvariantHolds, PTL

\* GenerateID never prints an id that is already stored.
THEOREM IDsNeverCollide == Spec => []IDSequenceMonotonic
<1>1. IInv => IDSequenceMonotonic
  BY DEF IInv, StoreInv, IDSequenceMonotonic, IDSequenceMonotonicInvariant, SequenceCovers
<1> QED
  BY <1>1, InvariantHolds, PTL

\* The committed store is well typed and the next id fresh, always.
THEOREM StoreAlwaysConsistent == Spec => []StoreConsistent
BY TypeCorrect, IDsNeverCollide, PTL DEF StoreConsistent

\* Both secondary indexes agree with the records in every reachable state.
THEOREM IndexesAlwaysConsistent == Spec => []IndexesConsistent
<1>1. IInv => IndexesConsistent
  <2> SUFFICES ASSUME IInv PROVE IndexesConsistent
    OBVIOUS
  <2>1. IndexesMatch(store)
    BY DEF IInv, StoreInv
  <2>2. ByCategoryConsistencyInvariant
    BY <2>1 DEF ByCategoryConsistencyInvariant, IndexesMatch
  <2>3. BySubmitterConsistencyInvariant
    BY <2>1 DEF BySubmitterConsistencyInvariant, IndexesMatch
  <2> QED
    BY <2>1, <2>2, <2>3 DEF IndexesConsistent
<1> QED
  BY <1>1, InvariantHolds, PTL

\* Committed batches are complete, however BatchSubmit was interrupted.
THEOREM BatchesAlwaysComplete == Spec => []BatchesComplete
<1>1. IInv => BatchesComplete
  BY DEF IInv, StoreInv, BatchesComplete
<1> QED
  BY <1>1, InvariantHolds, PTL

\* The per-block counter is exact and the limit holds, whatever transactions were
\* rolled back and however the limit was changed between and inside them.
THEOREM RateLimitHolds == Spec => []RateLimitExact
<1>1. IInv => RateLimitExact
  BY DEF IInv, Counters, RateLimitExact
<1> QED
  BY <1>1, InvariantHolds, PTL

\* Nothing is committed that no parameters of its own transaction admit, wherever
\* in that transaction, or in others, a MsgUpdateParams runs.
THEOREM OnlyAdmittedCommitted == Spec => AdmittedWhenCommitted
<1> DEFINE A == \A id \in DOMAIN store'.data \ DOMAIN store.data :
                   \E p \in txRules : /\ IsAllowedSubmitter(p, store'.data[id].Submitter)
                                      /\ MetadataFits(p, store'.data[id].Metadata)
<1>1. IInv /\ [Next]_vars => [A]_vars
  <2> SUFFICES ASSUME IInv, Next PROVE A
    OBVIOUS
  <2>1. CASE CommitTx
    BY <2>1 DEF CommitTx, IInv, CacheAdmitted
  <2>2. CASE NextBlock
    BY <2>2 DEF NextBlock, IInv, TypeOK, IsStore
  <2>3. ASSUME NEW nextID \in {0, store.seq}, RestartFromExport(nextID) PROVE A
    BY <2>3, ExportFacts, InitGenesisFacts DEF RestartFromExport, IInv
  <2>4. CASE store' = store
    BY <2>4
  <2> QED
    BY <2>1, <2>2, <2>3, <2>4 DEF Next, BeginTx, SubmitEnergyData, BatchSubmit,
       BatchStoreItem, BatchFinish, AbortTx, UpdateParams, BumpEnergyMetadataCap
<1> QED
  BY <1>1, InvariantHolds, PTL DEF Spec, AdmittedWhenCommitted

\* Every step of the keeper is a step of the append-only log or leaves it as it
\* is.
LEMMA StepRefinesLog == IInv /\ IInv' /\ [Next]_vars => [Log!Publish]_(Log!vars)
<1> SUFFICES ASSUME IInv, IInv', [Next]_vars
             PROVE  Log!Publish \/ UNCHANGED Log!vars
  OBVIOUS
<1>1. CASE CommitTx
  <2>1. Log!Extends(store.data, store'.data) /\ Log!Extends(store.batches, store'.batches)
    BY <1>1 DEF CommitTx, IInv, CacheExtends
  <2>2. ASSUME NEW id \in DOMAIN store'.batches \ DOMAIN store.batches
        PROVE  ItemIDs(id, store'.batches[id]) \subseteq DOMAIN store'.data \ DOMAIN store.data
    <3> DEFINE b == store'.batches[id]
    <3>1. store' = cache
      BY <1>1 DEF CommitTx
    <3>2. PICK n \in (store.seq + 1)..MaxSeq : id = EnergyID(n)
      BY <3>1 DEF IInv, CacheExtends
    <3>3. store.seq \in Nat /\ n \in 1..MaxSeq /\ n \in Nat
      BY ConstantsAssumption DEF IInv, TypeOK, IsStore
    <3>4. BatchIsComplete(store', n, b)
      BY <3>2, <3>3 DEF IInv, StoreInv, BatchesAreComplete
    <3>5. b.DataCount \in Nat
      BY <2>2 DEF IInv, TypeOK, IsStore, IsMap, BatchSubmission
    <3>6. id \notin ForeignIDs /\ id[2] = n
      BY <3>2, <3>3, ForeignIDsAssumption DEF EnergyID
    <3> SUFFICES ASSUME NEW i \in 1..b.DataCount
                 PROVE  EnergyID(n + i) \in DOMAIN store'.data \ DOMAIN store.data
      BY <3>6 DEF ItemIDs
    <3>7. EnergyID(n + i) \in DOMAIN store'.data
      BY <3>4 DEF BatchIsComplete
    <3>8. EnergyID(n + i) \notin DOMAIN store.data
      <4> SUFFICES ASSUME EnergyID(n + i) \in DOMAIN store.data PROVE FALSE
        OBVIOUS
      <4>1. EnergyID(n + i) \in IDs /\ parseEnergyID(EnergyID(n + i)) <= store.seq
        BY DEF IInv, StoreInv, SequenceCovers, TypeOK, IsStore, IsMap
      <4>2. n + i \in 1..MaxSeq
        <5>1. n + b.DataCount <= MaxSeq
          BY <3>4 DEF BatchIsComplete
        <5> HIDE DEF b
        <5> QED
          BY <3>3, <3>5, <5>1, ConstantsAssumption
      <4> QED
        BY <4>1, <4>2, <3>3, <3>5, IDFacts
    <3> QED
      BY <3>7, <3>8
  <2> QED
    BY <2>1, <2>2 DEF Log!Publish
<1>2. CASE NextBlock
  BY <1>2 DEF NextBlock, IInv, TypeOK, IsStore, Log!vars
<1>3. ASSUME NEW nextID \in {0, store.seq}, RestartFromExport(nextID)
      PROVE  UNCHANGED Log!vars
  BY <1>3, ExportFacts, InitGenesisFacts DEF RestartFromExport, IInv, Log!vars
<1>4. CASE store' = store
  BY <1>4 DEF Log!vars
<1> QED
  BY <1>1, <1>2, <1>3, <1>4 DEF Next, vars, BeginTx, SubmitEnergyData, BatchSubmit,
     BatchStoreItem, BatchFinish, AbortTx, UpdateParams, BumpEnergyMetadataCap

\* The whole keeper implements the append-only log: through rollbacks, restarts
\* and parameter changes no committed record or batch is altered or lost, and
\* batches become visible with all their records at once.
THEOREM RefinesLog == Spec => LogSpec
<1>1. Init => Log!Init
  <2> SUFFICES ASSUME Init, NEW id \in DOMAIN store.batches
               PROVE  ItemIDs(id, store.batches[id]) \subseteq DOMAIN store.data
    BY DEF Log!Init
  <2>1. IsStore(store) /\ BatchesAreComplete(store)
    BY InitIInv DEF IInv, TypeOK, StoreInv
  <2>2. CASE id \in ForeignIDs
    BY <2>2 DEF ItemIDs
  <2>3. CASE id \notin ForeignIDs
    <3>1. PICK n \in 1..MaxSeq : id = EnergyID(n)
      BY <2>1, <2>3 DEF IsStore, IsMap, IDs
    <3>2. BatchIsComplete(store, n, store.batches[id]) /\ id[2] = n
      BY <2>1, <3>1 DEF BatchesAreComplete, EnergyID
    <3> QED
      BY <2>3, <3>2 DEF ItemIDs, BatchIsComplete
  <2> QED
    BY <2>2, <2>3
<1> QED
  BY <1>1, InvariantHolds, StepRefinesLog, PTL DEF Spec, LogSpec, Log!Spec

-----------------------------------------------------------------------------
(* The client: the Merkle tree.                                            *)

\* A set of natural numbers that is not empty has a least element.
LEMMA Least ==
  ASSUME NEW K, K \subseteq Nat, K # {}
  PROVE  \E m \in K : \A k \in K : m <= k
<1>1. PICK m \in K : \A k \in K : ~(<<k, m>> \in OpToRel(<, Nat))
  BY NatLessThanWellFounded, WFMin
<1>2. \A k \in K : ~(k < m)
  BY <1>1 DEF OpToRel
<1> QED
  BY <1>2

\* A level of the tree: a list of nodes, at least one.
IsLevel(v) == Len(v) \in Nat \ {0} /\ v = [i \in 1..Len(v) |-> v[i]]

\* A function on 1..n is a list of length n.
LEMMA ListLength ==
  ASSUME NEW n \in Nat, NEW f, f = [i \in 1..n |-> f[i]]
  PROVE  Len(f) = n
<1> DEFINE S == {f[i] : i \in 1..n}
<1>1. f \in [1..n -> S]
  OBVIOUS
<1>2. f \in Seq(S)
  BY <1>1, SeqDef
<1>3. DOMAIN f = 1..n /\ DOMAIN f = 1..Len(f) /\ Len(f) \in Nat
  BY <1>1, <1>2, LenProperties
<1> QED
  BY <1>3

\* A digest tells which nodes or which leaf it was made of.
LEMMA Digests ==
  /\ \A a, b, c, d : Merkle!hashPair(a, b) = Merkle!hashPair(c, d) =>
        (a = c /\ b = d) \/ (a = d /\ b = c)
  /\ \A a, b, i, h : Merkle!hashPair(a, b) # Merkle!Leaf(i, h)
  /\ \A i, j \in Int : \A h, g : Merkle!Leaf(i, h) = Merkle!Leaf(j, g) => i = j /\ h = g
<1>1. ASSUME NEW a, NEW b, NEW c, NEW d, Merkle!hashPair(a, b) = Merkle!hashPair(c, d)
      PROVE  (a = c /\ b = d) \/ (a = d /\ b = c)
  <2>1. {a, b} = {c, d}
    BY <1>1 DEF Merkle!hashPair
  <2> QED
    BY <2>1
<1>2. \A a, b, i, h : Merkle!hashPair(a, b) # Merkle!Leaf(i, h)
  BY DEF Merkle!hashPair, Merkle!Leaf
<1>3. ASSUME NEW i \in Int, NEW j \in Int, NEW h, NEW g, Merkle!Leaf(i, h) = Merkle!Leaf(j, g)
      PROVE  i = j /\ h = g
  BY <1>3 DEF Merkle!Leaf
<1> QED
  BY <1>1, <1>2, <1>3

\* The next level of a level has half as many nodes, rounded up, each the hash
\* of two neighbours or of the last node with itself.
LEMMA NextLevelFacts ==
  ASSUME NEW v, IsLevel(v)
  PROVE  LET w == Merkle!NextLevel(v)
         IN  /\ IsLevel(w) /\ Len(w) = (Len(v) + 1) \div 2
             /\ \A k \in 1..Len(w) :
                   w[k] = Merkle!hashPair(v[2 * k - 1],
                             v[IF 2 * k <= Len(v) THEN 2 * k ELSE 2 * k - 1])
<1> DEFINE w == Merkle!NextLevel(v)
           n == (Len(v) + 1) \div 2
<1>1. n \in Nat \ {0}
  BY DEF IsLevel
<1>2. w = [i \in 1..n |-> w[i]] /\
      \A k \in 1..n :
           w[k] = Merkle!hashPair(v[2 * k - 1],
                     v[IF 2 * k <= Len(v) THEN 2 * k ELSE 2 * k - 1])
  BY DEF Merkle!NextLevel
<1> HIDE DEF w, n
<1>3. Len(w) = n
  BY <1>1, <1>2, ListLength
<1> QED
  BY <1>1, <1>2, <1>3 DEF w, n, IsLevel

\* The levels of a list of leaves, one from the other.
LEMMA LevelsDef ==
  ASSUME NEW leaves, Len(leaves) \in Nat
  PROVE  \A d \in 0..Len(leaves) :
            Merkle!Levels(leaves)[d] =
               IF d = 0 THEN leaves ELSE Merkle!NextLevel(Merkle!Levels(leaves)[d - 1])
<1> DEFINE upTo(g, k) ==
               g = [d \in 0..k |-> IF d = 0 THEN leaves ELSE Merkle!NextLevel(g[d - 1])]
           K == {k \in Nat : ~ \E g : upTo(g, k)}
<1>1. K = {}
  <2> SUFFICES ASSUME K # {} PROVE FALSE
    OBVIOUS
  <2>1. PICK m \in K : \A k \in K : m <= k
    <3> HIDE DEF K
    <3>1. K \subseteq Nat
      BY DEF K
    <3> QED
      BY <3>1, Least
  <2>2. PICK g : \A d \in 0..(m - 1) :
                    g[d] = IF d = 0 THEN leaves ELSE Merkle!NextLevel(g[d - 1])
    <3>1. CASE m = 0
      BY <3>1
    <3>2. CASE m # 0
      <4>1. m - 1 \in Nat /\ ~(m <= m - 1)
        BY <3>2
      <4>2. PICK g : upTo(g, m - 1)
        BY <2>1, <4>1
      <4>3. \A d \in 0..(m - 1) :
                g[d] = [x \in 0..(m - 1) |-> IF x = 0 THEN leaves
                                             ELSE Merkle!NextLevel(g[x - 1])][d]
        BY <4>2
      <4> QED
        BY <4>3
    <3> QED
      BY <3>1, <3>2
  <2> DEFINE h == [d \in 0..m |-> IF d = 0 THEN leaves ELSE Merkle!NextLevel(g[d - 1])]
  <2>3. \A d \in 0..(m - 1) : h[d] = g[d]
    BY <2>2
  <2>4. \A d \in 0..m : d # 0 => d - 1 \in 0..(m - 1)
    OBVIOUS
  <2>5. h = [d \in 0..m |-> IF d = 0 THEN leaves ELSE Merkle!NextLevel(h[d - 1])]
    BY <2>3, <2>4
  <2> QED
    BY <2>5
<1> DEFINE n == Len(leaves)
           level == CHOOSE g : upTo(g, n)
<1>2. upTo(level, n)
  BY <1>1
<1>3. Merkle!Levels(leaves) = level
  BY DEF Merkle!Levels
<1> HIDE DEF level
<1>4. \A d \in 0..n :
          level[d] = [x \in 0..n |-> IF x = 0 THEN leaves ELSE Merkle!NextLevel(level[x - 1])][d]
  BY <1>2
<1> QED
  BY <1>3, <1>4

\* The leaves of a list, and its tree.
Leaves(list) == [i \in DOMAIN list |-> Merkle!Leaf(i, list[i])]
Tree(list) == Merkle!Levels(Leaves(list))

\* The lists verifyMerkleRoot can accept.
NonEmptySeq(S) == Seq(S) \ {<<>>}

\* There is one leaf for each hash.
LEMMA LeavesFacts ==
  ASSUME NEW list \in NonEmptySeq(Hashes)
  PROVE  /\ IsLevel(Leaves(list)) /\ Len(Leaves(list)) = Len(list)
         /\ Len(list) \in Nat \ {0}
         /\ \A i \in 1..Len(list) : Leaves(list)[i] = Merkle!Leaf(i, list[i])
<1>1. Len(list) \in Nat \ {0} /\ DOMAIN list = 1..Len(list)
  BY EmptySeq, LenProperties DEF NonEmptySeq
<1>2. /\ Leaves(list) = [i \in 1..Len(list) |-> Leaves(list)[i]]
      /\ \A i \in 1..Len(list) : Leaves(list)[i] = Merkle!Leaf(i, list[i])
  BY <1>1 DEF Leaves
<1>3. Len(Leaves(list)) = Len(list)
  BY <1>1, <1>2, ListLength
<1> QED
  BY <1>1, <1>2, <1>3 DEF IsLevel

\* A is the tree of a list: its levels, each made of the one below.
IsTree(A, list) ==
    /\ A[0] = Leaves(list)
    /\ \A d \in 0..Len(list) :
          /\ IsLevel(A[d])
          /\ d # 0 => A[d] = Merkle!NextLevel(A[d - 1])

\* Levels computes the tree.
LEMMA TreeFacts ==
  ASSUME NEW list \in NonEmptySeq(Hashes)
  PROVE  IsTree(Tree(list), list)
<1> DEFINE n == Len(list)
<1>1. n \in Nat \ {0} /\ Len(Leaves(list)) = n /\ IsLevel(Leaves(list))
  BY LeavesFacts
<1>2. PICK T : T = Tree(list)
  OBVIOUS
<1>3. \A d \in 0..n : T[d] = IF d = 0 THEN Leaves(list) ELSE Merkle!NextLevel(T[d - 1])
  BY <1>1, <1>2, LevelsDef DEF Tree
<1> DEFINE K == {d \in 0..n : ~ IsLevel(T[d])}
<1>4. K = {}
  <2> SUFFICES ASSUME K # {} PROVE FALSE
    OBVIOUS
  <2>1. PICK m \in K : \A k \in K : m <= k
    <3>1. K \subseteq Nat
      BY <1>1
    <3> HIDE DEF K
    <3> QED
      BY <3>1, Least
  <2>2. m # 0
    BY <1>1, <1>3
  <2>3. m \in 0..n /\ m - 1 \in 0..n /\ ~(m <= m - 1)
    BY <1>1, <2>2
  <2>4. IsLevel(T[m - 1])
    BY <2>1, <2>3
  <2>5. T[m] = Merkle!NextLevel(T[m - 1])
    BY <1>3, <2>2, <2>3
  <2>6. IsLevel(T[m])
    BY <2>4, <2>5, NextLevelFacts
  <2> QED
    BY <2>6
<1>5. \A d \in 0..n : IsLevel(T[d])
  BY <1>4
<1>6. 0 \in 0..n
  BY <1>1
<1> QED
  BY <1>2, <1>3, <1>5, <1>6 DEF IsTree

\* A node above the leaves is made of its two children, or of one.
LEMMA NodeFacts ==
  ASSUME NEW z \in NonEmptySeq(Hashes), NEW A, IsTree(A, z),
         NEW d \in 0..Len(z), d # 0, NEW i \in 1..Len(A[d])
  PROVE  /\ d - 1 \in 0..Len(z)
         /\ 2 * i - 1 \in 1..Len(A[d - 1])
         /\ \E b \in 1..Len(A[d - 1]) :
               /\ b = 2 * i \/ b = 2 * i - 1
               /\ A[d][i] = Merkle!hashPair(A[d - 1][2 * i - 1], A[d - 1][b])
<1>1. PICK v : v = A[d - 1]
  OBVIOUS
<1>2. PICK w : w = A[d]
  OBVIOUS
<1>3. /\ d - 1 \in 0..Len(z) /\ IsLevel(v) /\ w = Merkle!NextLevel(v)
  <2>1. Len(z) \in Nat
    BY LeavesFacts
  <2>2. d - 1 \in 0..Len(z)
    BY <2>1
  <2> QED
    BY <1>1, <1>2, <2>2 DEF IsTree
<1>4. /\ Len(w) = (Len(v) + 1) \div 2 /\ Len(v) \in Nat /\ Len(v) > 0
      /\ i \in 1..Len(w)
      /\ w[i] = Merkle!hashPair(v[2 * i - 1],
                           v[IF 2 * i <= Len(v) THEN 2 * i ELSE 2 * i - 1])
  <2>1. i \in 1..Len(w)
    BY <1>2
  <2>2. Len(v) \in Nat /\ Len(v) > 0
    BY <1>3 DEF IsLevel
  <2> QED
    BY <1>3, <2>1, <2>2, NextLevelFacts
<1>5. 2 * i - 1 \in 1..Len(v)
  BY <1>4
<1>6. PICK b \in 1..Len(v) : /\ b = 2 * i \/ b = 2 * i - 1
                             /\ w[i] = Merkle!hashPair(v[2 * i - 1], v[b])
  <2>1. CASE 2 * i <= Len(v)
    <3>1. 2 * i \in 1..Len(v)
      BY <1>4, <2>1
    <3> QED
      BY <1>4, <2>1, <3>1
  <2>2. CASE ~(2 * i <= Len(v))
    BY <1>4, <1>5, <2>2
  <2> QED
    BY <2>1, <2>2
<1> QED
  BY <1>1, <1>2, <1>3, <1>5, <1>6

\* The nodes of a tree at depth d differ from all nodes of another tree, or of
\* the same, elsewhere: what a node is made of tells its depth and position.
Distinct(A, x, B, y, d) ==
    \A e \in 0..Len(y) : \A j \in 1..Len(A[d]) : \A k \in 1..Len(B[e]) :
       A[d][j] = B[e][k] => d = e /\ j = k

LEMMA NodesDistinct ==
  ASSUME NEW x \in NonEmptySeq(Hashes), NEW A, IsTree(A, x),
         NEW y \in NonEmptySeq(Hashes), NEW B, IsTree(B, y)
  PROVE  \A d \in 0..Len(x) : Distinct(A, x, B, y, d)
<1>1. Len(x) \in Nat /\ Len(y) \in Nat
  BY LeavesFacts
<1> SUFFICES ASSUME ~ \A d \in 0..Len(x) : Distinct(A, x, B, y, d) PROVE FALSE
  OBVIOUS
<1>2. PICK d \in 0..Len(x) :
         /\ ~ Distinct(A, x, B, y, d)
         /\ \A k \in 0..Len(x) : k < d => Distinct(A, x, B, y, k)
  <2> DEFINE K == {d \in 0..Len(x) : ~ Distinct(A, x, B, y, d)}
  <2>1. K \subseteq Nat /\ K # {}
    BY <1>1
  <2> HIDE DEF K
  <2>2. PICK m \in K : \A k \in K : m <= k
    BY <2>1, Least
  <2>3. m \in 0..Len(x) /\ ~ Distinct(A, x, B, y, m)
    BY DEF K
  <2>4. ASSUME NEW k \in 0..Len(x), k < m PROVE Distinct(A, x, B, y, k)
    <3>1. ~ (m <= k)
      BY <2>3, <2>4
    <3> QED
      BY <2>2, <3>1 DEF K
  <2> QED
    BY <2>3, <2>4
<1>3. PICK e \in 0..Len(y) : \E j \in 1..Len(A[d]) : \E k \in 1..Len(B[e]) :
         A[d][j] = B[e][k] /\ ~ (d = e /\ j = k)
  BY <1>2 DEF Distinct
<1>4. PICK j \in 1..Len(A[d]), k \in 1..Len(B[e]) :
         A[d][j] = B[e][k] /\ ~ (d = e /\ j = k)
  BY <1>3
<1>5. d \in 0..Len(x) /\ d \in Nat /\ e \in Nat
  BY <1>1
<1>6. j \in Nat /\ k \in Nat
  <2>1. IsLevel(A[d]) /\ IsLevel(B[e])
    BY <1>5 DEF IsTree
  <2> QED
    BY <2>1 DEF IsLevel
<1>7. ASSUME d = 0 PROVE A[d][j] = Merkle!Leaf(j, x[j])
  <2>1. A[d] = Leaves(x)
    BY <1>7 DEF IsTree
  <2> QED
    BY <2>1, LeavesFacts
<1>8. ASSUME e = 0 PROVE B[e][k] = Merkle!Leaf(k, y[k])
  <2>1. B[e] = Leaves(y)
    BY <1>8 DEF IsTree
  <2> QED
    BY <2>1, LeavesFacts
<1>9. CASE d = 0 /\ e = 0
  <2>1. Merkle!Leaf(j, x[j]) = Merkle!Leaf(k, y[k])
    BY <1>4, <1>7, <1>8, <1>9
  <2>2. j \in Int /\ k \in Int
    BY <1>6
  <2>3. j = k
    BY <2>1, <2>2, Digests
  <2> QED
    BY <1>4, <1>9, <2>3
<1>10. CASE d = 0 /\ e # 0
  <2>1. \E b \in 1..Len(B[e - 1]) : B[e][k] = Merkle!hashPair(B[e - 1][2 * k - 1], B[e - 1][b])
    BY <1>10, NodeFacts
  <2>2. PICK a, b : B[e][k] = Merkle!hashPair(a, b)
    BY <2>1
  <2>3. Merkle!hashPair(a, b) = Merkle!Leaf(j, x[j])
    BY <1>4, <1>7, <1>10, <2>2
  <2> QED
    BY <2>3, Digests
<1>11. CASE d # 0 /\ e = 0
  <2>1. \E b \in 1..Len(A[d - 1]) : A[d][j] = Merkle!hashPair(A[d - 1][2 * j - 1], A[d - 1][b])
    BY <1>5, <1>11, NodeFacts
  <2>2. PICK a, b : A[d][j] = Merkle!hashPair(a, b)
    BY <2>1
  <2>3. Merkle!hashPair(a, b) = Merkle!Leaf(k, y[k])
    BY <1>4, <1>8, <1>11, <2>2
  <2> QED
    BY <2>3, Digests
<1>12. CASE d # 0 /\ e # 0
  <2>1. PICK f : f = d - 1
    OBVIOUS
  <2>2. PICK g : g = e - 1
    OBVIOUS
  <2>3. PICK u : u = A[f]
    OBVIOUS
  <2>4. PICK v : v = B[g]
    OBVIOUS
  <2>5. /\ f \in 0..Len(x) /\ 2 * j - 1 \in 1..Len(u)
        /\ \E b \in 1..Len(u) : A[d][j] = Merkle!hashPair(u[2 * j - 1], u[b])
    <3>1. /\ d - 1 \in 0..Len(x) /\ 2 * j - 1 \in 1..Len(A[d - 1])
          /\ \E b \in 1..Len(A[d - 1]) :
                A[d][j] = Merkle!hashPair(A[d - 1][2 * j - 1], A[d - 1][b])
      BY <1>5, <1>12, NodeFacts
    <3> QED
      BY <2>1, <2>3, <3>1
  <2>6. /\ g \in 0..Len(y) /\ 2 * k - 1 \in 1..Len(v)
        /\ \E c \in 1..Len(v) : /\ c = 2 * k \/ c = 2 * k - 1
                                /\ B[e][k] = Merkle!hashPair(v[2 * k - 1], v[c])
    <3>1. /\ e - 1 \in 0..Len(y) /\ 2 * k - 1 \in 1..Len(B[e - 1])
          /\ \E b \in 1..Len(B[e - 1]) :
                /\ b = 2 * k \/ b = 2 * k - 1
                /\ B[e][k] = Merkle!hashPair(B[e - 1][2 * k - 1], B[e - 1][b])
      BY <1>12, NodeFacts, SMTT(60)
    <3> QED
      BY <2>2, <2>4, <3>1
  <2>7. PICK b \in 1..Len(u) : A[d][j] = Merkle!hashPair(u[2 * j - 1], u[b])
    BY <2>5
  <2>8. PICK c \in 1..Len(v) : /\ c = 2 * k \/ c = 2 * k - 1
                               /\ B[e][k] = Merkle!hashPair(v[2 * k - 1], v[c])
    BY <2>6
  <2>9. u[2 * j - 1] = v[2 * k - 1] \/ u[2 * j - 1] = v[c]
    <3>1. Merkle!hashPair(u[2 * j - 1], u[b]) = Merkle!hashPair(v[2 * k - 1], v[c])
      BY <1>4, <2>7, <2>8
    <3> QED
      BY <3>1, Digests
  <2>10. Distinct(A, x, B, y, f)
    <3>1. f < d
      BY <1>5, <2>1
    <3> QED
      BY <1>2, <2>5, <3>1
  <2>11. \A m \in 1..Len(u) : \A n \in 1..Len(v) : u[m] = v[n] => f = g /\ m = n
    BY <2>3, <2>4, <2>6, <2>10 DEF Distinct
  <2>12. f = g /\ (2 * j - 1 = 2 * k - 1 \/ 2 * j - 1 = c)
    <3>1. 2 * j - 1 \in 1..Len(u) /\ 2 * k - 1 \in 1..Len(v)
      BY <2>5, <2>6
    <3>2. ASSUME NEW m \in 1..Len(u), m = 2 * j - 1,
                 NEW n \in 1..Len(v), u[2 * j - 1] = v[n]
          PROVE  f = g /\ 2 * j - 1 = n
      BY <2>11, <3>2
    <3> QED
      BY <2>8, <2>9, <3>1, <3>2
  <2>13. d = e
    BY <1>5, <2>1, <2>2, <2>12
  <2>14. j = k
    BY <1>6, <2>8, <2>12
  <2> QED
    BY <1>4, <2>13, <2>14
<1> QED
  BY <1>9, <1>10, <1>11, <1>12

\* Each level is shorter than the one below, until one node is left.
LEMMA LevelsShrink ==
  ASSUME NEW z \in NonEmptySeq(Hashes), NEW A, IsTree(A, z)
  PROVE  \E d \in 0..Len(z) : Len(A[d]) = 1
<1>1. Len(z) \in Nat \ {0} /\ Len(A[0]) = Len(z) /\ 0 \in 0..Len(z)
  BY LeavesFacts DEF IsTree
<1>2. \A d \in 0..Len(z) : Len(A[d]) \in Nat \ {0}
  BY DEF IsTree, IsLevel
<1> DEFINE K == {d \in 0..Len(z) : Len(A[d]) > 1 /\ Len(A[d]) > Len(z) - d}
<1>3. K = {}
  <2> SUFFICES ASSUME K # {} PROVE FALSE
    OBVIOUS
  <2>1. PICK m \in K : \A k \in K : m <= k
    <3>1. K \subseteq Nat
      BY <1>1
    <3> HIDE DEF K
    <3> QED
      BY <3>1, Least
  <2>2. m \in 0..Len(z) /\ m \in Nat /\ m # 0
    BY <1>1
  <2>3. PICK f : f = m - 1
    OBVIOUS
  <2>4. f \in 0..Len(z) /\ f \notin K
    <3>1. f \in 0..Len(z) /\ ~(m <= f)
      BY <1>1, <2>2, <2>3
    <3> HIDE DEF K
    <3> QED
      BY <2>1, <3>1
  <2>5. Len(A[m]) = (Len(A[f]) + 1) \div 2
    <3>1. A[m] = Merkle!NextLevel(A[f]) /\ IsLevel(A[f])
      BY <2>2, <2>3, <2>4 DEF IsTree
    <3> QED
      BY <3>1, NextLevelFacts
  <2>6. PICK a : a = Len(A[f])
    OBVIOUS
  <2>7. PICK b : b = Len(A[m])
    OBVIOUS
  <2>8. a \in Nat \ {0} /\ b = (a + 1) \div 2 /\ (a <= 1 \/ a <= Len(z) - f)
    BY <1>1, <1>2, <2>4, <2>5, <2>6, <2>7
  <2>9. b > 1 /\ b > Len(z) - m
    BY <2>7
  <2> QED
    BY <1>1, <2>2, <2>3, <2>8, <2>9
<1>4. PICK l : l = Len(z) - 1
  OBVIOUS
<1>5. l \in 0..Len(z) /\ Len(z) - l = 1
  BY <1>1, <1>4
<1>6. Len(A[l]) \in Nat \ {0} /\ ~(Len(A[l]) > 1)
  <2>1. Len(A[l]) \in Nat \ {0}
    BY <1>2, <1>5
  <2> SUFFICES ASSUME Len(A[l]) > 1 PROVE l \in K
    BY <1>3, <2>1
  <2> QED
    BY <1>5, <2>1
<1> HIDE DEF K
<1>7. \A a \in Nat \ {0} : ~(a > 1) => a = 1
  OBVIOUS
<1>8. Len(A[l]) = 1
  BY <1>6, <1>7
<1> QED
  BY <1>5, <1>8

\* computeMerkleRoot returns the node of the first level that has only one.
LEMMA RootIsTop ==
  ASSUME NEW z \in NonEmptySeq(Hashes)
  PROVE  \E d \in 0..Len(z) : Len(Tree(z)[d]) = 1 /\ Merkle!Root(z) = Tree(z)[d][1]
<1>1. PICK A : A = Tree(z)
  OBVIOUS
<1>2. IsTree(A, z) /\ Len(z) \in Nat /\ Len(Leaves(z)) = Len(z)
  BY <1>1, TreeFacts, LeavesFacts
<1> DEFINE top(d) == Len(A[d]) = 1 /\ \A e \in 0..(d - 1) : Len(A[e]) # 1
<1>3. \E d \in 0..Len(z) : top(d)
  <2> DEFINE K == {d \in 0..Len(z) : Len(A[d]) = 1}
  <2>1. K \subseteq Nat /\ K # {}
    BY <1>2, LevelsShrink
  <2>2. PICK m \in K : \A k \in K : m <= k
    <3> HIDE DEF K
    <3> QED
      BY <2>1, Least
  <2>3. m \in 0..Len(z) /\ Len(A[m]) = 1
    OBVIOUS
  <2>4. ASSUME NEW e \in 0..(m - 1) PROVE Len(A[e]) # 1
    <3>1. e \in 0..Len(z) /\ ~(m <= e)
      BY <1>2, <2>3
    <3> QED
      BY <2>2, <3>1
  <2> QED
    BY <2>3, <2>4
<1>4. PICK d : d = CHOOSE e \in 0..Len(z) : top(e)
  OBVIOUS
<1>5. d \in 0..Len(z) /\ top(d)
  BY <1>3, <1>4
<1>6. Merkle!Root(z) = A[d][1]
  <2>1. Merkle!Root(z) = Merkle!computeMerkleRoot(Leaves(z))
    BY DEF Merkle!Root, Leaves
  <2>2. Merkle!computeMerkleRoot(Leaves(z)) = A[CHOOSE d_1 \in 0..Len(z) : top(d_1)][1]
    BY <1>1, <1>2 DEF Merkle!computeMerkleRoot, Tree
  <2> QED
    BY <1>4, <2>1, <2>2
<1> QED
  BY <1>1, <1>5, <1>6

\* Two levels with the same next level are the same, when their nodes differ
\* wherever their positions do: an unordered pair, and a node paired with
\* itself, still tell what they were made of.
LEMMA LevelBinds ==
  ASSUME NEW u, IsLevel(u), NEW v, IsLevel(v),
         Merkle!NextLevel(u) = Merkle!NextLevel(v),
         \A m \in 1..Len(u), n \in 1..Len(v) : u[m] = v[n] => m = n
  PROVE  u = v
<1>1. PICK a \in Nat \ {0} : a = Len(u)
  BY DEF IsLevel
<1>2. PICK b \in Nat \ {0} : b = Len(v)
  BY DEF IsLevel
<1>3. PICK w : w = Merkle!NextLevel(u)
  OBVIOUS
<1>4. /\ Len(w) = (a + 1) \div 2
      /\ \A k \in 1..Len(w) :
           w[k] = Merkle!hashPair(u[2 * k - 1], u[IF 2 * k <= a THEN 2 * k ELSE 2 * k - 1])
  BY <1>1, <1>3, NextLevelFacts
<1>5. /\ Len(w) = (b + 1) \div 2
      /\ \A k \in 1..Len(w) :
           w[k] = Merkle!hashPair(v[2 * k - 1], v[IF 2 * k <= b THEN 2 * k ELSE 2 * k - 1])
  BY <1>2, <1>3, NextLevelFacts
<1>6. PICK p \in Nat : p = Len(w) /\ p = (a + 1) \div 2 /\ p = (b + 1) \div 2
  BY <1>4, <1>5
<1>7. \A m \in 1..a, n \in 1..b : u[m] = v[n] => m = n
  BY <1>1, <1>2
<1> DEFINE second(k, n) == IF 2 * k <= n THEN 2 * k ELSE 2 * k - 1
<1>8. ASSUME NEW k \in 1..p
      PROVE  /\ u[2 * k - 1] = v[2 * k - 1]
             /\ second(k, a) = second(k, b)
             /\ u[second(k, a)] = v[second(k, a)]
  <2>1. PICK i : i = 2 * k - 1
    OBVIOUS
  <2>2. PICK c : c = second(k, a)
    OBVIOUS
  <2>3. PICK d : d = second(k, b)
    OBVIOUS
  <2>4. i \in 1..a /\ i \in 1..b /\ c \in 1..a /\ d \in 1..b
    BY <1>6, <2>1, <2>2, <2>3
  <2>5. Merkle!hashPair(u[i], u[c]) = Merkle!hashPair(v[i], v[d])
    BY <1>4, <1>5, <1>6, <2>1, <2>2, <2>3
  <2>6. (u[i] = v[i] /\ u[c] = v[d]) \/ (u[i] = v[d] /\ u[c] = v[i])
    BY <2>5, Digests
  <2>7. u[i] = v[i] /\ c = d /\ u[c] = v[d]
    BY <1>7, <2>4, <2>6
  <2> QED
    BY <2>1, <2>2, <2>3, <2>7
<1>9. a = b
  <2>1. p \in 1..p
    BY <1>6
  <2>2. second(p, a) = second(p, b)
    BY <1>8, <2>1
  <2> QED
    BY <1>6, <2>2
<1>10. ASSUME NEW i \in 1..a PROVE u[i] = v[i]
  <2>1. PICK k \in 1..p : i = 2 * k - 1 \/ (i = 2 * k /\ 2 * k <= a)
    <3>1. (i + 1) \div 2 \in 1..p
      BY <1>6
    <3>2. i = 2 * ((i + 1) \div 2) - 1 \/ i = 2 * ((i + 1) \div 2)
      OBVIOUS
    <3> QED
      BY <3>1, <3>2
  <2> QED
    BY <1>8, <2>1
<1> QED
  BY <1>1, <1>2, <1>9, <1>10 DEF IsLevel

\* A root has one list.
LEMMA RootsBind ==
  ASSUME NEW x \in NonEmptySeq(Hashes), NEW y \in NonEmptySeq(Hashes),
         Merkle!Root(x) = Merkle!Root(y)
  PROVE  x = y
<1>1. PICK A : A = Tree(x)
  OBVIOUS
<1>2. PICK B : B = Tree(y)
  OBVIOUS
<1>3. IsTree(A, x) /\ IsTree(B, y) /\ Len(x) \in Nat \ {0} /\ Len(y) \in Nat \ {0}
  BY <1>1, <1>2, TreeFacts, LeavesFacts
<1>4. \A d \in 0..Len(x) : Distinct(A, x, B, y, d)
  BY <1>3, NodesDistinct
<1>5. PICK D \in 0..Len(x) : Len(A[D]) = 1 /\ Merkle!Root(x) = A[D][1]
  BY <1>1, RootIsTop
<1>6. PICK E \in 0..Len(y) : Len(B[E]) = 1 /\ Merkle!Root(y) = B[E][1]
  BY <1>2, RootIsTop
<1>7. D = E /\ A[D][1] = B[E][1]
  <2>1. A[D][1] = B[E][1]
    BY <1>5, <1>6
  <2>2. 1..Len(A[D]) = {1} /\ 1..Len(B[E]) = {1}
    BY <1>5, <1>6
  <2> QED
    BY <1>4, <2>1, <2>2 DEF Distinct
<1> DEFINE K == {f \in 0..D : A[D - f] # B[D - f]}
<1>8. K = {}
  <2> SUFFICES ASSUME K # {} PROVE FALSE
    OBVIOUS
  <2>1. PICK m \in K : \A k \in K : m <= k
    <3>1. K \subseteq Nat
      BY <1>3
    <3> HIDE DEF K
    <3> QED
      BY <3>1, Least
  <2>2. PICK g : g = D - m
    OBVIOUS
  <2>3. m \in 0..D /\ D \in Nat /\ g \in 0..Len(x) /\ g \in 0..Len(y) /\ A[g] # B[g]
    BY <1>3, <1>5, <1>6, <1>7, <2>1, <2>2
  <2>4. IsLevel(A[g]) /\ IsLevel(B[g])
    BY <1>3, <2>3 DEF IsTree
  <2>5. CASE m = 0
    <3>1. g = D
      BY <2>2, <2>3, <2>5
    <3>2. Len(A[g]) = 1 /\ Len(B[g]) = 1 /\ A[g][1] = B[g][1]
      BY <1>5, <1>6, <1>7, <3>1
    <3> QED
      BY <2>3, <2>4, <3>2 DEF IsLevel
  <2>6. CASE m # 0
    <3>1. PICK h : h = g + 1
      OBVIOUS
    <3>2. /\ h \in 0..Len(x) /\ h \in 0..Len(y) /\ h # 0 /\ g = h - 1
          /\ m - 1 \in 0..D /\ h = D - (m - 1) /\ ~(m <= m - 1)
      BY <1>3, <1>5, <1>6, <1>7, <2>2, <2>3, <2>6, <3>1
    <3>3. A[h] = B[h]
      BY <2>1, <3>2
    <3>4. A[h] = Merkle!NextLevel(A[g]) /\ B[h] = Merkle!NextLevel(B[g])
      BY <1>3, <3>2 DEF IsTree
    <3>5. \A i \in 1..Len(A[g]), n \in 1..Len(B[g]) : A[g][i] = B[g][n] => i = n
      BY <1>4, <2>3 DEF Distinct
    <3> QED
      BY <2>3, <2>4, <3>3, <3>4, <3>5, LevelBinds
  <2> QED
    BY <2>5, <2>6
<1>9. Leaves(x) = Leaves(y)
  <2>1. D \in 0..D /\ D - D = 0
    BY <1>3, <1>5
  <2>2. A[0] = B[0]
    BY <1>8, <2>1
  <2> QED
    BY <1>3, <2>2 DEF IsTree
<1>10. Len(x) = Len(y)
  BY <1>9, LeavesFacts
<1>11. ASSUME NEW i \in 1..Len(x) PROVE x[i] = y[i]
  <2>1. Merkle!Leaf(i, x[i]) = Merkle!Leaf(i, y[i]) /\ i \in Int
    BY <1>3, <1>9, <1>10, LeavesFacts
  <2> QED
    BY <2>1, Digests
<1>12. x \in Seq(Hashes) /\ y \in Seq(Hashes)
  BY DEF NonEmptySeq
<1> QED
  BY <1>10, <1>11, <1>12, SeqEqual

-----------------------------------------------------------------------------
(* The client: the order of the keys, and a walk in that order.            *)

\* The print of a number has one digit more than that of its tenth.
LEMMA DigitsDef ==
  \A n \in 0..MaxSeq :
     Listing!Digits[n] = IF n < 10 THEN <<n>>
                         ELSE Append(Listing!Digits[n \div 10], n % 10)
<1> DEFINE body(g, n) == IF n < 10 THEN <<n>> ELSE Append(g[n \div 10], n % 10)
           upTo(g, k) == g = [n \in 0..k |-> body(g, n)]
           K == {k \in Nat : ~ \E g : upTo(g, k)}
<1>1. K = {}
  <2> SUFFICES ASSUME K # {} PROVE FALSE
    OBVIOUS
  <2>1. PICK m \in K : \A k \in K : m <= k
    <3>1. K \subseteq Nat
      OBVIOUS
    <3> HIDE DEF K
    <3> QED
      BY <3>1, Least
  <2>2. PICK g : \A n \in 0..(m - 1) : g[n] = body(g, n)
    <3>1. CASE m = 0
      BY <3>1
    <3>2. CASE m # 0
      <4>1. m - 1 \in Nat /\ ~(m <= m - 1)
        BY <3>2
      <4>2. PICK g : upTo(g, m - 1)
        BY <2>1, <4>1
      <4>3. \A n \in 0..(m - 1) : g[n] = [x \in 0..(m - 1) |-> body(g, x)][n]
        BY <4>2
      <4> HIDE DEF body
      <4> QED
        BY <4>3
    <3> QED
      BY <3>1, <3>2
  <2> DEFINE h == [n \in 0..m |-> body(g, n)]
  <2>3. ASSUME NEW n \in 0..(m - 1) PROVE h[n] = g[n]
    <3>1. n \in 0..m /\ g[n] = body(g, n)
      BY <2>2
    <3> HIDE DEF body
    <3> QED
      BY <3>1
  <2>4. \A n \in 0..m : ~(n < 10) => n \div 10 \in 0..(m - 1)
    OBVIOUS
  <2>5. \A n \in 0..m : body(g, n) = body(h, n)
    <3> HIDE DEF h
    <3> QED
      BY <2>3, <2>4
  <2>6. h = [n \in 0..m |-> body(h, n)]
    <3>1. PICK f : f = h
      OBVIOUS
    <3>2. \A n \in 0..m : body(g, n) = body(f, n)
      BY <2>5, <3>1
    <3>3. [n \in 0..m |-> body(g, n)] = [n \in 0..m |-> body(f, n)]
      <4> HIDE DEF body
      <4> QED
        BY <3>2
    <3> QED
      BY <3>1, <3>3
  <2> HIDE DEF h
  <2> QED
    BY <2>6
<1> DEFINE digits == CHOOSE g : upTo(g, MaxSeq)
<1>2. upTo(digits, MaxSeq)
  BY <1>1, ClientAssumption
<1>3. Listing!Digits = digits
  BY DEF Listing!Digits
<1> HIDE DEF digits
<1>4. \A n \in 0..MaxSeq : digits[n] = [x \in 0..MaxSeq |-> body(digits, x)][n]
  BY <1>2
<1> QED
  BY <1>3, <1>4

\* A list and its last element are told by the two together.
LEMMA AppendBinds ==
  ASSUME NEW S, NEW s \in Seq(S), NEW t \in Seq(S), NEW e \in S, NEW f \in S,
         Append(s, e) = Append(t, f)
  PROVE  s = t /\ e = f
<1>1. PICK u : u = Append(s, e)
  OBVIOUS
<1>2. /\ Len(u) = Len(s) + 1 /\ u[Len(s) + 1] = e
      /\ \A i \in 1..Len(s) : u[i] = s[i]
  BY <1>1, AppendProperties
<1>3. /\ Len(u) = Len(t) + 1 /\ u[Len(t) + 1] = f
      /\ \A i \in 1..Len(t) : u[i] = t[i]
  BY <1>1, AppendProperties
<1>4. Len(s) \in Nat /\ Len(t) \in Nat
  BY LenProperties
<1>5. Len(s) = Len(t)
  BY <1>2, <1>3, <1>4
<1>6. e = f /\ \A i \in 1..Len(s) : s[i] = t[i]
  BY <1>2, <1>3, <1>5
<1> QED
  BY <1>5, <1>6, SeqEqual

\* Prints are lists of digits, and different numbers have different prints.
LEMMA DigitsFacts ==
  \A n \in 0..MaxSeq :
     /\ Listing!Digits[n] \in Seq(0..9) /\ Len(Listing!Digits[n]) \in Nat \ {0}
     /\ \A m \in 0..MaxSeq : Listing!Digits[m] = Listing!Digits[n] => m = n
<1>1. PICK D : D = Listing!Digits
  OBVIOUS
<1>2. \A n \in 0..MaxSeq : D[n] = IF n < 10 THEN <<n>> ELSE Append(D[n \div 10], n % 10)
  BY <1>1, DigitsDef
<1>3. ASSUME NEW n \in 0..MaxSeq, n < 10
      PROVE  D[n] = <<n>> /\ D[n][1] = n /\ D[n] \in Seq(0..9) /\ Len(D[n]) = 1
  <2>1. D[n] = <<n>>
    BY <1>2, <1>3
  <2>2. n \in 0..9
    BY <1>3, ClientAssumption
  <2> QED
    BY <2>1, <2>2
<1>4. ASSUME NEW n \in 0..MaxSeq, ~(n < 10)
      PROVE  /\ n \div 10 \in 0..MaxSeq /\ n % 10 \in 0..9 /\ n \div 10 < n
             /\ D[n] = Append(D[n \div 10], n % 10)
  <2>1. n \in Nat
    BY ClientAssumption
  <2>2. n \div 10 \in 0..MaxSeq /\ n % 10 \in 0..9 /\ n \div 10 < n
    BY <1>4, <2>1, ClientAssumption
  <2> QED
    BY <1>2, <1>4, <2>2
<1> DEFINE K == {n \in 0..MaxSeq : ~(D[n] \in Seq(0..9) /\ Len(D[n]) \in Nat \ {0})}
<1>5. K = {}
  <2> SUFFICES ASSUME K # {} PROVE FALSE
    OBVIOUS
  <2>1. PICK n \in K : \A k \in K : n <= k
    <3>1. K \subseteq Nat
      BY ClientAssumption
    <3> HIDE DEF K
    <3> QED
      BY <3>1, Least
  <2>2. n \in 0..MaxSeq /\ ~(D[n] \in Seq(0..9) /\ Len(D[n]) \in Nat \ {0})
    OBVIOUS
  <2>3. ~(n < 10)
    BY <1>3, <2>2
  <2>4. PICK m : m = n \div 10
    OBVIOUS
  <2>5. m \in 0..MaxSeq /\ n % 10 \in 0..9 /\ ~(n <= m) /\ D[n] = Append(D[m], n % 10)
    BY <1>4, <2>2, <2>3, <2>4, ClientAssumption
  <2>6. D[m] \in Seq(0..9) /\ Len(D[m]) \in Nat
    BY <2>1, <2>5
  <2> QED
    BY <2>2, <2>5, <2>6, AppendProperties
<1>6. \A n \in 0..MaxSeq : D[n] \in Seq(0..9) /\ Len(D[n]) \in Nat \ {0}
  BY <1>5
<1> HIDE DEF K
<1>7. \A n \in 0..MaxSeq : ~(n < 10) => Len(D[n]) # 1
  <2> SUFFICES ASSUME NEW n \in 0..MaxSeq, ~(n < 10) PROVE Len(D[n]) # 1
    OBVIOUS
  <2>1. PICK m \in 0..MaxSeq : n % 10 \in 0..9 /\ D[n] = Append(D[m], n % 10)
    BY <1>4
  <2> QED
    BY <1>6, <2>1, AppendProperties
<1> DEFINE L == {n \in 0..MaxSeq : \E m \in 0..MaxSeq : D[m] = D[n] /\ m # n}
<1>8. L = {}
  <2> SUFFICES ASSUME L # {} PROVE FALSE
    OBVIOUS
  <2>1. PICK n \in L : \A k \in L : n <= k
    <3>1. L \subseteq Nat
      BY ClientAssumption
    <3> HIDE DEF L
    <3> QED
      BY <3>1, Least
  <2>2. PICK m \in 0..MaxSeq : D[m] = D[n] /\ m # n
    OBVIOUS
  <2>3. n \in 0..MaxSeq
    OBVIOUS
  <2>4. CASE n < 10
    <3>1. D[n][1] = n /\ Len(D[n]) = 1
      BY <1>3, <2>3, <2>4
    <3>2. m < 10
      BY <1>7, <2>2, <3>1
    <3>3. D[m][1] = m
      BY <1>3, <3>2
    <3> QED
      BY <2>2, <3>1, <3>3
  <2>5. CASE ~(n < 10)
    <3>1. ~(m < 10)
      BY <1>3, <1>7, <2>2, <2>3, <2>5
    <3>2. PICK p \in 0..MaxSeq : /\ p = n \div 10 /\ n % 10 \in 0..9 /\ p < n
                                 /\ D[n] = Append(D[p], n % 10)
      BY <1>4, <2>3, <2>5
    <3>3. PICK q \in 0..MaxSeq : /\ q = m \div 10 /\ m % 10 \in 0..9
                                 /\ D[m] = Append(D[q], m % 10)
      BY <1>4, <3>1
    <3>4. D[p] = D[q] /\ n % 10 = m % 10
      <4>1. PICK r \in Seq(0..9) : r = D[p]
        BY <1>6
      <4>2. PICK s \in Seq(0..9) : s = D[q]
        BY <1>6
      <4>3. PICK e \in 0..9 : e = n % 10
        BY <3>2
      <4>4. PICK f \in 0..9 : f = m % 10
        BY <3>3
      <4>5. Append(r, e) = Append(s, f)
        BY <2>2, <3>2, <3>3, <4>1, <4>2, <4>3, <4>4
      <4>6. r = s /\ e = f
        BY <4>5, AppendBinds
      <4> QED
        BY <4>1, <4>2, <4>3, <4>4, <4>6
    <3>5. p = q
      <4>1. ~(n <= p)
        BY <2>3, <3>2, ClientAssumption
      <4>2. p \notin L
        BY <2>1, <4>1
      <4> QED
        BY <3>4, <4>2
    <3>6. m \in Int /\ n \in Int
      BY <2>3, ClientAssumption
    <3> QED
      BY <2>2, <3>2, <3>3, <3>4, <3>5, <3>6
  <2> QED
    BY <2>4, <2>5
<1> QED
  BY <1>1, <1>6, <1>8

\* The byte order of two prints.
Before(a, b) ==
    \E k \in 1..Len(b) :
       /\ \A j \in 1..(k - 1) : j <= Len(a) /\ a[j] = b[j]
       /\ k > Len(a) \/ a[k] < b[k]

\* It is a strict total order.
LEMMA BeforeOrder ==
  ASSUME NEW a \in Seq(0..9), NEW b \in Seq(0..9)
  PROVE  /\ ~ Before(a, a)
         /\ a = b \/ Before(a, b) \/ Before(b, a)
         /\ \A c \in Seq(0..9) : Before(a, b) /\ Before(b, c) => Before(a, c)
<1>1. /\ Len(a) \in Nat /\ Len(b) \in Nat
      /\ \A i \in 1..Len(a) : a[i] \in 0..9
      /\ \A i \in 1..Len(b) : b[i] \in 0..9
  BY ElementOfSeq, LenProperties
<1>2. ~ Before(a, a)
  BY <1>1 DEF Before
<1>3. a = b \/ Before(a, b) \/ Before(b, a)
  <2> SUFFICES ASSUME a # b PROVE Before(a, b) \/ Before(b, a)
    OBVIOUS
  <2> DEFINE K == {k \in Nat \ {0} : k > Len(a) \/ k > Len(b) \/ a[k] # b[k]}
  <2>1. Len(a) + 1 \in K
    BY <1>1
  <2>2. PICK k \in K : \A j \in K : k <= j
    <3>1. K \subseteq Nat /\ K # {}
      BY <2>1
    <3> HIDE DEF K
    <3> QED
      BY <3>1, Least
  <2>3. k \in Nat \ {0} /\ (k > Len(a) \/ k > Len(b) \/ a[k] # b[k])
    OBVIOUS
  <2>4. \A j \in 1..(k - 1) : j <= Len(a) /\ j <= Len(b) /\ a[j] = b[j]
    <3> SUFFICES ASSUME NEW j \in 1..(k - 1)
                 PROVE  j <= Len(a) /\ j <= Len(b) /\ a[j] = b[j]
      OBVIOUS
    <3>1. j \in Nat \ {0} /\ ~(k <= j)
      BY <2>3
    <3>2. j \notin K
      BY <2>2, <3>1
    <3> QED
      BY <1>1, <3>1, <3>2
  <2>5. ~(k > Len(a) /\ k > Len(b))
    <3> SUFFICES ASSUME k > Len(a), k > Len(b) PROVE FALSE
      OBVIOUS
    <3>1. Len(a) = k - 1
      <4>1. k - 1 # 0 => k - 1 <= Len(a)
        BY <2>3, <2>4
      <4> QED
        BY <1>1, <2>3, <4>1
    <3>2. Len(b) = k - 1
      <4>1. k - 1 # 0 => k - 1 <= Len(b)
        BY <2>3, <2>4
      <4> QED
        BY <1>1, <2>3, <4>1
    <3> QED
      BY <2>4, <3>1, <3>2, SeqEqual
  <2>6. CASE k <= Len(b) /\ (k > Len(a) \/ a[k] < b[k])
    BY <1>1, <2>3, <2>4, <2>6 DEF Before
  <2>7. CASE k <= Len(a) /\ (k > Len(b) \/ b[k] < a[k])
    BY <1>1, <2>3, <2>4, <2>7 DEF Before
  <2> QED
    BY <1>1, <2>3, <2>5, <2>6, <2>7
<1>4. ASSUME NEW c \in Seq(0..9), Before(a, b), Before(b, c) PROVE Before(a, c)
  <2>1. Len(c) \in Nat /\ \A i \in 1..Len(c) : c[i] \in 0..9
    BY ElementOfSeq, LenProperties
  <2>2. PICK k \in 1..Len(b) : /\ \A j \in 1..(k - 1) : j <= Len(a) /\ a[j] = b[j]
                               /\ k > Len(a) \/ a[k] < b[k]
    BY <1>4 DEF Before
  <2>3. PICK l \in 1..Len(c) : /\ \A j \in 1..(l - 1) : j <= Len(b) /\ b[j] = c[j]
                               /\ l > Len(b) \/ b[l] < c[l]
    BY <1>4 DEF Before
  <2>4. CASE k < l
    <3>1. \A j \in 1..(k - 1) : j <= Len(a) /\ a[j] = c[j]
      BY <1>1, <2>1, <2>2, <2>3, <2>4
    <3>2. k \in 1..Len(c) /\ b[k] = c[k]
      BY <1>1, <2>1, <2>3, <2>4
    <3> QED
      BY <2>2, <3>1, <3>2 DEF Before
  <2>5. CASE k = l
    <3>1. \A j \in 1..(k - 1) : j <= Len(a) /\ a[j] = c[j]
      BY <1>1, <2>1, <2>2, <2>3, <2>5
    <3>2. k \in 1..Len(c) /\ b[k] < c[k]
      <4>1. ~(l > Len(b))
        BY <1>1, <2>5
      <4> QED
        BY <2>3, <2>5, <4>1
    <3>3. b[k] \in 0..9 /\ c[k] \in 0..9 /\ (k <= Len(a) => a[k] \in 0..9)
      BY <1>1, <2>1, <3>2
    <3>4. k > Len(a) \/ a[k] < c[k]
      <4>1. CASE k > Len(a)
        BY <4>1
      <4>2. CASE ~(k > Len(a))
        <5>1. k <= Len(a) /\ a[k] < b[k]
          BY <1>1, <2>2, <4>2
        <5>2. \A m, n, o \in 0..9 : m < n /\ n < o => m < o
          OBVIOUS
        <5> QED
          BY <3>2, <3>3, <5>1, <5>2
      <4> QED
        BY <4>1, <4>2
    <3> QED
      BY <3>1, <3>2, <3>4 DEF Before
  <2>6. CASE l < k
    <3>1. \A j \in 1..(l - 1) : j <= Len(a) /\ a[j] = c[j]
      BY <1>1, <2>1, <2>2, <2>3, <2>6
    <3>2. l \in 1..Len(c) /\ a[l] < c[l]
      <4>1. l \in 1..(k - 1) /\ ~(l > Len(b))
        BY <1>1, <2>1, <2>6
      <4> QED
        BY <2>2, <2>3, <4>1
    <3> QED
      BY <3>1, <3>2 DEF Before
  <2> QED
    BY <1>1, <2>1, <2>4, <2>5, <2>6
<1> QED
  BY <1>2, <1>3, <1>4

\* The keys are totally ordered.
LEMMA KeyOrder ==
  /\ \A m \in 0..MaxSeq : ~ Listing!KeyLess(m, m)
  /\ \A m, n \in 0..MaxSeq : m = n \/ Listing!KeyLess(m, n) \/ Listing!KeyLess(n, m)
  /\ \A m, n, o \in 0..MaxSeq :
        Listing!KeyLess(m, n) /\ Listing!KeyLess(n, o) => Listing!KeyLess(m, o)
<1>1. PICK D : D = Listing!Digits
  OBVIOUS
<1>2. \A m, n : Listing!KeyLess(m, n) <=> Before(D[m], D[n])
  BY <1>1 DEF Listing!KeyLess, Before
<1>3. \A n \in 0..MaxSeq :
         D[n] \in Seq(0..9) /\ \A m \in 0..MaxSeq : D[m] = D[n] => m = n
  BY <1>1, DigitsFacts
<1>4. ASSUME NEW m \in 0..MaxSeq PROVE ~ Before(D[m], D[m])
  BY <1>3, BeforeOrder
<1>5. ASSUME NEW m \in 0..MaxSeq, NEW n \in 0..MaxSeq
      PROVE  m = n \/ Before(D[m], D[n]) \/ Before(D[n], D[m])
  <2>1. D[m] \in Seq(0..9) /\ D[n] \in Seq(0..9)
    BY <1>3
  <2>2. D[m] = D[n] \/ Before(D[m], D[n]) \/ Before(D[n], D[m])
    BY <2>1, BeforeOrder
  <2> QED
    BY <1>3, <2>2
<1>6. ASSUME NEW m \in 0..MaxSeq, NEW n \in 0..MaxSeq, NEW o \in 0..MaxSeq,
             Before(D[m], D[n]), Before(D[n], D[o])
      PROVE  Before(D[m], D[o])
  <2>1. D[m] \in Seq(0..9) /\ D[n] \in Seq(0..9) /\ D[o] \in Seq(0..9)
    BY <1>3
  <2> QED
    BY <1>6, <2>1, BeforeOrder
<1> QED
  BY <1>2, <1>4, <1>5, <1>6

\* A set of numbers is finite.
LEMMA NumbersFinite ==
  ASSUME NEW S, S \subseteq 0..MaxSeq
  PROVE  IsFiniteSet(S) /\ Cardinality(S) \in Nat
<1>1. IsFiniteSet(0..MaxSeq)
  BY FS_Interval, ClientAssumption
<1> QED
  BY <1>1, FS_Subset, FS_CardinalityType

\* Walk lists all of a set, in the order of the keys.
LEMMA WalkInOrder ==
  ASSUME NEW S, S \subseteq 0..MaxSeq
  PROVE  LET w == Listing!Walk(S)
         IN  /\ w \in Seq(S)
             /\ \A n \in S : \E i \in 1..Len(w) : w[i] = n
             /\ \A i, j \in 1..Len(w) : i < j => Listing!KeyLess(w[i], w[j])
<1> DEFINE below(n) == {m \in S : Listing!KeyLess(m, n)}
           rank == [n \in S |-> Cardinality(below(n))]
           c == Cardinality(S)
           w == Listing!Walk(S)
<1>1. IsFiniteSet(S) /\ c \in Nat
  BY NumbersFinite
<1>2. ASSUME NEW n \in S
      PROVE  IsFiniteSet(below(n)) /\ rank[n] \in Nat /\ rank[n] \in 0..(c - 1)
  <2>1. below(n) \in SUBSET (S \ {n})
    BY KeyOrder
  <2>2. IsFiniteSet(S \ {n}) /\ Cardinality(S \ {n}) = c - 1
    BY <1>1, FS_RemoveElement
  <2>3. IsFiniteSet(below(n)) /\ Cardinality(below(n)) <= c - 1
    <3> HIDE DEF below
    <3>1. IsFiniteSet(below(n)) /\ Cardinality(below(n)) <= Cardinality(S \ {n})
      BY <2>1, <2>2, FS_Subset
    <3> QED
      BY <2>2, <3>1
  <2>4. Cardinality(below(n)) \in Nat
    BY <2>3, FS_CardinalityType
  <2> QED
    BY <1>1, <2>3, <2>4
<1>3. ASSUME NEW m \in S, NEW n \in S, Listing!KeyLess(m, n)
      PROVE  rank[m] < rank[n]
  <2>1. m \in 0..MaxSeq /\ n \in 0..MaxSeq
    OBVIOUS
  <2>2. \A k \in below(m) : k \in below(n)
    <3> SUFFICES ASSUME NEW k \in S, Listing!KeyLess(k, m) PROVE Listing!KeyLess(k, n)
      OBVIOUS
    <3>1. k \in 0..MaxSeq
      OBVIOUS
    <3> QED
      BY <1>3, <2>1, <3>1, KeyOrder
  <2>3. below(m) \in SUBSET below(n) /\ m \in below(n) /\ m \notin below(m)
    BY <1>3, <2>1, <2>2, KeyOrder
  <2>4. IsFiniteSet(below(n))
    BY <1>2
  <2> HIDE DEF below
  <2>5. /\ Cardinality(below(m)) <= Cardinality(below(n))
        /\ Cardinality(below(n)) # Cardinality(below(m))
    BY <2>3, <2>4, FS_Subset
  <2>6. rank[m] = Cardinality(below(m)) /\ rank[n] = Cardinality(below(n))
    OBVIOUS
  <2>7. rank[m] \in Nat /\ rank[n] \in Nat
    BY <1>2
  <2> QED
    BY <2>5, <2>6, <2>7
<1>4. /\ w = [i \in 1..c |-> CHOOSE n \in S : Cardinality(below(n)) = i - 1]
      /\ \A n \in S : rank[n] = Cardinality(below(n))
  <2>1. w = [i \in 1..c |-> CHOOSE n \in S : Cardinality(below(n)) = i - 1]
    <3>1. Listing!Walk(S) =
            [i \in 1..Cardinality(S) |->
               CHOOSE n \in S : Cardinality({m \in S : Listing!KeyLess(m, n)}) = i - 1]
      BY DEF Listing!Walk, Listing!Cardinality, Cardinality
    <3> QED
      BY <3>1
  <2>2. ASSUME NEW n \in S PROVE rank[n] = Cardinality(below(n))
    <3> HIDE DEF below
    <3> QED
      OBVIOUS
  <2> QED
    BY <2>1, <2>2
<1> HIDE DEF below, w
<1>5. rank \in Surjection(S, 0..(c - 1)) /\ rank \in Injection(S, 0..(c - 1))
  <2>1. rank \in [S -> 0..(c - 1)]
    BY <1>2
  <2> HIDE DEF rank
  <2>2. \A m, n \in S : rank[m] = rank[n] => m = n
    <3> SUFFICES ASSUME NEW m \in S, NEW n \in S, m # n PROVE rank[m] # rank[n]
      OBVIOUS
    <3>1. Listing!KeyLess(m, n) \/ Listing!KeyLess(n, m)
      BY KeyOrder
    <3>2. rank[m] \in Nat /\ rank[n] \in Nat
      BY <1>2
    <3> QED
      BY <1>3, <3>1, <3>2
  <2>3. rank \in Injection(S, 0..(c - 1))
    BY <2>1, <2>2 DEF Injection, IsInjective
  <2>4. IsFiniteSet(0..(c - 1)) /\ Cardinality(0..(c - 1)) = c
    <3> HIDE DEF c
    <3> QED
      BY <1>1, FS_Interval
  <2> QED
    BY <2>3, <2>4, FS_Injection
<1> HIDE DEF rank, c
<1>6. ASSUME NEW i \in 1..c PROVE w[i] \in S /\ rank[w[i]] = i - 1
  <2>1. i - 1 \in 0..(c - 1)
    BY <1>1
  <2>2. \E n \in S : rank[n] = i - 1
    BY <1>5, <2>1 DEF Surjection
  <2>3. \E n \in S : Cardinality(below(n)) = i - 1
    BY <1>4, <2>2
  <2>4. w[i] = CHOOSE n \in S : Cardinality(below(n)) = i - 1
    BY <1>4
  <2>5. w[i] \in S /\ Cardinality(below(w[i])) = i - 1
    BY <2>3, <2>4
  <2> QED
    BY <1>4, <2>5
<1>7. w = [i \in 1..c |-> w[i]]
  BY <1>4
<1>8. Len(w) = c
  BY <1>1, <1>7, ListLength
<1>9. w \in Seq(S)
  <2>1. w \in [1..c -> S]
    BY <1>6, <1>7
  <2> QED
    BY <1>1, <2>1, SeqDef
<1>10. ASSUME NEW n \in S PROVE \E i \in 1..Len(w) : w[i] = n
  <2>1. PICK i : i = rank[n] + 1
    OBVIOUS
  <2>2. i \in 1..c /\ i - 1 = rank[n]
    BY <1>1, <1>2, <2>1
  <2>3. w[i] \in S /\ rank[w[i]] = rank[n]
    BY <1>6, <2>2
  <2>4. w[i] = n
    BY <1>5, <2>3 DEF Injection, IsInjective
  <2> QED
    BY <1>8, <2>2, <2>4
<1>11. ASSUME NEW i \in 1..Len(w), NEW j \in 1..Len(w), i < j
       PROVE  Listing!KeyLess(w[i], w[j])
  <2>1. i \in Nat /\ j \in Nat /\ i \in 1..c /\ j \in 1..c
    BY <1>1, <1>8
  <2>2. w[i] \in S /\ w[j] \in S /\ rank[w[i]] = i - 1 /\ rank[w[j]] = j - 1
    BY <1>6, <2>1
  <2>3. w[i] # w[j] /\ ~(rank[w[j]] < rank[w[i]])
    BY <1>11, <2>1, <2>2
  <2>4. ~ Listing!KeyLess(w[j], w[i])
    BY <1>3, <2>2, <2>3
  <2>5. w[i] \in 0..MaxSeq /\ w[j] \in 0..MaxSeq
    BY <2>2
  <2> QED
    BY <2>3, <2>4, <2>5, KeyOrder
<1> QED
  BY <1>9, <1>10, <1>11 DEF w

\* A page is the first entries of the walk, and is added to the end of what was
\* listed.
LEMMA PageFacts ==
  ASSUME NEW S, NEW w \in Seq(S), NEW l \in 0..Len(w)
  PROVE  \E page \in Seq(S) : /\ page = SubSeq(w, 1, l) /\ Len(page) = l
                              /\ \A i \in 1..l : page[i] = w[i]
<1>1. Len(w) \in Nat
  BY LenProperties
<1>2. \A i \in 1..l : w[i] \in S
  BY <1>1, ElementOfSeq
<1>3. l \in Int /\ (IF 1 <= l THEN l - 1 + 1 ELSE 0) = l /\ l - 1 + 1 = l
  BY <1>1
<1>4. PICK page : page = SubSeq(w, 1, l)
  OBVIOUS
<1>5. /\ page \in Seq(S) /\ Len(page) = l
      /\ \A i \in 1..l : page[i] = w[1 + i - 1]
  BY <1>2, <1>3, <1>4, SubSeqProperties
<1>6. \A i \in 1..l : page[i] = w[i]
  <2>1. \A i \in 1..l : 1 + i - 1 = i
    BY <1>1
  <2> QED
    BY <1>5, <2>1
<1> QED
  BY <1>4, <1>5, <1>6

\* What was listed keeps its place when the page is added.
LEMMA PageAppends ==
  ASSUME NEW S, NEW s \in Seq(S), NEW page \in Seq(S), NEW t, t = s \o page
  PROVE  /\ t \in Seq(S) /\ Len(t) = Len(s) + Len(page)
         /\ \A i \in 1..Len(s) : t[i] = s[i]
         /\ \A i \in 1..Len(page) : t[Len(s) + i] = page[i]
<1>1. Len(s) \in Nat /\ Len(page) \in Nat
  BY LenProperties
<1>3. /\ t \in Seq(S) /\ Len(t) = Len(s) + Len(page)
      /\ \A i \in 1..(Len(s) + Len(page)) :
            t[i] = IF i <= Len(s) THEN s[i] ELSE page[i - Len(s)]
  <2>1. /\ s \o page \in Seq(S) /\ Len(s \o page) = Len(s) + Len(page)
        /\ \A i \in 1..(Len(s) + Len(page)) :
              (s \o page)[i] = IF i <= Len(s) THEN s[i] ELSE page[i - Len(s)]
    BY ConcatProperties, Zenon
  <2> QED
    BY <2>1, Zenon
<1>4. \A i \in 1..Len(s) : t[i] = s[i]
  BY <1>1, <1>3
<1>5. ASSUME NEW i \in 1..Len(page) PROVE t[Len(s) + i] = page[i]
  <2>1. PICK k : k = Len(s) + i
    OBVIOUS
  <2>2. k \in 1..(Len(s) + Len(page)) /\ ~(k <= Len(s)) /\ k - Len(s) = i
    BY <1>1, <2>1
  <2>3. t[k] = page[i]
    BY <1>3, <2>2
  <2> QED
    BY <2>1, <2>3
<1> QED
  BY <1>3, <1>4, <1>5

-----------------------------------------------------------------------------
(* The invariant of the client.                                            *)

\* The numbers of the records of the batch.
BatchRange == (header + 1)..(header + Len(items))

\* The message, and what its verdict says.
MessageInv ==
    /\ published \in NonEmptySeq(Hashes)
    /\ items \in Seq(Hashes)
    /\ verdict \in {"none", "accepted", "rejected"}
    /\ RootBindsItems

\* What the listing has not shown lies ahead of its cursor, and what it has
\* shown lies behind it.
ListingInv ==
    /\ Listing!ListingComplete
    /\ cursor # Listing!End =>
          /\ existing \subseteq Listing!Listed \cup Listing!FromKey(byCategory[scan], cursor)
          /\ \A i \in DOMAIN seen :
                cursor # Listing!Start /\ Listing!KeyLess(seen[i], cursor)

\* An accepted batch is in the index, and in what a listing of its category
\* has to show.
HeaderInv ==
    /\ header \in Nat
    /\ header # 0 <=> verdict = "accepted"
    /\ header # 0 => items = published /\ BatchRange \subseteq byCategory[BatchCategory]
    /\ header = 0 => cursor = Listing!End /\ seen = <<>>
    /\ header # 0 /\ scan = BatchCategory /\ (cursor # Listing!End \/ seen # <<>>) =>
          BatchRange \subseteq existing

ClientIInv == Listing!TypeOK /\ MessageInv /\ ListingInv /\ HeaderInv

\* The lists of the model are non-empty lists of hashes.
LEMMA ListsFacts == Merkle!Lists \subseteq NonEmptySeq(Hashes)
<1> SUFFICES ASSUME NEW n \in 1..MaxLen, NEW f \in [1..n -> Hashes]
             PROVE  f \in NonEmptySeq(Hashes)
  BY DEF Merkle!Lists
<1>1. n \in Nat /\ n # 0
  BY ClientAssumption
<1>2. f \in Seq(Hashes)
  BY <1>1, SeqDef
<1>3. DOMAIN f = 1..n /\ 1 \in 1..n
  BY <1>1
<1>4. f # <<>>
  <2>1. DOMAIN f = 1..Len(f) /\ Len(<<>>) = 0
    BY <1>2, LenProperties, EmptySeq
  <2> QED
    BY <1>3, <2>1
<1> QED
  BY <1>2, <1>4 DEF NonEmptySeq

LEMMA ClientInitIInv == ClientInit => ClientIInv
<1> SUFFICES ASSUME ClientInit PROVE ClientIInv
  OBVIOUS
<1> USE DEF ClientInit
<1>1. seen = <<>> /\ DOMAIN seen = {} /\ seen \in Seq(1..MaxSeq) /\ items = <<>>
  BY DEF Listing!Init, Merkle!Init
<1>2. /\ cursor = Listing!End /\ existing = {} /\ scan \in Categories
      /\ byCategory \in [Categories -> SUBSET (1..MaxSeq)]
      /\ seq = Cardinality(UNION {byCategory[c] : c \in Categories})
  BY ClientAssumption DEF Listing!Init, Listing!Cardinality, Cardinality
<1>3. seq \in 0..MaxSeq
  <2> DEFINE U == UNION {byCategory[c] : c \in Categories}
  <2>1. U \in SUBSET (1..MaxSeq)
    BY <1>2
  <2> HIDE DEF U
  <2>2. IsFiniteSet(1..MaxSeq) /\ Cardinality(1..MaxSeq) = MaxSeq
    <3>1. MaxSeq \in Nat
      BY ClientAssumption
    <3> QED
      BY <3>1, FS_Interval
  <2>3. IsFiniteSet(U) /\ Cardinality(U) <= MaxSeq
    BY <2>1, <2>2, FS_Subset
  <2>4. Cardinality(U) \in Nat
    BY <2>3, FS_CardinalityType
  <2>5. seq = Cardinality(U)
    BY <1>2 DEF U
  <2> QED
    BY <2>3, <2>4, <2>5, ClientAssumption
<1>4. Listing!TypeOK
  BY <1>1, <1>2, <1>3 DEF Listing!TypeOK
<1>5. MessageInv
  <2>1. published \in NonEmptySeq(Hashes)
    BY ListsFacts DEF Merkle!Init
  <2> QED
    BY <1>1, <2>1 DEF MessageInv, RootBindsItems, Merkle!RootBindsItems, Merkle!Init
<1>6. ListingInv
  BY <1>1, <1>2 DEF ListingInv, Listing!ListingComplete
<1>7. HeaderInv
  BY <1>1, <1>2 DEF HeaderInv, Merkle!Init
<1> QED
  BY <1>4, <1>5, <1>6, <1>7 DEF ClientIInv

LEMMA ComposeIInv ==
  ASSUME ClientIInv, NEW h \in Hashes, Compose(h)
  PROVE  ClientIInv'
<1> USE DEF Compose, Merkle!AddItem, ClientIInv, index
<1>1. header = 0 /\ header' = 0 /\ verdict = "none" /\ verdict' = "none"
  BY DEF HeaderInv
<1>2. MessageInv'
  <2>1. items' \in Seq(Hashes)
    BY AppendProperties DEF MessageInv
  <2> QED
    BY <1>1, <2>1 DEF MessageInv, RootBindsItems, Merkle!RootBindsItems
<1>3. Listing!TypeOK'
  BY DEF Listing!TypeOK
<1>4. ListingInv'
  BY DEF ListingInv, Listing!ListingComplete, Listing!Listed, Listing!FromKey
<1>5. HeaderInv'
  BY <1>1 DEF HeaderInv
<1> QED
  BY <1>2, <1>3, <1>4, <1>5

\* Records added to the index stay out of no one's way: what lay ahead of the
\* cursor still does.
LEMMA FromKeyGrows ==
  ASSUME NEW S, NEW T, S \subseteq T, NEW key
  PROVE  Listing!FromKey(S, key) \subseteq Listing!FromKey(T, key)
BY DEF Listing!FromKey

\* verifyMerkleRoot accepts the published list and no other.
LEMMA VerifyExact ==
  ASSUME NEW x \in NonEmptySeq(Hashes), NEW y \in Seq(Hashes)
  PROVE  (y # <<>> /\ Merkle!Root(y) = Merkle!Root(x)) <=> y = x
<1>1. x # <<>>
  BY DEF NonEmptySeq
<1>2. ASSUME y # <<>>, Merkle!Root(y) = Merkle!Root(x) PROVE y = x
  <2>1. y \in NonEmptySeq(Hashes)
    BY <1>2 DEF NonEmptySeq
  <2> QED
    BY <1>2, <2>1, RootsBind
<1> QED
  BY <1>1, <1>2

LEMMA SubmitMessageIInv == ClientIInv /\ SubmitMessage => ClientIInv'
<1> SUFFICES ASSUME ClientIInv, SubmitMessage PROVE ClientIInv'
  OBVIOUS
<1>1. /\ verdict = "none"
      /\ verdict' = IF Merkle!verifyMerkleRoot THEN "accepted" ELSE "rejected"
      /\ published' = published /\ items' = items /\ prefix' = prefix
  BY DEF SubmitMessage, Merkle!Verify
<1>2. published \in NonEmptySeq(Hashes) /\ items \in Seq(Hashes)
  BY DEF ClientIInv, MessageInv
<1>3. header = 0 /\ cursor = Listing!End /\ seen = <<>>
  BY <1>1 DEF ClientIInv, HeaderInv
<1>4. verdict' = "accepted" <=> items = published /\ Merkle!Normalizes(prefix)
  BY <1>1, <1>2, VerifyExact DEF Merkle!verifyMerkleRoot
<1>5. MessageInv'
  <2>1. RootBindsItems'
    BY <1>1, <1>4 DEF RootBindsItems, Merkle!RootBindsItems, Merkle!Normalizes
  <2> QED
    BY <1>1, <1>2, <2>1 DEF MessageInv
<1>6. CASE verdict' = "accepted"
  <2>1. Listing!SubmitBatch(BatchCategory, Len(items)) /\ header' = seq + 1
    BY <1>6 DEF SubmitMessage
  <2>2. PICK n \in Nat : n = Len(items)
    BY <1>2, LenProperties
  <2>3. /\ seq + 1 + n <= MaxSeq
        /\ seq' = seq + 1 + n
        /\ byCategory' = [byCategory EXCEPT ![BatchCategory] = @ \cup (seq + 2)..(seq + 1 + n)]
        /\ scan' = scan /\ cursor' = cursor /\ seen' = seen /\ existing' = existing
    BY <2>1, <2>2 DEF Listing!SubmitBatch
  <2>4. /\ Listing!TypeOK /\ seq \in Nat /\ MaxSeq \in Nat /\ BatchCategory \in Categories
        /\ byCategory \in [Categories -> SUBSET (1..MaxSeq)]
    BY ClientAssumption DEF ClientIInv, Listing!TypeOK
  <2>5. seq' \in 0..MaxSeq /\ (seq + 2)..(seq + 1 + n) \subseteq 1..MaxSeq
    BY <2>3, <2>4
  <2>6. /\ byCategory' \in [Categories -> SUBSET (1..MaxSeq)]
        /\ (seq + 2)..(seq + 1 + n) \subseteq byCategory'[BatchCategory]
    BY <2>3, <2>4, <2>5
  <2>7. Listing!TypeOK'
    BY <2>3, <2>4, <2>5, <2>6 DEF Listing!TypeOK
  <2>8. ListingInv'
    BY <1>3, <2>3 DEF ClientIInv, ListingInv, Listing!ListingComplete, Listing!Listed
  <2>9. BatchRange' = (seq + 2)..(seq + 1 + n)
    <3>1. header' + 1 = seq + 2 /\ header' + Len(items') = seq + 1 + n
      BY <1>1, <2>1, <2>2, <2>4
    <3> QED
      BY <3>1 DEF BatchRange
  <2>10. HeaderInv'
    BY <1>1, <1>3, <1>4, <1>6, <2>1, <2>3, <2>4, <2>6, <2>9 DEF HeaderInv
  <2> QED
    BY <1>5, <2>7, <2>8, <2>10 DEF ClientIInv
<1>7. CASE verdict' # "accepted"
  <2>1. UNCHANGED index /\ header' = 0
    BY <1>3, <1>7 DEF SubmitMessage
  <2>2. Listing!TypeOK'
    BY <2>1 DEF ClientIInv, Listing!TypeOK, index
  <2>3. ListingInv'
    BY <1>3, <2>1 DEF ClientIInv, ListingInv, Listing!ListingComplete, Listing!Listed, index
  <2>4. HeaderInv'
    BY <1>3, <1>7, <2>1 DEF HeaderInv, index
  <2> QED
    BY <1>5, <2>2, <2>3, <2>4 DEF ClientIInv
<1> QED
  BY <1>6, <1>7

LEMMA OtherSubmitIInv ==
  ASSUME ClientIInv, NEW c \in Categories, OtherSubmit(c)
  PROVE  ClientIInv'
<1>1. /\ seq < MaxSeq /\ seq' = seq + 1
      /\ byCategory' = [byCategory EXCEPT ![c] = @ \cup {seq + 1}]
      /\ scan' = scan /\ cursor' = cursor /\ seen' = seen /\ existing' = existing
      /\ UNCHANGED message /\ header' = header
  BY DEF OtherSubmit, Listing!Submit
<1>2. /\ seq \in Nat /\ seq <= MaxSeq /\ MaxSeq \in Nat /\ scan \in Categories
      /\ byCategory \in [Categories -> SUBSET (1..MaxSeq)]
  BY ClientAssumption DEF ClientIInv, Listing!TypeOK
<1>3. /\ byCategory' \in [Categories -> SUBSET (1..MaxSeq)]
      /\ \A d \in Categories : byCategory[d] \subseteq byCategory'[d]
  <2>1. seq + 1 \in 1..MaxSeq
    BY <1>1, <1>2
  <2> QED
    BY <1>1, <1>2, <2>1
<1>4. Listing!TypeOK'
  <2>1. seq' \in 0..MaxSeq
    BY <1>1, <1>2
  <2> QED
    BY <1>1, <1>3, <2>1 DEF ClientIInv, Listing!TypeOK
<1>5. MessageInv'
  BY <1>1 DEF ClientIInv, MessageInv, RootBindsItems, Merkle!RootBindsItems, message
<1>6. ListingInv'
  <2>1. Listing!ListingComplete' /\ Listing!Listed' = Listing!Listed
    BY <1>1 DEF ClientIInv, ListingInv, Listing!ListingComplete, Listing!Listed
  <2>2. Listing!FromKey(byCategory[scan], cursor) \subseteq Listing!FromKey(byCategory[scan], cursor)'
    <3>1. byCategory[scan] \subseteq byCategory'[scan']
      BY <1>1, <1>2, <1>3
    <3>2. Listing!FromKey(byCategory[scan], cursor) \subseteq Listing!FromKey(byCategory'[scan'], cursor)
      BY <3>1, FromKeyGrows
    <3> QED
      BY <1>1, <3>2
  <2> QED
    BY <1>1, <2>1, <2>2 DEF ClientIInv, ListingInv
<1>7. HeaderInv'
  <2>1. BatchRange' = BatchRange /\ items' = items /\ published' = published /\ verdict' = verdict
    BY <1>1 DEF BatchRange, message
  <2>2. BatchCategory \in Categories
    BY ClientAssumption
  <2>3. byCategory[BatchCategory] \subseteq byCategory'[BatchCategory]
    BY <1>3, <2>2
  <2> QED
    BY <1>1, <2>1, <2>3 DEF ClientIInv, HeaderInv
<1> QED
  BY <1>4, <1>5, <1>6, <1>7 DEF ClientIInv

LEMMA ListIInv ==
  ASSUME ClientIInv, NEW c \in Categories, List(c)
  PROVE  ClientIInv'
<1>1. /\ scan' = c /\ cursor' = Listing!Start /\ seen' = <<>> /\ existing' = byCategory[c]
      /\ seq' = seq /\ byCategory' = byCategory
      /\ UNCHANGED message /\ header' = header /\ verdict = "accepted"
  BY DEF List, Listing!BeginListing
<1>2. /\ Listing!Start = 0 /\ Listing!End # 0
      /\ byCategory[c] \subseteq 1..MaxSeq /\ MaxSeq \in Nat
  BY ClientAssumption DEF ClientIInv, Listing!TypeOK, Listing!Start, Listing!End
<1>3. DOMAIN seen' = {} /\ seen' \in Seq(1..MaxSeq)
  BY <1>1
<1>4. Listing!TypeOK'
  <2>1. cursor' \in 0..MaxSeq
    BY <1>1, <1>2
  <2> QED
    BY <1>1, <1>2, <1>3, <2>1 DEF ClientIInv, Listing!TypeOK
<1>5. MessageInv'
  BY <1>1 DEF ClientIInv, MessageInv, RootBindsItems, Merkle!RootBindsItems, message
<1>6. ListingInv'
  <2>1. existing' = Listing!FromKey(byCategory[scan], cursor)'
    BY <1>1 DEF Listing!FromKey
  <2> QED
    BY <1>1, <1>2, <1>3, <2>1 DEF ListingInv, Listing!ListingComplete
<1>7. HeaderInv'
  <2>1. BatchRange' = BatchRange /\ items' = items /\ published' = published /\ verdict' = verdict
    BY <1>1 DEF BatchRange, message
  <2> QED
    BY <1>1, <2>1 DEF ClientIInv, HeaderInv
<1> QED
  BY <1>4, <1>5, <1>6, <1>7 DEF ClientIInv

\* One page: the listing stays in the order of the keys, and what it has not
\* shown lies at or after the next cursor.
LEMMA NextPageListing ==
  ASSUME ClientIInv, NEW limit \in Limits, Listing!EnergyDataByCategory(limit)
  PROVE  /\ seen' \in Seq(1..MaxSeq)
         /\ cursor' \in 0..MaxSeq \cup {Listing!End}
         /\ ListingInv'
<1> DEFINE S == Listing!FromKey(byCategory[scan], cursor)
<1>1. PICK w : w = Listing!Walk(S)
  OBVIOUS
<1>2. /\ MaxSeq \in Nat /\ limit \in Nat \ {0}
      /\ scan \in Categories /\ byCategory \in [Categories -> SUBSET (1..MaxSeq)]
      /\ cursor \in 0..MaxSeq /\ cursor # Listing!End
      /\ seen \in Seq(1..MaxSeq) /\ existing \subseteq 1..MaxSeq
  BY ClientAssumption DEF ClientIInv, Listing!TypeOK, Listing!EnergyDataByCategory
<1>3. /\ cursor # Listing!End
      /\ seen' = seen \o (IF Len(w) > limit THEN SubSeq(w, 1, limit) ELSE w)
      /\ cursor' = IF Len(w) > limit THEN w[limit + 1] ELSE Listing!End
      /\ seq' = seq /\ byCategory' = byCategory /\ scan' = scan /\ existing' = existing
  BY <1>1 DEF Listing!EnergyDataByCategory
<1>4. S \subseteq 1..MaxSeq /\ S \subseteq 0..MaxSeq
  BY <1>2 DEF Listing!FromKey
<1>5. \A n \in S : cursor = Listing!Start \/ n = cursor \/ Listing!KeyLess(cursor, n)
  BY <1>2, <1>4, KeyOrder DEF Listing!FromKey
<1>6. existing \subseteq Listing!Listed \cup S
  BY <1>3 DEF ClientIInv, ListingInv
<1>7. \A i \in DOMAIN seen : cursor # Listing!Start /\ Listing!KeyLess(seen[i], cursor)
  BY <1>3 DEF ClientIInv, ListingInv
<1>8. \A i, j \in DOMAIN seen : i < j => Listing!KeyLess(seen[i], seen[j])
  BY DEF ClientIInv, ListingInv, Listing!ListingComplete
<1>9. /\ w \in Seq(S)
      /\ \A n \in S : \E i \in 1..Len(w) : w[i] = n
      /\ \A i, j \in 1..Len(w) : i < j => Listing!KeyLess(w[i], w[j])
  BY <1>1, <1>4, WalkInOrder
<1> HIDE DEF S
<1>10. w \in Seq(1..MaxSeq) /\ Len(w) \in Nat
  BY <1>4, <1>9, SeqMonotonic, LenProperties
<1>11. \A i \in 1..Len(w) : w[i] \in S
  BY <1>9, ElementOfSeq
<1>12. PICK a \in Nat : a = Len(seen) /\ DOMAIN seen = 1..a
  BY <1>2, LenProperties
<1>13. \A i \in 1..a : seen[i] \in 1..MaxSeq
  BY <1>2, <1>12, ElementOfSeq
<1>14. PICK l \in 0..Len(w) : l = IF Len(w) > limit THEN limit ELSE Len(w)
  BY <1>2, <1>10
<1>15. PICK t : t = seen'
  OBVIOUS
<1>16. t = seen \o SubSeq(w, 1, l)
  <2>1. CASE Len(w) > limit
    BY <1>3, <1>14, <1>15, <2>1
  <2>2. CASE ~(Len(w) > limit)
    <3>1. l = Len(w) /\ SubSeq(w, 1, l) = w
      BY <1>9, <1>14, <2>2, SubSeqFull
    <3> QED
      BY <1>3, <1>15, <2>2, <3>1
  <2> QED
    BY <2>1, <2>2
<1>17. /\ t \in Seq(1..MaxSeq) /\ Len(t) = a + l
       /\ \A i \in 1..a : t[i] = seen[i]
       /\ \A i \in 1..l : t[a + i] = w[i]
  <2>1. PICK M : M = 1..MaxSeq
    OBVIOUS
  <2>2. PICK s : s = seen
    OBVIOUS
  <2>3. s \in Seq(M) /\ w \in Seq(M)
    BY <1>2, <1>10, <2>1, <2>2
  <2>4. \E p \in Seq(M) : /\ p = SubSeq(w, 1, l) /\ Len(p) = l
                          /\ \A i \in 1..l : p[i] = w[i]
    <3> SUFFICES ASSUME NEW v \in Seq(M), v = w, NEW k \in 0..Len(v), k = l
                 PROVE  \E p \in Seq(M) : /\ p = SubSeq(v, 1, k) /\ Len(p) = k
                                          /\ \A i \in 1..k : p[i] = v[i]
      BY <2>3
    <3> QED
      BY PageFacts
  <2>5. PICK page : /\ page \in Seq(M) /\ page = SubSeq(w, 1, l) /\ Len(page) = l
                    /\ \A i \in 1..l : page[i] = w[i]
    BY <2>4
  <2>6. t = s \o page
    BY <1>16, <2>2, <2>5
  <2>7. /\ t \in Seq(M) /\ Len(t) = Len(s) + Len(page)
        /\ \A i \in 1..Len(s) : t[i] = s[i]
        /\ \A i \in 1..Len(page) : t[Len(s) + i] = page[i]
    BY <2>3, <2>5, <2>6, PageAppends
  <2> QED
    BY <1>12, <2>1, <2>2, <2>5, <2>7
<1>18. DOMAIN t = 1..(a + l)
  BY <1>17, LenProperties
<1>19. l \in Nat /\ l <= Len(w)
  BY <1>10, <1>14
<1>20. ASSUME NEW i \in 1..(a + l)
       PROVE  \/ i \in 1..a /\ t[i] = seen[i]
              \/ i > a /\ \E k \in 1..l : i = a + k /\ t[i] = w[k]
  <2>1. CASE i <= a
    BY <1>17, <1>19, <2>1
  <2>2. CASE ~(i <= a)
    <3>1. PICK k : k = i - a
      OBVIOUS
    <3>2. k \in 1..l /\ i = a + k /\ i > a
      BY <1>19, <2>2, <3>1
    <3> QED
      BY <1>17, <3>2
  <2> QED
    BY <2>1, <2>2
\* What is listed now comes before what the page did not reach.
<1>21. ASSUME NEW i \in 1..a, NEW k \in 1..Len(w)
       PROVE  Listing!KeyLess(seen[i], w[k])
  <2>1. cursor # Listing!Start /\ Listing!KeyLess(seen[i], cursor)
    BY <1>7, <1>12
  <2>2. w[k] = cursor \/ Listing!KeyLess(cursor, w[k])
    BY <1>5, <1>11, <2>1
  <2>3. seen[i] \in 0..MaxSeq
    BY <1>2, <1>13
  <2>4. w[k] \in 0..MaxSeq
    BY <1>4, <1>11
  <2> QED
    BY <1>2, <2>1, <2>2, <2>3, <2>4, KeyOrder
<1>22. ASSUME NEW i \in 1..(a + l), NEW j \in 1..(a + l), i < j
       PROVE  Listing!KeyLess(t[i], t[j])
  <2>1. CASE i \in 1..a /\ t[i] = seen[i] /\ j \in 1..a /\ t[j] = seen[j]
    BY <1>8, <1>12, <1>22, <2>1
  <2>2. CASE i \in 1..a /\ t[i] = seen[i] /\ \E k \in 1..l : j = a + k /\ t[j] = w[k]
    <3>1. PICK k \in 1..l : t[j] = w[k]
      BY <2>2
    <3>2. k \in 1..Len(w)
      BY <1>10, <1>19
    <3> QED
      BY <1>21, <2>2, <3>1, <3>2
  <2>3. CASE i > a
    <3>1. ~(i \in 1..a) /\ ~(j \in 1..a)
      BY <1>19, <1>22, <2>3
    <3>2. PICK k \in 1..l : i = a + k /\ t[i] = w[k]
      BY <1>20, <3>1
    <3>3. PICK m \in 1..l : j = a + m /\ t[j] = w[m]
      BY <1>20, <3>1
    <3>4. k \in 1..Len(w) /\ m \in 1..Len(w) /\ k < m
      BY <1>10, <1>19, <1>22, <3>2, <3>3
    <3> QED
      BY <1>9, <3>2, <3>3, <3>4
  <2> QED
    BY <1>20, <2>1, <2>2, <2>3
<1>23. Listing!Listed' = {t[i] : i \in 1..(a + l)}
  BY <1>15, <1>18 DEF Listing!Listed
<1>24. ASSUME NEW n \in existing
       PROVE  n \in Listing!Listed' \/ \E k \in 1..Len(w) : k > l /\ n = w[k]
  <2>1. CASE n \in Listing!Listed
    <3>1. PICK i \in 1..a : n = seen[i]
      BY <1>12, <2>1 DEF Listing!Listed
    <3>2. i \in 1..(a + l) /\ n = t[i]
      BY <1>17, <1>19, <3>1
    <3> QED
      BY <1>23, <3>2
  <2>2. CASE n \in S
    <3>1. PICK k \in 1..Len(w) : w[k] = n
      BY <1>9, <2>2
    <3>2. CASE k > l
      BY <3>1, <3>2
    <3>3. CASE ~(k > l)
      <4>1. k \in 1..l /\ a + k \in 1..(a + l)
        BY <1>10, <1>19, <3>3
      <4> QED
        BY <1>17, <1>23, <3>1, <4>1
    <3> QED
      BY <3>2, <3>3
  <2> QED
    BY <1>6, <2>1, <2>2
<1>25. CASE Len(w) > limit
  <2>1. l = limit /\ l + 1 \in 1..Len(w) /\ cursor' = w[l + 1]
    BY <1>2, <1>3, <1>10, <1>14, <1>25
  <2>2. /\ cursor' \in S /\ cursor' \in 1..MaxSeq /\ cursor' \in 0..MaxSeq
        /\ cursor' # Listing!Start /\ cursor' # Listing!End
    <3>1. cursor' \in S
      BY <1>11, <2>1
    <3>2. cursor' \in 1..MaxSeq /\ cursor' \in 0..MaxSeq
      BY <1>4, <3>1
    <3> QED
      BY <1>2, <3>1, <3>2 DEF Listing!Start, Listing!End
  <2>3. ASSUME NEW i \in 1..(a + l) PROVE Listing!KeyLess(t[i], cursor')
    <3>1. CASE i \in 1..a /\ t[i] = seen[i]
      BY <1>21, <2>1, <3>1
    <3>2. CASE \E k \in 1..l : t[i] = w[k]
      <4>1. PICK k \in 1..l : t[i] = w[k]
        BY <3>2
      <4>2. k \in 1..Len(w) /\ k < l + 1
        BY <1>10, <1>19
      <4> QED
        BY <1>9, <2>1, <4>1, <4>2
    <3> QED
      BY <1>20, <3>1, <3>2
  <2>4. ASSUME NEW n \in existing, n \notin Listing!Listed'
        PROVE  n \in Listing!FromKey(byCategory[scan], cursor)'
    <3>1. PICK k \in 1..Len(w) : k > l /\ n = w[k]
      BY <1>24, <2>4
    <3>2. n \in S /\ n \in 0..MaxSeq
      BY <1>4, <1>11, <3>1
    <3>3. n = cursor' \/ Listing!KeyLess(cursor', n)
      <4>1. k = l + 1 \/ l + 1 < k
        BY <1>10, <1>19, <3>1
      <4> QED
        BY <1>9, <2>1, <3>1, <4>1
    <3>4. ~ Listing!KeyLess(n, cursor')
      BY <2>2, <3>2, <3>3, KeyOrder
    <3>5. n \in byCategory'[scan']
      BY <1>3, <3>2 DEF S, Listing!FromKey
    <3> QED
      BY <3>4, <3>5 DEF Listing!FromKey
  <2>5. ListingInv'
    BY <1>3, <1>15, <1>18, <1>22, <2>2, <2>3, <2>4 DEF ListingInv, Listing!ListingComplete
  <2> QED
    BY <1>15, <1>17, <2>2, <2>5
<1>26. CASE ~(Len(w) > limit)
  <2>1. l = Len(w) /\ cursor' = Listing!End
    BY <1>3, <1>14, <1>26
  <2>2. existing \subseteq Listing!Listed'
    BY <1>10, <1>24, <2>1
  <2>3. ListingInv'
    BY <1>3, <1>15, <1>18, <1>22, <2>1, <2>2 DEF ListingInv, Listing!ListingComplete
  <2> QED
    BY <1>15, <1>17, <2>1, <2>3
<1> QED
  BY <1>25, <1>26

LEMMA NextPageIInv ==
  ASSUME ClientIInv, NEW limit \in Limits, NextPage(limit)
  PROVE  ClientIInv'
<1>1. /\ Listing!EnergyDataByCategory(limit) /\ cursor # Listing!End
      /\ seq' = seq /\ byCategory' = byCategory /\ scan' = scan /\ existing' = existing
      /\ UNCHANGED message /\ header' = header
  BY DEF NextPage, Listing!EnergyDataByCategory
<1>2. /\ seen' \in Seq(1..MaxSeq) /\ cursor' \in 0..MaxSeq \cup {Listing!End}
      /\ ListingInv'
  BY <1>1, NextPageListing
<1>3. Listing!TypeOK'
  BY <1>1, <1>2 DEF ClientIInv, Listing!TypeOK
<1>4. MessageInv'
  BY <1>1 DEF ClientIInv, MessageInv, RootBindsItems, Merkle!RootBindsItems, message
<1>5. HeaderInv'
  <2>1. BatchRange' = BatchRange /\ items' = items /\ published' = published /\ verdict' = verdict
    BY <1>1 DEF BatchRange, message
  <2> QED
    BY <1>1, <2>1 DEF ClientIInv, HeaderInv
<1> QED
  BY <1>2, <1>3, <1>4, <1>5 DEF ClientIInv

LEMMA ClientNextIInv == ClientIInv /\ [ClientNext]_clientVars => ClientIInv'
<1> SUFFICES ASSUME ClientIInv, [ClientNext]_clientVars PROVE ClientIInv'
  OBVIOUS
<1>1. ASSUME NEW h \in Hashes, Compose(h) PROVE ClientIInv'
  BY <1>1, ComposeIInv
<1>2. CASE SubmitMessage
  BY <1>2, SubmitMessageIInv
<1>3. ASSUME NEW c \in Categories, OtherSubmit(c) PROVE ClientIInv'
  BY <1>3, OtherSubmitIInv
<1>4. ASSUME NEW c \in Categories, List(c) PROVE ClientIInv'
  BY <1>4, ListIInv
<1>5. ASSUME NEW limit \in Limits, NextPage(limit) PROVE ClientIInv'
  BY <1>5, NextPageIInv
<1>6. CASE UNCHANGED clientVars
  <2> USE <1>6 DEF clientVars, message, index
  <2>1. Listing!TypeOK'
    BY DEF ClientIInv, Listing!TypeOK
  <2>2. MessageInv'
    BY DEF ClientIInv, MessageInv, RootBindsItems, Merkle!RootBindsItems
  <2>3. ListingInv'
    BY DEF ClientIInv, ListingInv, Listing!ListingComplete, Listing!Listed, Listing!FromKey
  <2>4. HeaderInv'
    BY DEF ClientIInv, HeaderInv, BatchRange
  <2> QED
    BY <2>1, <2>2, <2>3, <2>4 DEF ClientIInv
<1> QED
  BY <1>1, <1>2, <1>3, <1>4, <1>5, <1>6 DEF ClientNext

LEMMA ClientInvariantHolds == ClientSpec => []ClientIInv
  BY ClientInitIInv, ClientNextIInv, PTL DEF ClientSpec

\* A client that has listed the category of its batch holds what it needs to
\* compute the published root.
LEMMA IInvAuditable == ClientIInv => BatchAuditable
<1> SUFFICES ASSUME ClientIInv, header # 0, cursor = Listing!End,
                    scan = BatchCategory, seen # <<>>
             PROVE  /\ Cardinality(Batch) = Len(items)
                    /\ Merkle!Root(published) =
                          Merkle!Root([i \in 1..Cardinality(Batch) |->
                             BatchHash(CHOOSE n \in Batch :
                                Cardinality({k \in Batch : k <= n}) = i)])
  BY DEF BatchAuditable
<1>1. /\ header \in Nat /\ items = published /\ BatchRange \subseteq existing
      /\ existing \subseteq Listing!Listed
      /\ items \in Seq(Hashes)
  BY DEF ClientIInv, HeaderInv, ListingInv, MessageInv, Listing!ListingComplete
<1>2. PICK n \in Nat : n = Len(items) /\ items \in [1..n -> Hashes]
  BY <1>1, LenProperties
<1>3. Batch = (header + 1)..(header + n)
  BY <1>1, <1>2 DEF Batch, BatchRange
<1>4. Cardinality(Batch) = n
  <2>1. header + 1 \in Int /\ header + n \in Int
    BY <1>1
  <2> QED
    BY <1>1, <1>3, <2>1, FS_Interval
<1> DEFINE rank(k) == Cardinality({m \in Batch : m <= k})
<1>5. ASSUME NEW k \in Batch PROVE rank(k) = k - header
  <2>1. k \in (header + 1)..(header + n)
    BY <1>3
  <2>2. {m \in Batch : m <= k} = (header + 1)..k
    BY <1>1, <1>3, <2>1
  <2>3. header + 1 \in Int /\ k \in Int /\ ~(header + 1 > k)
    BY <1>1, <2>1
  <2>4. Cardinality((header + 1)..k) = k - (header + 1) + 1
    BY <2>3, FS_Interval
  <2>5. rank(k) = k - (header + 1) + 1
    BY <2>2, <2>4
  <2> HIDE DEF rank
  <2> QED
    BY <1>1, <2>3, <2>5
<1> DEFINE found(i) == BatchHash(CHOOSE k \in Batch : rank(k) = i)
<1>6. ASSUME NEW i \in 1..n PROVE found(i) = items[i]
  <2> HIDE DEF rank
  <2>1. header + i \in Batch /\ (header + i) - header = i
    BY <1>1, <1>3
  <2>2. \A k \in Batch : rank(k) = i <=> k = header + i
    <3> SUFFICES ASSUME NEW k \in Batch PROVE rank(k) = i <=> k = header + i
      OBVIOUS
    <3>1. k \in Int
      BY <1>1, <1>3
    <3> QED
      BY <1>1, <1>5, <3>1
  <2>3. (CHOOSE k \in Batch : rank(k) = i) = header + i
    BY <2>1, <2>2
  <2> QED
    BY <2>1, <2>3 DEF BatchHash
<1> HIDE DEF found
<1>7. [i \in 1..Cardinality(Batch) |-> found(i)] = items
  BY <1>2, <1>4, <1>6
<1>8. /\ Cardinality(Batch) = Len(items)
      /\ Merkle!Root(published) = Merkle!Root([i \in 1..Cardinality(Batch) |-> found(i)])
  BY <1>1, <1>2, <1>4, <1>7
<1> QED
  BY <1>8 DEF found

\* verifyMerkleRoot accepts exactly the items that were published, whatever the
\* length of the list: a level of unordered pairs, with an odd last node paired
\* with itself, still has one level below it and one only.
THEOREM RootBindsItemsAlways == ClientSpec => []RootBindsItems
<1>1. ClientIInv => RootBindsItems
  BY DEF ClientIInv, MessageInv
<1> QED
  BY <1>1, ClientInvariantHolds, PTL

\* A finished EnergyDataByCategory listing holds every record that existed when
\* it began, in the byte order of the ids and none twice, for any page limits
\* and any submissions between the pages.
THEOREM ListingCompleteAlways == ClientSpec => []ListingComplete
<1>1. ClientIInv => ListingComplete
  BY DEF ClientIInv, ListingInv, ListingComplete
<1> QED
  BY <1>1, ClientInvariantHolds, PTL

\* Who lists the category of an accepted batch finds its records, and the
\* published root in them.
THEOREM BatchAuditableAlways == ClientSpec => []BatchAuditable
  BY IInvAuditable, ClientInvariantHolds, PTL

=============================================================================
