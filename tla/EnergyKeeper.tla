---------------------------- MODULE EnergyKeeper ----------------------------
(***************************************************************************)
(* x/energy: the keeper and message server that anchor energy data on      *)
(* chain, run the way baseapp runs them: a transaction executes its        *)
(* messages on a cache of the block's state (the transient rate-limit      *)
(* store included) and either writes the whole cache back or drops it.     *)
(* MsgUpdateParams is a message like the others, so the parameters are     *)
(* part of that cache: an authz MsgExec of a grantee of the gov account    *)
(* may hold it among submissions, and a governance proposal, executed in   *)
(* the gov EndBlocker on a cache of its own, may bundle it with them; both *)
(* are transactions here.  The v1.0.1 upgrade raises the metadata cap      *)
(* before a block's first transaction, and at a block boundary the chain   *)
(* may be exported and restarted from the exported genesis.                *)
(*                                                                         *)
(* Categories, submitters and hashes are opaque values; metadata is its    *)
(* size.  Timestamps, block heights and events are left out.               *)
(***************************************************************************)
EXTENDS EnergyTypes, Integers, Sequences

CONSTANTS
    Submitters,      \* bech32 addresses that may sign messages
    MetadataSizes,   \* metadata lengths a message may carry
    ForeignIDs,      \* ids in a genesis file that GenerateID would not print
    ForeignNum,      \* what parseEnergyID reads from them; 0 when it cannot
    Geneses,         \* genesis files the chain may be started from
    ParamChoices,    \* parameters a MsgUpdateParams may carry
    NoBatch          \* no BatchSubmit handler is running

\* The hard limits of types/genesis.go and the cap set by the v1.0.1 upgrade.
CONSTANTS
    MaxBatchSizeUpperBound, MaxMetadataSizeLowerBound,
    MaxMetadataSizeUpperBound, MaxSubmissionsPerBlockUpper, NewCap

\* Bounds of the model.
CONSTANTS
    MaxItems,        \* bound on the items of one batch message
    MaxMsgs          \* bound on the counted messages of a submitter in one tx

VARIABLES
    params,          \* Keeper.Params
    store,           \* the block's state: committed transactions only
    cache,           \* the running transaction's view of it
    txParams,        \* and its view of the parameters
    phase,           \* where the block is: see Phases
    batch,           \* the BatchSubmit handler in progress, or NoBatch
    executed,        \* history: messages a submitter ran under a limit in this tx
    landed,          \* history: the same, for the committed txs of this block
    txRules,         \* history: parameters in force at some moment of this tx
    blockRules       \* history: the same, for this block and its committed txs

vars == <<params, store, cache, txParams, phase, batch, executed, landed, txRules, blockRules>>

-----------------------------------------------------------------------------
(* State                                                                   *)

Params == [MaxBatchSize : Nat, AllowedSubmitters : SUBSET Submitters,
           Permissionless : BOOLEAN, MaxMetadataSize : Nat,
           MaxSubmissionsPerBlockPerSubmitter : Nat]

EnergyData == [Category : Categories, Submitter : Submitters,
               DataHash : Hashes, Metadata : MetadataSizes]

BatchItem == [DataHash : Hashes, Metadata : MetadataSizes]

\* A root commits to the hashes of the items and their order; see MerkleRoot.
BatchSubmission == [Category : Categories, Submitter : Submitters,
                    DataCount : Nat, MerkleRoot : Seq(Hashes)]

\* fmt.Sprintf("energy-%d", n): distinct numbers print as distinct strings,
\* none of which is the print of an id that GenerateID never produces.
EnergyID(n) == <<"energy-", n>>

IDs == {EnergyID(n) : n \in 1..MaxSeq} \cup ForeignIDs

\* The number an id stands for in the max of InitGenesis and in the
\* invariants.  An id of another format never raises that max, like 0.
parseEnergyID(id) == IF id \in ForeignIDs THEN ForeignNum[id] ELSE id[2]

\* f is a finite map from keys in K to values in V; collections.Map.Set.
IsMap(f, K, V) == DOMAIN f \subseteq K /\ f \in [DOMAIN f -> V]
MapSet(f, k, v) == [x \in DOMAIN f \cup {k} |-> IF x = k THEN v ELSE f[x]]

Zero == [s \in Submitters |-> 0]

\* The collections of the keeper, and the transient per-block counters.
IsStore(st) ==
    /\ st = [seq |-> st.seq, data |-> st.data, byCategory |-> st.byCategory,
             bySubmitter |-> st.bySubmitter, batches |-> st.batches,
             count |-> st.count]
    /\ st.seq \in 0..MaxSeq
    /\ IsMap(st.data, IDs, EnergyData)
    /\ st.byCategory \subseteq Categories \X IDs
    /\ st.bySubmitter \subseteq Submitters \X IDs
    /\ IsMap(st.batches, IDs, BatchSubmission)
    /\ st.count \in [Submitters -> Nat]

\* "begin": before the first transaction of a block; "tx": a transaction is
\* running; "deliver": between transactions.
Phases == {"begin", "tx", "deliver"}

\* A BatchSubmit handler between its first write and its last.
PendingBatch == [num : 1..MaxSeq, Submitter : Submitters, Category : Categories,
                 items : Seq(BatchItem), stored : Nat]

TypeOK ==
    /\ params \in Params
    /\ IsStore(store)
    /\ IsStore(cache)
    /\ phase \in Phases
    /\ batch \in PendingBatch \cup {NoBatch}
    /\ executed \in [Submitters -> Nat]
    /\ landed \in [Submitters -> Nat]
    /\ txParams \in Params
    /\ txRules \subseteq Params
    /\ blockRules \subseteq Params

-----------------------------------------------------------------------------
(* Keeper operations, as functions from a store to a store                 *)

\* Params.Validate
ParamsValid(p) ==
    /\ p.MaxBatchSize \in 1..MaxBatchSizeUpperBound
    /\ p.MaxMetadataSize \in MaxMetadataSizeLowerBound..MaxMetadataSizeUpperBound
    /\ p.MaxSubmissionsPerBlockPerSubmitter <= MaxSubmissionsPerBlockUpper

IsAllowedSubmitter(p, s) == p.Permissionless \/ s \in p.AllowedSubmitters

\* The size check of both handlers; a cap of 0 switches it off.
MetadataFits(p, m) == p.MaxMetadataSize > 0 => m <= p.MaxMetadataSize

\* CheckAndIncrSubmitCount: the check, then the write.
UnderSubmitLimit(st, s) ==
    LET limit == txParams.MaxSubmissionsPerBlockPerSubmitter
    IN  limit > 0 => st.count[s] < limit
IncrSubmitCount(st, s) ==
    IF txParams.MaxSubmissionsPerBlockPerSubmitter = 0
    THEN st
    ELSE [st EXCEPT !.count = [st.count EXCEPT ![s] = @ + 1]]

\* GenerateID: IDSequence.Next, then the 1-indexed id.
AdvanceSequence(st) == [st EXCEPT !.seq = @ + 1]
GenerateID(st) == EnergyID(st.seq + 1)

\* Mutant: BySubmitter forgotten.
SetEnergyDataUnindexed(st, id, d) ==
    [st EXCEPT !.data = MapSet(@, id, d),
               !.byCategory = @ \cup {<<d.Category, id>>}]

\* Keeper.SubmitEnergyData: the record and its two index entries.
SetEnergyData(st, id, d) ==
    [st EXCEPT !.data = MapSet(@, id, d),
               !.byCategory = @ \cup {<<d.Category, id>>},
               !.bySubmitter = @ \cup {<<d.Submitter, id>>}]

\* Keeper.SubmitBatch
SetBatch(st, id, b) == [st EXCEPT !.batches = MapSet(@, id, b)]

\* computeMerkleRoot over leaves keccak(index || DataHash), with collision-free
\* hashing: the root determines the number of items and the hash of each.
MerkleRoot(items) == [i \in DOMAIN items |-> items[i].DataHash]

-----------------------------------------------------------------------------
(* Genesis                                                                 *)

IsGenesisState(gs) ==
    /\ gs.Params \in Params
    /\ IsMap(gs.DataRecords, IDs, EnergyData)
    /\ IsMap(gs.Batches, IDs, BatchSubmission)
    /\ gs.NextID \in 0..MaxSeq

\* GenesisState.Validate.  Keys are unique and the other fields non-empty by
\* the types above.
GenesisValid(gs) ==
    /\ ParamsValid(gs.Params)
    /\ \A id \in DOMAIN gs.DataRecords :
          gs.DataRecords[id].Metadata <= gs.Params.MaxMetadataSize

\* The largest of a set of numbers.
Highest(S) == CHOOSE n \in S : \A m \in S : n >= m

\* Mutant: the sequence is restored from NextID alone.
InitGenesisFromNextID(gs) ==
    [seq |-> gs.NextID,
     data |-> gs.DataRecords,
     byCategory |-> {<<gs.DataRecords[id].Category, id>> : id \in DOMAIN gs.DataRecords},
     bySubmitter |-> {<<gs.DataRecords[id].Submitter, id>> : id \in DOMAIN gs.DataRecords},
     batches |-> gs.Batches,
     count |-> Zero]

\* Keeper.InitGenesis on an empty store: the records with their indexes, the
\* batches, and a sequence no smaller than NextID or any id in the file.
InitGenesis(gs) ==
    [seq |-> Highest({gs.NextID}
                     \cup {parseEnergyID(id) : id \in DOMAIN gs.DataRecords}
                     \cup {parseEnergyID(id) : id \in DOMAIN gs.Batches}),
     data |-> gs.DataRecords,
     byCategory |-> {<<gs.DataRecords[id].Category, id>> : id \in DOMAIN gs.DataRecords},
     bySubmitter |-> {<<gs.DataRecords[id].Submitter, id>> : id \in DOMAIN gs.DataRecords},
     batches |-> gs.Batches,
     count |-> Zero]

\* Keeper.ExportGenesis.  nextID is store.seq, or 0 for the genesis files of
\* older exports, which omitted the field.
ExportGenesis(nextID) ==
    [Params |-> params, DataRecords |-> store.data,
     Batches |-> store.batches, NextID |-> nextID]

\* The records of batch b, whose id has number n, are all in st and match it.
BatchIsComplete(st, n, b) ==
    /\ Len(b.MerkleRoot) = b.DataCount
    /\ n + b.DataCount <= MaxSeq
    /\ \A i \in 1..b.DataCount :
          /\ EnergyID(n + i) \in DOMAIN st.data
          /\ LET d == st.data[EnergyID(n + i)]
             IN  /\ d.Category = b.Category
                 /\ d.Submitter = b.Submitter
                 /\ d.DataHash = b.MerkleRoot[i]

BatchesAreComplete(st) ==
    \A n \in 1..MaxSeq :
        EnergyID(n) \in DOMAIN st.batches =>
            BatchIsComplete(st, n, st.batches[EnergyID(n)])

ASSUME ConstantsAssumption ==
    /\ MaxSeq \in Nat /\ MaxItems \in Nat /\ NewCap \in Nat
    /\ MaxBatchSizeUpperBound \in Nat /\ MaxMetadataSizeLowerBound \in Nat
    /\ MaxMetadataSizeUpperBound \in Nat
    /\ MetadataSizes \subseteq Nat
    /\ ParamChoices \subseteq Params
    /\ NoBatch \notin PendingBatch

ASSUME ForeignIDsAssumption ==
    /\ ForeignNum \in [ForeignIDs -> 0..MaxSeq]
    /\ \A n \in 1..MaxSeq : EnergyID(n) \notin ForeignIDs

\* Genesis files pass Validate, and hold the records of the batches they hold.
ASSUME GenesesAssumption ==
    \A gs \in Geneses :
        /\ IsGenesisState(gs)
        /\ GenesisValid(gs)
        /\ BatchesAreComplete(InitGenesis(gs))

Init ==
    \E gs \in Geneses :
        /\ params = gs.Params
        /\ store = InitGenesis(gs)
        /\ cache = store
        /\ phase = "begin"
        /\ batch = NoBatch
        /\ executed = Zero
        /\ landed = Zero
        /\ txParams = params
        /\ txRules = {}
        /\ blockRules = {params}

-----------------------------------------------------------------------------
(* Transactions                                                            *)

\* baseapp opens a cache of the block's state for the next transaction.
BeginTx ==
    /\ phase \in {"begin", "deliver"}
    /\ phase' = "tx"
    /\ cache' = store
    /\ txParams' = params
    /\ executed' = Zero
    /\ txRules' = {params}
    /\ UNCHANGED <<params, store, batch, landed, blockRules>>

\* Bookkeeping shared by the two submitting handlers.
StartMsg(s) ==
    /\ phase = "tx"
    /\ batch = NoBatch
    /\ IF txParams.MaxSubmissionsPerBlockPerSubmitter = 0
       THEN UNCHANGED executed
       ELSE executed[s] < MaxMsgs /\ executed' = [executed EXCEPT ![s] = @ + 1]

\* The part of the two handlers up to and including the rate limit.
Admitted(s) == IsAllowedSubmitter(txParams, s) /\ UnderSubmitLimit(cache, s)

\* msgServer.SubmitEnergyData, when every check passes.
SubmitEnergyData(s, c, h, m) ==
    /\ StartMsg(s)
    /\ Admitted(s)
    /\ MetadataFits(txParams, m)
    /\ cache.seq < MaxSeq
    /\ cache' = SetEnergyData(AdvanceSequence(IncrSubmitCount(cache, s)),
                              GenerateID(cache),
                              [Category |-> c, Submitter |-> s,
                               DataHash |-> h, Metadata |-> m])
    /\ UNCHANGED <<params, txParams, store, phase, batch, landed, txRules, blockRules>>

\* Mutant: the metadata of the items is not checked.
BatchSubmitUnchecked(s, c, items) ==
    /\ StartMsg(s)
    /\ Admitted(s)
    /\ Len(items) \in 1..txParams.MaxBatchSize
    /\ cache.seq + Len(items) < MaxSeq
    /\ cache' = AdvanceSequence(IncrSubmitCount(cache, s))
    /\ batch' = [num |-> cache.seq + 1, Submitter |-> s, Category |-> c,
                 items |-> items, stored |-> 0]
    /\ UNCHANGED <<params, txParams, store, phase, landed, txRules, blockRules>>

\* msgServer.BatchSubmit up to the id of the batch.
BatchSubmit(s, c, items) ==
    /\ StartMsg(s)
    /\ Admitted(s)
    /\ Len(items) \in 1..txParams.MaxBatchSize
    /\ \A i \in DOMAIN items : MetadataFits(txParams, items[i].Metadata)
    /\ cache.seq + Len(items) < MaxSeq
    /\ cache' = AdvanceSequence(IncrSubmitCount(cache, s))
    /\ batch' = [num |-> cache.seq + 1, Submitter |-> s, Category |-> c,
                 items |-> items, stored |-> 0]
    /\ UNCHANGED <<params, txParams, store, phase, landed, txRules, blockRules>>

\* One round of its loop: the id and the record of the next item.
BatchStoreItem ==
    /\ batch # NoBatch
    /\ batch.stored < Len(batch.items)
    /\ LET item == batch.items[batch.stored + 1]
       IN  cache' = SetEnergyData(AdvanceSequence(cache), GenerateID(cache),
                        [Category |-> batch.Category, Submitter |-> batch.Submitter,
                         DataHash |-> item.DataHash, Metadata |-> item.Metadata])
    /\ batch' = [batch EXCEPT !.stored = @ + 1]
    /\ UNCHANGED <<params, txParams, store, phase, executed, landed, txRules, blockRules>>

\* Mutant: the id of the batch is generated after those of its items.
BatchFinishLateID ==
    /\ batch # NoBatch
    /\ batch.stored = Len(batch.items)
    /\ cache.seq < MaxSeq
    /\ cache' = SetBatch(AdvanceSequence(cache), GenerateID(cache),
                    [Category |-> batch.Category, Submitter |-> batch.Submitter,
                     DataCount |-> Len(batch.items),
                     MerkleRoot |-> MerkleRoot(batch.items)])
    /\ batch' = NoBatch
    /\ UNCHANGED <<params, txParams, store, phase, executed, landed, txRules, blockRules>>

\* Its end: the batch header.
BatchFinish ==
    /\ batch # NoBatch
    /\ batch.stored = Len(batch.items)
    /\ cache' = SetBatch(cache, EnergyID(batch.num),
                    [Category |-> batch.Category, Submitter |-> batch.Submitter,
                     DataCount |-> Len(batch.items),
                     MerkleRoot |-> MerkleRoot(batch.items)])
    /\ batch' = NoBatch
    /\ UNCHANGED <<params, txParams, store, phase, executed, landed, txRules, blockRules>>

\* msgServer.UpdateParams, signed by the gov module account: the message of a
\* proposal, or of an authz MsgExec under a grant of that account.
UpdateParams(p) ==
    /\ phase = "tx"
    /\ batch = NoBatch
    /\ ParamsValid(p)
    /\ txParams' = p
    /\ txRules' = txRules \cup {p}
    /\ UNCHANGED <<params, store, cache, phase, batch, executed, landed, blockRules>>

\* Every message of the transaction succeeded: the cache is written back.
CommitTx ==
    /\ phase = "tx"
    /\ batch = NoBatch
    /\ store' = cache
    /\ params' = txParams
    /\ landed' = [s \in Submitters |-> landed[s] + executed[s]]
    /\ executed' = Zero
    /\ phase' = "deliver"
    /\ blockRules' = blockRules \cup txRules
    /\ txRules' = {}
    /\ UNCHANGED <<txParams, cache, batch>>

\* Mutant: the transient counters are kept when the transaction fails.
AbortTxKeepCount ==
    /\ phase = "tx"
    /\ store' = [store EXCEPT !.count = cache.count]
    /\ cache' = store'
    /\ txParams' = params
    /\ batch' = NoBatch
    /\ executed' = Zero
    /\ txRules' = {}
    /\ phase' = "deliver"
    /\ UNCHANGED <<params, landed, blockRules>>

\* A handler returned an error (submitter not allowed, batch or metadata too
\* large, rate limit, wrong Merkle root, MsgUpdateParams not signed by the
\* authority) or ran out of gas at a write: the cache is dropped.
AbortTx ==
    /\ phase = "tx"
    /\ cache' = store
    /\ txParams' = params
    /\ batch' = NoBatch
    /\ executed' = Zero
    /\ txRules' = {}
    /\ phase' = "deliver"
    /\ UNCHANGED <<params, store, landed, blockRules>>

-----------------------------------------------------------------------------
(* Block boundaries                                                        *)

\* Commit of the block; the transient store starts the next one empty.
NextBlock ==
    /\ phase \in {"begin", "deliver"}
    /\ store' = [store EXCEPT !.count = Zero]
    /\ cache' = store'
    /\ landed' = Zero
    /\ blockRules' = {params}
    /\ phase' = "begin"
    /\ UNCHANGED <<params, txParams, batch, executed, txRules>>

\* bumpEnergyMetadataCap, run by the v1.0.1 upgrade handler in a PreBlocker.
BumpEnergyMetadataCap ==
    /\ phase = "begin"
    /\ params.MaxMetadataSize < NewCap
    /\ ParamsValid([params EXCEPT !.MaxMetadataSize = NewCap])
    /\ params' = [params EXCEPT !.MaxMetadataSize = NewCap]
    /\ txParams' = params'
    /\ blockRules' = {params'}
    /\ UNCHANGED <<store, cache, phase, batch, executed, landed, txRules>>

\* The chain is exported after a block and a new one started from the file.
RestartFromExport(nextID) ==
    /\ phase = "begin"
    /\ params' = ExportGenesis(nextID).Params
    /\ store' = InitGenesis(ExportGenesis(nextID))
    /\ cache' = store'
    /\ txParams' = params'
    /\ landed' = Zero
    /\ blockRules' = {params'}
    /\ UNCHANGED <<phase, batch, executed, txRules>>

Items == UNION {[1..n -> BatchItem] : n \in 1..MaxItems}

Next ==
    \/ BeginTx
    \/ \E s \in Submitters, c \in Categories, h \in Hashes, m \in MetadataSizes :
          SubmitEnergyData(s, c, h, m)
    \/ \E s \in Submitters, c \in Categories, items \in Items :
          BatchSubmit(s, c, items)
    \/ BatchStoreItem
    \/ BatchFinish
    \/ CommitTx
    \/ AbortTx
    \/ \E p \in ParamChoices : UpdateParams(p)
    \/ NextBlock
    \/ BumpEnergyMetadataCap
    \/ \E nextID \in {0, store.seq} : RestartFromExport(nextID)

Spec == Init /\ [][Next]_vars

-----------------------------------------------------------------------------
(* The module's registered invariants, on the committed store.  Each is     *)
(* TRUE where the code reports nothing.                                    *)

IDSequenceMonotonicInvariant ==
    \A id \in DOMAIN store.data : parseEnergyID(id) <= store.seq

ByCategoryConsistencyInvariant ==
    \A key \in store.byCategory :
        key[2] \in DOMAIN store.data /\ store.data[key[2]].Category = key[1]

BySubmitterConsistencyInvariant ==
    \A key \in store.bySubmitter :
        key[2] \in DOMAIN store.data /\ store.data[key[2]].Submitter = key[1]

-----------------------------------------------------------------------------
(* Properties                                                              *)

SequenceCovers(st) ==
    \A id \in DOMAIN st.data \cup DOMAIN st.batches : parseEnergyID(id) <= st.seq

\* After any mix of rolled-back transactions, restarts from an export with or
\* without NextID, and genesis files with foreign ids, the id that GenerateID
\* prints next is above every id in the store, so it can overwrite none: the
\* registered invariant, and the same for batches, which it does not look at.
IDSequenceMonotonic == IDSequenceMonotonicInvariant /\ SequenceCovers(store)

\* The committed store after any history: its collections have their types and
\* the next id is fresh.
StoreConsistent == TypeOK /\ IDSequenceMonotonic

IndexesMatch(st) ==
    /\ st.byCategory = {<<st.data[id].Category, id>> : id \in DOMAIN st.data}
    /\ st.bySubmitter = {<<st.data[id].Submitter, id>> : id \in DOMAIN st.data}

\* The ByCategory and BySubmitter indexes hold an entry for every stored record
\* and no other: nothing dangles, and a query by category or by submitter
\* misses nothing, whatever was rolled back, exported or imported.  The two
\* registered invariants, which see only what dangles, never report anything.
IndexesConsistent ==
    /\ ByCategoryConsistencyInvariant /\ BySubmitterConsistencyInvariant
    /\ IndexesMatch(store)

\* The ids BatchSubmit gives the items of the batch whose own id is id.
ItemIDs(id, b) ==
    IF id \in ForeignIDs THEN {} ELSE {EnergyID(id[2] + i) : i \in 1..b.DataCount}

\* BatchSubmit is all or nothing: the records of a committed batch are the
\* DataCount ids that follow the batch's own, with its category, its submitter
\* and, in order, the hashes its Merkle root commits to, although the header
\* is written last and any of the writes may run out of gas.
BatchesComplete == BatchesAreComplete(store)

\* n messages of a submitter are within the limit of one of the parameters.
WithinLimit(n, rules) ==
    n > 0 => \E p \in rules : n <= p.MaxSubmissionsPerBlockPerSubmitter

\* The counter of CheckAndIncrSubmitCount is the number of messages the submitter
\* has committed in this block while a limit was set: a message that failed, or
\* that shared a transaction with one that failed, uses up no quota, even if the
\* transaction changed the limit.  And no submitter lands more of them than the
\* largest limit in force at some moment of the block.
RateLimitExact ==
    \A s \in Submitters :
        /\ store.count[s] = landed[s]
        /\ WithinLimit(landed[s], blockRules)

\* A record enters the store only if parameters that were in force at some moment
\* of its own transaction admit it: they allow its submitter and its metadata is
\* within their cap.  These need not be the parameters before the transaction, nor
\* those it leaves behind, when a MsgUpdateParams runs between its messages; but
\* never does a record slip in under parameters of an earlier transaction or of
\* one that was rolled back, or combine the submitters of one set of parameters
\* with the cap of another.
AdmittedWhenCommitted ==
    [][\A id \in DOMAIN store'.data \ DOMAIN store.data :
          \E p \in txRules :
              /\ IsAllowedSubmitter(p, store'.data[id].Submitter)
              /\ MetadataFits(p, store'.data[id].Metadata)]_vars

\* The committed state behaves as an append-only log in which a batch appears
\* together with all its records (AttestationLog); rollbacks, parameter
\* changes, the upgrade and a restart from an export change nothing in it.
Log == INSTANCE AttestationLog WITH log <- store.data, batches <- store.batches
LogSpec == Log!Spec
=============================================================================
