# TLA+ verification of energychain-node

This directory holds a formal model of the parts of energychain-node
(`src/chain`, a Cosmos SDK chain with an EVM) that carry its own logic. The
modules are translated from the Go source, TLC checks them on small instances
and TLAPS proves the safety properties of all but the codec for every value of
the constants.
`PROJECT.json` maps every definition to the lines it stands for.

## 1. The system

| part | state | operations | interacts with | hard about it |
|---|---|---|---|---|
| `x/energy` | Params, IDSequence, EnergyData, ByCategory, BySubmitter, Batches; transient per-block counters | SubmitEnergyData, BatchSubmit, UpdateParams, paginated queries, genesis import/export | baseapp (transaction cache), gov (authority), upgrade handler, precompile (read-only) | multi-write handlers cut short by gas or errors, rate limit rolled back with the transaction, id continuity over restarts |
| `x/oracle` | Params, Oracles, Data by (category, timestamp), LatestData cache | SubmitData, AddOracle, RemoveOracle, UpdateParams, LatestData and history queries, genesis | gov | duplicated state, overwriting oracles, timestamps on both sides of the block time, replay order at import |
| `x/audit` | IDSequence, Logs, three indexes, transient counters | RecordAudit, UpdateParams, time-range and index queries, genesis | baseapp, gov | as `x/energy`; ranges at their bounds |
| `x/identity` | Identities, ByRole, Params | Register, Update, Revoke, UpdateParams | gov, admin, precompile | who may do what, in which order; index under role changes |
| promoted-tx broadcaster (`mempool_broadcast.go`) | channel of 10,000, done channel, client context | Enqueue, loop, waitForClientCtx, SetClientCtx, Close | EVM mempool goroutines, server start-up, app.Close | goroutines, full queue, deadline against readiness, shutdown |
| start command and EVM service supervisor (`evm_server.go`) | database, application, CometBFT node, main errgroup; attempt counter, errgroup and contexts of the EVM services, the indexer's database | customStartInProcess step by step, deferred clean-up, signals; start indexer and JSON-RPC, back off, restart | CometBFT, gRPC and REST servers, pprof | a failure at any start-up step, partial start of the EVM services, restart for ever, shutdown at any moment |
| v1.0.1 upgrade (`upgrades.go`) | version map, `upgrade-info.json`, store loader | RegisterUpgradeHandlers, bumpEnergyMetadataCap, RunMigrations | upgrade module, energy params, operators | every node must reach the same state, whenever its binary is swapped |
| genesis export (`export.go`) | a scratch copy of distribution, staking and slashing state | appExport, prepForZeroHeightGenesis | SDK keepers | a dozen dependent steps, most with an early return of their own |
| mempool selection (`mempool.go`) | the mempool in use | InsertTx, ReapTxs | CometBFT | retry codes |
| protobuf codec (`x/*/types/*.pb.go`) | a buffer and a position in it | Size, Marshal, Unmarshal, skip, for 75 messages | every stored value, transaction, genesis file and query; readers of another version | two countings of the same bytes, lengths that grow, unknown fields, bytes cut short |
| wiring (`app.go`), precompiles, CLI, registration | none of their own | – | – | – |

What makes each part correct: ids are never reused and committed attestations
never change (`x/energy`, `x/audit`); indexes and caches agree with the records;
queries miss nothing at their bounds; what is encoded is decoded to the same
value, by an older reader too; a client can check a batch it reads back against
its root; a revocation is final; a batch is all or
nothing; quotas count what landed; only authorised parties change state, judged
by parameters of the transaction that changes it; an export restarts into the
same state; goroutines neither lose, reorder nor block, and stop when told to; a
node that fails to start or is stopped runs its clean-up in order, and services
that crash come back; an upgrade gives all nodes one state. The places where a test would hardly reach a failure are listed under
`hazards` in `PROJECT.json`.

## 2. Modules

| module | models |
|---|---|
| `EnergyKeeper` | the keeper and message server of `x/energy` inside baseapp's transaction life cycle, with parameter changes, the v1.0.1 parameter migration and restarts from an export |
| `EnergyTypes` | the constants that `EnergyKeeper` and `EnergyClient` share |
| `AttestationLog` | abstract specification of `x/energy` and `x/audit`: an append-only log in which batches appear whole |
| `MerkleBatch` | `verifyMerkleRoot`, on which the reading of a root in `EnergyKeeper` rests |
| `EnergyPagination` | the paginated index listings of `x/energy` |
| `EnergyClient` | composes the two: a client submits a batch and reads it back |
| `OracleKeeper` | the keeper and message server of `x/oracle` |
| `AuditKeeper` | the keeper, message server and queries of `x/audit`, inside the same transaction life cycle as `EnergyKeeper` |
| `IdentityKeeper` | the keeper and message server of `x/identity` |
| `PromotedTxBroadcaster` | the broadcaster's goroutine, its callers and its shutdown |
| `NodeServer` | `customStartInProcess` and `startStandAlone`, the errgroup it serves on, and the supervisor of the EVM services |
| `UpgradeNodes` | the v1.0.1 upgrade on several nodes whose operators swap binaries |
| `ZeroHeightExport` | `appExport` and `prepForZeroHeightGenesis` |
| `WireMessage`, `EnergyMessages`, `OracleMessages`, `IdentityMessages`, `AuditMessages` | the generated messages as tables of their fields |
| `WireCodec` | the generated codec, run over those tables between a writer and a reader |
| `M_proofs` for `M` any of `EnergyKeeper`, `AuditKeeper`, `IdentityKeeper`, `OracleKeeper`, `PromotedTxBroadcaster`, `NodeServer`, `UpgradeNodes`, `ZeroHeightExport` | inductive invariant and theorems about `M`; `EnergyKeeper_proofs` also has those about `EnergyClient`, with `MerkleBatch` and `EnergyPagination` |
| `MC_*` | instances for TLC |

### EnergyKeeper

`store` is the block's state and `cache` what the running transaction sees of
it; both hold all collections of the keeper and the transient counters, because
baseapp branches transient stores with the others. `BeginTx`, `CommitTx` and
`AbortTx` are baseapp's (external): a failing message, or running out of gas at
any write, drops the cache. `SubmitEnergyData` is one step, since inside a
transaction nobody sees its intermediate writes. `BatchSubmit` is split into its
rounds (`BatchSubmit`, `BatchStoreItem` per item, `BatchFinish` for the header),
so that `AbortTx` can fall between any two. An error return is an `AbortTx` of a
transaction whose message was not executed.

`UpdateParams` is a message like the others and may stand anywhere in a
transaction. Its authority is the gov module account, for which nobody can sign,
but a grantee of that account can send it in an authz `MsgExec` (`app.go:285`,
`:662`), among submissions of their own, and a governance proposal can bundle it
with messages of that account; the gov EndBlocker runs a proposal on a cache of
its own, so a proposal is a transaction of the model as well. `txParams` is the
transaction's view of the parameters, written back or dropped with the cache.
`txRules` and `blockRules` are history variables: the parameters that were in
force at some moment of the transaction, and of the block. Which message carries
`UpdateParams` is left open, so the model also has mixes for which a chain would
need an unusual grant. `BumpEnergyMetadataCap` runs in a PreBlocker, before the
first transaction. `RestartFromExport` takes the exported genesis, with its `NextID`
or with 0 as in the older files the code provides for, into `InitGenesis` of a
new chain; `InitGenesis` calls no `Validate`, so neither does the action.

An id is `<<"energy-", n>>`; `ForeignIDs` are strings of a genesis file that
`GenerateID` does not print, such as `energy-02` or a custom id, and `ForeignNum`
is what `parseEnergyID` makes of them. A 64-bit overflow in `parseEnergyID` is
one of those. A Merkle root stands for the list of hashes it commits to, which
`MerkleBatch` justifies. `executed` and `landed` are history variables that
count a submitter's messages in the transaction and in the block that ran while a
limit was set, for only those are counted by the code.

The registered invariants of `keeper/invariants.go` are translated too
(`IDSequenceMonotonicInvariant`, `ByCategoryConsistencyInvariant`,
`BySubmitterConsistencyInvariant`, here and in the other keepers): each is weaker
than the property that contains it, which asks for equality where the Go code
looks in one direction only. The invariants on the metadata and data caps do not
hold in general, since governance may lower a cap below what is stored; those on
keys that match values and on empty addresses hold by the shape of the models.
None of these is stated.

The Block-STM runner executes transactions in parallel; the model takes the
SDK's word that this equals running them one after another. It leaves the
transient stores out of conflict detection (`app.go:226`); whether the promise
extends to the counters kept there is decided in the SDK.

### EnergyClient

The variables of `MerkleBatch` and `EnergyPagination` side by side, with one
action that joins them: `SubmitMessage` verifies the root and, if it accepts,
stores the items under consecutive ids behind the batch's own. Around it a
client composes the message item by item, and lists categories page by page
while others submit. Digests are terms, so the hash is free of collisions. The
recursion of `computeMerkleRoot` is the function `Levels`, and the root the node
of its first level that has only one.
`CollectionPaginate` of the SDK is external: a page starts at the key it is given
and names the first key it had no room for.

### WireCodec

The generated functions of a message differ only in its fields, so a message is
three tables, each read off one function: what `MarshalToSizedBuffer` writes and
in which order, what `Size` adds up and what `Unmarshal` does for each number.
The tables are kept apart on purpose; that they fit together is what the run
checks. `WireCodec` executes them: `Allocate` (Size), `MarshalField` from the end
of the buffer, a step of the outside world (`Deliver`, `Truncate`, `Follow`,
`Extend`, `Intrude`), and `UnmarshalField`, one round of the loop over tags, with
the default branch and `skipTypes`. Bytes and varints are modelled as they are:
continuation bits, ten bytes at most, bits beyond the width of the field cut
off, lengths read as signed integers. A 64-bit number is its sequence of base-128
digits, as TLC's integers are too narrow. `PageRequest` and `PageResponse` come
from the SDK and are external.

### OracleKeeper

Handlers are atomic steps, which `EnergyKeeper` shows to be what baseapp
provides. The block time stands in for the block height stored in a record.
Export cuts the oracles at `MaxOracles` as `GetAllOracles` does (which ones
remain is left open), and import replays the series in key order, which decides
what ends up in `LatestData`. `MinSubmissions` is validated and otherwise unused
by the code. `GetDataHistory` (keeper, half-open key range, capped) and
`DataHistory` (RPC, filter on stored timestamps, all pages together) are state
functions, compared with each other and with the cache. `GenesisValid` is
`GenesisState.Validate`, which only the offline command runs, never
`InitGenesis`. A first genesis file may list datapoints by hand, in any order and
without a submitter: `ImportedData` and `ImportedLatest` are what `InitGenesis`
makes of such a list, whose last record of a category ends up in the cache.

### AuditKeeper

Store, cache, phases and the parameters inside a transaction are those of
`EnergyKeeper`; a message is one step. An
id is a number; `GetNextID` and `IncrementCounter` are two calls of one handler. `ByTime` is keyed with
`timestampToKey`, which clamps negative times, and block times may be 0.
`ExportGenesis` writes all logs and the counter; `InitGenesis` takes the larger
of the counter and the highest id, so that a file with gaps or a lagging counter
(one of the genesis files of the instance) is safe. `RetentionBlocks` and
`LargeTransferThreshold` are only validated by the code and left out.
`AuditLogs` is the RPC listing with its filter; `GetAuditLogsByTimeRange` the
capped walk of `ByTime`. `GetAuditLogsByActor` and `GetAuditLogsByType` have no
caller outside the tests; they walk the indexes that `ListingsAgree` compares the
RPC listing with.

### IdentityKeeper

`isAdmin` is the gov authority or the admin of the current parameters.
`signer` is a history variable: who sent the last message. `SetIdentity` adds an
index entry and removes none, so the index is right only as long as no handler
changes a role; the proofs make this condition explicit (`SetIdentityFacts`).
`DeleteIdentity` has no caller outside the tests and is no action.

### PromotedTxBroadcaster

Goroutines interleave at channel operations: one round of `Enqueue` per step,
any number of callers, at any time, also after `Close`, since `EVMD.Close` stops
only the experimental mempool. The loop's `select` may take either case when
both are ready. The deadline of 3 s and the ticker of 100 ms are not timed, so
the model has every order of them and more. `accepted`, `handled` and `readyAt`
are history variables.

Fairness: every goroutine that can run is run (weak fairness of `Enqueue`,
`Loop`, `CloseReturns`: the Go scheduler is preemptive, the deadline is a timer,
`BroadcastTxAsync` on the local client returns). `LoopExit` has strong fairness,
since `select` chooses among its ready cases at random and cannot avoid `done`
for ever. Nothing forces anyone to call `Enqueue`, `SetClientCtx` or `Close`.

### NodeServer

`main` is the program counter of `customStartInProcess`, one value per step that
may return an error; an error leads to the deferred calls (`StopNode`,
`CloseApp`, `CloseDB`) in their order. `services` are the goroutines of the main
errgroup, `ctx` its context, which a signal or the first failing service
cancels. `sup` is the program counter of `runEVMServicesSupervised`; `gens` holds
for each attempt its own errgroup context and its two goroutines, which outlive
the attempt until they see their context done. `idxOpen` is the indexer's
database, which an attempt opens and nothing closes. The backend is goleveldb
(`config/config.toml:9`), whose lock refuses a second opening by the same process
too (`IndexerDBLocked`); rounds of the loop that meet the lock are alike and do
not count as attempts. The backoff is not timed.
When the command has returned the process ends and nothing moves.
`startStandAlone` (no CometBFT in process) shares the first steps and the
clean-up; its signal listener is outside the errgroup, so a server that cannot
start ends the command, while `customStartInProcess` goes on waiting for a signal.
The supervisor runs outside the errgroup that the command waits for, so the EVM
services may outlive the node and the application under them until the process
ends; what can be said is that they have been told to stop (`EvmToldToStop`).

Fairness: weak fairness of the start command and of the supervisor (their calls
return, the backoff timer fires, `errgroup.Wait` returns when its goroutines
have) and of the servers' reaction to a cancelled context, for which they
select. Nothing has to fail, and nobody has to send a signal. Opening the
indexer's database is not assumed to succeed; an attempt that meets the lock goes
on failing. `RecoversUnlessLocked` names this exception, and a failed member of the
main errgroup as the other.

### UpgradeNodes

Per node: the committed application state (height, plan, applied upgrade, cap,
module versions), `upgrade-info.json`, the installed binary, whether it runs and
with which `--unsafe-skip-upgrades`, and the store loader its process was built
with. `Start` is `RegisterUpgradeHandlers`; `ExecuteBlock`, `SkipUpgrade`,
`HaltForUpgrade`, `ApplyUpgrade` and `WrongBinaryPanics` are the PreBlocker of
`x/upgrade` (external) around the handler of this repository. A block is one
step, because a crash before its commit loses nothing else. The nodes agree on
the blocks (`blocks`), as CometBFT provides.

### ZeroHeightExport

One step per call of `prepForZeroHeightGenesis` that may fail or return early,
and one per element of its iterations. Errors that the code ignores are steps
too: a withdrawal that fails may leave the ended period behind, as there is no
cached context (`WithdrawRewardsFails`), and an iterator that cannot be closed
ends the preparation with nil (`CloseFails`, remembered in `closeFailed`). Only
a panic on a stored bech32 address that does not parse is left out. The SDK keepers are external and kept to
what the function moves: reward periods with their reference counts, outstanding
rewards, commission, community pool and the balance of the distribution account
in fractions of a coin. `sdk.ValAddress(val.GetOperator())` is the conversion of
a bech32 string (what `GetOperator` returns in the SDK of `go.mod`) and yields an
address of no validator (`BadAddress`). `Walked` is the part of the power index
that `ApplyAndReturnValidatorSetUpdates` looks at: `MaxValidators` from the top,
and nothing behind a validator without power. A chain to be exported satisfies the
registered invariants of the SDK modules (`ChainsAssumption`): the distribution
account is balanced, a validator's outstanding rewards cover those of its
delegations, and the power index holds exactly who is not jailed.

## 3. Runs

| run | instance | shows |
|---|---|---|
| `energy_keeper` | 2 submitters, 2 categories, 2 hashes, ids to 4, transactions of up to 2 messages per submitter, batches of 2, limits of none, 1 and 2; empty and legacy genesis | `StoreConsistent` (types, fresh ids), `IndexesConsistent`, `RateLimitExact`, `BatchesComplete`, `AdmittedWhenCommitted`, refinement of `AttestationLog` (`LogSpec`) |
| `energy_client` | all pairs of lists of up to 5 items over 2 hashes, 4 or 6 earlier records, ids to 11, pages of 1 or 2 | `RootBindsItems`, `ListingComplete`, `BatchAuditable` |
| `wire_codec` | every message and every field of the four modules, at the ends of the types and where an encoding grows | `SizeExact`, `RoundTrip`, `CutDetected`, `UnknownFieldsSkipped` |
| `oracle_keeper` | 2 oracles, 2 categories, block times to 5, drift to 2, export and history limit 1; 3 genesis files, one with 2 datapoints out of order | `LatestConsistent`, `FreshIsRecent`, `HistoryQueriesAgree`, `HistoryOnlyByOracles`, `ExportStaysValid` |
| `promoted_tx_broadcaster` | 2 callers, queue of 2, lists that fit, overflow and hold a nil | `Inv` (types, `HandledInOrder`), `NoDropOnceReady`, `QuietAfterClose`, `EnqueueReturns`, `AcceptedIsHandled`, `CloseTerminates` |
| `audit_keeper` | 2 creators, 2 event types, ids to 3, times from -1 to 2, queries of 2, limits of none, 1 and 2 | `StoreConsistent` (types, fresh ids, exact indexes), `RateLimitExact`, `TimeRangeExact`, `ListingsAgree`, refinement of `AttestationLog` (`LogSpec`) |
| `identity_keeper` | gov and 2 accounts, 2 roles, 3 metadata sizes | `ByRoleConsistent`, `RevocationFinal`, `AuthorizedChanges` |
| `node_server` | 7 configurations, 3 failures of EVM services | `StartUpInOrder` (types, `NodeHasApp`, `IndexerHasClient`, `EvmToldToStop`), `CleanReturn`, `AttemptsIsolated`, `RecoversUnlessLocked`, `ShutdownCompletes` |
| `services_recover` | violation of `ServicesRecover` | with the indexer enabled the EVM services do not come back, as its database stays locked |
| `upgrade_nodes` | 2 nodes, plans for block 2 or 3, caps on both sides of the new one | `Inv` (types, `SameStateAtHeight`), `LoaderForUpgrade` |
| `zero_height_export` | 4 chains of 2 validators and 2 delegations, one active validator, every allow list | `Inv` (types, `HoldingsMatch`, `StakingReset`, `ActiveNeverUnlisted`) |
| `zero_height_periods` | violation of `RewardPeriodsKept` | the reward periods that delegations start from are deleted after they were set |

Why the bounds suffice. Ids: 4 leave room for a batch and a single record,
for a rolled-back transaction whose ids are reissued, and for a restart before
and after; the legacy genesis already holds numbers 1 and 2. The limits of 1 and 2 with
two messages per transaction are reached within a transaction and across
transactions, and may be raised, lowered or first set between two messages of
one. The parameter sets differ in every field that a handler reads, and
two of them fail validation. Five Merkle items give odd nodes on two levels.
The ids of a client's batch end before, at or behind the tenth, the first at
which byte order and numeric order part. Messages are taken empty and full with
each field in turn at its boundary: integers of one and two bytes and the ends of
their type, strings and embedded messages of up to 128 bytes, where a length
takes a second byte; the full message is cut at every byte and gets each of six
unknown fields at every place. The oracle's
times reach beyond window plus drift, and the genesis datapoints, the first of
them dated ahead, are in an order that no export has. In the broadcaster two calls on a queue of
two make it overflow by one call, by two and after the loop is gone.
Three audit logs exceed the query cap of two, and one of a genesis file is dated
before 1970. Three failures of EVM services give
two restarts, the second of them while a goroutine of the first attempt may still
be running. Two nodes are enough for one to halt and the other to be swapped
early, to crash or to skip; three blocks hold a plan, the upgrade and a block
after it. The exported chains have shared and separate periods, dust below a
coin, a jailed validator, a candidate outside the active set and one without
power.
`MaxSeq` (2^64 - 1 in the code), `MaxMsgs`, `MaxItems`, `MaxTime`, `MaxData`,
`MaxCalls`, `MaxLen`, `MaxFailures` and `MaxHeight` are bounds of the models.
Deadlock is not checked where the system stops: the process of `node_server` and
of the exports ends, a rejected batch is not sent again, a reader that has
returned stops, and a closed broadcaster with no callers left rests. Symmetry is
used in `upgrade_nodes` (nodes), `energy_client` (hashes), `energy_keeper`
(categories and hashes; the genesis files come in all their variants) and
`audit_keeper` (event types), which have no liveness property.

Every property of a passing run has a mutant, a plausible bug defined just
before the definition it replaces, under which TLC finds the property violated.

## 4. Proofs

Each theorem holds for every value of the constants that satisfies the named
assumptions of its module, which TLC evaluates in the runs. None of the
properties is inductive as it stands, so each `*_proofs` module strengthens it to
an invariant `IInv` (`ClientIInv` for `EnergyClient`), has one lemma per action (or group of like actions) that it
keeps `IInv`, and derives the theorems from it. Every
strengthening has been checked with TLC on the instance of section 3, except `OneHistory` of
`UpgradeNodes_proofs`, which quantifies over histories with unbounded heights.

Two kinds of facts would normally be proved by induction over numbers: what the
nodes of a Merkle tree or the prints of two ids have to do with each other, and
how a sum changes with one summand. The induction theorems of the library take
an operator as a parameter and cannot be used here, so these proofs assume a
counterexample, take the least one (`Least`), and refute it.

| module | theorem | states |
|---|---|---|
| `EnergyKeeper_proofs` | `TypeCorrect` | `Spec => []TypeOK` |
| | `IDsNeverCollide` | `Spec => []IDSequenceMonotonic` |
| | `StoreAlwaysConsistent` | `Spec => []StoreConsistent` |
| | `IndexesAlwaysConsistent` | `Spec => []IndexesConsistent` |
| | `BatchesAlwaysComplete` | `Spec => []BatchesComplete` |
| | `RateLimitHolds` | `Spec => []RateLimitExact` |
| | `OnlyAdmittedCommitted` | `Spec => AdmittedWhenCommitted` |
| | `RefinesLog` | `Spec => LogSpec` |
| | `RootBindsItemsAlways` | `ClientSpec => []RootBindsItems` |
| | `ListingCompleteAlways` | `ClientSpec => []ListingComplete` |
| | `BatchAuditableAlways` | `ClientSpec => []BatchAuditable` |
| `AuditKeeper_proofs` | `StoreAlwaysConsistent` | `Spec => []StoreConsistent` |
| | `RateLimitHolds` | `Spec => []RateLimitExact` |
| | `ListingsAlwaysAgree` | `Spec => []ListingsAgree` |
| | `TimeRangeAlwaysExact` | `Spec => []TimeRangeExact` |
| | `RefinesLog` | `Spec => LogSpec` |
| `IdentityKeeper_proofs` | `TypeCorrect` | `Spec => []TypeOK` |
| | `RoleIndexConsistent` | `Spec => []ByRoleConsistent` |
| | `RevocationsFinal` | `Spec => RevocationFinal` |
| | `OnlyAuthorizedChanges` | `Spec => AuthorizedChanges` |
| `OracleKeeper_proofs` | `LatestAlwaysConsistent` | `Spec => []LatestConsistent` |
| | `FreshAlwaysRecent` | `Spec => []FreshIsRecent` |
| | `HistoryQueriesAlwaysAgree` | `Spec => []HistoryQueriesAgree` |
| | `HistoryChangedByOraclesOnly` | `Spec => HistoryOnlyByOracles` |
| | `ExportsStayValid` | `Spec => ExportStaysValid` |
| `PromotedTxBroadcaster_proofs` | `Invariance` | `Spec => []IInv` |
| | `AcceptedOnceInOrder` | `Spec => []Inv` |
| | `NoDropAfterSetClientCtx` | `Spec => []NoDropOnceReady` |
| | `ClosedIsQuiet` | `Spec => QuietAfterClose` |
| `NodeServer_proofs` | `StartUpOrdered` | `Spec => []StartUpInOrder` |
| | `ReturnsClean` | `Spec => []CleanReturn` |
| | `AttemptsStayIsolated` | `Spec => []AttemptsIsolated` |
| `UpgradeNodes_proofs` | `NodesAgree` | `Spec => []Inv` |
| | `UpgradesWithLoader` | `Spec => LoaderForUpgrade` |
| `ZeroHeightExport_proofs` | `InvariantHolds` | `Spec => []IInv` |
| | `ExportAlwaysReset` | `Spec => []StakingReset` |
| | `ActiveAlwaysListed` | `Spec => []ActiveNeverUnlisted` |
| | `ExportAlwaysCorrect` | `Spec => []Inv` |

**EnergyKeeper.** The properties speak of the store, which a commit overwrites
with the cache. `IInv` therefore says the same of the cache (`StoreInv`), that the
cache only extends the store, by ids above the store's sequence (`CacheExtends`),
that a running `BatchSubmit` has written exactly the items before its position
under consecutive ids (`PendingMatches`), that outside transactions nothing is
pending (`Idle`), that the counters are `landed + executed` and within a limit that
was in force (`Counters`), and that whatever the cache holds beyond the store is
admitted by parameters of the running transaction (`CacheAdmitted`). The last two
need that a handler reads parameters of its own transaction (`InForce`) and that
`BatchSubmit` has checked all its items by one set of them (`PendingMatches`).
`RefinesLog` follows from `CacheExtends`, since a commit adds only new ids,
and from `BatchesComplete`, since the items of a new batch have ids above its own.
Assumptions: the constants have their types and the limits are numbers
(`ConstantsAssumption`); foreign ids are not prints of `GenerateID` and parse to
a number within the bound (`ForeignIDsAssumption`); a genesis file is valid and
holds the records of the batches it holds (`GenesesAssumption`; the code does not
check the last point, so a hand-made genesis could break it).

**EnergyClient.** `ClientIInv` is the listing's type invariant with three parts.

- `MessageInv`: lists are sequences of hashes, and `RootBindsItems`, which is the
  lemma `RootsBind`. A digest tells what was hashed, a leaf or a pair; a pair does
  not tell its order, and a last node may be paired with itself, so equal digests
  say little by themselves. `NodesDistinct` shows that equal nodes of two trees
  (or of one) are at the same depth and position, since the leaves carry their
  indexes. So equal roots (`RootIsTop`: the levels do shrink to one node) are at
  the same depth, and `LevelBinds` goes down from them: equal levels have equal
  levels below, the order of a pair being fixed by the positions of its members.
- `ListingInv`: what the listing has not shown lies at or after its cursor, what it
  has shown lies before it, so insertions on either side of the cursor do no
  harm. It rests on `KeyOrder`, that the order of the printed ids is a strict
  total order (`DigitsFacts`: different numbers have different prints, all made
  of digits), and on `WalkInOrder`, that picking entries by the number of those
  before them lists each exactly once, in order.
- `HeaderInv`: the records of an accepted batch are in the index of its category,
  and in what any listing of that category begun since has to show. Without
  it a finished listing would be complete but say nothing of the batch.

`BatchAuditable` follows from the three: the records of the batch among the
listed ones are exactly the ids behind its header, and counting them gives back
the published list. Assumptions (`ClientAssumption`): the bounds are numbers,
page limits are positive, the batch's category is a category and earlier indexes
are well typed.

**AuditKeeper.** The same argument without batches: `StoreInv` of store and cache,
`CacheExtends`, `InForce`, `Idle`, `Counters`. `TimeRangeExact` and `ListingsAgree`
are consequences of the exact indexes; for the latter the proof shows that the key
of a log in `ByTime` lies in a range exactly when its date does, unless the date is
negative and before the range. The capped walk picks the
`MaxQueryResults` first entries of `ByTime` by counting, for each entry, those
before it; `WalkFacts` shows that this rank is a bijection with `0..n-1`, hence that the
walk returns exactly as many logs as the cap when it leaves any out.
Assumptions: types of the constants, and valid genesis files
(`GenesesAssumption`: what `GenesisState.Validate` accepts).

**IdentityKeeper.** `IInv` is `TypeOK /\ IndexMatches`; the lemma
`SetIdentityFacts` carries the argument (`SetIdentity` keeps the index exact if
the role is the stored one or the address is new). Assumptions: the authority is
an address, the empty string is none, and genesis files are valid.

**OracleKeeper.** `LatestConsistent` needs to know what a stored
record has to do with its key and with the block time: `DataMatchesKeys` (category and
timestamp are those of the key, no record is from a later block, none is dated
further ahead than the largest drift any parameters allow, whichever were in
force when it was written, unless it is of the first genesis file) and `LatestMatches` (the cached record is one of the
series and the newest of it, by writing or, after a replay in key order, by
timestamp). Valid parameters and finiteness of the maps complete it. The
freshness bound uses the drift's upper bound because parameters may change
between submission and query. `ExportsStayValid` relates two states: a valid
export says something of every stored record, and each action is shown either to
keep it or to be one of the listed exceptions. Assumptions: types of the
constants, and first genesis files that pass `Validate` (`GenesesAssumption`);
later ones are the chain's own exports and nothing is assumed of them. That a
first file may list its datapoints in any order is the lemma `ImportFacts`: keys
are distinct, so the series holds all of them, and the cache one per category.

**PromotedTxBroadcaster.** `Positions` states the order index by index, which
every channel operation shifts by one: the accepted sequence is what was handled,
the transaction in work (`Held`), the queue. `NoDropOnceReady` needs
`WaitingSinceBefore`: a loop that still waits although the client is ready holds
a transaction it took before `SetClientCtx`. `QuietAfterClose` needs
`ReturnedAfterLoop`. Assumptions: nil is no transaction, lists are sequences of
transactions and nils, bounds are numbers.

**NodeServer.** `Resources` says at each program point of the start command and of
its deferred calls what the process holds (database, application, node,
profile); `ClientKnown` and `OffIsFresh` where the supervisor can exist and what
it can rely on; `AttemptsCounted` that earlier attempts are cancelled, later ones
untouched and that each finished attempt has cost a failure of a service, so that
the attempt counter cannot outrun the failures; `CtxCause` who cancels the main
context; `ListenerKept` that from `getCtx` on the listener for signals is in the
errgroup or has cancelled the context, from which it follows that the clean-up
finds the EVM services told to stop. Assumptions: configurations are well typed, `MaxFailures` is a number.

**UpgradeNodes.** A node's state is a function of the decided blocks up to its
height. `OneHistory` states this without a recursive definition: there is a
sequence of states, one per height, each made from the one before by
`AfterBlock`, and every node that has skipped no upgrade is on it. `AfterBlock`
mentions no file, flag, binary or loader, so the proof that each kind of block
execution computes it is the argument that the operator's doings do not matter.
`NoneAhead` bounds the heights by the decided blocks; `LoaderCurrent` says that a
running process has the loader its files call for now, since files change only
while it is stopped. Assumption: heights and caps are numbers.

**ZeroHeightExport.** `RewardsCovered` (what is still owed to the delegations of a
validator is among its outstanding rewards) makes every withdrawal payable, so
that the subtractions in `HoldingsMatch` stay exact; `Progress` says at each
program point what has been reset for good, which validators are jailed and that
none of them is in the walked part of the power index, the last and the signing
infos with the exception of `closeFailed`. The
sums over validators and delegations are folds. What a change of one summand does
to a sum would normally be an induction over the set, which is out of reach; the
module proves it by a least counterexample instead (`SumsExist`, `SumsChange`,
`TotalFacts`). Assumptions: `BadAddress` is no validator, a whole coin is a
positive number of fractions, finitely many validators and delegations
(`ConstantsAssumption`), and `ChainsAssumption` of section 2, which the SDK's own
registered invariants justify.

Only model-checked:

- liveness, which is out of the prover's reach: `EnqueueReturns`,
  `AcceptedIsHandled` and `CloseTerminates` of the broadcaster,
  `RecoversUnlessLocked` and `ShutdownCompletes` of `NodeServer`;
- `WireCodec` (`SizeExact`, `RoundTrip`, `CutDetected`, `UnknownFieldsSkipped`),
  whose messages nest and whose sizes and skipping of groups are `RECURSIVE`
  operators: the provers cannot reason in a module that declares one, and what
  these compute would have to be proved by induction over nested data;
- the two properties whose runs end in a violation.

## 5. Findings

Two runs end in a violation that is the point of them; `findings` in
`PROJECT.json` quotes the lines.

- `services_recover`: every attempt of the supervisor opens the indexer's database
  and none closes it, so that with the indexer enabled the EVM services do not
  come back after their first failure. There is a second way to lose them: the
  supervisor also exits, without a signal, when a gRPC, REST or metrics server
  fails (`evm_server.go:435`). `RecoversUnlessLocked`, which holds, says that there
  is no third.
- `zero_height_periods`: a zero-height export deletes the reward periods that its
  delegations refer to.

Reading the code for the models showed more places where a comment says
otherwise. The models follow the code in each:

- `MsgUpdateParams` of `x/energy` may lower `MaxMetadataSize` below stored
  metadata (`msg_server.go:147`), which `invariants.go:142` says is disallowed.
- From the tenth id on, index walks of `x/energy` are not in insertion order
  (`keeper.go:124`, against `keeper.go:38`): ids are not padded.
- After a restart `LatestData` of `x/oracle` is the record with the highest
  timestamp, not the last one written (`keeper.go:270`, against `keeper.go:36`);
  the last conjunct of `LatestConsistent` states what holds.
- An export of `x/oracle` is cut at `MaxOracles` (`keeper.go:225`, `GetAllOracles`) and may not
  pass `GenesisState.Validate`, after `RemoveOracle` for one; `ExportStaysValid`
  lists the cases.
- A log that a genesis file of `x/audit` dates before 1970 is filed under second 0
  (`keeper.go:190`): a range that begins after its date finds it by the index and
  not by the RPC filter (`query_server.go:61`). `ListingsAgree` states the
  exception.
- The indexer's database is still open when the start command returns
  (`evm_server.go:460`), and the EVM services may still run while the node is
  stopped and the application closed (`:409`).
- With `--cpu-profile` the profiler is started twice (`evm_server.go:117` and
  `:232`) and the second start fails, so the node does not start.
- A zero-height export with an allow list that leaves out an active validator ends
  in a panic (`export.go:206` and `:221`); `ActiveNeverUnlisted` states this. One
  that leaves out a candidate outside the active set does not, and the candidate
  is jailed in the power index of the file.
- When the iterator over the validators cannot be closed, a zero-height export
  returns nil from its preparation (`export.go:218`) and succeeds without the
  validator set applied (`:221`) and the signing infos reset (`:228`).
  `StakingReset` and `ActiveNeverUnlisted` hold with that one exception.
- A zero-height export withdraws no commission, as `export.go:75` does not decode
  the operator address.

## 6. Not modelled

Precompiles (read-only views), CLI and flags, registration of types, getters,
descriptors and gRPC stubs of the generated code, default genesis (constants),
the wiring in `app.go`, and everything outside the repository:
baseapp, collections, CometBFT, the EVM mempools, the SDK's staking,
distribution, slashing and upgrade keepers and the Block-STM runner appear only
as far as the code here uses them. `mempool.go` chooses a mempool from the
configuration and hands its calls on; what it does to transactions is decided in
cosmos/evm. The JSON of a genesis file is not modelled, only what its fields
hold. The application wires no crisis module that would run the registered
invariants in a node.

## 7. Plan

1. Done: `EnergyKeeper` with `AttestationLog` and its proofs, `MerkleBatch`,
   `EnergyPagination` and their composition `EnergyClient`, `OracleKeeper` with
   the validation of its exports, `PromotedTxBroadcaster`, `AuditKeeper`,
   `IdentityKeeper` with its proofs, `NodeServer`, `UpgradeNodes`,
   `ZeroHeightExport`, the registered invariants, `WireCodec` over all messages.
2. Modules: the retry codes of the `InsertTx` and `ReapTxs` handlers; the genesis round trips of `x/audit` and `x/identity`
   through `Validate`.
3. Composition: the broadcaster inside `NodeServer`'s start and shutdown; the
   upgrade handler with the full state of `EnergyKeeper`.
4. Proofs: done for every safety property but those of `WireCodec`. The codec
   would need its recursive operators rewritten as functions over the bytes of a
   buffer, as was done for the levels of the Merkle tree, and then a least
   counterexample over the position in the buffer.
