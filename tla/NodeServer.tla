----------------------------- MODULE NodeServer -----------------------------
(***************************************************************************)
(* evm_server.go: the start command.  customStartInProcess brings the node *)
(* up step by step, any of which may fail, serves on the main errgroup and *)
(* runs its deferred clean-up when it returns.  The EVM indexer and the    *)
(* JSON-RPC server live on errgroups of their own, one per attempt, which  *)
(* runEVMServicesSupervised restarts when they fail.  startStandAlone      *)
(* serves the application to a CometBFT in another process instead.        *)
(*                                                                         *)
(* Goroutines interleave at every step.  The backoff is not timed.  When   *)
(* the command has returned the process ends and nothing moves.            *)
(* The databases are goleveldb's, the backend of config.toml: an open one  *)
(* is locked against being opened again, by the same process too.          *)
(***************************************************************************)
EXTENDS Integers

CONSTANTS
    Configs,         \* configurations the node may be started with
    MaxFailures      \* bound of the model on failures of the EVM services

VARIABLES
    config,          \* flags and config file, see Config
    main,            \* the start command: see MainSteps
    failedAt,        \* the step that made it return early, or "none"
    profiling,       \* pprof's CPU profiler is running
    dbHandles,       \* application DB: times opened minus times closed
    app,             \* the application: "none", "open", "closed"
    node,            \* CometBFT: "none", "running", "stopped"
    client,          \* clientCtx has a client of the local node
    services,        \* running goroutines of the main errgroup
    ctx,             \* the main errgroup's context is cancelled
    signalled,       \* SIGINT or SIGTERM was received
    serviceFailed,   \* history: a service of the main errgroup failed
    sup,             \* the supervisor: see SupSteps
    attempt,         \* its loop variable
    gens,            \* per attempt: its errgroup and its goroutines
    idxOpen,         \* the indexer's DB is open, and so locked
    failures         \* failures of EVM services so far

process == <<config, main, failedAt, profiling, dbHandles, app, node, client>>
group == <<services, ctx, signalled, serviceFailed>>
evm == <<sup, attempt, gens, idxOpen, failures>>
vars == <<process, group, evm>>

-----------------------------------------------------------------------------
Config == [WithCometBFT : BOOLEAN, CPUProfile : BOOLEAN, GRPCOnly : BOOLEAN, API : BOOLEAN,
           GRPC : BOOLEAN, JSONRPC : BOOLEAN, EnableIndexer : BOOLEAN]

ASSUME ConstantsAssumption == Configs \subseteq Config /\ MaxFailures \in Nat

MainSteps == {"wrap", "profile", "openDB", "loadConfig", "createApp", "nodeKey",
              "startNode", "setClient", "telemetry", "startGRPC", "startAPI",
              "startEVM", "configure", "serve",
              "wait", "stopNode", "closeApp", "closeDB", "returned"}

\* In startStandAlone the ABCI server is one that starts and then one that runs.
Services == {"grpc", "api", "abciStart", "abci"}

SupSteps == {"off", "check", "backoff", "open", "startRPC", "wait", "exited"}

Attempts == 0..MaxFailures

\* An EVM errgroup: whether its own context was cancelled (by evmCancel or by
\* the first error of its goroutines), and the state of its two goroutines.
GoStates == {"none", "running", "returned"}
Generation == [cancelled : BOOLEAN, indexer : GoStates, rpc : GoStates]

TypeOK ==
    /\ config \in Config
    /\ main \in MainSteps /\ failedAt \in MainSteps \cup {"none"}
    /\ profiling \in BOOLEAN /\ dbHandles \in 0..1
    /\ app \in {"none", "open", "closed"}
    /\ node \in {"none", "running", "stopped"}
    /\ client \in BOOLEAN
    /\ services \subseteq {"signal"} \cup Services
    /\ ctx \in BOOLEAN /\ signalled \in BOOLEAN /\ serviceFailed \in BOOLEAN
    /\ sup \in SupSteps /\ attempt \in Attempts
    /\ gens \in [Attempts -> Generation]
    /\ idxOpen \in BOOLEAN
    /\ failures \in 0..MaxFailures

Init ==
    /\ config \in Configs
    /\ main = "wrap" /\ failedAt = "none"
    /\ profiling = FALSE /\ dbHandles = 0
    /\ app = "none" /\ node = "none" /\ client = FALSE
    /\ services = {} /\ ctx = FALSE /\ signalled = FALSE /\ serviceFailed = FALSE
    /\ sup = "off" /\ attempt = 0
    /\ gens = [a \in Attempts |-> [cancelled |-> FALSE, indexer |-> "none", rpc |-> "none"]]
    /\ idxOpen = FALSE
    /\ failures = 0

Alive == main # "returned"

-----------------------------------------------------------------------------
(* customStartInProcess: start-up                                          *)

Goto(from, to) == main = from /\ main' = to

\* An error return: the deferred calls run.
Fails(from) ==
    /\ main = from /\ main' = "stopNode"
    /\ failedAt' = from

\* RunE up to the keyring, and wrapCPUProfile around the whole of what follows.
WrapCPUProfile ==
    /\ \/ Fails("wrap") /\ UNCHANGED profiling
       \/ /\ Goto("wrap", IF config.WithCometBFT THEN "profile" ELSE "openDB")
          /\ profiling' = config.CPUProfile
          /\ UNCHANGED failedAt
    /\ UNCHANGED <<config, dbHandles, app, node, client, group, evm>>

\* getCtx, which starts to listen for signals, and the CPU profile.  Starting
\* the profiler fails while it runs.
GetCtxAndProfile ==
    /\ services' = services \cup {"signal"}
    /\ \/ /\ config.CPUProfile /\ profiling
          /\ Fails("profile")
          /\ UNCHANGED profiling
       \/ /\ config.CPUProfile => ~profiling
          /\ Goto("profile", "openDB")
          /\ profiling' = config.CPUProfile
          /\ UNCHANGED failedAt
    /\ UNCHANGED <<config, dbHandles, app, node, client, ctx, signalled, serviceFailed, evm>>

OpenDB ==
    /\ \/ Fails("openDB") /\ UNCHANGED dbHandles
       \/ Goto("openDB", "loadConfig") /\ dbHandles' = dbHandles + 1 /\ UNCHANGED failedAt
    /\ UNCHANGED <<config, profiling, app, node, client, group, evm>>

\* The trace writer, GetConfig and ValidateBasic; in startStandAlone the trace
\* writer alone.
LoadConfig ==
    /\ Fails("loadConfig") \/ (Goto("loadConfig", "createApp") /\ UNCHANGED failedAt)
    /\ UNCHANGED <<config, profiling, dbHandles, app, node, client, group, evm>>

\* AppCreator may panic, which runs the deferred calls like a return.
CreateApp ==
    /\ \/ Fails("createApp") /\ UNCHANGED app
       \/ /\ Goto("createApp", IF config.WithCometBFT THEN "nodeKey" ELSE "configure")
          /\ app' = "open" /\ UNCHANGED failedAt
    /\ UNCHANGED <<config, profiling, dbHandles, node, client, group, evm>>

LoadNodeKey ==
    /\ Fails("nodeKey") \/ (Goto("nodeKey", "startNode") /\ UNCHANGED failedAt)
    /\ UNCHANGED <<config, profiling, dbHandles, app, node, client, group, evm>>

\* Query-only mode runs without CometBFT and without the indexer.
QueryOnly ==
    /\ config.GRPCOnly
    /\ Goto("startNode", "setClient")
    /\ config' = [config EXCEPT !.GRPC = TRUE, !.EnableIndexer = FALSE]
    /\ UNCHANGED <<node, failedAt>>

\* NewNode and Start.
WithCometBFT ==
    /\ ~config.GRPCOnly
    /\ \/ Fails("startNode") /\ UNCHANGED node
       \/ Goto("startNode", "setClient") /\ node' = "running" /\ UNCHANGED failedAt
    /\ UNCHANGED config

StartNode ==
    /\ QueryOnly \/ WithCometBFT
    /\ UNCHANGED <<profiling, dbHandles, app, client, group, evm>>

SetClient ==
    /\ Goto("setClient", "telemetry")
    /\ client' = (/\ config.API \/ config.GRPC \/ config.JSONRPC \/ config.EnableIndexer
                  /\ node # "none")
    /\ UNCHANGED <<config, failedAt, profiling, dbHandles, app, node, group, evm>>

\* startTelemetry and the genesis document.
StartTelemetry ==
    /\ Fails("telemetry") \/ (Goto("telemetry", "startGRPC") /\ UNCHANGED failedAt)
    /\ UNCHANGED <<config, profiling, dbHandles, app, node, client, group, evm>>

StartGRPC ==
    /\ \/ config.GRPC /\ Fails("startGRPC") /\ UNCHANGED services
       \/ /\ Goto("startGRPC", "startAPI") /\ UNCHANGED failedAt
          /\ services' = services \cup (IF config.GRPC THEN {"grpc"} ELSE {})
    /\ UNCHANGED <<config, profiling, dbHandles, app, node, client, ctx, signalled,
                   serviceFailed, evm>>

\* startAPIServer; the metrics server it may start is counted as part of it.
StartAPI ==
    /\ Goto("startAPI", "startEVM")
    /\ services' = services \cup (IF config.API THEN {"api"} ELSE {})
    /\ UNCHANGED <<config, failedAt, profiling, dbHandles, app, node, client, ctx, signalled,
                   serviceFailed, evm>>

\* The supervisor is started if JSON-RPC is enabled and the application and
\* its mempool offer what it needs.
StartEVM ==
    /\ \/ config.JSONRPC /\ Fails("startEVM") /\ UNCHANGED sup
       \/ /\ Goto("startEVM", "wait") /\ UNCHANGED failedAt
          /\ sup' = IF config.JSONRPC THEN "check" ELSE sup
    /\ UNCHANGED <<config, profiling, dbHandles, app, node, client, group, attempt, gens, idxOpen,
                   failures>>

\* g.Wait returns when all goroutines of the main errgroup have, the one that
\* waits for a signal included.
GroupWait ==
    /\ services = {}
    /\ Goto("wait", "stopNode")
    /\ UNCHANGED <<config, failedAt, profiling, dbHandles, app, node, client, group, evm>>

-----------------------------------------------------------------------------
(* startStandAlone, behind the creation of the application                 *)

\* GetConfig, ValidateBasic, startTelemetry and NewServer.
Configure ==
    /\ Fails("configure") \/ (Goto("configure", "serve") /\ UNCHANGED failedAt)
    /\ UNCHANGED <<config, profiling, dbHandles, app, node, client, group, evm>>

\* getCtx, whose listener is here no member of the errgroup, and the server.
Serve ==
    /\ Goto("serve", "wait")
    /\ services' = services \cup {"abciStart"}
    /\ UNCHANGED <<config, failedAt, profiling, dbHandles, app, node, client, ctx, signalled,
                   serviceFailed, evm>>

\* svr.Start returns nil.
AbciStarts ==
    /\ Alive /\ "abciStart" \in services
    /\ services' = (services \ {"abciStart"}) \cup {"abci"}
    /\ UNCHANGED <<process, ctx, signalled, serviceFailed, evm>>

-----------------------------------------------------------------------------
(* Deferred calls, last registered first                                   *)

\* Mutant: the node is left to the end of the process.
StopNodeSkipped ==
    /\ Goto("stopNode", "closeApp")
    /\ UNCHANGED <<config, failedAt, profiling, dbHandles, app, node, client, group, evm>>

StopNode ==
    /\ Goto("stopNode", "closeApp")
    /\ node' = IF node = "running" THEN "stopped" ELSE node
    /\ UNCHANGED <<config, failedAt, profiling, dbHandles, app, client, group, evm>>

\* app.Close closes the database it was given.
CloseApp ==
    /\ Goto("closeApp", "closeDB")
    /\ app' = IF app = "open" THEN "closed" ELSE app
    /\ dbHandles' = IF app = "open" THEN dbHandles - 1 ELSE dbHandles
    /\ UNCHANGED <<config, failedAt, profiling, node, client, group, evm>>

\* Mutant: the DB is never closed here.
CloseDBWithApp ==
    /\ Goto("closeDB", "returned")
    /\ profiling' = FALSE
    /\ UNCHANGED <<config, failedAt, dbHandles, app, node, client, group, evm>>

\* The DB, if no application took it over, and the profile.
CloseDB ==
    /\ Goto("closeDB", "returned")
    /\ dbHandles' = IF app = "none" /\ dbHandles = 1 THEN 0 ELSE dbHandles
    /\ profiling' = FALSE
    /\ UNCHANGED <<config, failedAt, app, node, client, group, evm>>

-----------------------------------------------------------------------------
(* The main errgroup and CometBFT                                          *)

\* Somebody listens for signals: a member of the main errgroup or, in
\* startStandAlone, a goroutine that nobody waits for.
Listening ==
    IF config.WithCometBFT THEN "signal" \in services
    ELSE ~signalled /\ failedAt = "none" /\ main \in {"wait", "stopNode", "closeApp", "closeDB"}

\* Mutant: the signal does not cancel the context.
SignalNoCancel ==
    /\ Alive /\ Listening
    /\ signalled' = TRUE
    /\ services' = services \ {"signal"}
    /\ UNCHANGED <<process, ctx, serviceFailed, evm>>

\* The listener that getCtx starts: it returns, and cancels the context, on
\* SIGINT or SIGTERM.
Signal ==
    /\ Alive /\ Listening
    /\ signalled' = TRUE
    /\ ctx' = TRUE
    /\ services' = services \ {"signal"}
    /\ UNCHANGED <<process, serviceFailed, evm>>

\* A service returns an error, the ABCI server when it starts: errgroup cancels
\* the context of the others.
ServiceFails(s) ==
    /\ Alive /\ s \in services
    /\ services' = services \ {s}
    /\ ctx' = TRUE
    /\ serviceFailed' = TRUE
    /\ UNCHANGED <<process, signalled, evm>>

\* A service stops because the context is cancelled.
ServiceStops(s) ==
    /\ Alive /\ ctx /\ s \in services
    /\ services' = services \ {s}
    /\ UNCHANGED <<process, ctx, signalled, serviceFailed, evm>>

\* CometBFT stops by itself.
NodeStops ==
    /\ Alive /\ node = "running"
    /\ node' = "stopped"
    /\ UNCHANGED <<config, main, failedAt, profiling, dbHandles, app, client, group, evm>>

-----------------------------------------------------------------------------
(* runEVMServicesSupervised                                                *)

\* evmCtx of attempt a is done.
EvmDone(a) == gens[a].cancelled \/ ctx

Fault == failures < MaxFailures /\ failures' = failures + 1

\* evmCancel() and the next round of the loop.
NextAttempt ==
    /\ gens' = [gens EXCEPT ![attempt].cancelled = TRUE]
    /\ attempt' = attempt + 1
    /\ sup' = "check"

SupCheck ==
    /\ Alive /\ sup = "check"
    /\ sup' = IF ctx THEN "exited" ELSE IF attempt > 0 THEN "backoff" ELSE "open"
    /\ UNCHANGED <<process, group, attempt, gens, idxOpen, failures>>

\* The select of the backoff: either case when both are ready.
Backoff ==
    /\ Alive /\ sup = "backoff"
    /\ sup' = "open" \/ (ctx /\ sup' = "exited")
    /\ UNCHANGED <<process, group, attempt, gens, idxOpen, failures>>

NoIndexer ==
    /\ ~config.EnableIndexer
    /\ sup' = "startRPC"
    /\ UNCHANGED <<attempt, gens, idxOpen, failures>>

\* OpenIndexerDB while the database of an earlier attempt is still open fails on
\* its lock.  Nothing was started, and the next round of the loop is like this
\* one, so that it takes the same number.
IndexerDBLocked ==
    /\ config.EnableIndexer /\ idxOpen
    /\ sup' = "check"
    /\ UNCHANGED <<attempt, gens, idxOpen, failures>>

\* OpenIndexerDB, which may fail for other reasons, and the indexer on it.  No
\* path closes the database: not the end of the attempt, not that of the command.
OpenIndexerDB ==
    /\ config.EnableIndexer /\ ~idxOpen
    /\ \/ NextAttempt /\ Fault /\ UNCHANGED idxOpen
       \/ /\ idxOpen' = TRUE
          /\ gens' = [gens EXCEPT ![attempt].indexer = "running"]
          /\ sup' = "startRPC"
          /\ UNCHANGED <<attempt, failures>>

OpenIndexer ==
    /\ Alive /\ sup = "open"
    /\ NoIndexer \/ IndexerDBLocked \/ OpenIndexerDB
    /\ UNCHANGED <<process, group>>

\* Mutant: the context of a failed attempt is not cancelled.
StartJSONRPCNoCancel ==
    /\ Alive /\ sup = "startRPC"
    /\ \/ /\ Fault
          /\ attempt' = attempt + 1 /\ sup' = "check"
          /\ UNCHANGED gens
       \/ /\ sup' = "wait"
          /\ gens' = [gens EXCEPT ![attempt].rpc = "running"]
          /\ UNCHANGED <<attempt, failures>>
    /\ UNCHANGED <<process, group, idxOpen>>

\* StartJSONRPC; when it fails the indexer of the attempt is cancelled but not
\* waited for.
StartJSONRPC ==
    /\ Alive /\ sup = "startRPC"
    /\ \/ NextAttempt /\ Fault
       \/ /\ sup' = "wait"
          /\ gens' = [gens EXCEPT ![attempt].rpc = "running"]
          /\ UNCHANGED <<attempt, failures>>
    /\ UNCHANGED <<process, group, idxOpen>>

\* evmG.Wait returns when both goroutines have.
EvmWait ==
    /\ Alive /\ sup = "wait"
    /\ gens[attempt].indexer # "running" /\ gens[attempt].rpc # "running"
    /\ \/ /\ ctx
          /\ gens' = [gens EXCEPT ![attempt].cancelled = TRUE]
          /\ sup' = "exited"
          /\ UNCHANGED attempt
       \/ ~ctx /\ NextAttempt
    /\ UNCHANGED <<process, group, idxOpen, failures>>

\* Mutant: the indexer's error is swallowed.
IndexerFailsQuietly(a) ==
    /\ Alive /\ gens[a].indexer = "running" /\ Fault
    /\ gens' = [gens EXCEPT ![a].indexer = "returned"]
    /\ UNCHANGED <<process, group, sup, attempt, idxOpen>>

\* indexerService.Start returns an error, which errgroup turns into a
\* cancellation of the attempt.
IndexerFails(a) ==
    /\ Alive /\ gens[a].indexer = "running" /\ Fault
    /\ gens' = [gens EXCEPT ![a].indexer = "returned", ![a].cancelled = TRUE]
    /\ UNCHANGED <<process, group, sup, attempt, idxOpen>>

\* Its goroutine sees evmCtx done, stops the service and returns nil.
IndexerStops(a) ==
    /\ Alive /\ gens[a].indexer = "running" /\ EvmDone(a)
    /\ gens' = [gens EXCEPT ![a].indexer = "returned"]
    /\ UNCHANGED <<process, group, sup, attempt, idxOpen, failures>>

\* The JSON-RPC server fails, or stops because evmCtx is done; it returns an
\* error in both cases.
RPCFails(a) ==
    /\ Alive /\ gens[a].rpc = "running" /\ Fault
    /\ gens' = [gens EXCEPT ![a].rpc = "returned", ![a].cancelled = TRUE]
    /\ UNCHANGED <<process, group, sup, attempt, idxOpen>>
RPCStops(a) ==
    /\ Alive /\ gens[a].rpc = "running" /\ EvmDone(a)
    /\ gens' = [gens EXCEPT ![a].rpc = "returned", ![a].cancelled = TRUE]
    /\ UNCHANGED <<process, group, sup, attempt, idxOpen, failures>>

-----------------------------------------------------------------------------
Main ==
    \/ WrapCPUProfile \/ GetCtxAndProfile \/ OpenDB \/ LoadConfig \/ CreateApp
    \/ LoadNodeKey \/ StartNode \/ SetClient \/ StartTelemetry \/ StartGRPC
    \/ StartAPI \/ StartEVM \/ Configure \/ Serve \/ GroupWait \/ StopNode \/ CloseApp \/ CloseDB

Supervisor == SupCheck \/ Backoff \/ OpenIndexer \/ StartJSONRPC \/ EvmWait

Next ==
    \/ Main
    \/ Signal
    \/ \E s \in {"grpc", "api", "abciStart"} : ServiceFails(s)
    \/ \E s \in {"grpc", "api", "abci"} : ServiceStops(s)
    \/ AbciStarts
    \/ NodeStops
    \/ Supervisor
    \/ \E a \in Attempts :
          IndexerFails(a) \/ IndexerStops(a) \/ RPCFails(a) \/ RPCStops(a)

\* Goroutines that can run are run: start-up steps return, the backoff timer
\* fires, and a service whose context is cancelled stops.  Nothing has to fail
\* and nobody has to send a signal.
Fairness ==
    /\ WF_vars(Main)
    /\ WF_vars(Supervisor)
    /\ \A s \in {"grpc", "api", "abci"} : WF_vars(ServiceStops(s))
    /\ WF_vars(AbciStarts)
    /\ \A a \in Attempts : WF_vars(IndexerStops(a)) /\ WF_vars(RPCStops(a))

Spec == Init /\ [][Next]_vars /\ Fairness

-----------------------------------------------------------------------------
(* Properties                                                              *)

\* CometBFT never runs on a closed application, whichever step of the start-up
\* failed and however the node was stopped.
NodeHasApp == node = "running" => app = "open"

\* Whatever made it return, the command leaves no open application, no running
\* node and no profiler behind, and the application's database is closed exactly
\* once, by the application if there is one.  The indexer's database is not among
\* them: it stays open to the end of the process, see IndexLocked.
CleanReturn ==
    main = "returned" =>
        /\ dbHandles = 0 /\ app # "open"
        /\ node # "running" /\ ~profiling

\* The indexer, whose constructor asserts that clientCtx has a client, which
\* it has once a node was started, is never created without one, in any
\* configuration.  The node may have stopped since.
IndexerHasClient ==
    \A a \in Attempts : gens[a].indexer # "none" => client

\* Failures of the EVM services never cancel the context of gRPC, REST and the
\* supervisor, for that takes a signal or a failure of one of those; and at most
\* one attempt has a live context, for every goroutine of an earlier one, also of
\* one that was given up half started, has been told to stop.
AttemptsIsolated ==
    /\ ctx => signalled \/ serviceFailed
    /\ \A a \in Attempts :
          (gens[a].indexer = "running" \/ gens[a].rpc = "running") /\ a # attempt
              => gens[a].cancelled

\* Both services of the current attempt are up.
Serving ==
    /\ sup = "wait"
    /\ gens[attempt].rpc = "running"
    /\ config.EnableIndexer => gens[attempt].indexer = "running"

\* If the services crash, they are restarted, and the supervisor exits only on
\* SIGINT or SIGTERM: once one of them has failed, or could not be started, both
\* come up again, unless a signal is received meanwhile.
ServicesRecover == (sup # "off" /\ ~Serving) ~> (Serving \/ signalled \/ ~Alive)

\* The attempt needs the indexer's database, which an earlier one left open.
IndexLocked ==
    /\ config.EnableIndexer /\ idxOpen
    /\ gens[attempt].indexer = "none"

\* Short of the database that an earlier attempt left open, and of a failed gRPC,
\* REST or metrics server, whose errgroup cancels the context that the supervisor
\* watches, nothing but a signal keeps it from bringing the services up again:
\* neither a start that failed half way nor a goroutine of an old attempt that is
\* still to return.
RecoversUnlessLocked ==
    (sup # "off" /\ ~Serving)
        ~> (Serving \/ IndexLocked \/ serviceFailed \/ signalled \/ ~Alive)

\* After a signal the command returns, at whatever point of start-up or restart
\* it arrives; startStandAlone, whose listener keeps no errgroup waiting, also
\* returns when its server cannot start.
ShutdownCompletes ==
    signalled \/ (serviceFailed /\ ~config.WithCometBFT) ~> ~Alive

\* Nobody waits for the supervisor, so that the EVM services may still run while
\* the deferred calls stop the node and close the application under them; but
\* by then their context is cancelled.
EvmToldToStop ==
    main \in {"stopNode", "closeApp", "closeDB"} /\ sup # "off" => ctx

\* The order of start-up and clean-up in every configuration and after every
\* failure: CometBFT runs on an open application only, the indexer is created
\* with a client, the application's database is opened once at most, and nothing
\* is taken away from EVM services that were not told to stop.
StartUpInOrder == TypeOK /\ NodeHasApp /\ IndexerHasClient /\ EvmToldToStop
=============================================================================
