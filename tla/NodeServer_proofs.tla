-------------------------- MODULE NodeServer_proofs --------------------------
(***************************************************************************)
(* NodeServer for all configurations and any number of failures: the order *)
(* of start-up and clean-up, and the separation of the attempts of the EVM *)
(* supervisor.  That services recover and shutdown ends is liveness and    *)
(* stays with TLC.                                                         *)
(***************************************************************************)
EXTENDS NodeServer, TLAPS

\* What the process holds at each step of the start command and of its deferred
\* calls.
BeforeDB == {"wrap", "profile", "openDB"}
BeforeApp == {"loadConfig", "createApp"}
BeforeNode == {"nodeKey", "startNode", "configure", "serve"}
WithNode == {"setClient", "telemetry", "startGRPC", "startAPI", "startEVM", "wait"}

NoApp == app = "none" /\ node = "none"

Resources ==
    /\ main \in BeforeDB => NoApp /\ dbHandles = 0
    /\ main \in BeforeApp => NoApp /\ dbHandles = 1
    /\ main \in BeforeNode => app = "open" /\ node = "none" /\ dbHandles = 1
    /\ main \in WithNode => app = "open" /\ dbHandles = 1
    /\ main \in {"stopNode", "closeApp"} =>
          NoApp \/ (app = "open" /\ dbHandles = 1)
    /\ main \in {"closeApp", "closeDB", "returned"} => node # "running"
    /\ main = "closeDB" => app = "none" \/ (app = "closed" /\ dbHandles = 0)
    /\ main = "returned" => app # "open" /\ dbHandles = 0 /\ ~profiling

\* The supervisor exists only behind startEVM.  From SetClient on, an enabled
\* indexer has a client, for query-only mode, which has no node, disables it.
ClientKnown ==
    /\ sup # "off" => main \in {"wait", "stopNode", "closeApp", "closeDB", "returned"}
    /\ main = "setClient" => (config.EnableIndexer => node # "none")
    /\ main \in {"telemetry", "startGRPC", "startAPI", "startEVM"} \/ sup # "off" =>
          (config.EnableIndexer => client)
    /\ IndexerHasClient

\* An attempt that has not begun: its context is live, nothing runs on it.
Fresh(a) == ~gens[a].cancelled /\ gens[a].indexer = "none" /\ gens[a].rpc = "none"

\* The attempts so far: the earlier ones are cancelled, the later ones untouched,
\* and each finished one has cost a failure, so that they never outrun the
\* failures.
AttemptsCounted ==
    /\ attempt <= failures
    /\ \A a \in Attempts : a < attempt => gens[a].cancelled
    /\ \A a \in Attempts : a > attempt => Fresh(a)
    /\ sup \in {"off", "check", "backoff", "open"} => Fresh(attempt)
    /\ sup = "startRPC" => gens[attempt].rpc = "none"
    /\ ~ctx /\ gens[attempt].cancelled => attempt < failures
    /\ ~ctx /\ sup = "wait" /\ gens[attempt].rpc # "running" => gens[attempt].cancelled

\* The main context is cancelled by a signal or a failed service only.
CtxCause == ctx => signalled \/ serviceFailed

\* Before it is started the supervisor has made no attempt.
OffIsFresh == sup = "off" => attempt = 0

\* From getCtx on, the listener for signals is in the errgroup or has cancelled
\* the context, so that where there is a supervisor the clean-up finds the context
\* cancelled.
Started == {"nodeKey", "startNode", "setClient", "telemetry", "startGRPC", "startAPI", "startEVM"}
ListenerKept ==
    /\ \/ main \in Started
       \/ main \in {"openDB", "loadConfig", "createApp"} /\ config.WithCometBFT
       \/ main = "wait" /\ sup # "off"
       => "signal" \in services \/ ctx
    /\ main \in {"stopNode", "closeApp", "closeDB", "returned"} /\ sup # "off" => ctx

IInv ==
    /\ TypeOK /\ Resources /\ ClientKnown /\ OffIsFresh
    /\ AttemptsCounted /\ CtxCause /\ ListenerKept

-----------------------------------------------------------------------------
(* Steps of the start command                                              *)

\* A step of the command that leaves the errgroups and the supervisor alone
\* keeps everything that is said of them.
LEMMA MainKeepsEvm ==
    ASSUME IInv, UNCHANGED <<ctx, signalled, serviceFailed, attempt, gens, idxOpen, failures>>,
           sup' = sup \/ (sup = "off" /\ sup' = "check")
    PROVE  AttemptsCounted' /\ CtxCause'
  BY DEF IInv, AttemptsCounted, Fresh, CtxCause

\* The command's own variables keep their types and what it holds.
LEMMA MainResources ==
    ASSUME IInv, Main
    PROVE  /\ Resources'
           /\ main' \in MainSteps /\ failedAt' \in MainSteps \cup {"none"}
           /\ profiling' \in BOOLEAN /\ dbHandles' \in 0..1
           /\ app' \in {"none", "open", "closed"}
           /\ node' \in {"none", "running", "stopped"}
<1> USE DEF IInv, TypeOK, Resources, NoApp, MainSteps, BeforeDB, BeforeApp, BeforeNode,
            WithNode, Goto, Fails
<1>1. config.CPUProfile \in BOOLEAN
  BY DEF Config
<1>2. CASE WrapCPUProfile
  BY <1>1, <1>2 DEF WrapCPUProfile
<1>3. CASE GetCtxAndProfile
  BY <1>1, <1>3 DEF GetCtxAndProfile
<1>4. CASE OpenDB
  BY <1>4 DEF OpenDB
<1>5. CASE LoadConfig
  BY <1>5 DEF LoadConfig
<1>6. CASE CreateApp
  BY <1>6 DEF CreateApp
<1>7. CASE LoadNodeKey
  BY <1>7 DEF LoadNodeKey
<1>8. CASE StartNode
  BY <1>8 DEF StartNode, QueryOnly, WithCometBFT
<1>9. CASE SetClient
  BY <1>9 DEF SetClient
<1>10. CASE StartTelemetry
  BY <1>10 DEF StartTelemetry
<1>11. CASE StartGRPC
  BY <1>11 DEF StartGRPC
<1>12. CASE StartAPI
  BY <1>12 DEF StartAPI
<1>13. CASE StartEVM
  BY <1>13 DEF StartEVM
<1>14. CASE Configure
  BY <1>14 DEF Configure
<1>15. CASE Serve
  BY <1>15 DEF Serve
<1>16. CASE GroupWait
  BY <1>16 DEF GroupWait
<1>17. CASE StopNode
  BY <1>17 DEF StopNode
<1>18. CASE CloseApp
  BY <1>18 DEF CloseApp
<1>19. CASE CloseDB
  <2>1. /\ main = "closeDB" /\ main' = "returned" /\ profiling' = FALSE
        /\ UNCHANGED <<failedAt, app, node>>
        /\ dbHandles' = IF app = "none" /\ dbHandles = 1 THEN 0 ELSE dbHandles
    BY <1>19 DEF CloseDB
  <2>2. dbHandles' = 0 /\ app' # "open" /\ node' # "running"
    BY <2>1
  <2>3. ~ profiling' /\ profiling' \in BOOLEAN
    BY <2>1, Zenon
  <2>4. dbHandles' \in 0..1
    BY <2>2
  <2> HIDE DEF MainSteps
  <2>5. main' \in MainSteps
    BY <2>1 DEF MainSteps
  <2> QED
    BY <2>1, <2>2, <2>3, <2>4, <2>5
<1> QED
  BY <1>2, <1>3, <1>4, <1>5, <1>6, <1>7, <1>8, <1>9, <1>10, <1>11, <1>12, <1>13, <1>14,
     <1>15, <1>16, <1>17, <1>18, <1>19 DEF Main

\* What a step of the command does to the configuration, the client, the main
\* errgroup and the supervisor.
LEMMA MainFrame ==
    ASSUME IInv, Main
    PROVE  /\ UNCHANGED <<ctx, signalled, serviceFailed, attempt, gens, idxOpen, failures>>
           /\ services' \subseteq {"signal"} \cup Services
           /\ config' \in Config /\ client' \in BOOLEAN
           /\ \/ UNCHANGED <<sup, client, config>>
              \/ main = "startEVM" /\ sup' = "check" /\ main' = "wait"
                 /\ UNCHANGED <<client, config>>
              \/ main = "startNode" /\ main' = "setClient"
                 /\ ~config'.EnableIndexer /\ UNCHANGED <<sup, client>>
              \/ main = "setClient" /\ UNCHANGED <<sup, config>>
<1> USE DEF group, evm, Goto, Fails
<1>1. config \in Config /\ client \in BOOLEAN /\ services \subseteq {"signal"} \cup Services
  BY DEF IInv, TypeOK
<1>2. CASE WrapCPUProfile \/ OpenDB \/ LoadConfig \/ CreateApp \/ LoadNodeKey
  BY <1>1, <1>2 DEF WrapCPUProfile, OpenDB, LoadConfig, CreateApp, LoadNodeKey
<1>3. CASE GetCtxAndProfile
  BY <1>1, <1>3 DEF GetCtxAndProfile
<1>4. CASE StartNode
  BY <1>1, <1>4 DEF StartNode, QueryOnly, WithCometBFT, Config
<1>5. CASE SetClient
  <2>1. client' = (/\ config.API \/ config.GRPC \/ config.JSONRPC \/ config.EnableIndexer
                   /\ node # "none")
    BY <1>5 DEF SetClient
  <2>2. client' \in BOOLEAN
    BY <2>1
  <2> QED
    BY <1>1, <1>5, <2>2 DEF SetClient
<1>6. CASE StartTelemetry \/ Configure \/ GroupWait \/ StopNode \/ CloseApp \/ CloseDB
  BY <1>1, <1>6 DEF StartTelemetry, Configure, GroupWait, StopNode, CloseApp, CloseDB
<1>7. CASE StartGRPC \/ StartAPI \/ Serve
  BY <1>1, <1>7 DEF StartGRPC, StartAPI, Serve, Services
<1>8. CASE StartEVM
  BY <1>1, <1>8 DEF StartEVM
<1> QED
  BY <1>2, <1>3, <1>4, <1>5, <1>6, <1>7, <1>8 DEF Main

\* Which step the command comes from, for the steps that the client depends on.
LEMMA MainOrder ==
    ASSUME Main, IInv
    PROVE  /\ main' = "setClient" => main = "startNode"
           /\ main' = "setClient" => (config'.EnableIndexer => node' # "none")
           /\ main' \in {"telemetry", "startGRPC", "startAPI", "startEVM"} =>
                main \in {"setClient", "telemetry", "startGRPC", "startAPI"}
           /\ main \in {"wait", "stopNode", "closeApp", "closeDB", "returned"} =>
                main' \in {"wait", "stopNode", "closeApp", "closeDB", "returned"}
<1>1. CASE StartNode
  <2>1. config \in Config
    BY DEF IInv, TypeOK
  <2> QED
    BY <1>1, <2>1 DEF StartNode, QueryOnly, WithCometBFT, Goto, Fails, Config
<1>2. CASE ~ StartNode
  BY <1>2
  DEF Main, Goto, Fails, WrapCPUProfile, GetCtxAndProfile, OpenDB, LoadConfig, CreateApp,
      LoadNodeKey, SetClient, StartTelemetry, StartGRPC, StartAPI, StartEVM, Configure, Serve,
      GroupWait, StopNode, CloseApp, CloseDB
<1> QED
  BY <1>1, <1>2

\* SetClient gives an enabled indexer its client if there is a node.
LEMMA MainSetsClient ==
    ASSUME Main, main = "setClient"
    PROVE  config' = config /\ (config.EnableIndexer /\ node # "none" => client')
<1>1. SetClient
  BY DEF Main, Goto, Fails, WrapCPUProfile, GetCtxAndProfile, OpenDB, LoadConfig, CreateApp,
         LoadNodeKey, StartNode, QueryOnly, WithCometBFT, StartTelemetry, StartGRPC, StartAPI,
         StartEVM, Configure, Serve, GroupWait, StopNode, CloseApp, CloseDB
<1>2. /\ config' = config
      /\ client' = (/\ config.API \/ config.GRPC \/ config.JSONRPC \/ config.EnableIndexer
                    /\ node # "none")
  BY <1>1 DEF SetClient
<1> QED
  BY <1>2

\* No step of the command takes the listener away, and g.Wait waits for it.
LEMMA MainKeepsListener ==
    ASSUME IInv, Main
    PROVE  ListenerKept'
<1> USE DEF IInv, ListenerKept, ClientKnown, Started, Goto, Fails, group, evm
<1>1. CASE WrapCPUProfile \/ GetCtxAndProfile
  BY <1>1 DEF WrapCPUProfile, GetCtxAndProfile
<1>2. CASE OpenDB \/ LoadConfig \/ CreateApp \/ LoadNodeKey
  BY <1>2 DEF OpenDB, LoadConfig, CreateApp, LoadNodeKey
<1>3. CASE StartNode
  BY <1>3 DEF StartNode, QueryOnly, WithCometBFT
<1>4. CASE SetClient \/ StartTelemetry \/ StartGRPC \/ StartAPI
  BY <1>4 DEF SetClient, StartTelemetry, StartGRPC, StartAPI
<1>5. CASE StartEVM
  BY <1>5 DEF StartEVM
<1>6. CASE Configure \/ Serve \/ GroupWait
  BY <1>6 DEF Configure, Serve, GroupWait
<1>7. CASE StopNode \/ CloseApp \/ CloseDB
  BY <1>7 DEF StopNode, CloseApp, CloseDB
<1> QED
  BY <1>1, <1>2, <1>3, <1>4, <1>5, <1>6, <1>7 DEF Main

\* The steps of the start command keep the invariant.
LEMMA MainIInv == IInv /\ Main => IInv'
<1> SUFFICES ASSUME IInv, Main PROVE IInv'
  OBVIOUS
<1>1. UNCHANGED <<ctx, signalled, serviceFailed, attempt, gens, idxOpen, failures>>
  BY MainFrame
<1>2. sup' = sup \/ (main = "startEVM" /\ sup' = "check")
  BY MainFrame
<1>3. sup \in SupSteps /\ sup' \in SupSteps
  BY <1>2 DEF IInv, TypeOK, SupSteps
<1>4. TypeOK'
  BY <1>1, <1>3, MainFrame, MainResources DEF IInv, TypeOK
<1>5. AttemptsCounted' /\ CtxCause'
  <2>1. main = "startEVM" => sup = "off"
    BY DEF IInv, ClientKnown
  <2> QED
    BY <1>1, <1>2, <2>1, MainKeepsEvm
<1>6. ClientKnown'
  <2>1. sup' # "off" => main' \in {"wait", "stopNode", "closeApp", "closeDB", "returned"}
    BY MainFrame, MainOrder DEF IInv, ClientKnown
  <2>2. main' = "setClient" => (config'.EnableIndexer => node' # "none")
    BY MainOrder
  <2>3. main' \in {"telemetry", "startGRPC", "startAPI", "startEVM"} \/ sup' # "off" =>
          (config'.EnableIndexer => client')
    <3>1. CASE main = "setClient"
      <4>1. config.EnableIndexer => node # "none"
        BY <3>1 DEF IInv, ClientKnown
      <4> QED
        BY <3>1, <4>1, MainSetsClient
    <3>2. CASE main # "setClient" /\ UNCHANGED <<sup, client, config>>
      BY <3>2, MainOrder DEF IInv, ClientKnown
    <3>3. CASE main = "startEVM" /\ UNCHANGED <<client, config>>
      BY <3>3 DEF IInv, ClientKnown
    <3>4. CASE ~ config'.EnableIndexer
      BY <3>4
    <3> QED
      BY <3>1, <3>2, <3>3, <3>4, MainFrame
  <2>4. IndexerHasClient'
    <3>1. CASE UNCHANGED client
      BY <1>1, <3>1 DEF IInv, ClientKnown, IndexerHasClient
    <3>2. CASE main = "setClient"
      <4>1. sup = "off" /\ attempt \in Attempts
        BY <3>2 DEF IInv, ClientKnown, TypeOK
      <4>2. \A a \in Attempts : a = attempt \/ a < attempt \/ a > attempt
        BY ConstantsAssumption DEF IInv, TypeOK, Attempts
      <4>3. attempt = 0
        BY <4>1 DEF IInv, OffIsFresh
      <4>4. \A a \in Attempts : a = attempt \/ a > attempt
        BY <4>3, ConstantsAssumption DEF Attempts
      <4>5. \A a \in Attempts : gens[a].indexer = "none"
        BY <4>1, <4>4 DEF IInv, AttemptsCounted, Fresh
      <4> QED
        BY <1>1, <4>5 DEF IndexerHasClient
    <3> QED
      BY <3>1, <3>2, MainFrame
  <2> QED
    BY <2>1, <2>2, <2>3, <2>4 DEF ClientKnown
<1>7. OffIsFresh'
  BY <1>1, <1>2 DEF IInv, OffIsFresh
<1> QED
  BY <1>4, <1>5, <1>6, <1>7, MainResources, MainKeepsListener DEF IInv

-----------------------------------------------------------------------------
(* Steps of the main errgroup and of CometBFT                              *)

\* The members of the errgroup touch the errgroup only, and never take a
\* cancellation back.
LEMMA GroupIInv ==
    ASSUME IInv,
           \/ Signal
           \/ \E s \in {"grpc", "api", "abciStart"} : ServiceFails(s)
           \/ \E s \in {"grpc", "api", "abci"} : ServiceStops(s)
           \/ AbciStarts
    PROVE  IInv'
<1>1. UNCHANGED <<process, evm>>
  BY DEF Signal, ServiceFails, ServiceStops, AbciStarts
<1>2. /\ services' \subseteq {"signal"} \cup Services
      /\ signalled' \in BOOLEAN /\ serviceFailed' \in BOOLEAN
      /\ ctx' \in BOOLEAN /\ (ctx => ctx') /\ (ctx' => signalled' \/ serviceFailed')
  <2>1. /\ services \subseteq {"signal"} \cup Services
        /\ signalled \in BOOLEAN /\ serviceFailed \in BOOLEAN /\ ctx \in BOOLEAN
        /\ ctx => signalled \/ serviceFailed
    BY DEF IInv, TypeOK, CtxCause
  <2>2. services' \subseteq {"signal"} \cup Services
    BY <2>1 DEF Services, Signal, ServiceFails, ServiceStops, AbciStarts
  <2>3. \/ ctx' = TRUE /\ signalled' = TRUE /\ UNCHANGED serviceFailed
        \/ ctx' = TRUE /\ serviceFailed' = TRUE /\ UNCHANGED signalled
        \/ UNCHANGED <<ctx, signalled, serviceFailed>>
    BY DEF Signal, ServiceFails, ServiceStops, AbciStarts
  <2>4. CASE ctx' = TRUE /\ signalled' = TRUE /\ UNCHANGED serviceFailed
    BY <2>1, <2>2, <2>4
  <2>5. CASE ctx' = TRUE /\ serviceFailed' = TRUE /\ UNCHANGED signalled
    BY <2>1, <2>2, <2>5
  <2>6. CASE UNCHANGED <<ctx, signalled, serviceFailed>>
    BY <2>1, <2>2, <2>6
  <2> QED
    BY <2>3, <2>4, <2>5, <2>6
<1>3. TypeOK'
  BY <1>1, <1>2 DEF IInv, TypeOK, process, evm
<1>4. Resources' /\ ClientKnown' /\ OffIsFresh'
  BY <1>1 DEF IInv, Resources, NoApp, ClientKnown, IndexerHasClient, OffIsFresh, process, evm
<1>5. AttemptsCounted'
  BY <1>1, <1>2 DEF IInv, AttemptsCounted, Fresh, evm
<1>6. ListenerKept'
  <2>1. "signal" \in services => "signal" \in services' \/ ctx'
    BY DEF Signal, ServiceFails, ServiceStops, AbciStarts
  <2> QED
    BY <1>1, <1>2, <2>1 DEF IInv, ListenerKept, process, evm
<1> QED
  BY <1>2, <1>3, <1>4, <1>5, <1>6 DEF IInv, CtxCause

\* CometBFT stops by itself only while it runs.
LEMMA NodeStopsIInv == IInv /\ NodeStops => IInv'
  BY DEF IInv, TypeOK, Resources, NoApp, ClientKnown, IndexerHasClient, OffIsFresh,
         AttemptsCounted, Fresh, CtxCause, ListenerKept, NodeStops, group, evm

-----------------------------------------------------------------------------
(* Steps of the EVM services                                               *)

\* The types and the order of the attempts let them be told apart.
LEMMA AttemptOrder ==
    ASSUME IInv
    PROVE  /\ attempt \in Nat /\ failures \in Nat /\ attempt \in Attempts
           /\ Attempts \subseteq Nat
           /\ \A a \in Attempts : a < attempt \/ a = attempt \/ a > attempt
  BY ConstantsAssumption DEF IInv, TypeOK, Attempts

\* A step of the EVM services changes no process variable and nothing of the
\* main errgroup, so only types, clients and attempts are at stake.
LEMMA EvmKeepsRest ==
    ASSUME IInv, UNCHANGED <<process, group>>,
           sup' \in SupSteps, attempt' \in Attempts, gens' \in [Attempts -> Generation],
           failures' \in 0..MaxFailures, idxOpen' \in BOOLEAN,
           sup # "off", sup' # "off", IndexerHasClient', AttemptsCounted'
    PROVE  IInv'
<1>1. TypeOK'
  BY DEF IInv, TypeOK, process, group
<1>2. Resources' /\ OffIsFresh' /\ CtxCause' /\ ListenerKept'
  BY DEF IInv, Resources, NoApp, OffIsFresh, CtxCause, ListenerKept, process, group
<1>3. ClientKnown'
  BY DEF IInv, ClientKnown, process
<1> QED
  BY <1>1, <1>2, <1>3 DEF IInv

\* The supervisor looks at the context.
LEMMA SupCheckIInv == IInv /\ (SupCheck \/ Backoff) => IInv'
<1> SUFFICES ASSUME IInv, SupCheck \/ Backoff PROVE IInv'
  OBVIOUS
<1>1. /\ sup \in {"check", "backoff"} /\ sup' \in {"exited", "backoff", "open"}
      /\ UNCHANGED <<process, group, attempt, gens, idxOpen, failures>>
  BY DEF SupCheck, Backoff
<1>2. IndexerHasClient'
  BY <1>1 DEF IInv, ClientKnown, IndexerHasClient, process
<1>3. AttemptsCounted'
  BY <1>1 DEF IInv, AttemptsCounted, Fresh, group
<1> QED
  BY <1>1, <1>2, <1>3, EvmKeepsRest DEF IInv, TypeOK, SupSteps

\* Giving up an attempt cancels it and goes on to a fresh one, which needs a
\* failure that has not been counted yet.
LEMMA NextAttemptIInv ==
    ASSUME IInv, NextAttempt, UNCHANGED <<process, group>>, sup # "off",
           failures' \in 0..MaxFailures, attempt < failures', UNCHANGED idxOpen
    PROVE  IInv'
<1> USE AttemptOrder
<1>1. /\ gens' = [gens EXCEPT ![attempt].cancelled = TRUE]
      /\ attempt' = attempt + 1 /\ sup' = "check"
      /\ gens \in [Attempts -> Generation]
  BY DEF NextAttempt, IInv, TypeOK
<1>2. attempt' \in Attempts /\ attempt' <= failures'
  BY <1>1, ConstantsAssumption DEF Attempts
<1>3. /\ gens' \in [Attempts -> Generation]
      /\ gens'[attempt].cancelled
      /\ \A a \in Attempts : gens'[a].indexer = gens[a].indexer
      /\ \A a \in Attempts : a # attempt => gens'[a] = gens[a]
  BY <1>1 DEF Generation
<1>4. IndexerHasClient'
  BY <1>3 DEF IInv, ClientKnown, IndexerHasClient, process
<1>5. \A a \in Attempts : a > attempt => Fresh(a)'
  BY <1>3 DEF IInv, AttemptsCounted, Fresh
<1>6. \A a \in Attempts : a < attempt' => gens'[a].cancelled
  BY <1>1, <1>3 DEF IInv, AttemptsCounted
<1>7. Fresh(attempt)' /\ ~ gens'[attempt'].cancelled
  <2>1. attempt' > attempt
    BY <1>1
  <2> QED
    BY <1>2, <1>5, <2>1 DEF Fresh
<1>8. AttemptsCounted'
  BY <1>1, <1>2, <1>5, <1>6, <1>7 DEF AttemptsCounted
<1> QED
  BY <1>1, <1>2, <1>3, <1>4, <1>8, EvmKeepsRest DEF SupSteps, IInv, TypeOK

\* The indexer of the attempt is opened, or cannot be.
LEMMA OpenIndexerIInv == IInv /\ OpenIndexer => IInv'
<1> SUFFICES ASSUME IInv, OpenIndexer PROVE IInv'
  OBVIOUS
<1> USE AttemptOrder
<1>1. UNCHANGED <<process, group>> /\ sup = "open" /\ Fresh(attempt)
  BY DEF OpenIndexer, IInv, AttemptsCounted
<1>2. CASE NextAttempt /\ Fault /\ UNCHANGED idxOpen
  <2>1. failures' \in 0..MaxFailures /\ attempt < failures'
    BY <1>2, ConstantsAssumption DEF Fault, IInv, AttemptsCounted
  <2> QED
    BY <1>1, <1>2, <2>1, NextAttemptIInv
<1>3. CASE /\ config.EnableIndexer
           /\ idxOpen' = TRUE
           /\ gens' = [gens EXCEPT ![attempt].indexer = "running"]
           /\ sup' = "startRPC"
           /\ UNCHANGED <<attempt, failures>>
  <2>1. gens \in [Attempts -> Generation]
    BY DEF IInv, TypeOK
  <2>2. /\ gens' \in [Attempts -> Generation]
        /\ \A a \in Attempts : a # attempt => gens'[a] = gens[a]
        /\ gens'[attempt].cancelled = gens[attempt].cancelled
        /\ gens'[attempt].rpc = gens[attempt].rpc
    BY <1>3, <2>1 DEF Generation, GoStates
  <2>3. IndexerHasClient'
    BY <1>1, <1>3, <2>2 DEF IInv, ClientKnown, IndexerHasClient, process
  <2>4. AttemptsCounted'
    BY <1>1, <1>3, <2>2 DEF IInv, AttemptsCounted, Fresh, group
  <2>5. idxOpen' \in BOOLEAN
    BY <1>3
  <2> QED
    BY <1>1, <1>3, <2>2, <2>3, <2>4, <2>5, EvmKeepsRest DEF SupSteps, IInv, TypeOK
<1>4. CASE sup' \in {"startRPC", "check"} /\ UNCHANGED <<attempt, gens, idxOpen, failures>>
  <2>1. IndexerHasClient'
    BY <1>1, <1>4 DEF IInv, ClientKnown, IndexerHasClient, process
  <2>2. AttemptsCounted'
    BY <1>1, <1>4 DEF IInv, AttemptsCounted, Fresh, group
  <2> QED
    BY <1>1, <1>4, <2>1, <2>2, EvmKeepsRest DEF SupSteps, IInv, TypeOK
<1> QED
  BY <1>2, <1>3, <1>4 DEF OpenIndexer, NoIndexer, IndexerDBLocked, OpenIndexerDB

\* The JSON-RPC server of the attempt is started, or cannot be.
LEMMA StartJSONRPCIInv == IInv /\ StartJSONRPC => IInv'
<1> SUFFICES ASSUME IInv, StartJSONRPC PROVE IInv'
  OBVIOUS
<1> USE AttemptOrder
<1>1. UNCHANGED <<process, group, idxOpen>> /\ sup = "startRPC"
  BY DEF StartJSONRPC
<1>2. CASE NextAttempt /\ Fault
  <2>1. failures' \in 0..MaxFailures /\ attempt < failures'
    BY <1>2, ConstantsAssumption DEF Fault, IInv, AttemptsCounted
  <2> QED
    BY <1>1, <1>2, <2>1, NextAttemptIInv
<1>3. CASE /\ sup' = "wait"
           /\ gens' = [gens EXCEPT ![attempt].rpc = "running"]
           /\ UNCHANGED <<attempt, failures>>
  <2>1. gens \in [Attempts -> Generation]
    BY DEF IInv, TypeOK
  <2>2. /\ gens' \in [Attempts -> Generation]
        /\ \A a \in Attempts : a # attempt => gens'[a] = gens[a]
        /\ gens'[attempt].cancelled = gens[attempt].cancelled
        /\ gens'[attempt].rpc = "running"
        /\ gens'[attempt].indexer = gens[attempt].indexer
    BY <1>3, <2>1 DEF Generation, GoStates
  <2>3. IndexerHasClient'
    BY <1>1, <2>2 DEF IInv, ClientKnown, IndexerHasClient, process
  <2>4. AttemptsCounted'
    BY <1>1, <1>3, <2>2 DEF IInv, AttemptsCounted, Fresh, group
  <2> QED
    BY <1>1, <1>3, <2>2, <2>3, <2>4, EvmKeepsRest DEF SupSteps, IInv, TypeOK
<1> QED
  BY <1>2, <1>3 DEF StartJSONRPC

\* Both goroutines have returned: without a cancelled main context that is
\* because one of them failed.
LEMMA EvmWaitIInv == IInv /\ EvmWait => IInv'
<1> SUFFICES ASSUME IInv, EvmWait PROVE IInv'
  OBVIOUS
<1> USE AttemptOrder
<1>1. /\ UNCHANGED <<process, group, idxOpen, failures>>
      /\ sup = "wait" /\ gens[attempt].rpc # "running"
  BY DEF EvmWait
<1>2. CASE ~ctx /\ NextAttempt
  <2>1. attempt < failures /\ failures \in 0..MaxFailures
    BY <1>1, <1>2 DEF IInv, AttemptsCounted, TypeOK
  <2> QED
    BY <1>1, <1>2, <2>1, NextAttemptIInv
<1>3. CASE /\ ctx
           /\ gens' = [gens EXCEPT ![attempt].cancelled = TRUE]
           /\ sup' = "exited"
           /\ UNCHANGED attempt
  <2>1. gens \in [Attempts -> Generation]
    BY DEF IInv, TypeOK
  <2>2. /\ gens' \in [Attempts -> Generation]
        /\ \A a \in Attempts : a # attempt => gens'[a] = gens[a]
        /\ gens'[attempt].indexer = gens[attempt].indexer
    BY <1>3, <2>1 DEF Generation
  <2>3. IndexerHasClient'
    BY <1>1, <2>2 DEF IInv, ClientKnown, IndexerHasClient, process
  <2>4. AttemptsCounted'
    BY <1>1, <1>3, <2>2 DEF IInv, AttemptsCounted, Fresh, group
  <2> QED
    BY <1>1, <1>3, <2>2, <2>3, <2>4, EvmKeepsRest DEF SupSteps, IInv, TypeOK
<1> QED
  BY <1>2, <1>3 DEF EvmWait

\* A goroutine of attempt a returns: it was started, and it cancels the attempt
\* unless that was cancelled before; the first to do so has failed.
LEMMA GoroutineIInv ==
    ASSUME IInv, NEW a \in Attempts,
           IndexerFails(a) \/ IndexerStops(a) \/ RPCFails(a) \/ RPCStops(a)
    PROVE  IInv'
<1> USE AttemptOrder
<1>1. /\ UNCHANGED <<process, group, sup, attempt, idxOpen>>
      /\ gens[a].indexer = "running" \/ gens[a].rpc = "running"
  BY DEF IndexerFails, IndexerStops, RPCFails, RPCStops
<1>2. gens \in [Attempts -> Generation] /\ failures \in 0..MaxFailures
  BY DEF IInv, TypeOK
<1>3. /\ gens' \in [Attempts -> Generation]
      /\ \A b \in Attempts : b # a => gens'[b] = gens[b]
      /\ gens[a].cancelled => gens'[a].cancelled
      /\ gens'[a].indexer # "none" => gens[a].indexer # "none"
      /\ gens[a].rpc = "none" => gens'[a].rpc = "none"
  BY <1>2 DEF IndexerFails, IndexerStops, RPCFails, RPCStops, Generation, GoStates
<1>4. /\ gens'[a].cancelled => gens[a].cancelled \/ ctx \/ failures' = failures + 1
      /\ gens'[a].rpc # "running" /\ gens[a].rpc = "running" => gens'[a].cancelled
  BY <1>2 DEF IndexerFails, IndexerStops, RPCFails, RPCStops, Generation, GoStates, EvmDone, Fault
<1>5. failures' \in 0..MaxFailures /\ failures' >= failures
  BY <1>2, ConstantsAssumption DEF IndexerFails, IndexerStops, RPCFails, RPCStops, Fault
<1>6. ~ Fresh(a)
  BY <1>1 DEF Fresh
<1>7. sup # "off"
  BY <1>6 DEF IInv, AttemptsCounted, OffIsFresh
<1>8. IndexerHasClient'
  BY <1>1, <1>3 DEF IInv, ClientKnown, IndexerHasClient, process
<1>9. AttemptsCounted'
  <2>1. /\ a <= attempt
        /\ a = attempt => sup \notin {"off", "check", "backoff", "open"}
    BY <1>6 DEF IInv, AttemptsCounted
  <2>2. attempt' <= failures' /\ ctx' = ctx
    BY <1>1, <1>5 DEF IInv, AttemptsCounted, group
  <2>3. \A b \in Attempts : b < attempt => gens'[b].cancelled
    BY <1>3 DEF IInv, AttemptsCounted
  <2>4. \A b \in Attempts : b > attempt => Fresh(b)'
    BY <1>3, <2>1 DEF IInv, AttemptsCounted, Fresh
  <2>5. sup \in {"off", "check", "backoff", "open"} => Fresh(attempt)'
    BY <1>1, <1>3, <2>1 DEF IInv, AttemptsCounted, Fresh
  <2>6. sup = "startRPC" => gens'[attempt].rpc = "none"
    BY <1>3 DEF IInv, AttemptsCounted
  <2>7. ~ctx /\ gens'[attempt].cancelled => attempt < failures'
    BY <1>3, <1>4, <1>5 DEF IInv, AttemptsCounted
  <2>8. ~ctx /\ sup = "wait" /\ gens'[attempt].rpc # "running" => gens'[attempt].cancelled
    BY <1>3, <1>4 DEF IInv, AttemptsCounted
  <2> QED
    BY <1>1, <2>2, <2>3, <2>4, <2>5, <2>6, <2>7, <2>8 DEF AttemptsCounted, Fresh
<1> QED
  BY <1>1, <1>3, <1>5, <1>7, <1>8, <1>9, EvmKeepsRest DEF IInv, TypeOK

-----------------------------------------------------------------------------
(* The theorems                                                            *)

\* The command starts with nothing open and no attempt made.
LEMMA InitIInv == Init => IInv
<1> SUFFICES ASSUME Init PROVE IInv
  OBVIOUS
<1>1. /\ 0 \in Attempts /\ 0 \in 0..MaxFailures
      /\ \A a \in Attempts : ~ (a < 0)
  BY ConstantsAssumption DEF Attempts
<1>2. /\ gens \in [Attempts -> Generation]
      /\ \A a \in Attempts : Fresh(a)
  BY DEF Init, Generation, GoStates, Fresh
<1>3. TypeOK
  <2>1. /\ config \in Config /\ dbHandles \in 0..1
        /\ services \subseteq {"signal"} \cup Services
    BY ConstantsAssumption DEF Init
  <2>2. main \in MainSteps /\ sup \in SupSteps
    BY DEF Init, MainSteps, SupSteps
  <2>3. /\ profiling \in BOOLEAN /\ client \in BOOLEAN /\ ctx \in BOOLEAN
        /\ signalled \in BOOLEAN /\ serviceFailed \in BOOLEAN /\ idxOpen \in BOOLEAN
    BY DEF Init
  <2> QED
    BY <1>1, <1>2, <2>1, <2>2, <2>3 DEF Init, TypeOK
<1>4. Resources /\ CtxCause /\ OffIsFresh /\ ListenerKept
  BY DEF Init, Resources, NoApp, CtxCause, OffIsFresh, ListenerKept, Started, BeforeDB, BeforeApp,
         BeforeNode, WithNode
<1>5. ClientKnown
  BY <1>2 DEF Init, ClientKnown, IndexerHasClient, Fresh
<1>6. AttemptsCounted
  BY <1>1, <1>2 DEF Init, AttemptsCounted, Fresh
<1> QED
  BY <1>3, <1>4, <1>5, <1>6 DEF IInv

\* A step that changes nothing.
LEMMA StutterIInv == IInv /\ UNCHANGED vars => IInv'
  BY DEF vars, process, group, evm, IInv, TypeOK, Resources, NoApp, ClientKnown,
         IndexerHasClient, OffIsFresh, AttemptsCounted, Fresh, CtxCause, ListenerKept

\* Every step of the command, of the goroutines and of CometBFT keeps the
\* invariant.
THEOREM Invariance == Spec => []IInv
<1>1. IInv /\ [Next]_vars => IInv'
  BY MainIInv, GroupIInv, NodeStopsIInv, SupCheckIInv, OpenIndexerIInv, StartJSONRPCIInv,
     EvmWaitIInv, GoroutineIInv, StutterIInv
  DEF Next, Supervisor
<1> QED
  BY InitIInv, <1>1, PTL DEF Spec

\* In every configuration and after every failure of a step: CometBFT runs only
\* on an open application, the indexer is created with a client, the
\* application's database is opened at most once, and the deferred calls find the
\* context of the EVM services, which nobody waits for, cancelled.
THEOREM StartUpOrdered == Spec => []StartUpInOrder
<1>1. IInv => StartUpInOrder
  <2> SUFFICES ASSUME IInv PROVE NodeHasApp
    BY DEF StartUpInOrder, IInv, ClientKnown, EvmToldToStop, ListenerKept
  <2> QED
    BY DEF IInv, TypeOK, Resources, NoApp, NodeHasApp, MainSteps, BeforeDB, BeforeApp,
           BeforeNode, WithNode
<1> QED
  BY Invariance, <1>1, PTL

\* However the start command ends, its deferred calls have closed what they know
\* of, the application, the profiler, CometBFT and the application's database, that
\* one exactly once, by app.Close or by closeDB.  They do not know of the
\* indexer's database, which no path closes.
THEOREM ReturnsClean == Spec => []CleanReturn
<1>1. IInv => CleanReturn
  BY DEF IInv, Resources, CleanReturn
<1> QED
  BY Invariance, <1>1, PTL

\* Any number of failed attempts leaves the node's context alone and at most
\* one attempt with a live context.
THEOREM AttemptsStayIsolated == Spec => []AttemptsIsolated
<1>1. IInv => AttemptsIsolated
  BY AttemptOrder DEF IInv, AttemptsCounted, Fresh, CtxCause, AttemptsIsolated
<1> QED
  BY Invariance, <1>1, PTL
=============================================================================
