---------------------------- MODULE UpgradeNodes ----------------------------
(***************************************************************************)
(* The v1.0.1 upgrade across the nodes of a network: upgrades.go registers *)
(* the handler and a store loader when the application is built, and       *)
(* x/upgrade of the Cosmos SDK runs the handler at the height of the plan, *)
(* or halts a node whose binary has none.  Operators stop, swap, downgrade *)
(* and restart binaries whenever they like, and nodes crash.               *)
(*                                                                         *)
(* Of a block, what concerns the upgrade is kept: the plan or the energy   *)
(* cap that a proposal sets.  A crash in mid-block loses nothing but the   *)
(* block's uncommitted writes, so a block is one step.                     *)
(***************************************************************************)
EXTENDS Integers, Sequences

CONSTANTS
    Nodes,
    PlanHeights,     \* heights a plan for v1.0.1 may name
    Caps, NewCap     \* values of Params.MaxMetadataSize; newCap of the handler

\* Bounds of the model.
CONSTANTS
    MaxHeight        \* on the blocks

ASSUME ConstantsAssumption ==
    PlanHeights \subseteq Nat \ {0} /\ Caps \subseteq Nat /\ NewCap \in Nat /\ MaxHeight \in Nat

VARIABLES
    blocks,          \* the decided blocks
    app,             \* each node's committed application state
    info,            \* upgrade-info.json in its home: a height, or 0
    binary,          \* the installed release
    up,              \* whether the process runs
    skip,            \* its --unsafe-skip-upgrades
    loader,          \* the height its store loader was built for, or 0
    skipped          \* history: the nodes that passed over an upgrade

vars == <<blocks, app, info, binary, up, skip, loader, skipped>>

-----------------------------------------------------------------------------
Block == [set : {"nothing"}] \cup [set : {"plan"}, height : PlanHeights] \cup [set : {"cap"}, cap : Caps]

\* plan and done are heights, or 0; versions tells whether RunMigrations ran.
AppState == [height : Nat, plan : Nat, done : Nat, cap : Nat, versions : {"v1.0.0", "v1.0.1"}]

TypeOK ==
    /\ blocks \in Seq(Block)
    /\ app \in [Nodes -> AppState]
    /\ \A n \in Nodes : (app[n].done # 0) <=> (app[n].versions = "v1.0.1")
    /\ info \in [Nodes -> Nat]
    /\ binary \in [Nodes -> {"v1.0.0", "v1.0.1"}]
    /\ up \in [Nodes -> BOOLEAN]
    /\ skip \in [Nodes -> SUBSET PlanHeights]
    /\ loader \in [Nodes -> Nat]
    /\ skipped \subseteq Nodes

Init ==
    /\ blocks = <<>>
    /\ \E c \in Caps :
          app = [n \in Nodes |-> [height |-> 0, plan |-> 0, done |-> 0, cap |-> c,
                                  versions |-> "v1.0.0"]]
    /\ info = [n \in Nodes |-> 0]
    /\ binary = [n \in Nodes |-> "v1.0.0"]
    /\ up = [n \in Nodes |-> FALSE]
    /\ skip = [n \in Nodes |-> {}]
    /\ loader = [n \in Nodes |-> 0]
    /\ skipped = {}

-----------------------------------------------------------------------------
(* The application                                                         *)

\* registerUpgrades: the new release has a handler, the old one none.
HasHandler(n) == binary[n] = "v1.0.1"

\* bumpEnergyMetadataCap
BumpEnergyMetadataCap(cap) == IF cap >= NewCap THEN cap ELSE NewCap

\* Mutant: the custom migration runs only in a process with a store loader.
UpgradeHandlerWithLoader(n, a) ==
    [a EXCEPT !.cap = IF loader[n] = 0 THEN @ ELSE BumpEnergyMetadataCap(@),
              !.versions = "v1.0.1"]

\* The handler of CreateUpgradeHandler: custom migration, then RunMigrations.
UpgradeHandler(n, a) == [a EXCEPT !.cap = BumpEnergyMetadataCap(@), !.versions = "v1.0.1"]

\* Mutant: the loader is left to the upgrade itself.
StoreLoaderNever(n, flags) == 0

\* RegisterUpgradeHandlers: the loader is for the upgrade the file names, if
\* this binary knows it and is not told to skip it.
StoreLoader(n, flags) ==
    IF info[n] # 0 /\ HasHandler(n) /\ info[n] \notin flags THEN info[n] ELSE 0

Start(n) ==
    /\ ~up[n]
    /\ \E flags \in SUBSET PlanHeights :
          /\ skip' = [skip EXCEPT ![n] = flags]
          /\ loader' = [loader EXCEPT ![n] = StoreLoader(n, flags)]
    /\ up' = [up EXCEPT ![n] = TRUE]
    /\ UNCHANGED <<blocks, app, info, binary, skipped>>

\* A crash, or a shutdown by the operator.
Stop(n) ==
    /\ up[n]
    /\ up' = [up EXCEPT ![n] = FALSE]
    /\ UNCHANGED <<blocks, app, info, binary, skip, loader, skipped>>

\* The operator installs the other release, forwards or back.
SwapBinary(n) ==
    /\ ~up[n]
    /\ binary' = [binary EXCEPT ![n] = IF HasHandler(n) THEN "v1.0.0" ELSE "v1.0.1"]
    /\ UNCHANGED <<blocks, app, info, up, skip, loader, skipped>>

-----------------------------------------------------------------------------
(* Blocks                                                                  *)

Decide(b) ==
    /\ Len(blocks) < MaxHeight
    /\ \E n \in Nodes : up[n] /\ app[n].height = Len(blocks)
    /\ blocks' = Append(blocks, b)
    /\ UNCHANGED <<app, info, binary, up, skip, loader, skipped>>

\* A plan is refused if its height has passed or v1.0.1 was already applied.
Deliver(a, b) ==
    CASE b.set = "plan" /\ b.height > a.height /\ a.done = 0 -> [a EXCEPT !.plan = b.height]
      [] b.set = "cap" -> [a EXCEPT !.cap = b.cap]
      [] OTHER -> a

Commit(n, a) ==
    app' = [app EXCEPT ![n] = Deliver([a EXCEPT !.height = app[n].height + 1],
                                      blocks[app[n].height + 1])]

Ready(n) == up[n] /\ app[n].height < Len(blocks)
Due(n) == app[n].plan # 0 /\ app[n].plan <= app[n].height + 1
Skips(n) == (app[n].height + 1) \in skip[n]

\* A binary without the handler of an upgrade that was applied, or with the
\* handler of one that is not due, must not go on.
WrongBinary(n) ==
    \/ app[n].done # 0 /\ ~HasHandler(n)
    \/ app[n].plan # 0 /\ ~Due(n) /\ HasHandler(n)

ExecuteBlock(n) ==
    /\ Ready(n) /\ ~Due(n) /\ ~WrongBinary(n)
    /\ Commit(n, app[n])
    /\ UNCHANGED <<blocks, info, binary, up, skip, loader, skipped>>

WrongBinaryPanics(n) ==
    /\ Ready(n) /\ WrongBinary(n)
    /\ up' = [up EXCEPT ![n] = FALSE]
    /\ UNCHANGED <<blocks, app, info, binary, skip, loader, skipped>>

SkipUpgrade(n) ==
    /\ Ready(n) /\ Due(n) /\ Skips(n) /\ ~WrongBinary(n)
    /\ Commit(n, [app[n] EXCEPT !.plan = 0])
    /\ skipped' = skipped \cup {n}
    /\ UNCHANGED <<blocks, info, binary, up, skip, loader>>

HaltForUpgrade(n) ==
    /\ Ready(n) /\ Due(n) /\ ~Skips(n) /\ ~HasHandler(n)
    /\ info' = [info EXCEPT ![n] = app[n].height + 1]
    /\ up' = [up EXCEPT ![n] = FALSE]
    /\ UNCHANGED <<blocks, app, binary, skip, loader, skipped>>

ApplyUpgrade(n) ==
    /\ Ready(n) /\ Due(n) /\ ~Skips(n) /\ HasHandler(n)
    /\ Commit(n, [UpgradeHandler(n, app[n]) EXCEPT !.plan = 0, !.done = app[n].height + 1])
    /\ UNCHANGED <<blocks, info, binary, up, skip, loader, skipped>>

Next ==
    \/ \E n \in Nodes :
          \/ Start(n) \/ Stop(n) \/ SwapBinary(n)
          \/ ExecuteBlock(n) \/ WrongBinaryPanics(n)
          \/ SkipUpgrade(n) \/ HaltForUpgrade(n) \/ ApplyUpgrade(n)
    \/ \E b \in Block : Decide(b)

Spec == Init /\ [][Next]_vars

-----------------------------------------------------------------------------
(* Properties                                                              *)

\* "every validator runs it independently and they must all produce
\* byte-identical app state": nodes at one height have one state, whether they
\* halted for the upgrade, were stopped and swapped just before it, replayed it
\* after a crash or synced much later; only who skipped it is excepted.
SameStateAtHeight ==
    \A m, n \in Nodes \ skipped : app[m].height = app[n].height => app[m] = app[n]

\* "The store loader MUST be installed BEFORE the multistore opens its
\* underlying databases": a node that halted for an upgrade applies it only in a
\* process that was built with the loader for that height, however often it was
\* restarted and with whichever binaries in between.
LoaderForUpgrade ==
    [][\A n \in Nodes :
          app'[n].done # app[n].done /\ info[n] = app'[n].done => loader[n] = info[n]]_vars

\* Every node in every state: the versions are migrated exactly where the upgrade
\* was applied, and nodes at one height agree.
Inv == TypeOK /\ SameStateAtHeight
=============================================================================
