------------------------- MODULE UpgradeNodes_proofs -------------------------
(***************************************************************************)
(* Proofs about UpgradeNodes for any set of nodes, plan heights, caps and  *)
(* number of blocks: nodes that do not skip the upgrade agree at every     *)
(* height, and a halted node upgrades in a process with the store loader.  *)
(***************************************************************************)
EXTENDS UpgradeNodes, TLAPS

-----------------------------------------------------------------------------
(* The inductive invariant.                                                *)

\* A state, field by field.
State(h, p, d, c, v) == [height |-> h, plan |-> p, done |-> d, cap |-> c, versions |-> v]

\* What block b makes of state a in a node that does not skip the upgrade.  It
\* depends on the state and the block only: not on the node's files, flags,
\* binary or loader.
AfterBlock(a, b) ==
    LET h == a.height + 1
    IN  IF a.plan # 0 /\ a.plan <= h
        THEN Deliver(State(h, 0, h, BumpEnergyMetadataCap(a.cap), "v1.0.1"), b)
        ELSE Deliver(State(h, a.plan, a.done, a.cap, a.versions), b)

\* There is one history s of states, a state for every height, that the decided
\* blocks produce, and every node that skipped nothing is somewhere on it.
OneHistory ==
    \E s \in [0..Len(blocks) -> AppState] :
        /\ \A h \in 1..Len(blocks) : s[h] = AfterBlock(s[h - 1], blocks[h])
        /\ \A n \in Nodes \ skipped : app[n] = s[app[n].height]

\* No node is ahead of the decided blocks.
NoneAhead == \A n \in Nodes : app[n].height <= Len(blocks)

\* A running process has the loader that its files and flags call for now: the
\* file and the binary change only while it is stopped.
LoaderCurrent == \A n \in Nodes : up[n] => loader[n] = StoreLoader(n, skip[n])

IInv == TypeOK /\ OneHistory /\ NoneAhead /\ LoaderCurrent

-----------------------------------------------------------------------------
(* A block.                                                                *)

\* Delivering a block changes at most the plan and the cap.
LEMMA DeliverFacts ==
  ASSUME NEW a \in AppState, NEW b \in Block
  PROVE  /\ Deliver(a, b) \in AppState
         /\ Deliver(a, b).height = a.height
         /\ Deliver(a, b).done = a.done
         /\ Deliver(a, b).versions = a.versions
<1>1. CASE b \in [set : {"nothing"}]
  <2>1. Deliver(a, b) = a
    BY <1>1 DEF Deliver
  <2> QED
    BY <2>1
<1>2. CASE b \in [set : {"plan"}, height : PlanHeights]
  <2>1. b.set = "plan" /\ b.height \in Nat
    BY <1>2, ConstantsAssumption
  <2>2. Deliver(a, b) = a \/ Deliver(a, b) = [a EXCEPT !.plan = b.height]
    BY <2>1 DEF Deliver
  <2> QED
    BY <2>1, <2>2 DEF AppState
<1>3. CASE b \in [set : {"cap"}, cap : Caps]
  <2>1. b.set = "cap" /\ b.cap \in Nat
    BY <1>3, ConstantsAssumption
  <2>2. Deliver(a, b) = [a EXCEPT !.cap = b.cap]
    BY <2>1 DEF Deliver
  <2> QED
    BY <2>1, <2>2 DEF AppState
<1> QED
  BY <1>1, <1>2, <1>3 DEF Block

\* The state of a node that applies the upgrade, before the block is delivered.
LEMMA Upgraded ==
  ASSUME NEW a \in AppState, NEW h \in Nat, NEW n
  PROVE  LET u == [UpgradeHandler(n, a) EXCEPT !.plan = 0, !.done = h]
         IN  [u EXCEPT !.height = h] = State(h, 0, h, BumpEnergyMetadataCap(a.cap), "v1.0.1")
<1> DEFINE k == BumpEnergyMetadataCap(a.cap)
           x1 == [a EXCEPT !.cap = k]
           x2 == [x1 EXCEPT !.versions = "v1.0.1"]
           x3 == [x2 EXCEPT !.plan = 0]
           x4 == [x3 EXCEPT !.done = h]
           x5 == [x4 EXCEPT !.height = h]
<1>1. /\ k \in Nat
      /\ a.height \in Nat /\ a.plan \in Nat /\ a.done \in Nat /\ a.versions \in {"v1.0.0", "v1.0.1"}
  BY ConstantsAssumption DEF AppState, BumpEnergyMetadataCap
<1>2. UpgradeHandler(n, a) = x2
  BY DEF UpgradeHandler
<1>3. [UpgradeHandler(n, a) EXCEPT !.plan = 0, !.done = h] = x4
  <2> HIDE DEF x2
  <2> QED
    BY <1>2
<1> HIDE DEF k, x1, x2, x3, x4
<1>4. x1 = State(a.height, a.plan, a.done, k, a.versions)
  BY <1>1 DEF x1, AppState, State
<1>5. x1 \in AppState /\ x1.height = a.height /\ x1.plan = a.plan /\ x1.done = a.done /\ x1.cap = k
  BY <1>1, <1>4 DEF AppState, State
<1>6. x2 = State(a.height, a.plan, a.done, k, "v1.0.1")
  BY <1>1, <1>5 DEF x2, AppState, State
<1>7. x2 \in AppState /\ x2.height = a.height /\ x2.plan = a.plan /\ x2.done = a.done /\ x2.cap = k /\ x2.versions = "v1.0.1"
  BY <1>1, <1>6 DEF AppState, State
<1>8. x3 = State(a.height, 0, a.done, k, "v1.0.1")
  BY <1>1, <1>7 DEF x3, AppState, State
<1>9. x3 \in AppState /\ x3.height = a.height /\ x3.plan = 0 /\ x3.done = a.done /\ x3.cap = k /\ x3.versions = "v1.0.1"
  BY <1>1, <1>8 DEF AppState, State
<1>10. x4 = State(a.height, 0, h, k, "v1.0.1")
  BY <1>1, <1>9 DEF x4, AppState, State
<1>11. x4 \in AppState /\ x4.height = a.height /\ x4.plan = 0 /\ x4.done = h /\ x4.cap = k /\ x4.versions = "v1.0.1"
  BY <1>1, <1>10 DEF AppState, State
<1>12. x5 = State(h, 0, h, k, "v1.0.1")
  BY <1>11 DEF AppState, State
<1> QED
  BY <1>3, <1>12 DEF k

\* The states of nodes that do not, or that skip it.
LEMMA NotUpgraded ==
  ASSUME NEW a \in AppState, NEW h \in Nat
  PROVE  /\ [a EXCEPT !.height = h] = State(h, a.plan, a.done, a.cap, a.versions)
         /\ [[a EXCEPT !.plan = 0] EXCEPT !.height = h]
               = State(h, 0, a.done, a.cap, a.versions)
<1>1. [a EXCEPT !.height = h] = State(h, a.plan, a.done, a.cap, a.versions)
  BY DEF AppState, State
<1> DEFINE x == [a EXCEPT !.plan = 0]
<1>2. x = State(a.height, 0, a.done, a.cap, a.versions)
  BY DEF AppState, State
<1> HIDE DEF x
<1>3. [x EXCEPT !.height = h] = State(h, 0, a.done, a.cap, a.versions)
  BY <1>2 DEF AppState, State
<1> QED
  BY <1>1, <1>3 DEF x

\* The fields of a state.
LEMMA StateFacts ==
  ASSUME NEW h \in Nat, NEW p \in Nat, NEW d \in Nat, NEW c \in Nat,
         NEW v \in {"v1.0.0", "v1.0.1"}
  PROVE  LET s == State(h, p, d, c, v)
         IN  s \in AppState /\ s.height = h /\ s.done = d /\ s.versions = v
  BY DEF AppState, State

\* A block brings the state to the next height.
LEMMA AfterBlockFacts ==
  ASSUME NEW a \in AppState, NEW b \in Block
  PROVE  AfterBlock(a, b) \in AppState
<1> DEFINE h == a.height + 1
           x == State(h, 0, h, BumpEnergyMetadataCap(a.cap), "v1.0.1")
           y == State(h, a.plan, a.done, a.cap, a.versions)
<1>1. x \in AppState /\ y \in AppState
  BY ConstantsAssumption DEF AppState, State, BumpEnergyMetadataCap
<1>2. AfterBlock(a, b) = Deliver(x, b) \/ AfterBlock(a, b) = Deliver(y, b)
  BY DEF AfterBlock
<1> HIDE DEF x, y
<1>3. Deliver(x, b) \in AppState /\ Deliver(y, b) \in AppState
  BY <1>1, DeliverFacts
<1> QED
  BY <1>2, <1>3

-----------------------------------------------------------------------------
(* The steps.                                                              *)

\* At height 0 the history is the state of the genesis file.
LEMMA InitIInv == Init => IInv
<1> SUFFICES ASSUME Init PROVE IInv
  OBVIOUS
<1>1. PICK c \in Caps :
         app = [n \in Nodes |-> [height |-> 0, plan |-> 0, done |-> 0, cap |-> c,
                                 versions |-> "v1.0.0"]]
  BY DEF Init
<1> DEFINE g == [height |-> 0, plan |-> 0, done |-> 0, cap |-> c, versions |-> "v1.0.0"]
           s == [h \in 0..0 |-> g]
<1>2. g \in AppState /\ g.height = 0 /\ g.done = 0 /\ g.versions = "v1.0.0"
  BY ConstantsAssumption DEF AppState
<1>3. app = [n \in Nodes |-> g]
  BY <1>1
<1> HIDE DEF g
<1>4. TypeOK
  BY <1>2, <1>3 DEF Init, TypeOK
<1>5. Len(blocks) = 0
  BY DEF Init
<1>6. OneHistory
  <2>1. s \in [0..Len(blocks) -> AppState]
    BY <1>2, <1>5
  <2>2. \A h \in 1..Len(blocks) : s[h] = AfterBlock(s[h - 1], blocks[h])
    BY <1>5
  <2>3. \A n \in Nodes \ skipped : app[n] = s[app[n].height]
    <3>1. \A n \in Nodes : app[n] = g /\ app[n].height = 0
      BY <1>2, <1>3
    <3>2. s[0] = g
      OBVIOUS
    <3> HIDE DEF s
    <3> QED
      BY <3>1, <3>2
  <2> HIDE DEF s
  <2> QED
    BY <2>1, <2>2, <2>3 DEF OneHistory
<1>7. NoneAhead
  <2>1. \A n \in Nodes : app[n].height = 0
    BY <1>2, <1>3
  <2> QED
    BY <1>5, <2>1, 0 <= 0 DEF NoneAhead
<1>8. LoaderCurrent
  BY DEF Init, LoaderCurrent
<1> QED
  BY <1>4, <1>6, <1>7, <1>8 DEF IInv

\* Starting, stopping, swapping and halting touch no committed state.
LEMMA OperatorIInv ==
  ASSUME IInv, NEW n \in Nodes,
         \/ Start(n) \/ Stop(n) \/ SwapBinary(n)
         \/ WrongBinaryPanics(n) \/ HaltForUpgrade(n)
  PROVE  IInv' /\ app' = app
<1>1. app' = app /\ blocks' = blocks /\ skipped' = skipped
  BY DEF Start, Stop, SwapBinary, WrongBinaryPanics, HaltForUpgrade
<1>2. TypeOK'
  <2>1. app[n].height + 1 \in Nat
    BY DEF IInv, TypeOK, AppState
  <2>2. info' \in [Nodes -> Nat]
    BY <2>1 DEF IInv, TypeOK, Start, Stop, SwapBinary, WrongBinaryPanics, HaltForUpgrade
  <2>3. binary' \in [Nodes -> {"v1.0.0", "v1.0.1"}]
    BY DEF IInv, TypeOK, Start, Stop, SwapBinary, WrongBinaryPanics, HaltForUpgrade
  <2>4. up' \in [Nodes -> BOOLEAN]
    BY DEF IInv, TypeOK, Start, Stop, SwapBinary, WrongBinaryPanics, HaltForUpgrade
  <2>5. skip' \in [Nodes -> SUBSET PlanHeights]
    BY DEF IInv, TypeOK, Start, Stop, SwapBinary, WrongBinaryPanics, HaltForUpgrade
  <2>6. loader' \in [Nodes -> Nat]
    <3>1. \A flags : StoreLoader(n, flags) \in Nat
      BY DEF IInv, TypeOK, StoreLoader
    <3>2. ASSUME NEW flags, loader' = [loader EXCEPT ![n] = StoreLoader(n, flags)]
          PROVE  loader' \in [Nodes -> Nat]
      BY <3>1, <3>2 DEF IInv, TypeOK
    <3> QED
      BY <3>2 DEF IInv, TypeOK, Start, Stop, SwapBinary, WrongBinaryPanics, HaltForUpgrade
  <2> QED
    BY <1>1, <2>2, <2>3, <2>4, <2>5, <2>6 DEF IInv, TypeOK
<1>3. OneHistory' /\ NoneAhead'
  BY <1>1 DEF IInv, OneHistory, NoneAhead
<1>4. LoaderCurrent'
  <2> SUFFICES ASSUME NEW m \in Nodes, up'[m] PROVE loader'[m] = StoreLoader(m, skip[m])'
    BY DEF LoaderCurrent
  <2>1. CASE Start(n)
    <3>1. info' = info /\ binary' = binary
      BY <2>1 DEF Start
    <3>2. CASE m = n
      <4>1. loader'[n] = StoreLoader(n, skip'[n])
        BY <2>1 DEF Start, IInv, TypeOK
      <4> QED
        BY <3>1, <3>2, <4>1 DEF StoreLoader, HasHandler
    <3>3. CASE m # n
      <4>1. up[m] /\ skip'[m] = skip[m] /\ loader'[m] = loader[m]
        BY <2>1, <3>3 DEF Start, IInv, TypeOK
      <4> QED
        BY <3>1, <4>1 DEF StoreLoader, HasHandler, IInv, LoaderCurrent
    <3> QED
      BY <3>2, <3>3
  <2>2. CASE Stop(n) \/ WrongBinaryPanics(n)
    <3>1. up[m]
      BY <2>2 DEF Stop, WrongBinaryPanics, IInv, TypeOK
    <3> QED
      BY <2>2, <3>1
      DEF Stop, WrongBinaryPanics, StoreLoader, HasHandler, IInv, LoaderCurrent
  <2>3. CASE SwapBinary(n)
    <3>1. up[m] /\ m # n
      BY <2>3 DEF SwapBinary
    <3>2. binary'[m] = binary[m] /\ info' = info /\ skip' = skip /\ loader' = loader
      BY <2>3, <3>1 DEF SwapBinary, IInv, TypeOK
    <3> QED
      BY <3>1, <3>2 DEF StoreLoader, HasHandler, IInv, LoaderCurrent
  <2>4. CASE HaltForUpgrade(n)
    <3>1. up[m] /\ m # n
      BY <2>4 DEF HaltForUpgrade, IInv, TypeOK
    <3>2. info'[m] = info[m] /\ binary' = binary /\ skip' = skip /\ loader' = loader
      BY <2>4, <3>1 DEF HaltForUpgrade, IInv, TypeOK
    <3> QED
      BY <3>1, <3>2 DEF StoreLoader, HasHandler, IInv, LoaderCurrent
  <2> QED
    BY <2>1, <2>2, <2>3, <2>4
<1> QED
  BY <1>1, <1>2, <1>3, <1>4 DEF IInv

\* A decided block extends the history by a state.
LEMMA DecideIInv ==
  ASSUME IInv, NEW b \in Block, Decide(b)
  PROVE  IInv' /\ app' = app
<1>1. UNCHANGED <<app, info, binary, up, skip, loader, skipped>> /\ blocks' = Append(blocks, b)
  BY DEF Decide
<1>2. blocks \in Seq(Block) /\ Len(blocks) \in Nat
  BY DEF IInv, TypeOK
<1>3. /\ blocks' \in Seq(Block) /\ Len(blocks') = Len(blocks) + 1
      /\ blocks'[Len(blocks) + 1] = b
      /\ \A h \in 1..Len(blocks) : blocks'[h] = blocks[h]
  BY <1>1, <1>2
<1>4. TypeOK'
  BY <1>1, <1>3 DEF IInv, TypeOK
<1>5. \A n \in Nodes : app[n].height \in Nat
  BY DEF IInv, TypeOK, AppState
<1>6. NoneAhead'
  BY <1>1, <1>2, <1>3, <1>5 DEF IInv, NoneAhead
<1>7. LoaderCurrent'
  BY <1>1 DEF IInv, LoaderCurrent, StoreLoader, HasHandler
<1>8. OneHistory'
  <2> DEFINE L == Len(blocks)
  <2>1. PICK s \in [0..L -> AppState] :
           /\ \A h \in 1..L : s[h] = AfterBlock(s[h - 1], blocks[h])
           /\ \A n \in Nodes \ skipped : app[n] = s[app[n].height]
    BY DEF IInv, OneHistory
  <2> DEFINE t == [h \in 0..(L + 1) |-> IF h = L + 1 THEN AfterBlock(s[L], b) ELSE s[h]]
  <2> HIDE DEF L
  <2>2. L \in Nat
    BY <1>2 DEF L
  <2>3. s[L] \in AppState
    BY <2>1, <2>2
  <2>4. AfterBlock(s[L], b) \in AppState
    BY <2>3, AfterBlockFacts
  <2>5. t \in [0..(L + 1) -> AppState]
    BY <2>1, <2>2, <2>4
  <2>6. /\ t[L + 1] = AfterBlock(s[L], b)
        /\ \A h \in 0..L : t[h] = s[h]
    BY <2>2
  <2> HIDE DEF t
  <2>7. \A h \in 1..(L + 1) : t[h] = AfterBlock(t[h - 1], blocks'[h])
    <3> SUFFICES ASSUME NEW h \in 1..(L + 1) PROVE t[h] = AfterBlock(t[h - 1], blocks'[h])
      OBVIOUS
    <3>1. CASE h = L + 1
      <4>1. h - 1 = L /\ L \in 0..L /\ blocks'[h] = b
        BY <1>3, <2>2, <3>1 DEF L
      <4> QED
        BY <2>6, <3>1, <4>1
    <3>2. CASE h # L + 1
      <4>1. h \in 1..L /\ h \in 0..L /\ h - 1 \in 0..L
        BY <2>2, <3>2
      <4>2. blocks'[h] = blocks[h]
        BY <1>3, <4>1 DEF L
      <4> QED
        BY <2>1, <2>6, <4>1, <4>2
    <3> QED
      BY <3>1, <3>2
  <2>8. \A n \in Nodes \ skipped' : app'[n] = t[app'[n].height]
    <3> SUFFICES ASSUME NEW n \in Nodes \ skipped PROVE app[n] = t[app[n].height]
      BY <1>1
    <3>1. app[n].height \in 0..L
      BY <1>5, <2>2 DEF IInv, NoneAhead, L
    <3> QED
      BY <2>1, <2>6, <3>1
  <2>9. Len(blocks') = L + 1
    BY <1>3 DEF L
  <2> QED
    BY <2>5, <2>7, <2>8, <2>9 DEF OneHistory
<1> QED
  BY <1>1, <1>4, <1>6, <1>7, <1>8 DEF IInv

\* What committing a block does to the states: the history is followed unless the
\* upgrade is skipped, and only applying it records it as done.
LEMMA CommitFacts ==
  ASSUME IInv, NEW n \in Nodes, ExecuteBlock(n) \/ SkipUpgrade(n) \/ ApplyUpgrade(n)
  PROVE  LET h == app[n].height
             b == blocks[app[n].height + 1]
         IN  /\ h \in Nat /\ Len(blocks) \in Nat /\ h < Len(blocks)
             /\ app' \in [Nodes -> AppState]
             /\ \A m \in Nodes : m # n => app'[m] = app[m]
             /\ app'[n].height = h + 1
             /\ (app'[n].done # 0) <=> (app'[n].versions = "v1.0.1")
             /\ app'[n].done = app[n].done \/ (ApplyUpgrade(n) /\ app'[n].done = h + 1)
             /\ skipped' \in {skipped, skipped \cup {n}}
             /\ n \notin skipped' => app'[n] = AfterBlock(app[n], b)
<1> DEFINE a == app[n]
           h == app[n].height
           b == blocks[app[n].height + 1]
           c == BumpEnergyMetadataCap(a.cap)
           follows == State(h + 1, a.plan, a.done, a.cap, a.versions)
           upgraded == State(h + 1, 0, h + 1, c, "v1.0.1")
           passed == State(h + 1, 0, a.done, a.cap, a.versions)
<1>1. /\ app \in [Nodes -> AppState] /\ a \in AppState /\ h \in Nat /\ h + 1 \in Nat
      /\ a.plan \in Nat /\ a.done \in Nat /\ a.cap \in Nat
      /\ a.versions \in {"v1.0.0", "v1.0.1"}
  BY DEF IInv, TypeOK, AppState
<1>2. c \in Nat
  BY <1>1, ConstantsAssumption DEF BumpEnergyMetadataCap
<1>3. Len(blocks) \in Nat /\ h < Len(blocks)
  BY DEF IInv, TypeOK, ExecuteBlock, SkipUpgrade, ApplyUpgrade, Ready
<1>4. b \in Block
  <2>1. h + 1 \in 1..Len(blocks)
    BY <1>1, <1>3
  <2> QED
    BY <2>1 DEF IInv, TypeOK
<1>5. (a.done # 0) <=> (a.versions = "v1.0.1")
  BY DEF IInv, TypeOK
<1>6. /\ ExecuteBlock(n) => app' = [app EXCEPT ![n] = Deliver([a EXCEPT !.height = h + 1], b)]
      /\ SkipUpgrade(n) =>
            app' = [app EXCEPT ![n] = Deliver([[a EXCEPT !.plan = 0] EXCEPT !.height = h + 1], b)]
      /\ ApplyUpgrade(n) =>
            app' = [app EXCEPT ![n] =
                       Deliver([[UpgradeHandler(n, a) EXCEPT !.plan = 0, !.done = h + 1]
                                  EXCEPT !.height = h + 1], b)]
  BY DEF ExecuteBlock, SkipUpgrade, ApplyUpgrade, Commit
<1>7. /\ ~Due(n) => AfterBlock(a, b) = Deliver(follows, b)
      /\ Due(n) => AfterBlock(a, b) = Deliver(upgraded, b)
  BY DEF AfterBlock, Due
<1>8. /\ [a EXCEPT !.height = h + 1] = follows
      /\ [[a EXCEPT !.plan = 0] EXCEPT !.height = h + 1] = passed
      /\ [[UpgradeHandler(n, a) EXCEPT !.plan = 0, !.done = h + 1] EXCEPT !.height = h + 1]
            = upgraded
  BY <1>1, Upgraded, NotUpgraded
<1>9. /\ follows \in AppState /\ follows.height = h + 1
      /\ follows.done = a.done /\ follows.versions = a.versions
      /\ upgraded \in AppState /\ upgraded.height = h + 1
      /\ upgraded.done = h + 1 /\ upgraded.versions = "v1.0.1"
      /\ passed \in AppState /\ passed.height = h + 1
      /\ passed.done = a.done /\ passed.versions = a.versions
  BY <1>1, <1>2 DEF State, AppState
<1> HIDE DEF a, b, c, follows, upgraded, passed
<1>10. h + 1 # 0
  BY <1>1
<1> HIDE DEF h
<1>11. CASE ExecuteBlock(n)
  <2>1. app' = [app EXCEPT ![n] = Deliver(follows, b)]
    BY <1>6, <1>8, <1>11
  <2>2. app'[n] = Deliver(follows, b)
    BY <1>1, <2>1
  <2>3. /\ Deliver(follows, b) \in AppState /\ Deliver(follows, b).height = h + 1
        /\ Deliver(follows, b).done = a.done /\ Deliver(follows, b).versions = a.versions
    BY <1>4, <1>9, DeliverFacts
  <2>4. ~Due(n) /\ skipped' = skipped
    BY <1>11 DEF ExecuteBlock
  <2> QED
    BY <1>1, <1>3, <1>5, <1>7, <2>1, <2>2, <2>3, <2>4 DEF a, b, h
<1>12. CASE ApplyUpgrade(n)
  <2>1. app' = [app EXCEPT ![n] = Deliver(upgraded, b)]
    BY <1>6, <1>8, <1>12
  <2>2. app'[n] = Deliver(upgraded, b)
    BY <1>1, <2>1
  <2>3. /\ Deliver(upgraded, b) \in AppState /\ Deliver(upgraded, b).height = h + 1
        /\ Deliver(upgraded, b).done = h + 1 /\ Deliver(upgraded, b).versions = "v1.0.1"
    BY <1>4, <1>9, DeliverFacts
  <2>4. Due(n) /\ skipped' = skipped
    BY <1>12 DEF ApplyUpgrade
  <2> QED
    BY <1>1, <1>3, <1>7, <1>10, <1>12, <2>1, <2>2, <2>3, <2>4 DEF a, b, h
<1>13. CASE SkipUpgrade(n)
  <2>1. app' = [app EXCEPT ![n] = Deliver(passed, b)]
    BY <1>6, <1>8, <1>13
  <2>2. app'[n] = Deliver(passed, b)
    BY <1>1, <2>1
  <2>3. /\ Deliver(passed, b) \in AppState /\ Deliver(passed, b).height = h + 1
        /\ Deliver(passed, b).done = a.done /\ Deliver(passed, b).versions = a.versions
    BY <1>4, <1>9, DeliverFacts
  <2>4. skipped' = skipped \cup {n}
    BY <1>13 DEF SkipUpgrade
  <2> QED
    BY <1>1, <1>3, <1>5, <2>1, <2>2, <2>3, <2>4 DEF a, b, h
<1> QED
  BY <1>11, <1>12, <1>13

\* A node that commits a block moves along the history, whichever of the two
\* ways it takes, unless it skips the upgrade and leaves the history for good.
LEMMA CommitIInv ==
  ASSUME IInv, NEW n \in Nodes, ExecuteBlock(n) \/ SkipUpgrade(n) \/ ApplyUpgrade(n)
  PROVE  IInv'
<1> DEFINE h == app[n].height
           b == blocks[app[n].height + 1]
<1>1. UNCHANGED <<blocks, info, binary, up, skip, loader>>
  BY DEF ExecuteBlock, SkipUpgrade, ApplyUpgrade
<1>2. /\ h \in Nat /\ Len(blocks) \in Nat /\ h < Len(blocks)
      /\ app' \in [Nodes -> AppState]
      /\ \A m \in Nodes : m # n => app'[m] = app[m]
      /\ app'[n].height = h + 1
      /\ (app'[n].done # 0) <=> (app'[n].versions = "v1.0.1")
      /\ skipped' \in {skipped, skipped \cup {n}}
      /\ n \notin skipped' => app'[n] = AfterBlock(app[n], b)
  BY CommitFacts
<1> HIDE DEF b
<1>3. TypeOK'
  <2>1. \A m \in Nodes : (app'[m].done # 0) <=> (app'[m].versions = "v1.0.1")
    BY <1>2 DEF IInv, TypeOK
  <2> QED
    BY <1>1, <1>2, <2>1 DEF IInv, TypeOK
<1>4. NoneAhead'
  <2> SUFFICES ASSUME NEW m \in Nodes PROVE app'[m].height <= Len(blocks)
    BY <1>1 DEF NoneAhead
  <2>1. CASE m = n
    BY <1>2, <2>1
  <2>2. CASE m # n
    BY <1>2, <2>2 DEF IInv, NoneAhead
  <2> QED
    BY <2>1, <2>2
<1>5. LoaderCurrent'
  BY <1>1 DEF IInv, LoaderCurrent, StoreLoader, HasHandler
<1>6. OneHistory'
  <2>1. PICK s \in [0..Len(blocks) -> AppState] :
           /\ \A k \in 1..Len(blocks) : s[k] = AfterBlock(s[k - 1], blocks[k])
           /\ \A m \in Nodes \ skipped : app[m] = s[app[m].height]
    BY DEF IInv, OneHistory
  <2>2. ASSUME NEW m \in Nodes \ skipped' PROVE app'[m] = s[app'[m].height]
    <3>1. m \notin skipped
      BY <1>2
    <3>2. CASE m # n
      BY <1>2, <2>1, <3>1, <3>2
    <3>3. CASE m = n
      <4>1. app'[n] = AfterBlock(app[n], b) /\ app'[n].height = h + 1
        BY <1>2, <3>3
      <4>2. app[n] = s[h]
        BY <2>1, <3>1, <3>3
      <4>3. h + 1 \in 1..Len(blocks) /\ (h + 1) - 1 = h
        BY <1>2
      <4>4. s[h + 1] = AfterBlock(s[h], b)
        BY <2>1, <4>3 DEF b
      <4> QED
        BY <3>3, <4>1, <4>2, <4>4
    <3> QED
      BY <3>2, <3>3
  <2> QED
    BY <1>1, <2>1, <2>2 DEF OneHistory
<1> QED
  BY <1>3, <1>4, <1>5, <1>6 DEF IInv

\* Every step keeps the invariant.
LEMMA StepIInv == IInv /\ [Next]_vars => IInv'
<1> SUFFICES ASSUME IInv, [Next]_vars PROVE IInv'
  OBVIOUS
<1>1. CASE UNCHANGED vars
  BY <1>1 DEF vars, IInv, TypeOK, OneHistory, NoneAhead, LoaderCurrent, StoreLoader,
              HasHandler
<1> QED
  BY <1>1, OperatorIInv, DecideIInv, CommitIInv DEF Next

-----------------------------------------------------------------------------
(* The theorems.                                                           *)

\* The state of every node that skipped no upgrade is the one that the decided
\* blocks produce at its height, and a running process has the store loader its
\* files call for.
THEOREM InvariantHolds == Spec => []IInv
  BY InitIInv, StepIInv, PTL DEF Spec

\* Nodes at one height have one state, however they were stopped, swapped,
\* halted and restarted, unless one of them skipped the upgrade; the versions
\* are migrated exactly where the upgrade was applied.
THEOREM NodesAgree == Spec => []Inv
<1>1. IInv => Inv
  <2> SUFFICES ASSUME IInv, NEW m \in Nodes \ skipped, NEW n \in Nodes \ skipped,
                      app[m].height = app[n].height
               PROVE  app[m] = app[n]
    BY DEF IInv, Inv, SameStateAtHeight
  <2> QED
    BY DEF IInv, OneHistory
<1> QED
  BY <1>1, InvariantHolds, PTL

\* A node that halted for the upgrade applies it only in a process built with
\* the store loader for that height.
THEOREM UpgradesWithLoader == Spec => LoaderForUpgrade
<1> DEFINE A == \A n \in Nodes :
                   app'[n].done # app[n].done /\ info[n] = app'[n].done => loader[n] = info[n]
<1>1. ASSUME IInv, Next PROVE A
  <2>1. CASE app' = app
    BY <2>1
  <2>2. ASSUME NEW n \in Nodes, ExecuteBlock(n) \/ SkipUpgrade(n) \/ ApplyUpgrade(n)
        PROVE  A
    <3> SUFFICES ASSUME NEW m \in Nodes, app'[m].done # app[m].done, info[m] = app'[m].done
                 PROVE  loader[m] = info[m]
      OBVIOUS
    <3> DEFINE h == app[n].height
    <3>1. /\ h \in Nat
          /\ \A x \in Nodes : x # n => app'[x] = app[x]
          /\ app'[n].done = app[n].done \/ (ApplyUpgrade(n) /\ app'[n].done = h + 1)
      BY <1>1, <2>2, CommitFacts
    <3>2. m = n /\ ApplyUpgrade(n) /\ info[n] = h + 1 /\ h + 1 # 0
      BY <3>1
    <3>3. up[n] /\ HasHandler(n) /\ h + 1 \notin skip[n]
      BY <3>2 DEF ApplyUpgrade, Ready, Skips
    <3>4. loader[n] = StoreLoader(n, skip[n])
      BY <1>1, <3>3 DEF IInv, LoaderCurrent
    <3> QED
      BY <3>2, <3>3, <3>4 DEF StoreLoader
  <2> QED
    BY <1>1, <2>1, <2>2, OperatorIInv, DecideIInv DEF Next
<1>2. IInv /\ [Next]_vars => [A]_vars
  BY <1>1
<1> QED
  BY <1>2, InvariantHolds, PTL DEF Spec, LoaderForUpgrade
=============================================================================
