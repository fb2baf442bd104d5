-------------------- MODULE PromotedTxBroadcaster_proofs --------------------
(***************************************************************************)
(* PromotedTxBroadcaster for all callers, transactions, lists and queue    *)
(* sizes: nothing accepted is lost, repeated or overtaken, nothing is      *)
(* dropped for want of a client that is ready, and nothing is broadcast    *)
(* after Close.  That calls end is liveness and stays with TLC.            *)
(***************************************************************************)
EXTENDS PromotedTxBroadcaster, SequenceTheorems, TLAPS

\* The number of transactions the loop works on.
Held == IF tx = nil THEN 0 ELSE 1

\* HandledInOrder, position by position: the accepted transactions are the
\* handled ones, then the one in work, then the queue.
Positions ==
    /\ Len(accepted) = Len(handled) + Held + Len(queue)
    /\ \A i \in 1..Len(handled) : accepted[i] = handled[i].tx
    /\ tx # nil => accepted[Len(handled) + 1] = tx
    /\ \A i \in 1..Len(queue) : accepted[Len(handled) + Held + i] = queue[i]

\* The loop waits for a client that is ready only with the transaction that it
\* had taken before.
WaitingSinceBefore ==
    clientReady /\ pc = "waiting" => Len(handled) < readyAt

\* wg.Wait returns only once the loop has.
ReturnedAfterLoop == closer = "returned" => pc = "exited"

IInv ==
    /\ TypeOK
    /\ Positions
    /\ WaitingSinceBefore
    /\ NoDropOnceReady
    /\ ReturnedAfterLoop

\* The rests of the lists stay lists.
LEMMA TodoFacts ==
    ASSUME TypeOK, NEW c \in Callers, todo[c] # <<>>
    PROVE  /\ Head(todo[c]) \in Txs \cup {nil}
           /\ [todo EXCEPT ![c] = Tail(@)] \in [Callers -> Seq(Txs \cup {nil})]
           /\ [todo EXCEPT ![c] = <<>>] \in [Callers -> Seq(Txs \cup {nil})]
<1>1. todo[c] \in Seq(Txs \cup {nil})
  BY DEF TypeOK
<1>2. /\ Head(todo[c]) \in Txs \cup {nil}
      /\ Tail(todo[c]) \in Seq(Txs \cup {nil})
  BY <1>1, HeadTailProperties
<1>3. <<>> \in Seq(Txs \cup {nil})
  BY EmptySeq
<1> QED
  BY <1>2, <1>3 DEF TypeOK

\* A new broadcaster satisfies the invariant.
LEMMA InitIInv == Init => IInv
<1> SUFFICES ASSUME Init PROVE IInv
  OBVIOUS
<1>1. TypeOK
  <2>1. /\ todo \in [Callers -> Seq(Txs \cup {nil})]
        /\ queue \in Seq(Txs) /\ accepted \in Seq(Txs)
        /\ handled \in Seq([tx : Txs, outcome : Outcomes])
    BY EmptySeq DEF Init
  <2>2. Len(queue) <= QueueSize /\ calls \in 0..MaxCalls
    BY ConstantsAssumption DEF Init
  <2> QED
    BY <2>1, <2>2 DEF Init, TypeOK, LoopStates
<1>2. Positions
  BY DEF Init, Positions, Held
<1> QED
  BY <1>1, <1>2
  DEF Init, IInv, WaitingSinceBefore, NoDropOnceReady, ReturnedAfterLoop

\* A call of Enqueue only gives the caller its list.
LEMMA EnqueueCallIInv ==
    ASSUME IInv, NEW c \in Callers, NEW txs \in Batches, EnqueueCall(c, txs)
    PROVE  IInv'
<1>1. txs \in Seq(Txs \cup {nil})
  BY ConstantsAssumption
<1>2. TypeOK'
  BY <1>1, ConstantsAssumption DEF IInv, TypeOK, EnqueueCall
<1> QED
  BY <1>2 DEF IInv, EnqueueCall, Positions, Held, WaitingSinceBefore,
              NoDropOnceReady, ReturnedAfterLoop

\* A round of Enqueue puts the transaction at the end of both lists, or at the
\* end of neither.
LEMMA EnqueueIInv ==
    ASSUME IInv, NEW c \in Callers, Enqueue(c)
    PROVE  IInv'
<1>1. /\ todo[c] # <<>>
      /\ UNCHANGED <<done, clientReady, pc, tx, closer, calls, handled, readyAt>>
  BY DEF Enqueue, EnqueueNil, EnqueueSend, EnqueueFull
<1>2. /\ Head(todo[c]) \in Txs \cup {nil}
      /\ todo' \in [Callers -> Seq(Txs \cup {nil})]
  BY <1>1, TodoFacts DEF IInv, Enqueue, EnqueueNil, EnqueueSend, EnqueueFull
<1>3. TypeOK' /\ Positions'
  <2>1. CASE EnqueueSend(c)
    <3> DEFINE t == Head(todo[c])
    <3>1. t \in Txs
      BY <1>2, <2>1 DEF EnqueueSend
    <3>2. /\ queue' = Append(queue, t) /\ accepted' = Append(accepted, t)
          /\ Len(queue) < QueueSize
          /\ queue \in Seq(Txs) /\ accepted \in Seq(Txs)
      BY <2>1 DEF EnqueueSend, IInv, TypeOK
    <3> HIDE DEF t
    <3>3. /\ queue' \in Seq(Txs) /\ accepted' \in Seq(Txs)
          /\ Len(queue) \in Nat /\ Len(accepted) \in Nat
          /\ Len(queue') = Len(queue) + 1
          /\ Len(accepted') = Len(accepted) + 1
          /\ queue'[Len(queue) + 1] = t
          /\ accepted'[Len(accepted) + 1] = t
          /\ \A i \in 1..Len(queue) : queue'[i] = queue[i]
          /\ \A i \in 1..Len(accepted) : accepted'[i] = accepted[i]
      BY <3>1, <3>2
    <3>4. TypeOK'
      BY <1>1, <1>2, <3>2, <3>3, ConstantsAssumption DEF IInv, TypeOK
    <3>5. Len(handled) \in Nat /\ Held \in Nat /\ Held' = Held
          /\ (tx # nil => Held = 1)
      BY <1>1 DEF IInv, TypeOK, Held
    <3>6. Positions'
      <4>1. /\ Len(accepted) = Len(handled) + Held + Len(queue)
            /\ \A i \in 1..Len(handled) : accepted[i] = handled[i].tx
            /\ tx # nil => accepted[Len(handled) + 1] = tx
            /\ \A i \in 1..Len(queue) : accepted[Len(handled) + Held + i] = queue[i]
        BY DEF IInv, Positions
      <4>2. Len(accepted') = Len(handled') + Held' + Len(queue')
        BY <1>1, <3>3, <3>5, <4>1
      <4>3. \A i \in 1..Len(handled') : accepted'[i] = handled'[i].tx
        BY <1>1, <3>3, <3>5, <4>1
      <4>4. tx' # nil => accepted'[Len(handled') + 1] = tx'
        BY <1>1, <3>3, <3>5, <4>1
      <4>5. ASSUME NEW i \in 1..Len(queue')
            PROVE  accepted'[Len(handled') + Held' + i] = queue'[i]
        <5> DEFINE k == Len(handled) + Held + i
        <5>1. CASE i \in 1..Len(queue)
          <6>1. k \in 1..Len(accepted)
            BY <3>3, <3>5, <4>1, <5>1
          <6>2. accepted'[k] = accepted[k] /\ queue'[i] = queue[i]
            BY <3>3, <5>1, <6>1
          <6> QED
            BY <1>1, <3>5, <4>1, <5>1, <6>2
        <5>2. CASE i = Len(queue) + 1
          <6>1. k = Len(accepted) + 1
            BY <3>3, <3>5, <4>1, <5>2
          <6> QED
            BY <1>1, <3>3, <3>5, <5>2, <6>1
        <5> QED
          BY <3>3, <5>1, <5>2
      <4> QED
        BY <4>2, <4>3, <4>4, <4>5 DEF Positions
    <3> QED
      BY <3>4, <3>6
  <2>2. CASE EnqueueNil(c) \/ EnqueueFull(c)
    <3>1. UNCHANGED <<queue, accepted>>
      BY <2>2 DEF EnqueueNil, EnqueueFull
    <3> QED
      BY <1>1, <1>2, <3>1 DEF IInv, TypeOK, Positions, Held
  <2> QED
    BY <2>1, <2>2 DEF Enqueue
<1> QED
  BY <1>1, <1>3 DEF IInv, WaitingSinceBefore, NoDropOnceReady, ReturnedAfterLoop

\* The loop takes the first of the queue; it waits with it only if the client
\* is not ready.
LEMMA DequeueIInv == IInv /\ Dequeue => IInv'
<1> SUFFICES ASSUME IInv, Dequeue PROVE IInv'
  OBVIOUS
<1>1. /\ queue \in Seq(Txs) /\ queue # <<>> /\ tx = nil
      /\ tx' = Head(queue) /\ queue' = Tail(queue)
      /\ UNCHANGED <<todo, done, clientReady, closer, calls, accepted, handled, readyAt>>
  BY DEF Dequeue, IInv, TypeOK
<1>2. /\ tx' \in Txs /\ tx' # nil /\ tx' = queue[1]
      /\ queue' \in Seq(Txs)
      /\ Len(queue) \in Nat /\ Len(queue) > 0
      /\ Len(queue') = Len(queue) - 1
      /\ \A i \in 1..Len(queue') : queue'[i] = queue[i + 1]
  BY <1>1, HeadTailProperties, EmptySeq, ConstantsAssumption
<1>3. TypeOK'
  BY <1>1, <1>2, ConstantsAssumption DEF IInv, TypeOK, Dequeue, LoopStates
<1>4. Len(handled) \in Nat /\ Held = 0 /\ Held' = 1
  BY <1>1, <1>2 DEF IInv, TypeOK, Held
<1>5. Positions'
  <2>1. Len(accepted') = Len(handled') + Held' + Len(queue')
    <3>1. Len(accepted) = Len(handled) + Held + Len(queue)
      BY DEF IInv, Positions
    <3> QED
      BY <1>1, <1>2, <1>4, <3>1
  <2>2. \A i \in 1..Len(handled') : accepted'[i] = handled'[i].tx
    BY <1>1 DEF IInv, Positions
  <2>3. accepted'[Len(handled') + 1] = tx'
    BY <1>1, <1>2, <1>4 DEF IInv, Positions
  <2>4. ASSUME NEW i \in 1..Len(queue')
        PROVE  accepted'[Len(handled') + Held' + i] = queue'[i]
    <3>1. i + 1 \in 1..Len(queue) /\ Len(handled) + 1 + i = Len(handled) + 0 + (i + 1)
      BY <1>2, <1>4
    <3>2. accepted[Len(handled) + 0 + (i + 1)] = queue[i + 1]
      BY <3>1, <1>4 DEF IInv, Positions
    <3> QED
      BY <1>1, <1>2, <1>4, <3>1, <3>2
  <2> QED
    BY <2>1, <2>2, <2>3, <2>4 DEF Positions
<1> QED
  BY <1>1, <1>3, <1>5 DEF IInv, Dequeue, WaitingSinceBefore, NoDropOnceReady,
                          ReturnedAfterLoop

\* Finishing with a transaction moves it to the end of the handled ones; only
\* one that waited since before the client was ready may be given up.
LEMMA FinishIInv ==
    ASSUME IInv, NEW outcome \in Outcomes,
           pc \in {"waiting", "sending"},
           outcome = "notReady" => pc = "waiting",
           Finish(tx, outcome),
           UNCHANGED <<Mempool, done, clientReady, closer, readyAt>>
    PROVE  IInv'
<1> DEFINE e == [tx |-> tx, outcome |-> outcome]
<1>1. /\ tx \in Txs /\ tx # nil
      /\ UNCHANGED <<todo, queue, calls, accepted, done, clientReady, closer, readyAt>>
      /\ handled' = Append(handled, e) /\ tx' = nil /\ pc' = "select"
      /\ handled \in Seq([tx : Txs, outcome : Outcomes])
  BY ConstantsAssumption DEF IInv, TypeOK, Finish, Mempool
<1>2. e \in [tx : Txs, outcome : Outcomes] /\ e.tx = tx /\ e.outcome = outcome
  BY <1>1
<1> HIDE DEF e
<1>3. /\ handled' \in Seq([tx : Txs, outcome : Outcomes])
      /\ Len(handled) \in Nat
      /\ Len(handled') = Len(handled) + 1
      /\ handled'[Len(handled) + 1] = e
      /\ \A i \in 1..Len(handled) : handled'[i] = handled[i]
      /\ DOMAIN handled = 1..Len(handled) /\ DOMAIN handled' = 1..Len(handled')
  BY <1>1, <1>2
<1>4. TypeOK'
  BY <1>1, <1>3 DEF IInv, TypeOK, LoopStates
<1>5. Held = 1 /\ Held' = 0
  BY <1>1 DEF Held
<1>6. Positions'
  <2>1. \A i \in 1..Len(handled') : accepted'[i] = handled'[i].tx
    BY <1>1, <1>2, <1>3 DEF IInv, Positions
  <2>2. Len(queue) \in Nat
    BY DEF IInv, TypeOK
  <2>3. Len(accepted') = Len(handled') + Held' + Len(queue')
    BY <1>1, <1>3, <1>5, <2>2 DEF IInv, Positions
  <2>4. \A i \in 1..Len(queue') : accepted'[Len(handled') + Held' + i] = queue'[i]
    BY <1>1, <1>3, <1>5, <2>2 DEF IInv, Positions
  <2> QED
    BY <1>1, <2>1, <2>3, <2>4 DEF Positions
<1>7. NoDropOnceReady'
  <2> SUFFICES ASSUME clientReady, NEW i \in 1..Len(handled'),
                      handled'[i].outcome = "notReady"
               PROVE  i <= readyAt
    BY <1>1, <1>3 DEF NoDropOnceReady
  <2>1. CASE i \in 1..Len(handled)
    BY <1>3, <2>1 DEF IInv, NoDropOnceReady
  <2>2. CASE i = Len(handled) + 1
    <3>1. pc = "waiting"
      BY <1>2, <1>3, <2>2
    <3> QED
      BY <1>3, <2>2, <3>1 DEF IInv, WaitingSinceBefore, TypeOK
  <2> QED
    BY <1>3, <2>1, <2>2
<1> QED
  BY <1>1, <1>4, <1>6, <1>7 DEF IInv, WaitingSinceBefore, ReturnedAfterLoop, TypeOK

\* The steps of the loop that do not touch a queue.
LEMMA LoopIInv == IInv /\ (PollReady \/ GiveUp \/ BroadcastReturns \/ LoopExit) => IInv'
<1> SUFFICES ASSUME IInv, PollReady \/ GiveUp \/ BroadcastReturns \/ LoopExit PROVE IInv'
  OBVIOUS
<1>1. CASE PollReady
  BY <1>1 DEF PollReady, Mempool, IInv, TypeOK, LoopStates, Positions, Held,
              WaitingSinceBefore, NoDropOnceReady, ReturnedAfterLoop
<1>2. CASE GiveUp
  BY <1>2, FinishIInv DEF GiveUp, Outcomes
<1>3. CASE BroadcastReturns
  BY <1>3, FinishIInv DEF BroadcastReturns, Outcomes
<1>4. CASE LoopExit
  BY <1>4 DEF LoopExit, Mempool, IInv, TypeOK, LoopStates, Positions, Held,
              WaitingSinceBefore, NoDropOnceReady, ReturnedAfterLoop
<1> QED
  BY <1>1, <1>2, <1>3, <1>4

\* The steps of the server.
LEMMA ServerIInv == IInv /\ (SetClientCtx \/ Close \/ CloseReturns) => IInv'
<1> SUFFICES ASSUME IInv, SetClientCtx \/ Close \/ CloseReturns PROVE IInv'
  OBVIOUS
<1>1. CASE SetClientCtx
  <2>1. /\ UNCHANGED <<todo, queue, calls, accepted, done, pc, tx, closer, handled>>
        /\ clientReady' = TRUE /\ readyAt' = Len(handled) + Held
    BY <1>1 DEF SetClientCtx, Mempool, Held
  <2>2. /\ Len(handled) \in Nat /\ DOMAIN handled = 1..Len(handled)
        /\ Held \in Nat /\ (pc = "waiting" => Held = 1)
    BY DEF IInv, TypeOK, Held
  <2>3. TypeOK'
    BY <2>1, <2>2 DEF IInv, TypeOK
  <2>4. Positions' /\ ReturnedAfterLoop'
    BY <2>1 DEF IInv, Positions, Held, ReturnedAfterLoop
  <2>5. WaitingSinceBefore' /\ NoDropOnceReady'
    BY <2>1, <2>2 DEF WaitingSinceBefore, NoDropOnceReady
  <2> QED
    BY <2>3, <2>4, <2>5 DEF IInv
<1>2. CASE Close
  BY <1>2 DEF Close, Mempool, IInv, TypeOK, Positions, Held,
              WaitingSinceBefore, NoDropOnceReady, ReturnedAfterLoop
<1>3. CASE CloseReturns
  BY <1>3 DEF CloseReturns, Mempool, IInv, TypeOK, Positions, Held,
              WaitingSinceBefore, NoDropOnceReady, ReturnedAfterLoop
<1> QED
  BY <1>1, <1>2, <1>3

\* A step that changes nothing.
LEMMA StutterIInv == IInv /\ UNCHANGED vars => IInv'
  BY DEF vars, IInv, TypeOK, Positions, Held, WaitingSinceBefore, NoDropOnceReady,
         ReturnedAfterLoop

\* Every step of the mempool, the loop and the server keeps the invariant.
THEOREM Invariance == Spec => []IInv
<1>1. IInv /\ [Next]_vars => IInv'
  BY EnqueueCallIInv, EnqueueIInv, DequeueIInv, LoopIInv, ServerIInv, StutterIInv
  DEF Next, Loop
<1> QED
  BY InitIInv, <1>1, PTL DEF Spec

\* What holds position by position holds of the sequences.
LEMMA PositionsInOrder == TypeOK /\ Positions => HandledInOrder
<1> SUFFICES ASSUME TypeOK, Positions PROVE HandledInOrder
  OBVIOUS
<1> DEFINE hs == [i \in DOMAIN handled |-> handled[i].tx]
           w == IF tx = nil THEN <<>> ELSE <<tx>>
<1>1. /\ handled \in Seq([tx : Txs, outcome : Outcomes])
      /\ queue \in Seq(Txs) /\ accepted \in Seq(Txs)
      /\ Len(handled) \in Nat /\ DOMAIN handled = 1..Len(handled)
      /\ Len(queue) \in Nat /\ Len(accepted) \in Nat
  BY DEF TypeOK
<1>2. /\ hs \in Seq(Txs) /\ Len(hs) = Len(handled)
      /\ \A i \in 1..Len(handled) : hs[i] = handled[i].tx
  <2>1. \A i \in 1..Len(handled) : handled[i].tx \in Txs
    <3>1. \A i \in 1..Len(handled) : handled[i] \in [tx : Txs, outcome : Outcomes]
      BY <1>1, ElementOfSeq
    <3> QED
      BY <3>1
  <2>2. hs \in [1..Len(handled) -> Txs]
    BY <1>1, <2>1
  <2> QED
    BY <1>1, <2>2
<1>3. /\ w \in Seq(Txs) /\ Len(w) = Held
      /\ tx # nil => w[1] = tx
  BY DEF TypeOK, Held
<1>4. Held \in {0, 1} /\ (Held = 1 => tx # nil)
  BY DEF Held
<1> HIDE DEF hs, w
<1> DEFINE front == hs \o w
<1>5. /\ front \in Seq(Txs) /\ Len(front) = Len(handled) + Held
      /\ \A i \in 1..Len(handled) : front[i] = handled[i].tx
      /\ tx # nil => front[Len(handled) + 1] = tx
  <2>1. /\ front \in Seq(Txs)
        /\ Len(front) = Len(hs) + Len(w)
        /\ \A i \in 1..Len(hs) + Len(w) :
             front[i] = IF i <= Len(hs) THEN hs[i] ELSE w[i - Len(hs)]
    BY <1>2, <1>3, ConcatProperties
  <2> HIDE DEF front
  <2>2. Len(front) = Len(handled) + Held
    BY <1>2, <1>3, <2>1
  <2>3. \A i \in 1..Len(handled) : front[i] = handled[i].tx
    BY <1>1, <1>2, <1>3, <1>4, <2>1
  <2>4. ASSUME tx # nil PROVE front[Len(handled) + 1] = tx
    <3>1. Held = 1
      BY <2>4 DEF Held
    <3>2. /\ Len(handled) + 1 \in 1..Len(hs) + Len(w)
          /\ (Len(handled) + 1) - Len(hs) = 1 /\ ~ (Len(handled) + 1 <= Len(hs))
      BY <1>1, <1>2, <1>3, <3>1
    <3> QED
      BY <1>3, <2>1, <2>4, <3>2
  <2> QED
    BY <2>1, <2>2, <2>3, <2>4
<1> HIDE DEF front
<1> DEFINE all == front \o queue
<1>6. /\ all \in Seq(Txs)
      /\ Len(all) = Len(front) + Len(queue)
      /\ \A i \in 1..Len(front) + Len(queue) :
           all[i] = IF i <= Len(front) THEN front[i] ELSE queue[i - Len(front)]
  BY <1>1, <1>5, ConcatProperties
<1> HIDE DEF all
<1>7. Len(all) = Len(accepted)
  BY <1>1, <1>4, <1>5, <1>6 DEF Positions
<1>8. ASSUME NEW i \in 1..Len(all) PROVE all[i] = accepted[i]
  <2>1. CASE i <= Len(handled)
    BY <1>1, <1>4, <1>5, <1>6, <2>1 DEF Positions
  <2>2. CASE i = Len(handled) + 1 /\ Held = 1
    BY <1>1, <1>4, <1>5, <1>6, <2>2 DEF Positions
  <2>3. CASE i > Len(handled) + Held
    <3> DEFINE j == i - (Len(handled) + Held)
    <3>1. j \in 1..Len(queue) /\ Len(handled) + Held + j = i
      BY <1>1, <1>4, <1>5, <1>6, <2>3
    <3>2. all[i] = queue[j]
      BY <1>1, <1>4, <1>5, <1>6, <2>3
    <3> HIDE DEF j
    <3>3. accepted[Len(handled) + Held + j] = queue[j]
      BY <3>1 DEF Positions
    <3> QED
      BY <3>1, <3>2, <3>3
  <2> QED
    BY <1>1, <1>4, <1>6, <2>1, <2>2, <2>3
<1>9. all = accepted
  BY <1>1, <1>6, <1>7, <1>8, SeqEqual
<1> QED
  BY <1>9 DEF HandledInOrder, all, front, hs, w

\* For any number of mempool goroutines, any lists and any queue size, what the
\* loop has finished, what it works on and what is queued are exactly what
\* Enqueue accepted, in that order, and the queue keeps its capacity.
THEOREM AcceptedOnceInOrder == Spec => []Inv
<1>1. IInv => Inv
  BY PositionsInOrder DEF IInv, Inv
<1> QED
  BY Invariance, <1>1, PTL

\* However long the wait for the client context was and whatever was queued
\* meanwhile, SetClientCtx costs at most the transaction being waited for.
THEOREM NoDropAfterSetClientCtx == Spec => []NoDropOnceReady
<1>1. IInv => NoDropOnceReady
  BY DEF IInv
<1> QED
  BY Invariance, <1>1, PTL

\* After Close has returned the loop is gone: no broadcast touches the BaseApp
\* that app.Close closes next.
THEOREM ClosedIsQuiet == Spec => QuietAfterClose
<1>1. IInv /\ [Next]_vars => [closer = "returned" => UNCHANGED <<handled, pc>>]_vars
  <2> SUFFICES ASSUME IInv, Next, closer = "returned"
               PROVE  UNCHANGED <<handled, pc>>
    OBVIOUS
  <2>1. pc = "exited"
    BY DEF IInv, ReturnedAfterLoop
  <2>2. ~ Loop
    BY <2>1 DEF Loop, Dequeue, PollReady, GiveUp, BroadcastReturns, LoopExit
  <2> QED
    BY <2>2 DEF Next, EnqueueCall, Enqueue, SetClientCtx, Close, CloseReturns
<1> QED
  BY Invariance, <1>1, PTL DEF Spec, QuietAfterClose
=============================================================================
