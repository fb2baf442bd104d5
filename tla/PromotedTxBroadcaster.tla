----------------------- MODULE PromotedTxBroadcaster -----------------------
(***************************************************************************)
(* mempool_broadcast.go: transactions that the EVM mempool promotes are    *)
(* queued by its goroutines (Enqueue) and broadcast one at a time by the   *)
(* loop goroutine, which waits for the client context that the server sets *)
(* once CometBFT runs (SetClientCtx), until app.Close stops it (Close).    *)
(*                                                                         *)
(* The 3 s deadline and the 100 ms ticker of waitForClientCtx are not      *)
(* timed: either may fire first.                                           *)
(***************************************************************************)
EXTENDS Integers, Sequences

CONSTANTS
    Callers,         \* mempool goroutines that call Enqueue
    Batches,         \* argument lists of Enqueue: sequences over Txs and nil
    Txs, nil,        \* transactions, and the nil pointer
    QueueSize,       \* promotedTxBroadcastQueueSize
    MaxCalls         \* bound of the model on the calls of Enqueue

ASSUME ConstantsAssumption ==
    /\ nil \notin Txs
    /\ Batches \subseteq Seq(Txs \cup {nil})
    /\ QueueSize \in Nat /\ MaxCalls \in Nat

VARIABLES
    todo,            \* per caller: the rest of the list it is enqueuing
    queue,           \* the channel b.queue
    done,            \* b.done is closed
    clientReady,     \* b.clientReady
    pc,              \* the loop goroutine: see LoopStates
    tx,              \* the transaction it works on, nil in "select"
    closer,          \* app.Close: "before", "waiting" (wg.Wait), "returned"
    calls,           \* number of calls of Enqueue
    accepted,        \* history: transactions put into the queue, in order
    handled,         \* history: transactions the loop is finished with
    readyAt          \* history: taken from the queue when the client became ready

vars == <<todo, queue, done, clientReady, pc, tx, closer, calls, accepted, handled, readyAt>>

LoopStates == {"select", "waiting", "sending", "exited"}

\* "sent", or logged as an error: refused by the conversion, the encoder or
\* CometBFT; given up because the client was not ready.
Outcomes == {"sent", "failed", "notReady"}

TypeOK ==
    /\ todo \in [Callers -> Seq(Txs \cup {nil})]
    /\ queue \in Seq(Txs) /\ Len(queue) <= QueueSize
    /\ done \in BOOLEAN /\ clientReady \in BOOLEAN
    /\ pc \in LoopStates
    /\ tx \in Txs \cup {nil} /\ (tx # nil <=> pc \in {"waiting", "sending"})
    /\ closer \in {"before", "waiting", "returned"}
    /\ calls \in 0..MaxCalls
    /\ accepted \in Seq(Txs)
    /\ handled \in Seq([tx : Txs, outcome : Outcomes])
    /\ readyAt \in Nat

\* newPromotedTxBroadcaster
Init ==
    /\ todo = [c \in Callers |-> <<>>]
    /\ queue = <<>> /\ done = FALSE /\ clientReady = FALSE
    /\ pc = "select" /\ tx = nil
    /\ closer = "before"
    /\ calls = 0 /\ accepted = <<>> /\ handled = <<>> /\ readyAt = 0

-----------------------------------------------------------------------------
(* The mempool                                                             *)

\* A call of broadcastPromotedEVMTxs.  app.Close does not stop the default
\* mempool, so it may come at any time.
EnqueueCall(c, txs) ==
    /\ todo[c] = <<>>
    /\ calls < MaxCalls
    /\ calls' = calls + 1
    /\ todo' = [todo EXCEPT ![c] = txs]
    /\ UNCHANGED <<queue, done, clientReady, pc, tx, closer, accepted, handled, readyAt>>

EnqueueNil(c) ==
    /\ todo[c] # <<>> /\ Head(todo[c]) = nil
    /\ todo' = [todo EXCEPT ![c] = Tail(@)]
    /\ UNCHANGED <<queue, accepted>>

EnqueueSend(c) ==
    /\ todo[c] # <<>> /\ Head(todo[c]) # nil
    /\ Len(queue) < QueueSize
    /\ queue' = Append(queue, Head(todo[c]))
    /\ accepted' = Append(accepted, Head(todo[c]))
    /\ todo' = [todo EXCEPT ![c] = Tail(@)]

\* Mutant: the send blocks until there is room.
EnqueueFullBlocks(c) == FALSE /\ UNCHANGED <<todo, queue, accepted>>

\* "promoted tx broadcast queue is full": the call returns, its rest is refused.
EnqueueFull(c) ==
    /\ todo[c] # <<>> /\ Head(todo[c]) # nil
    /\ Len(queue) >= QueueSize
    /\ todo' = [todo EXCEPT ![c] = <<>>]
    /\ UNCHANGED <<queue, accepted>>

\* One round of the loop of Enqueue.
Enqueue(c) ==
    /\ EnqueueNil(c) \/ EnqueueSend(c) \/ EnqueueFull(c)
    /\ UNCHANGED <<done, clientReady, pc, tx, closer, calls, handled, readyAt>>

-----------------------------------------------------------------------------
(* The loop goroutine                                                      *)

\* The loop is finished with t and selects again.
Finish(t, outcome) ==
    /\ handled' = Append(handled, [tx |-> t, outcome |-> outcome])
    /\ tx' = nil
    /\ pc' = "select"

Mempool == <<todo, queue, calls, accepted>>

\* Mutant: waitForClientCtx does not look before it waits.
DequeueAlwaysWaits ==
    /\ pc = "select" /\ queue # <<>>
    /\ tx' = Head(queue)
    /\ queue' = Tail(queue)
    /\ pc' = "waiting"
    /\ UNCHANGED <<todo, done, clientReady, closer, calls, accepted, handled, readyAt>>

\* The queue case of the select, up to the first look at the client context.
Dequeue ==
    /\ pc = "select" /\ queue # <<>>
    /\ tx' = Head(queue)
    /\ queue' = Tail(queue)
    /\ pc' = IF clientReady THEN "sending" ELSE "waiting"
    /\ UNCHANGED <<todo, done, clientReady, closer, calls, accepted, handled, readyAt>>

\* A tick that finds the client ready.
PollReady ==
    /\ pc = "waiting" /\ clientReady
    /\ pc' = "sending"
    /\ UNCHANGED <<Mempool, done, clientReady, tx, closer, handled, readyAt>>

\* Mutants: the wait has no deadline; the transaction is put back for another
\* try.
GiveUpOnlyWhenDone ==
    /\ pc = "waiting" /\ done
    /\ Finish(tx, "notReady")
    /\ UNCHANGED <<Mempool, done, clientReady, closer, readyAt>>
GiveUpRequeues ==
    /\ pc = "waiting"
    /\ Len(queue) < QueueSize
    /\ queue' = Append(queue, tx)
    /\ tx' = nil /\ pc' = "select"
    /\ UNCHANGED <<todo, calls, accepted, done, clientReady, closer, handled, readyAt>>

\* The 3 s deadline fires, or the broadcaster is closed, while it waits: the
\* transaction is dropped with an error in the log.
GiveUp ==
    /\ pc = "waiting"
    /\ Finish(tx, "notReady")
    /\ UNCHANGED <<Mempool, done, clientReady, closer, readyAt>>

\* The rest of broadcast.
BroadcastReturns ==
    /\ pc = "sending"
    /\ \E outcome \in {"sent", "failed"} : Finish(tx, outcome)
    /\ UNCHANGED <<Mempool, done, clientReady, closer, readyAt>>

\* Mutant: the loop stops only once the queue is empty and the client known.
LoopExitDrained ==
    /\ pc = "select" /\ done /\ queue = <<>> /\ clientReady
    /\ pc' = "exited"
    /\ UNCHANGED <<Mempool, done, clientReady, tx, closer, handled, readyAt>>

\* The done case of the select; what is queued is abandoned.
LoopExit ==
    /\ pc = "select" /\ done
    /\ pc' = "exited"
    /\ UNCHANGED <<Mempool, done, clientReady, tx, closer, handled, readyAt>>

-----------------------------------------------------------------------------
(* The server                                                              *)

\* SetClientCtx, once bftNode.Start has returned.
SetClientCtx ==
    /\ ~clientReady
    /\ clientReady' = TRUE
    /\ readyAt' = Len(handled) + (IF tx = nil THEN 0 ELSE 1)
    /\ UNCHANGED <<Mempool, done, pc, tx, closer, handled>>

\* Close: close(b.done), then wg.Wait.
Close ==
    /\ closer = "before"
    /\ done' = TRUE
    /\ closer' = "waiting"
    /\ UNCHANGED <<Mempool, clientReady, pc, tx, handled, readyAt>>

\* Mutant: Close does not wait for the loop.
CloseReturnsAtOnce ==
    /\ closer = "waiting"
    /\ closer' = "returned"
    /\ UNCHANGED <<Mempool, done, clientReady, pc, tx, handled, readyAt>>

\* wg.Wait returns; app.Close goes on to close the BaseApp.
CloseReturns ==
    /\ closer = "waiting" /\ pc = "exited"
    /\ closer' = "returned"
    /\ UNCHANGED <<Mempool, done, clientReady, pc, tx, handled, readyAt>>

Loop == Dequeue \/ PollReady \/ GiveUp \/ BroadcastReturns \/ LoopExit

Next ==
    \/ \E c \in Callers, txs \in Batches : EnqueueCall(c, txs)
    \/ \E c \in Callers : Enqueue(c)
    \/ Loop
    \/ SetClientCtx
    \/ Close
    \/ CloseReturns

\* The scheduler runs every goroutine that can run, the deadline fires, the
\* node answers BroadcastTxAsync, and a select that finds done closed time and
\* again does not for ever pick its other case.  Nobody has to call Enqueue,
\* SetClientCtx or Close.
Fairness ==
    /\ \A c \in Callers : WF_vars(Enqueue(c))
    /\ WF_vars(Loop)
    /\ SF_vars(LoopExit)
    /\ WF_vars(CloseReturns)

Spec == Init /\ [][Next]_vars /\ Fairness

-----------------------------------------------------------------------------
(* Properties                                                              *)

\* Every accepted transaction is handled once and in the order of acceptance:
\* what the loop has finished, what it works on and what is queued are together
\* exactly what Enqueue accepted, whatever the callers, the deadline and the
\* shutdown do.  The order carries the nonces of an account.
HandledInOrder ==
    [i \in DOMAIN handled |-> handled[i].tx]
        \o (IF tx = nil THEN <<>> ELSE <<tx>>) \o queue = accepted

\* Once the client context is set, no further transaction is dropped for want
\* of it: at most the one being waited for is, all that were queued go out.
NoDropOnceReady ==
    clientReady =>
        \A i \in DOMAIN handled : handled[i].outcome = "notReady" => i <= readyAt

\* After Close has returned nothing is broadcast any more, so that the BaseApp
\* is closed under nobody's feet.
QuietAfterClose == [][closer = "returned" => UNCHANGED <<handled, pc>>]_vars

\* Enqueue returns, also when the queue is full and the loop gone: it never
\* blocks the mempool.
EnqueueReturns == \A c \in Callers : todo[c] # <<>> ~> todo[c] = <<>>

\* No run accepts more than this.
MostAccepted ==
    MaxCalls * (CHOOSE n \in {Len(b) : b \in Batches} : \A b \in Batches : Len(b) <= n)

\* An accepted transaction is handled unless the node shuts down, even if the
\* client context is never set.
AcceptedIsHandled ==
    \A n \in 1..MostAccepted :
        Len(accepted) >= n ~> Len(handled) >= n \/ done

\* Close returns, whatever is queued and whether or not the client was ready.
CloseTerminates == closer = "waiting" ~> closer = "returned"

\* The queue in every state: it stays within its capacity, and what was taken
\* from it is what was accepted, once and in order.
Inv == TypeOK /\ HandledInOrder
=============================================================================
