\* Two mempool goroutines, a queue of two and two calls: the lists fit the
\* queue, overflow it or find it full.
CONSTANTS
    t1 = t1  t2 = t2  t3 = t3
    Callers = {m1, m2}
    Txs = {t1, t2, t3}
    nil = nil
    Batches <- MCBatches
    QueueSize = 2
    MaxCalls = 2
SPECIFICATION Spec
INVARIANTS
    Inv
    NoDropOnceReady
PROPERTIES
    QuietAfterClose
    EnqueueReturns
    AcceptedIsHandled
    CloseTerminates
\* The node stops for good when it is closed.
CHECK_DEADLOCK FALSE
