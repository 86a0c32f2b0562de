---------------------- MODULE XBlockingConcurrentQueue ----------------------
(***************************************************************************)
(* The queue that blocks its consumers: a lock-free queue for the elements *)
(* and a lightweight semaphore that counts them                            *)
(* (xblockingconcurrentqueue.hpp).                                         *)
(*                                                                         *)
(* A producer pushes and then signals; a consumer gets permits and then    *)
(* loops until the lock-free queue has given it as many elements.  Of the  *)
(* lock-free queue only the number of elements matters here: it may find   *)
(* nothing though there is something, and a bulk dequeue may get part of   *)
(* what it asked for.  An enqueue that fails for want of memory changes    *)
(* nothing and is not a step.                                              *)
(***************************************************************************)
EXTENDS XLightweightSemaphore, FiniteSetsExt

(* the constructors start the semaphore at zero *)
ASSUME QueueAssumption == initialCount = 0

VARIABLES
  size,      \* elements in m_inner_
  qpc,       \* where each thread is in a call of the queue
  left       \* elements it still has to signal or to take

queueVars == <<size, qpc, left>>
allVars == <<semVars, queueVars>>

QueueInit ==
  /\ Init
  /\ size = 0
  /\ qpc = [t \in Threads |-> "out"] /\ left = [t \in Threads |-> 0]

QGoto(t, at, to) == qpc[t] = at /\ qpc' = [qpc EXCEPT ![t] = to]

Signalling == {t \in Threads : qpc[t] = "signal"}

MayCall(t) == pc[t] = "idle" /\ calls + Cardinality(Signalling) < MaxCalls

-----------------------------------------------------------------------------
(* enqueue, try_enqueue and their bulk forms: n elements into m_inner_ *)
Enqueue(t, n) ==
  /\ MayCall(t) /\ QGoto(t, "out", "signal")
  /\ size' = size + n /\ left' = [left EXCEPT ![t] = n]
  /\ UNCHANGED semVars

(* mutant: a bulk enqueue signals once *)
EnqueueSignalOnce(t) ==
  /\ QGoto(t, "signal", "out") /\ left' = [left EXCEPT ![t] = 0]
  /\ Signal(t, Least(1, left[t])) /\ calls' = calls + 1
  /\ UNCHANGED size

EnqueueSignal(t) ==
  /\ QGoto(t, "signal", "out") /\ left' = [left EXCEPT ![t] = 0]
  /\ Signal(t, left[t]) /\ calls' = calls + 1
  /\ UNCHANGED size

(* try_dequeue, try_dequeue_bulk *)
TryDequeue(t, m) ==
  /\ MayCall(t) /\ QGoto(t, "out", IF Available(m) > 0 THEN "take" ELSE "out")
  /\ TryWaitMany(t, m) /\ calls' = calls + 1
  /\ left' = [left EXCEPT ![t] = Available(m)]
  /\ UNCHANGED size

(* wait_dequeue, wait_dequeue_timed and their bulk forms *)
WaitDequeue(t, m, timeout_usecs) ==
  /\ MayCall(t) /\ QGoto(t, "out", "sema")
  /\ WaitMany(t, m, timeout_usecs) /\ calls' = calls + 1
  /\ UNCHANGED <<size, left>>

SemaphoreStep(t) == Step(t) /\ UNCHANGED queueVars

(* mutant: a bulk dequeue waits for as many elements as it was asked for *)
WaitedForMax(t) ==
  /\ pc[t] = "idle" /\ QGoto(t, "sema", IF got[t] > 0 THEN "take" ELSE "out")
  /\ left' = [left EXCEPT ![t] = IF got[t] > 0 THEN max[t] ELSE 0]
  /\ UNCHANGED <<semVars, size>>

(* the wait has returned: with permits, or without any when it timed out *)
Waited(t) ==
  /\ pc[t] = "idle" /\ QGoto(t, "sema", IF got[t] > 0 THEN "take" ELSE "out")
  /\ left' = [left EXCEPT ![t] = got[t]]
  /\ UNCHANGED <<semVars, size>>

(* one more try_dequeue of the loop that gets something *)
TakeElements(t) ==
  \E k \in 1..Least(left[t], size) :
    /\ QGoto(t, "take", IF k = left[t] THEN "out" ELSE "take")
    /\ size' = size - k /\ left' = [left EXCEPT ![t] = @ - k]
    /\ UNCHANGED semVars

(* one that gets nothing *)
TakeNothing(t) == qpc[t] = "take" /\ UNCHANGED allVars

-----------------------------------------------------------------------------
QueueCall(t) ==
  \/ \E n \in SignalCounts : Enqueue(t, n)
  \/ \E m \in Maxes : TryDequeue(t, m)
  \/ \E m \in Maxes, u \in Timeouts : WaitDequeue(t, m, u)

QueueStep(t) ==
  \/ EnqueueSignal(t) \/ SemaphoreStep(t) \/ Waited(t) \/ TakeElements(t)

QueueAtRest == AtRest /\ \A t \in Threads : qpc[t] = "out" \/ pc[t] = "blocked"

QueueNext ==
  \/ \E t \in Threads : QueueCall(t) \/ QueueStep(t) \/ TakeNothing(t)
  \/ QueueAtRest /\ UNCHANGED allVars

QueueSpec == QueueInit /\ [][QueueNext]_allVars

-----------------------------------------------------------------------------
(* permits a thread has got for elements it has not yet taken *)
Entitled(t) == CASE qpc[t] = "sema" -> got[t] [] qpc[t] = "take" -> left[t] [] OTHER -> 0

(* Every permit, taken or not, stands for an element: the loop of a dequeue never looks
   for an element that is not there, whatever other consumers do. *)
BackedByElements ==
  Available(size + 1) + MapThenSumSet(Entitled, Threads) <= size

(* When all threads are done or asleep, a consumer sleeps only if the queue is empty. *)
NobodySleepsOnElements ==
  QueueAtRest /\ (\E t \in Threads : pc[t] = "blocked") => size = 0

(* A consumer that has got its permits gets its elements. *)
DequeueReturns == \A t \in Threads : qpc[t] = "take" ~> qpc[t] = "out"
=============================================================================
