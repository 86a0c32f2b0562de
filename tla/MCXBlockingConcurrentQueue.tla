--------------------- MODULE MCXBlockingConcurrentQueue ---------------------
(***************************************************************************)
(* Two liveness instances that are small enough to share a run: the        *)
(* blocking queue, and a client that waits for the results of its task.    *)
(* One of them, the part, takes its steps; the other stays in an initial   *)
(* state, where none of the steps that must be taken is enabled.           *)
(***************************************************************************)
EXTENDS XBlockingConcurrentQueue, XResult, TLC

CONSTANTS w1, w2, p1    \* workers and pool of XResult

VARIABLE part

(* the client joins, takes its result and joins again *)
OnePoolOf == w1 :> p1 @@ w2 :> p1
JoinAndGet == [c \in Clients |-> {"join", "get", "try_get", "get_until"}]

WaitsInit == part \in {"queue", "result"} /\ QueueInit /\ ResultInit

(* AllReturn takes the place of the deadlock check for results *)
WaitsNext ==
  \/ part = "queue" /\ QueueNext /\ UNCHANGED <<part, resultVars>>
  \/ part = "result" /\ ResultNext /\ UNCHANGED <<part, allVars>>
  \/ part = "result" /\ UNCHANGED <<part, allVars, resultVars>>

(* The scheduler runs every thread, time passes, a lock-free queue that has elements gives one
   in the end to a thread that keeps asking, and a task body returns. *)
WaitsSpec ==
  /\ WaitsInit /\ [][WaitsNext]_<<part, allVars, resultVars>>
  /\ \A t \in Threads : WF_allVars(QueueStep(t))
  /\ \A c \in Clients : WF_resultVars(ClientStep(c))
  /\ \A w \in Workers : WF_resultVars(WorkerStep(w))

-----------------------------------------------------------------------------
(* A dequeue for which the semaphore has a permit returns; and so does every call of join and
   of result(). *)
AllReturn == DequeueReturns /\ CallsReturn
=============================================================================
