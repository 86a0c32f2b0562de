-------------------------------- MODULE XLog --------------------------------
(***************************************************************************)
(* The asynchronous queue of the logger (xlog.cpp): log() appends to it,   *)
(* one worker writes its messages, flush() and waitForCompletion() wait    *)
(* until it is empty, the destructor asks the worker to finish.            *)
(*                                                                         *)
(* One condition variable serves the worker and every waiting caller.  All *)
(* of log() runs under m_queue_mutex_, which therefore is held between two *)
(* steps only by the worker about to sleep and by a flush() at the file.   *)
(* A message is its place in the order of acceptance; messages that the    *)
(* level filter drops are not calls of log() here.  Which file a message   *)
(* goes to, and its format, are left out.                                  *)
(***************************************************************************)
EXTENDS Integers, Sequences, FiniteSets

CONSTANTS
  Clients,    \* threads that use the logger
  ClientOps,  \* [Clients -> SUBSET Ops]
  Limits,     \* the values given to setAsyncQueueSize; 0 is no limit
  Destroys,   \* TRUE iff the logger is destroyed once no call is in progress
  FileFails,  \* TRUE iff the log file may fail to open
  MaxLogs,    \* bound: messages accepted
  MaxWaits,   \* bound: calls of flush and waitForCompletion
  NoOne       \* the owner of a free m_queue_mutex_

(* "fatal" is xlogHelper with its flush, "timed" waitForCompletion with a timeout *)
Ops == {"log", "fatal", "flush", "wait", "timed"}
Worker == "worker"

ASSUME XLogAssumption ==
  /\ ClientOps \in [Clients -> SUBSET Ops]
  /\ Limits \subseteq Nat /\ Limits # {}
  /\ Destroys \in BOOLEAN /\ FileFails \in BOOLEAN
  /\ MaxLogs \in Nat /\ MaxWaits \in Nat
  /\ Worker \notin Clients /\ NoOne \notin Clients \cup {Worker}

VARIABLES
  m_log_queue_, m_max_queue_size_, m_shutdown_requested_,
  mutex,      \* the owner of m_queue_mutex_
  wpc, hand,  \* where the worker is, and the message it has popped (0: none)
  cpc, op,    \* where each client is in its call, and the call
  dpc,        \* where the destructor is
  logs, waits, \* messages accepted, calls of flush and waitForCompletion
  mine,       \* history: the last message of each client
  written,    \* history: the messages written, in their order
  dropped, failed \* history: messages dropped by log(), messages the file refused

queueVars   == <<m_log_queue_, m_max_queue_size_, m_shutdown_requested_>>
historyVars == <<mine, written, dropped, failed>>
vars == <<queueVars, mutex, wpc, hand, cpc, op, dpc, logs, waits, historyVars>>

(* lock and relock want m_queue_mutex_; towait has seen the predicate false *)
WorkerPCs == {"lock", "towait", "wait", "popped", "writing", "relock", "done"}
ClientPCs == {"idle", "push", "check", "waiting", "file"}

Init ==
  /\ m_log_queue_ = <<>> /\ m_max_queue_size_ \in Limits
  /\ m_shutdown_requested_ = FALSE
  /\ mutex = NoOne
  /\ wpc = "lock" /\ hand = 0
  /\ cpc = [c \in Clients |-> "idle"] /\ op = [c \in Clients |-> "log"]
  /\ dpc = "alive"
  /\ logs = 0 /\ waits = 0
  /\ mine = [c \in Clients |-> 0]
  /\ written = <<>> /\ dropped = 0 /\ failed = 0

-----------------------------------------------------------------------------
(* m_queue_cv_: the threads that sleep are the worker at "wait" and the clients at
   "waiting"; pcs is where the clients are when the notification is made *)
NotifyOne(pcs) ==
  \/ wpc = "wait" /\ wpc' = "lock" /\ cpc' = pcs
  \/ /\ UNCHANGED wpc
     /\ \E c \in Clients : pcs[c] = "waiting" /\ cpc' = [pcs EXCEPT ![c] = "check"]
  \/ /\ wpc # "wait" /\ \A c \in Clients : pcs[c] # "waiting"
     /\ cpc' = pcs /\ UNCHANGED wpc

(* mutant: the drained queue is announced to one waiter *)
NotifyClient ==
  IF \E c \in Clients : cpc[c] = "waiting"
  THEN \E c \in Clients : cpc[c] = "waiting" /\ cpc' = [cpc EXCEPT ![c] = "check"]
  ELSE UNCHANGED cpc

NotifyClients == cpc' = [c \in Clients |-> IF cpc[c] = "waiting" THEN "check" ELSE cpc[c]]

-----------------------------------------------------------------------------
(* log(), flush(), waitForCompletion(), setAsyncQueueSize() *)
LogCall(c) ==
  /\ dpc = "alive" /\ cpc[c] = "idle" /\ logs < MaxLogs
  /\ \E o \in ClientOps[c] \cap {"log", "fatal"} : op' = [op EXCEPT ![c] = o]
  /\ cpc' = [cpc EXCEPT ![c] = "push"]
  /\ UNCHANGED <<queueVars, mutex, wpc, hand, dpc, logs, waits, historyVars>>

(* mutant: one message too many *)
FullLate == m_max_queue_size_ > 0 /\ Len(m_log_queue_) > m_max_queue_size_

Full == m_max_queue_size_ > 0 /\ Len(m_log_queue_) >= m_max_queue_size_

(* mutant: the new message goes to the front *)
PushedInFront(q, m) == <<m>> \o q

Pushed(q, m) == Append(q, m)

(* the rest of log(): drop the oldest message of a full queue, append, notify one *)
LogPush(c) ==
  /\ cpc[c] = "push" /\ mutex = NoOne
  /\ m_log_queue_' = Pushed(IF Full THEN Tail(m_log_queue_) ELSE m_log_queue_, logs + 1)
  /\ dropped' = IF Full THEN dropped + 1 ELSE dropped
  /\ logs' = logs + 1 /\ mine' = [mine EXCEPT ![c] = logs + 1]
  /\ NotifyOne([cpc EXCEPT ![c] = IF op[c] = "fatal" THEN "check" ELSE "idle"])
  /\ UNCHANGED <<m_max_queue_size_, m_shutdown_requested_, mutex, hand, op, dpc, waits,
                 written, failed>>

WaitCall(c) ==
  /\ dpc = "alive" /\ cpc[c] = "idle" /\ waits < MaxWaits
  /\ \E o \in ClientOps[c] \cap {"flush", "wait", "timed"} : op' = [op EXCEPT ![c] = o]
  /\ cpc' = [cpc EXCEPT ![c] = "check"]
  /\ waits' = waits + 1
  /\ UNCHANGED <<queueVars, mutex, wpc, hand, dpc, logs, historyVars>>

(* the predicate, read under the mutex: flush() goes on to the file with the mutex,
   waitForCompletion() returns *)
WaitCheck(c) ==
  /\ cpc[c] = "check" /\ mutex = NoOne
  /\ IF m_log_queue_ # <<>>
     THEN cpc' = [cpc EXCEPT ![c] = "waiting"] /\ UNCHANGED mutex
     ELSE IF op[c] \in {"flush", "fatal"}
     THEN cpc' = [cpc EXCEPT ![c] = "file"] /\ mutex' = c
     ELSE cpc' = [cpc EXCEPT ![c] = "idle"] /\ UNCHANGED mutex
  /\ UNCHANGED <<queueVars, wpc, hand, op, dpc, logs, waits, historyVars>>

(* wait_for: the time is over and the mutex is locked again *)
WaitTimeout(c) ==
  /\ cpc[c] = "waiting" /\ op[c] = "timed" /\ mutex = NoOne
  /\ cpc' = [cpc EXCEPT ![c] = "idle"]
  /\ UNCHANGED <<queueVars, mutex, wpc, hand, op, dpc, logs, waits, historyVars>>

(* m_file_mutex_ is the worker's while it writes *)
FlushFile(c) ==
  /\ cpc[c] = "file" /\ wpc # "writing"
  /\ cpc' = [cpc EXCEPT ![c] = "idle"] /\ mutex' = NoOne
  /\ UNCHANGED <<queueVars, wpc, hand, op, dpc, logs, waits, historyVars>>

SetAsyncQueueSize ==
  /\ dpc = "alive"
  /\ \E n \in Limits \ {m_max_queue_size_} : m_max_queue_size_' = n
  /\ UNCHANGED <<m_log_queue_, m_shutdown_requested_, mutex, wpc, hand, cpc, op, dpc, logs,
                 waits, historyVars>>

-----------------------------------------------------------------------------
(* processLogQueue() *)
(* mutant: a requested shutdown is served before the queue *)
PendingUnlessShutdown == m_log_queue_ # <<>> /\ ~m_shutdown_requested_

Pending == m_log_queue_ # <<>>

Oldest == Head(m_log_queue_)

WorkerPop ==
  /\ wpc \in {"lock", "relock"} /\ mutex = NoOne /\ Pending
  /\ hand' = Oldest /\ m_log_queue_' = Tail(m_log_queue_)
  /\ wpc' = "popped"
  /\ UNCHANGED <<m_max_queue_size_, m_shutdown_requested_, mutex, cpc, op, dpc, logs, waits,
                 historyVars>>

(* the queue is empty at the end of the inner loop: everyone is told, and the worker
   ends or starts again *)
WorkerDrained ==
  /\ \/ wpc = "relock"
     \/ wpc = "lock" /\ m_shutdown_requested_
  /\ mutex = NoOne /\ ~Pending
  /\ NotifyClients
  /\ wpc' = IF m_shutdown_requested_ THEN "done" ELSE "lock"
  /\ UNCHANGED <<queueVars, mutex, hand, op, dpc, logs, waits, historyVars>>

(* mutant: the predicate is read without the mutex *)
WorkerToWaitUnlocked ==
  /\ wpc = "lock" /\ ~Pending /\ ~m_shutdown_requested_
  /\ wpc' = "towait"
  /\ UNCHANGED <<queueVars, mutex, hand, cpc, op, dpc, logs, waits, historyVars>>

(* the predicate is false; the destructor does not take the mutex, so it may pass
   between this and the sleep *)
WorkerToWait ==
  /\ wpc = "lock" /\ mutex = NoOne
  /\ ~Pending /\ ~m_shutdown_requested_
  /\ wpc' = "towait" /\ mutex' = Worker
  /\ UNCHANGED <<queueVars, hand, cpc, op, dpc, logs, waits, historyVars>>

WorkerSleep ==
  /\ wpc = "towait"
  /\ wpc' = "wait" /\ mutex' = NoOne
  /\ UNCHANGED <<queueVars, hand, cpc, op, dpc, logs, waits, historyVars>>

(* writeToConsole and writeToFile *)
WorkerWrite ==
  /\ wpc = "popped" /\ wpc' = "writing"
  /\ \A c \in Clients : cpc[c] # "file"
  /\ UNCHANGED <<queueVars, mutex, hand, cpc, op, dpc, logs, waits, historyVars>>

WorkerWritten ==
  /\ wpc = "writing" /\ wpc' = "relock"
  /\ \/ written' = Append(written, hand) /\ UNCHANGED failed
     \/ FileFails /\ failed' = failed + 1 /\ UNCHANGED written
  /\ hand' = 0
  /\ UNCHANGED <<queueVars, mutex, cpc, op, dpc, logs, waits, mine, dropped>>

-----------------------------------------------------------------------------
(* ~XLog: no client may be in a call any more *)
DestroyStore ==
  /\ Destroys /\ dpc = "alive" /\ \A c \in Clients : cpc[c] = "idle"
  /\ m_shutdown_requested_' = TRUE /\ dpc' = "notify"
  /\ UNCHANGED <<m_log_queue_, m_max_queue_size_, mutex, wpc, hand, cpc, op, logs, waits,
                 historyVars>>

DestroyNotify ==
  /\ dpc = "notify" /\ dpc' = "join"
  /\ wpc' = IF wpc = "wait" THEN "lock" ELSE wpc
  /\ UNCHANGED <<queueVars, mutex, hand, cpc, op, logs, waits, historyVars>>

DestroyJoin ==
  /\ dpc = "join" /\ wpc = "done" /\ dpc' = "gone"
  /\ UNCHANGED <<queueVars, mutex, wpc, hand, cpc, op, logs, waits, historyVars>>

-----------------------------------------------------------------------------
ClientStep(c) == LogPush(c) \/ WaitCheck(c) \/ WaitTimeout(c) \/ FlushFile(c)

WorkerStep ==
  \/ WorkerPop \/ WorkerDrained \/ WorkerToWait \/ WorkerSleep
  \/ WorkerWrite \/ WorkerWritten

DestroyStep == DestroyStore \/ DestroyNotify \/ DestroyJoin

(* nobody has anything to do: the worker sleeps, no caller waits *)
Quiescent ==
  /\ wpc = "wait" /\ dpc = "alive" /\ \A c \in Clients : cpc[c] = "idle"
  /\ UNCHANGED vars

Next ==
  \/ \E c \in Clients : LogCall(c) \/ WaitCall(c) \/ ClientStep(c)
  \/ SetAsyncQueueSize
  \/ WorkerStep
  \/ DestroyStep
  \/ Quiescent

Spec == Init /\ [][Next]_vars

(* The scheduler runs every thread; a thread that asks for a mutex that is free again
   and again gets it; a timeout fires only if the scheduler lets it. *)
FairSpec ==
  /\ Spec
  /\ \A c \in Clients : SF_vars(LogPush(c) \/ WaitCheck(c) \/ FlushFile(c))
  /\ SF_vars(WorkerStep)
  /\ WF_vars(DestroyNotify) /\ WF_vars(DestroyJoin)

-----------------------------------------------------------------------------
(* Properties *)
Messages == Nat \ {0}

TypeOK ==
  /\ m_log_queue_ \in Seq(Messages) /\ m_max_queue_size_ \in Limits
  /\ m_shutdown_requested_ \in BOOLEAN
  /\ mutex \in Clients \cup {Worker, NoOne}
  /\ wpc \in WorkerPCs /\ hand \in Nat
  /\ cpc \in [Clients -> ClientPCs] /\ op \in [Clients -> Ops]
  /\ dpc \in {"alive", "notify", "join", "gone"}
  /\ logs \in Nat /\ waits \in Nat
  /\ mine \in [Clients -> Nat]
  /\ written \in Seq(Messages) /\ dropped \in Nat /\ failed \in Nat

(* notify_one after a push reaches a thread that can serve it: while the worker sleeps
   the queue is empty and nobody else sleeps on the condition variable, so that no
   message waits in the queue for a worker that was not told, although the worker and
   the callers of flush() share the variable. *)
WorkerHears ==
  wpc = "wait" => m_log_queue_ = <<>> /\ \A c \in Clients : cpc[c] # "waiting"

(* Messages are written in the order in which they were accepted, each once: what was
   written, then what the worker holds, then the queue, is in that order, and a message
   is in it unless a full queue dropped it or the file could not be opened. *)
InFlight == written \o (IF hand = 0 THEN <<>> ELSE <<hand>>) \o m_log_queue_
InOrder ==
  /\ \A i, j \in DOMAIN InFlight : i < j => InFlight[i] < InFlight[j]
  /\ Len(InFlight) + dropped + failed = logs

(* The queue is never longer than the largest limit that was ever set. *)
QueueBounded ==
  0 \notin Limits => \E n \in Limits : Len(m_log_queue_) <= n

(* The destructor returns only when every accepted message was served. *)
DrainedAtExit == dpc = "gone" => m_log_queue_ = <<>> /\ hand = 0

(* Every call of log(), flush() and waitForCompletion() returns. *)
CallsReturn == \A c \in Clients : cpc[c] # "idle" ~> cpc[c] = "idle"

(* When flush() returns, the last message of its caller is no longer pending. *)
FlushMeansWritten ==
  [][\A c \in Clients :
       cpc[c] = "file" /\ cpc'[c] = "idle" /\ hand' = mine[c] => mine[c] = 0]_vars
=============================================================================
