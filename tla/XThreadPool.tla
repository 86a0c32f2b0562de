---------------------------- MODULE XThreadPool ----------------------------
(***************************************************************************)
(* XThreadPool: worker threads, task queue, start, stop and the counters   *)
(* the growth decisions read (Src/XThreadPool/xthreadpool.cpp).            *)
(*                                                                         *)
(* A joined task is its ticket, the number of accepted joins before it     *)
(* plus one; what the task computes and its result are module XResult's.   *)
(* A critical section of m_mtx that does not wait is one step, guarded by  *)
(* m_mtx being free.  The one window in which a thread holds m_mtx between *)
(* two accesses another thread may separate (acquireTask has read          *)
(* m_isPoolRunning and has not begun to wait) has a step on each side.     *)
(***************************************************************************)
EXTENDS Integers, Sequences, FiniteSets

CONSTANTS
  Clients,           \* threads of the program that call the pool
  ClientOps,         \* [Clients -> SUBSET {"join", "start", "stop", "set", "destroy"}]
  NestedJoins,       \* TRUE iff the bodies of tasks call runnableJoin
  ThreadIds,         \* addresses of XThread_ objects
  Slots,             \* bound: OS threads that one XThread_ address may run at a time
  Modes,             \* modes create() and setMode() are called with
  StartSizes,        \* arguments of start(n)
  CpuThreads,        \* cpuThreadsCount(), the argument of the start() in appendHelper
  ThreadsThresholds, \* values of setThreadsSizeThreshold
  TasksThresholds,   \* values of setTasksSizeThreshold
  ThreadsExpire,     \* TRUE iff a wait in CACHE mode may reach m_threadTimeout
  MaxCalls,          \* bound: calls of the pool in a behaviour
  Free               \* owner of m_mtx when nobody holds it

Workers == ThreadIds \X Slots
Callers == Clients \cup Workers

ASSUME PoolAssumption ==
  /\ ClientOps \in [Clients -> SUBSET {"join", "start", "stop", "set", "destroy"}]
  /\ NestedJoins \in BOOLEAN /\ ThreadsExpire \in BOOLEAN
  /\ Modes \subseteq {"FIXED", "CACHE"}
  /\ StartSizes \subseteq Nat /\ CpuThreads \in Nat
  /\ ThreadsThresholds \subseteq Nat /\ TasksThresholds \subseteq Nat
  /\ MaxCalls \in Nat
  /\ Clients \cap Workers = {} /\ Free \notin Callers
  /\ IsFiniteSet(ThreadIds) /\ IsFiniteSet(Slots)

VARIABLES
  m_isPoolRunning, m_mode, m_threadsSizeThreshold, m_tasksSizeThreshold,
  m_tasksQueue, m_threadsContainer, m_idleThreadsSize, m_busyThreadsSize,
  m_mtx,
  wpc,       \* where each OS thread is in run() / acquireTask()
  job,       \* the ticket the thread took, 0 when none
  cpc,       \* where each caller is in a call of the pool
  thSize,    \* the local thSize of start()
  issued,    \* history: joins accepted so far
  done,      \* history: tickets whose task->call() returned
  calls,     \* number of calls so far
  lifetime   \* "alive", "dying" inside ~XThreadPool, "dead" after it

config   == <<m_mode, m_threadsSizeThreshold, m_tasksSizeThreshold>>
counters == <<m_idleThreadsSize, m_busyThreadsSize>>
history  == <<issued, done, calls>>
vars == <<m_isPoolRunning, config, m_tasksQueue, m_threadsContainer, counters,
          m_mtx, wpc, job, cpc, thSize, history, lifetime>>

WorkerPCs == {"none", "acquire", "towait", "wait", "expired", "exit", "erased",
              "uncounted", "got", "enter", "run", "ret", "leave"}
CallerPCs == {"idle", "append", "fullwait", "lastcheck", "appended", "start",
              "startcheck", "startsize", "startrun", "set", "stop",
              "stopnotify", "stoplock", "exitwait", "exitcheck"}

(* every thread in a wait of m_taskQueueCond is woken and must take m_mtx again *)
WorkersNotified == [w \in Workers |-> IF wpc[w] = "wait" THEN "acquire" ELSE wpc[w]]
CallersNotified(p, to) ==
  [q \in Callers |-> IF q = p THEN to
                     ELSE IF cpc[q] = "fullwait" THEN "append" ELSE cpc[q]]

(* the XThread_ objects S are started: one OS thread more for each of them *)
FreeSlot(i) == CHOOSE k \in Slots : wpc[<<i, k>>] = "none"
CanStart(S) == \A i \in S : \E k \in Slots : wpc[<<i, k>>] = "none"
Started(pcs, S) ==
  [w \in Workers |-> IF w[1] \in S /\ w[2] = FreeSlot(w[1]) THEN "acquire" ELSE pcs[w]]
NewThreads(n) == {S \in SUBSET (ThreadIds \ m_threadsContainer) : Cardinality(S) = n}

Goto(p, at, to) == /\ cpc[p] = at /\ cpc' = [cpc EXCEPT ![p] = to]
Step(w, at, to) == /\ wpc[w] = at /\ wpc' = [wpc EXCEPT ![w] = to]

Init ==
  /\ m_isPoolRunning = FALSE
  /\ m_mode \in Modes
  /\ m_threadsSizeThreshold \in ThreadsThresholds
  /\ m_tasksSizeThreshold \in TasksThresholds
  /\ m_tasksQueue = <<>>
  /\ m_threadsContainer = {}
  /\ m_idleThreadsSize = 0 /\ m_busyThreadsSize = 0
  /\ m_mtx = Free
  /\ wpc = [w \in Workers |-> "none"]
  /\ job = [w \in Workers |-> 0]
  /\ cpc = [p \in Callers |-> "idle"]
  /\ thSize = [p \in Callers |-> 0]
  /\ issued = 0 /\ done = {} /\ calls = 0
  /\ lifetime = "alive"

-----------------------------------------------------------------------------
(* Calls of the pool *)

(* p may begin a call: a client its operations, a worker inside a task body *)
MayCall(p, op) ==
  /\ calls < MaxCalls /\ cpc[p] = "idle" /\ lifetime = "alive"
  /\ \/ p \in Clients /\ op \in ClientOps[p]
     \/ p \in Workers /\ wpc[p] = "run" /\ NestedJoins /\ op = "join"

(* runnableJoin: append either refuses the task at once (null, the caller's own
   task, a task another pool owns) or goes on to the queue; start() follows both *)
RunnableJoin(p) ==
  /\ MayCall(p, "join")
  /\ \E to \in {"append", "start"} : Goto(p, "idle", to)
  /\ thSize' = [thSize EXCEPT ![p] = CpuThreads]
  /\ calls' = calls + 1
  /\ UNCHANGED <<m_isPoolRunning, config, m_tasksQueue, m_threadsContainer,
                 counters, m_mtx, wpc, job, issued, done, lifetime>>

(* CACHE mode: how many threads append adds once the task is in the queue *)
Growth(queued) ==
  IF /\ m_mode = "CACHE" /\ m_isPoolRunning
     /\ Cardinality(m_threadsContainer) < m_threadsSizeThreshold
     /\ m_idleThreadsSize \in 0 .. queued - 1 \* the counter is compared as a size_t
  THEN IF queued >= m_threadsSizeThreshold
       THEN m_threadsSizeThreshold - Cardinality(m_threadsContainer)
       ELSE queued
  ELSE 0

AppendPush(p) ==
  /\ cpc[p] \in {"append", "lastcheck"} /\ m_mtx = Free
  /\ Len(m_tasksQueue) < m_tasksSizeThreshold
  /\ m_tasksQueue' = Append(m_tasksQueue, issued + 1)
  /\ issued' = issued + 1
  /\ \E S \in NewThreads(Growth(Len(m_tasksQueue) + 1)) :
       /\ CanStart(S)
       /\ m_threadsContainer' = m_threadsContainer \cup S
       /\ m_idleThreadsSize' = m_idleThreadsSize + Cardinality(S)
       /\ wpc' = Started(WorkersNotified, S)
  /\ cpc' = CallersNotified(p, "appended")
  /\ UNCHANGED <<m_isPoolRunning, config, m_busyThreadsSize, m_mtx, job, thSize,
                 done, calls, lifetime>>

(* the queue is full: wait for room, at most one second *)
AppendFull(p) ==
  /\ m_mtx = Free /\ Len(m_tasksQueue) >= m_tasksSizeThreshold
  /\ Goto(p, "append", "fullwait")
  /\ UNCHANGED <<m_isPoolRunning, config, m_tasksQueue, m_threadsContainer,
                 counters, m_mtx, wpc, job, thSize, history, lifetime>>

(* mutant: the join tries again for ever *)
AppendRetry(p) ==
  /\ Goto(p, "fullwait", "append")
  /\ UNCHANGED <<m_isPoolRunning, config, m_tasksQueue, m_threadsContainer,
                 counters, m_mtx, wpc, job, thSize, history, lifetime>>

(* the second is over: the predicate is evaluated once more *)
AppendTimeout(p) ==
  /\ Goto(p, "fullwait", "lastcheck")
  /\ UNCHANGED <<m_isPoolRunning, config, m_tasksQueue, m_threadsContainer,
                 counters, m_mtx, wpc, job, thSize, history, lifetime>>

(* still full: the join fails, appendHelper calls start() all the same *)
AppendFail(p) ==
  /\ m_mtx = Free /\ Len(m_tasksQueue) >= m_tasksSizeThreshold
  /\ Goto(p, "lastcheck", "start")
  /\ UNCHANGED <<m_isPoolRunning, config, m_tasksQueue, m_threadsContainer,
                 counters, m_mtx, wpc, job, thSize, history, lifetime>>

(* notify_all after the unlock, then appendHelper calls start() *)
AppendNotify(p) ==
  /\ cpc[p] = "appended"
  /\ wpc' = WorkersNotified
  /\ cpc' = CallersNotified(p, "start")
  /\ UNCHANGED <<m_isPoolRunning, config, m_tasksQueue, m_threadsContainer,
                 counters, m_mtx, job, thSize, history, lifetime>>

StartCall(p) ==
  /\ MayCall(p, "start")
  /\ Goto(p, "idle", "start")
  /\ \E n \in StartSizes : thSize' = [thSize EXCEPT ![p] = n]
  /\ calls' = calls + 1
  /\ UNCHANGED <<m_isPoolRunning, config, m_tasksQueue, m_threadsContainer,
                 counters, m_mtx, wpc, job, issued, done, lifetime>>

StartLoadRunning(p) ==
  /\ Goto(p, "start", IF m_isPoolRunning THEN "idle" ELSE "startcheck")
  /\ UNCHANGED <<m_isPoolRunning, config, m_tasksQueue, m_threadsContainer,
                 counters, m_mtx, wpc, job, thSize, history, lifetime>>

(* mutant: only m_isPoolRunning guards start() *)
NothingLeft == FALSE

(* first critical section of start(): nothing may be left of an earlier run *)
LeftOfEarlierRun ==
  m_threadsContainer # {} \/ m_idleThreadsSize > 0 \/ m_busyThreadsSize > 0

StartCheckEmpty(p) ==
  /\ m_mtx = Free
  /\ Goto(p, "startcheck", IF LeftOfEarlierRun THEN "idle" ELSE "startsize")
  /\ UNCHANGED <<m_isPoolRunning, config, m_tasksQueue, m_threadsContainer,
                 counters, m_mtx, wpc, job, thSize, history, lifetime>>

Clamped(n) == IF n > m_threadsSizeThreshold THEN m_threadsSizeThreshold ELSE n

(* in CACHE mode, under m_mtx, the queue decides the size *)
StartSize(p) ==
  /\ m_mode = "FIXED" \/ m_mtx = Free
  /\ Goto(p, "startsize", "startrun")
  /\ thSize' = [thSize EXCEPT ![p] =
       IF m_mode = "FIXED" \/ m_tasksQueue = <<>> THEN Clamped(@)
       ELSE IF Len(m_tasksQueue) > m_tasksSizeThreshold THEN m_tasksSizeThreshold
       ELSE Len(m_tasksQueue)]
  /\ UNCHANGED <<m_isPoolRunning, config, m_tasksQueue, m_threadsContainer,
                 counters, m_mtx, wpc, job, history, lifetime>>

(* third critical section: create the threads, then start ALL of the container *)
StartRun(p) ==
  /\ m_mtx = Free
  /\ Goto(p, "startrun", "idle")
  /\ \E S \in NewThreads(thSize[p]) :
       /\ m_threadsContainer' = m_threadsContainer \cup S
       /\ CanStart(m_threadsContainer')
       /\ m_idleThreadsSize' = m_idleThreadsSize + Cardinality(S)
       /\ wpc' = Started(wpc, m_threadsContainer')
  /\ m_isPoolRunning' = TRUE
  /\ UNCHANGED <<config, m_tasksQueue, m_busyThreadsSize, m_mtx, job, thSize,
                 history, lifetime>>

(* stop() and ~XThreadPool(); a call from a worker returns without effect *)
StopCall(p) ==
  /\ \/ MayCall(p, "stop") /\ UNCHANGED lifetime
     \/ /\ MayCall(p, "destroy") /\ \A q \in Callers : cpc[q] = "idle"
        /\ lifetime' = "dying"
  /\ Goto(p, "idle", "stop")
  /\ calls' = calls + 1
  /\ UNCHANGED <<m_isPoolRunning, config, m_tasksQueue, m_threadsContainer,
                 counters, m_mtx, wpc, job, thSize, issued, done>>

StopStore(p) ==
  /\ Goto(p, "stop", "stopnotify")
  /\ m_isPoolRunning' = FALSE
  /\ UNCHANGED <<config, m_tasksQueue, m_threadsContainer, counters, m_mtx, wpc,
                 job, thSize, history, lifetime>>

(* the notify_all that does not hold m_mtx *)
StopNotify(p) ==
  /\ cpc[p] = "stopnotify"
  /\ wpc' = WorkersNotified
  /\ cpc' = CallersNotified(p, "stoplock")
  /\ UNCHANGED <<m_isPoolRunning, config, m_tasksQueue, m_threadsContainer,
                 counters, m_mtx, job, thSize, history, lifetime>>

(* mutant: stop() does not wait for the threads *)
NoExitWait == "idle"

(* m_exitCond.wait returns when the container is empty; ~XThreadPool ends with it *)
AfterExitWait == IF m_threadsContainer = {} THEN "idle" ELSE "exitwait"
Destroyed == IF AfterExitWait = "idle" /\ lifetime = "dying" THEN "dead" ELSE lifetime

(* the notify_all under m_mtx, and the first test of the predicate of m_exitCond *)
StopLock(p) ==
  /\ cpc[p] = "stoplock" /\ m_mtx = Free
  /\ wpc' = WorkersNotified
  /\ cpc' = CallersNotified(p, AfterExitWait)
  /\ lifetime' = Destroyed
  /\ UNCHANGED <<m_isPoolRunning, config, m_tasksQueue, m_threadsContainer,
                 counters, m_mtx, job, thSize, history>>

(* notified on m_exitCond: the predicate is tested again under m_mtx *)
StopExitCheck(p) ==
  /\ m_mtx = Free
  /\ Goto(p, "exitcheck", AfterExitWait)
  /\ lifetime' = Destroyed
  /\ UNCHANGED <<m_isPoolRunning, config, m_tasksQueue, m_threadsContainer,
                 counters, m_mtx, wpc, job, thSize, history>>

(* the setters: m_isPoolRunning is read first, the value is stored later *)
SetCall(p) ==
  /\ MayCall(p, "set") /\ ~m_isPoolRunning
  /\ Goto(p, "idle", "set")
  /\ calls' = calls + 1
  /\ UNCHANGED <<m_isPoolRunning, config, m_tasksQueue, m_threadsContainer,
                 counters, m_mtx, wpc, job, thSize, issued, done, lifetime>>

SetStore(p) ==
  /\ Goto(p, "set", "idle")
  /\ \/ m_mode' \in Modes /\ UNCHANGED <<m_threadsSizeThreshold, m_tasksSizeThreshold>>
     \/ /\ m_threadsSizeThreshold' \in ThreadsThresholds
        /\ UNCHANGED <<m_mode, m_tasksSizeThreshold>>
     \/ /\ m_tasksSizeThreshold' \in TasksThresholds
        /\ UNCHANGED <<m_mode, m_threadsSizeThreshold>>
  /\ UNCHANGED <<m_isPoolRunning, m_tasksQueue, m_threadsContainer, counters,
                 m_mtx, wpc, job, thSize, history, lifetime>>

-----------------------------------------------------------------------------
(* Worker threads: run() and acquireTask() *)

(* mutant: the newest task is taken *)
AcquireNewest(w) ==
  /\ wpc[w] = "acquire" /\ m_mtx = Free /\ m_tasksQueue # <<>>
  /\ job' = [job EXCEPT ![w] = m_tasksQueue[Len(m_tasksQueue)]]
  /\ m_tasksQueue' = SubSeq(m_tasksQueue, 1, Len(m_tasksQueue) - 1)
  /\ wpc' = [WorkersNotified EXCEPT ![w] = "got"]
  /\ cpc' = [q \in Callers |-> IF cpc[q] = "fullwait" THEN "append" ELSE cpc[q]]
  /\ UNCHANGED <<m_isPoolRunning, config, m_threadsContainer, counters, m_mtx,
                 thSize, history, lifetime>>

(* the queue is not empty: wake the others, take the front *)
AcquireTake(w) ==
  /\ wpc[w] = "acquire" /\ m_mtx = Free /\ m_tasksQueue # <<>>
  /\ job' = [job EXCEPT ![w] = Head(m_tasksQueue)]
  /\ m_tasksQueue' = Tail(m_tasksQueue)
  /\ wpc' = [WorkersNotified EXCEPT ![w] = "got"]
  /\ cpc' = [q \in Callers |-> IF cpc[q] = "fullwait" THEN "append" ELSE cpc[q]]
  /\ UNCHANGED <<m_isPoolRunning, config, m_threadsContainer, counters, m_mtx,
                 thSize, history, lifetime>>

(* mutant: m_mtx is released between the tests and the wait *)
AcquireEmptyUnlocked(w) ==
  /\ m_mtx = Free /\ m_tasksQueue = <<>>
  /\ Step(w, "acquire", IF m_isPoolRunning THEN "towait" ELSE "exit")
  /\ UNCHANGED <<m_isPoolRunning, config, m_tasksQueue, m_threadsContainer,
                 counters, m_mtx, job, cpc, thSize, history, lifetime>>

(* the queue is empty: a stopped pool ends the thread, a running one lets it wait *)
AcquireEmpty(w) ==
  /\ m_mtx = Free /\ m_tasksQueue = <<>>
  /\ Step(w, "acquire", IF m_isPoolRunning THEN "towait" ELSE "exit")
  /\ m_mtx' = IF m_isPoolRunning THEN w ELSE Free
  /\ UNCHANGED <<m_isPoolRunning, config, m_tasksQueue, m_threadsContainer,
                 counters, job, cpc, thSize, history, lifetime>>

AcquireWait(w) ==
  /\ Step(w, "towait", "wait")
  /\ m_mtx' = Free
  /\ UNCHANGED <<m_isPoolRunning, config, m_tasksQueue, m_threadsContainer,
                 counters, job, cpc, thSize, history, lifetime>>

(* mutant: the first second without a task ends the thread *)
AcquireTimeoutLeaves(w) ==
  /\ \/ m_mode = "CACHE" /\ Step(w, "wait", "expired")
     \/ m_mtx = Free /\ Step(w, "expired", "exit")
  /\ UNCHANGED <<m_isPoolRunning, config, m_tasksQueue, m_threadsContainer,
                 counters, m_mtx, job, cpc, thSize, history, lifetime>>

(* CACHE mode: wait_for(1s) times out; m_threadTimeout may be reached or not; when it is, and m_mtx
   is locked again, acquireTask returns {} without another look at the queue *)
AcquireTimeout(w) ==
  /\ \/ m_mode = "CACHE" /\ Step(w, "wait", "acquire")
     \/ m_mode = "CACHE" /\ ThreadsExpire /\ Step(w, "wait", "expired")
     \/ m_mtx = Free /\ Step(w, "expired", "exit")
  /\ UNCHANGED <<m_isPoolRunning, config, m_tasksQueue, m_threadsContainer,
                 counters, m_mtx, job, cpc, thSize, history, lifetime>>

(* the two halves of X_RAII around task->call() *)
RunBusy(w) ==
  /\ \/ /\ Step(w, "got", "enter")
        /\ m_busyThreadsSize' = m_busyThreadsSize + 1 /\ UNCHANGED m_idleThreadsSize
     \/ /\ Step(w, "enter", "run")
        /\ m_idleThreadsSize' = m_idleThreadsSize - 1 /\ UNCHANGED m_busyThreadsSize
  /\ UNCHANGED <<m_isPoolRunning, config, m_tasksQueue, m_threadsContainer, m_mtx,
                 job, cpc, thSize, history, lifetime>>

RunReturn(w) ==
  /\ Step(w, "run", "ret") /\ cpc[w] = "idle"
  /\ done' = done \cup {job[w]}
  /\ job' = [job EXCEPT ![w] = 0]
  /\ UNCHANGED <<m_isPoolRunning, config, m_tasksQueue, m_threadsContainer,
                 counters, m_mtx, cpc, thSize, issued, calls, lifetime>>

RunIdle(w) ==
  /\ \/ /\ Step(w, "ret", "leave")
        /\ m_idleThreadsSize' = m_idleThreadsSize + 1 /\ UNCHANGED m_busyThreadsSize
     \/ /\ Step(w, "leave", "acquire")
        /\ m_busyThreadsSize' = m_busyThreadsSize - 1 /\ UNCHANGED m_idleThreadsSize
  /\ UNCHANGED <<m_isPoolRunning, config, m_tasksQueue, m_threadsContainer, m_mtx,
                 job, cpc, thSize, history, lifetime>>

(* after the loop: erase under m_mtx, then the counter, then m_exitCond *)
RunErase(w) ==
  /\ m_mtx = Free
  /\ Step(w, "exit", "erased")
  /\ m_threadsContainer' = m_threadsContainer \ {w[1]}
  /\ UNCHANGED <<m_isPoolRunning, config, m_tasksQueue, counters, m_mtx, job, cpc,
                 thSize, history, lifetime>>

RunUncount(w) ==
  /\ Step(w, "erased", "uncounted")
  /\ m_idleThreadsSize' = m_idleThreadsSize - 1
  /\ UNCHANGED <<m_isPoolRunning, config, m_tasksQueue, m_threadsContainer,
                 m_busyThreadsSize, m_mtx, job, cpc, thSize, history, lifetime>>

RunExitNotify(w) ==
  /\ Step(w, "uncounted", "none")
  /\ cpc' = [q \in Callers |-> IF cpc[q] = "exitwait" THEN "exitcheck" ELSE cpc[q]]
  /\ UNCHANGED <<m_isPoolRunning, config, m_tasksQueue, m_threadsContainer,
                 counters, m_mtx, job, thSize, history, lifetime>>

-----------------------------------------------------------------------------
WorkerStep(w) ==
  \/ AcquireTake(w) \/ AcquireEmpty(w) \/ AcquireWait(w) \/ AcquireTimeout(w)
  \/ RunBusy(w) \/ RunReturn(w) \/ RunIdle(w)
  \/ RunErase(w) \/ RunUncount(w) \/ RunExitNotify(w)

CallStep(p) ==
  \/ AppendPush(p) \/ AppendFull(p) \/ AppendTimeout(p) \/ AppendFail(p)
  \/ AppendNotify(p) \/ StartLoadRunning(p) \/ StartCheckEmpty(p)
  \/ StartSize(p) \/ StartRun(p) \/ StopStore(p) \/ StopNotify(p)
  \/ StopLock(p) \/ StopExitCheck(p) \/ SetStore(p)

CallBegin(p) ==
  \/ RunnableJoin(p) \/ StartCall(p) \/ StopCall(p) \/ SetCall(p)

(* nothing runs: no call in progress, every thread parked or gone *)
Still ==
  /\ \A p \in Callers : cpc[p] = "idle"
  /\ \A w \in Workers : wpc[w] \in {"none", "wait"}
Quiescent == Still /\ UNCHANGED vars

Next ==
  \/ \E p \in Callers : CallBegin(p) \/ CallStep(p)
  \/ \E w \in Workers : WorkerStep(w)
  \/ Quiescent

Spec == Init /\ [][Next]_vars

(* Fairness: the scheduler runs every thread, a timed wait ends, a task body returns,
   and a thread that finds m_mtx free again and again gets it (threads that wait with a
   timeout take it once a second for ever, so it is never free for ever).  A call of
   the pool need not be made. *)
FairSpec ==
  /\ Spec
  /\ \A w \in Workers : SF_vars(WorkerStep(w))
  /\ \A p \in Callers : SF_vars(CallStep(p))

-----------------------------------------------------------------------------
(* Properties *)

Parked == {"towait", "wait"}
Holding == {"got", "enter", "run"}
Idle == {"acquire", "towait", "wait", "expired", "exit", "erased", "got", "enter", "leave"}
Busy == {"enter", "run", "ret", "leave"}

(* Every variable keeps its type; the counters may become negative. *)
TypeOK ==
  /\ m_isPoolRunning \in BOOLEAN
  /\ m_mode \in Modes
  /\ m_threadsSizeThreshold \in ThreadsThresholds
  /\ m_tasksSizeThreshold \in TasksThresholds
  /\ m_tasksQueue \in Seq(Nat \ {0})
  /\ m_threadsContainer \subseteq ThreadIds
  /\ m_idleThreadsSize \in Int /\ m_busyThreadsSize \in Int
  /\ m_mtx \in Workers \cup {Free}
  /\ wpc \in [Workers -> WorkerPCs]
  /\ job \in [Workers -> Nat]
  /\ cpc \in [Callers -> CallerPCs]
  /\ thSize \in [Callers -> Nat]
  /\ issued \in Nat /\ calls \in Nat
  /\ done \subseteq Nat
  /\ lifetime \in {"alive", "dying", "dead"}

(* No wakeup is lost, whatever the threads of the program call: no worker waits
   (or is about to) while a task is queued, and none waits in a stopped pool
   unless a stop() still has a notify_all under m_mtx to make.  append() notifies
   under m_mtx, stop() stores m_isPoolRunning without it and so notifies twice. *)
NoLostWakeup ==
  \A w \in Workers : wpc[w] \in Parked =>
    /\ m_tasksQueue = <<>>
    /\ m_isPoolRunning \/ \E p \in Callers : cpc[p] \in {"stopnotify", "stoplock"}

(* Every accepted join is in exactly one place, in the order of acceptance: still
   queued, in the hands of one worker, or run.  No task runs twice, none is dropped. *)
Taken == issued - Len(m_tasksQueue)
TicketsOnce ==
  /\ Taken \in Nat
  /\ \A i \in 1 .. Len(m_tasksQueue) : m_tasksQueue[i] = Taken + i
  /\ \A w \in Workers : wpc[w] \in Holding <=> job[w] # 0
  /\ \A v, w \in Workers : v # w /\ job[v] # 0 => job[v] # job[w]
  /\ \A t \in 1 .. Taken : t \in done \/ \E w \in Workers : job[w] = t
  /\ \A w \in Workers : job[w] \notin done /\ job[w] <= Taken
  /\ done \subseteq 1 .. Taken

(* The counters that start() and the growth in append() read are exact at every
   step, so they never go below zero: an idle thread is one that was created and
   neither runs a task nor has left. *)
CountersExact ==
  /\ m_idleThreadsSize = Cardinality({w \in Workers : wpc[w] \in Idle})
  /\ m_busyThreadsSize = Cardinality({w \in Workers : wpc[w] \in Busy})

(* A thread that has left the container, or was never started *)
Gone == {"none", "erased", "uncounted"}

(* When a stop() (or the destructor) returns, no thread of the pool can touch the
   queue or a task again: all of them are past the erase. *)
StopReturns(p) == cpc[p] \in {"stoplock", "exitcheck"} /\ cpc'[p] = "idle"
StopMeansQuiet ==
  [][\A p \in Callers : StopReturns(p) =>
       \A w \in Workers : wpc[w] \in Gone]_vars

(* The pool never comes to rest with a task in its queue: join starts the pool,
   so some thread is there to run what was accepted. *)
NoStrandedTask == Still => m_tasksQueue = <<>>

(* In a pool that is never stopped every accepted join is run. *)
NeverStopped == \A p \in Callers : cpc[p] \notin {"stop", "stopnotify", "stoplock"}
JobsRun ==
  []NeverStopped => \A t \in 1 .. MaxCalls : issued >= t ~> t \in done

(* Every call of the pool returns: a join because the wait for room is bounded by
   one second, a stop because every worker leaves and says so. *)
CallsReturn == \A p \in Callers : cpc[p] # "idle" ~> cpc[p] = "idle"
=============================================================================
