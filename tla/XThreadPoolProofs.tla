------------------------- MODULE XThreadPoolProofs -------------------------
(***************************************************************************)
(* Theorems about XThreadPool for every value of its constants: any number *)
(* of clients and threads, any thresholds, both modes, any number of calls.*)
(***************************************************************************)
EXTENDS XThreadPool, FiniteSetTheorems, TLAPS

(* m_mtx is held across steps only by a thread about to wait on m_taskQueueCond. *)
LockOwner == \A w \in Workers : m_mtx = w <=> wpc[w] = "towait"

-----------------------------------------------------------------------------
(* The helpers of the actions *)

(* A notify_all moves waiting workers to "acquire" and leaves the others alone. *)
LEMMA NotifiedType ==
  ASSUME TypeOK
  PROVE  /\ WorkersNotified \in [Workers -> WorkerPCs]
         /\ \A w \in Workers : WorkersNotified[w] = IF wpc[w] = "wait" THEN "acquire" ELSE wpc[w]
  BY DEF TypeOK, WorkersNotified, WorkerPCs

LEMMA CallersNotifiedType ==
  ASSUME TypeOK, NEW p \in Callers, NEW to \in CallerPCs
  PROVE  /\ CallersNotified(p, to) \in [Callers -> CallerPCs]
         /\ CallersNotified(p, to)[p] = to
         /\ \A q \in Callers : CallersNotified(p, to)[q] =
              IF q = p THEN to ELSE IF cpc[q] = "fullwait" THEN "append" ELSE cpc[q]
  BY DEF TypeOK, CallersNotified, CallerPCs

(* Starting XThread_ objects changes only threads that did not exist. *)
LEMMA StartedType ==
  ASSUME TypeOK, NEW pcs \in [Workers -> WorkerPCs], NEW S, CanStart(S)
  PROVE  /\ Started(pcs, S) \in [Workers -> WorkerPCs]
         /\ \A w \in Workers : \/ Started(pcs, S)[w] = pcs[w]
                               \/ Started(pcs, S)[w] = "acquire" /\ wpc[w] = "none"
<1>1. Started(pcs, S) \in [Workers -> WorkerPCs]
  BY DEF Started, WorkerPCs
<1>2. ASSUME NEW w \in Workers, Started(pcs, S)[w] # pcs[w]
      PROVE  Started(pcs, S)[w] = "acquire" /\ wpc[w] = "none"
  <2>1. w[1] \in S /\ w[2] = FreeSlot(w[1]) /\ Started(pcs, S)[w] = "acquire"
    BY <1>2 DEF Started
  <2>2. \E k \in Slots : wpc[<<w[1], k>>] = "none"
    BY <2>1 DEF CanStart
  <2>3. wpc[<<w[1], FreeSlot(w[1])>>] = "none"
    BY <2>2 DEF FreeSlot
  <2>4. w = <<w[1], w[2]>>
    BY DEF Workers
  <2> QED BY <2>1, <2>3, <2>4
<1> QED BY <1>1, <1>2

(* New threads are addresses outside the container, as many as were asked for. *)
LEMMA NewThreadsType ==
  ASSUME TypeOK, NEW n \in Nat, NEW S \in NewThreads(n)
  PROVE  S \subseteq ThreadIds /\ Cardinality(S) = n
  BY DEF NewThreads

LEMMA GrowthType ==
  ASSUME TypeOK, NEW n \in Nat
  PROVE  Growth(n) \in Nat
<1>1. IsFiniteSet(m_threadsContainer)
  BY PoolAssumption, FS_Subset DEF TypeOK
<1>2. Cardinality(m_threadsContainer) \in Nat
  BY <1>1, FS_CardinalityType
<1>3. m_threadsSizeThreshold \in Nat
  BY PoolAssumption DEF TypeOK
<1> QED BY <1>2, <1>3 DEF Growth

-----------------------------------------------------------------------------
(* Type correctness *)
LEMMA TypeCall ==
  ASSUME TypeOK, NEW p \in Callers, CallBegin(p)
  PROVE  TypeOK'
<1>1. CASE RunnableJoin(p)
  BY <1>1, PoolAssumption DEF RunnableJoin, MayCall, Goto, TypeOK, CallerPCs, config, counters
<1>2. CASE StartCall(p)
  BY <1>2, PoolAssumption DEF StartCall, MayCall, Goto, TypeOK, CallerPCs, config, counters
<1>3. CASE StopCall(p)
  BY <1>3 DEF StopCall, MayCall, Goto, TypeOK, CallerPCs, config, counters
<1>4. CASE SetCall(p)
  BY <1>4 DEF SetCall, MayCall, Goto, TypeOK, CallerPCs, config, counters
<1> QED BY <1>1, <1>2, <1>3, <1>4 DEF CallBegin

LEMMA TypeAppend ==
  ASSUME TypeOK, NEW p \in Callers,
         \/ AppendPush(p) \/ AppendFull(p) \/ AppendTimeout(p) \/ AppendFail(p)
         \/ AppendNotify(p)
  PROVE  TypeOK'
<1>1. CASE AppendPush(p)
  <2>1. PICK S \in NewThreads(Growth(Len(m_tasksQueue) + 1)) :
          /\ CanStart(S)
          /\ m_threadsContainer' = m_threadsContainer \cup S
          /\ m_idleThreadsSize' = m_idleThreadsSize + Cardinality(S)
          /\ wpc' = Started(WorkersNotified, S)
    BY <1>1 DEF AppendPush
  <2>2. Len(m_tasksQueue) + 1 \in Nat
    BY DEF TypeOK
  <2>3. S \subseteq ThreadIds /\ Cardinality(S) \in Nat
    BY <2>2, GrowthType, NewThreadsType
  <2>4. wpc' \in [Workers -> WorkerPCs]
    BY <2>1, NotifiedType, StartedType
  <2>5. cpc' \in [Callers -> CallerPCs]
    BY <1>1, CallersNotifiedType DEF AppendPush, CallerPCs
  <2>6. m_tasksQueue' \in Seq(Nat \ {0}) /\ issued' \in Nat
    BY <1>1 DEF AppendPush, TypeOK
  <2> QED BY <1>1, <2>1, <2>3, <2>4, <2>5, <2>6 DEF AppendPush, TypeOK, config
<1>2. CASE AppendFull(p) \/ AppendTimeout(p) \/ AppendFail(p)
  BY <1>2 DEF AppendFull, AppendTimeout, AppendFail, Goto, TypeOK, CallerPCs, config,
              counters, history
<1>3. CASE AppendNotify(p)
  BY <1>3, NotifiedType, CallersNotifiedType
  DEF AppendNotify, TypeOK, CallerPCs, config, counters, history
<1> QED BY <1>1, <1>2, <1>3

LEMMA TypeStart ==
  ASSUME TypeOK, NEW p \in Callers,
         \/ StartLoadRunning(p) \/ StartCheckEmpty(p) \/ StartSize(p) \/ StartRun(p)
  PROVE  TypeOK'
<1>1. CASE StartLoadRunning(p) \/ StartCheckEmpty(p)
  BY <1>1 DEF StartLoadRunning, StartCheckEmpty, Goto, TypeOK, CallerPCs, config,
              counters, history
<1>2. CASE StartSize(p)
  BY <1>2, PoolAssumption DEF StartSize, Clamped, Goto, TypeOK, CallerPCs, config,
              counters, history
<1>3. CASE StartRun(p)
  <2>1. PICK S \in NewThreads(thSize[p]) :
          /\ m_threadsContainer' = m_threadsContainer \cup S
          /\ CanStart(m_threadsContainer')
          /\ m_idleThreadsSize' = m_idleThreadsSize + Cardinality(S)
          /\ wpc' = Started(wpc, m_threadsContainer')
    BY <1>3 DEF StartRun
  <2>2. S \subseteq ThreadIds /\ Cardinality(S) \in Nat
    BY NewThreadsType DEF TypeOK
  <2>3. wpc' \in [Workers -> WorkerPCs]
    BY <2>1, StartedType DEF TypeOK
  <2>4. /\ cpc' \in [Callers -> CallerPCs] /\ m_isPoolRunning' \in BOOLEAN
        /\ UNCHANGED <<config, m_tasksQueue, m_busyThreadsSize, m_mtx, job, thSize,
                       history, lifetime>>
    BY <1>3 DEF StartRun, Goto, TypeOK, CallerPCs
  <2>5. m_threadsContainer' \subseteq ThreadIds /\ m_idleThreadsSize' \in Int
    BY <2>1, <2>2 DEF TypeOK
  <2> QED BY <2>3, <2>4, <2>5 DEF TypeOK, config, history
<1> QED BY <1>1, <1>2, <1>3

LEMMA TypeStop ==
  ASSUME TypeOK, NEW p \in Callers,
         \/ StopStore(p) \/ StopNotify(p) \/ StopLock(p) \/ StopExitCheck(p) \/ SetStore(p)
  PROVE  TypeOK'
<1>1. AfterExitWait \in CallerPCs /\ Destroyed \in {"alive", "dying", "dead"}
  BY DEF AfterExitWait, Destroyed, CallerPCs, TypeOK
<1>2. CASE StopStore(p)
  BY <1>2 DEF StopStore, Goto, TypeOK, CallerPCs, config, counters, history
<1>3. CASE StopNotify(p)
  BY <1>3, NotifiedType, CallersNotifiedType
  DEF StopNotify, TypeOK, CallerPCs, config, counters, history
<1>4. CASE StopLock(p)
  BY <1>1, <1>4, NotifiedType, CallersNotifiedType
  DEF StopLock, TypeOK, config, counters, history
<1>5. CASE StopExitCheck(p)
  BY <1>1, <1>5 DEF StopExitCheck, Goto, TypeOK, config, counters, history
<1>6. CASE SetStore(p)
  BY <1>6 DEF SetStore, Goto, TypeOK, CallerPCs, counters, history
<1> QED BY <1>2, <1>3, <1>4, <1>5, <1>6

LEMMA TypeWorker ==
  ASSUME TypeOK, NEW w \in Workers, WorkerStep(w)
  PROVE  TypeOK'
<1>1. CASE AcquireTake(w)
  <2>1. wpc' \in [Workers -> WorkerPCs]
    BY <1>1, NotifiedType DEF AcquireTake, WorkerPCs
  <2>2. cpc' \in [Callers -> CallerPCs]
    BY <1>1 DEF AcquireTake, TypeOK, CallerPCs
  <2>3. m_tasksQueue' \in Seq(Nat \ {0}) /\ job' \in [Workers -> Nat]
    BY <1>1 DEF AcquireTake, TypeOK
  <2> QED BY <1>1, <2>1, <2>2, <2>3 DEF AcquireTake, TypeOK, config, counters, history
<1>2. CASE AcquireEmpty(w) \/ AcquireWait(w)
  BY <1>2 DEF AcquireEmpty, AcquireWait, Step, TypeOK, WorkerPCs, config, counters, history
<1>3. CASE AcquireTimeout(w)
  BY <1>3 DEF AcquireTimeout, Step, TypeOK, WorkerPCs, config, counters, history
<1>4. CASE RunBusy(w) \/ RunIdle(w)
  <2>1. wpc' \in [Workers -> WorkerPCs]
    BY <1>4 DEF RunBusy, RunIdle, Step, TypeOK, WorkerPCs
  <2>2. m_idleThreadsSize' \in Int /\ m_busyThreadsSize' \in Int
    BY <1>4 DEF RunBusy, RunIdle, TypeOK
  <2> QED BY <1>4, <2>1, <2>2 DEF RunBusy, RunIdle, TypeOK, config, history
<1>5. CASE RunReturn(w)
  BY <1>5 DEF RunReturn, Step, TypeOK, WorkerPCs, config, counters
<1>6. CASE RunErase(w)
  <2>1. wpc' \in [Workers -> WorkerPCs]
    BY <1>6 DEF RunErase, Step, TypeOK, WorkerPCs
  <2> QED BY <1>6, <2>1 DEF RunErase, TypeOK, config, counters, history
<1>8. CASE RunUncount(w)
  <2>1. wpc' \in [Workers -> WorkerPCs]
    BY <1>8 DEF RunUncount, Step, TypeOK, WorkerPCs
  <2> QED BY <1>8, <2>1 DEF RunUncount, TypeOK, config, history
<1>7. CASE RunExitNotify(w)
  BY <1>7 DEF RunExitNotify, Step, TypeOK, WorkerPCs, CallerPCs, config, counters, history
<1> QED BY <1>1, <1>2, <1>3, <1>4, <1>5, <1>6, <1>7, <1>8 DEF WorkerStep

(* Every variable of the pool keeps its type. *)
THEOREM TypeCorrect == Spec => []TypeOK
<1>1. Init => TypeOK
  <2> SUFFICES ASSUME Init PROVE TypeOK
    OBVIOUS
  <2>1. /\ wpc \in [Workers -> WorkerPCs] /\ cpc \in [Callers -> CallerPCs]
        /\ job \in [Workers -> Nat] /\ thSize \in [Callers -> Nat]
    BY DEF Init, WorkerPCs, CallerPCs
  <2>2. m_tasksQueue \in Seq(Nat \ {0}) /\ m_threadsContainer \subseteq ThreadIds
    BY DEF Init
  <2>3. m_mtx \in Workers \cup {Free} /\ lifetime \in {"alive", "dying", "dead"}
    BY DEF Init
  <2>4. issued \in Nat /\ calls \in Nat /\ done \subseteq Nat
    BY DEF Init
  <2>5. m_idleThreadsSize \in Int /\ m_busyThreadsSize \in Int
    BY DEF Init
  <2>6. m_isPoolRunning \in BOOLEAN
    BY Zenon DEF Init
  <2> QED BY <2>1, <2>2, <2>3, <2>4, <2>5, <2>6 DEF Init, TypeOK
<1>2. TypeOK /\ [Next]_vars => TypeOK'
  <2> SUFFICES ASSUME TypeOK, [Next]_vars PROVE TypeOK'
    OBVIOUS
  <2>1. ASSUME NEW p \in Callers, CallStep(p) PROVE TypeOK'
    BY <2>1, TypeAppend, TypeStart, TypeStop DEF CallStep
  <2>2. CASE UNCHANGED vars
    BY <2>2 DEF vars, config, counters, history, TypeOK
  <2> QED BY <2>1, <2>2, TypeCall, TypeWorker DEF Next, Quiescent
<1> QED BY <1>1, <1>2, PTL DEF Spec

-----------------------------------------------------------------------------
(* No wakeup is lost.  NoLostWakeup alone is not inductive: that a task can only
   be pushed while no worker stands between its tests and its wait follows from
   LockOwner, and that a stopped pool leaves no worker waiting from the notify_all
   stop() makes under m_mtx. *)
WakeInv == LockOwner /\ NoLostWakeup
Stopping == {"stopnotify", "stoplock"}

(* A step that leaves m_mtx, the queue, m_isPoolRunning and the pending notify_all
   of a stop() alone and parks nobody. *)
LEMMA WakeFrame ==
  ASSUME WakeInv,
         UNCHANGED <<m_mtx, m_tasksQueue, m_isPoolRunning>>,
         \A w \in Workers : \/ wpc'[w] = wpc[w]
                            \/ wpc[w] # "towait" /\ wpc'[w] \notin Parked,
         \A q \in Callers : cpc[q] \in Stopping => cpc'[q] = cpc[q]
  PROVE  WakeInv'
<1>1. LockOwner'
  BY DEF WakeInv, LockOwner, Parked
<1>2. ASSUME NEW w \in Workers, wpc'[w] \in Parked
      PROVE  /\ m_tasksQueue' = <<>>
             /\ m_isPoolRunning' \/ \E p \in Callers : cpc'[p] \in Stopping
  <2>1. wpc[w] \in Parked
    BY <1>2
  <2> QED BY <2>1 DEF WakeInv, NoLostWakeup, Stopping
<1> QED BY <1>1, <1>2 DEF WakeInv, NoLostWakeup, Stopping

LEMMA WakeCall ==
  ASSUME TypeOK, WakeInv, NEW p \in Callers, CallBegin(p)
  PROVE  WakeInv'
<1>1. UNCHANGED <<m_mtx, m_tasksQueue, m_isPoolRunning, wpc>>
  BY DEF CallBegin, RunnableJoin, StartCall, StopCall, SetCall
<1>2. \A q \in Callers : cpc[q] \in Stopping => cpc'[q] = cpc[q]
  BY DEF CallBegin, RunnableJoin, StartCall, StopCall, SetCall, MayCall, Goto, TypeOK, Stopping
<1> QED BY <1>1, <1>2, WakeFrame

(* Steps of a call that change neither the workers nor what they wait for. *)
LEMMA WakeCallSteps ==
  ASSUME TypeOK, WakeInv, NEW p \in Callers,
         \/ AppendFull(p) \/ AppendTimeout(p) \/ AppendFail(p) \/ StartLoadRunning(p)
         \/ StartCheckEmpty(p) \/ StartSize(p) \/ StopExitCheck(p) \/ SetStore(p)
  PROVE  WakeInv'
<1>1. UNCHANGED <<m_mtx, m_tasksQueue, m_isPoolRunning, wpc>>
  BY DEF AppendFull, AppendTimeout, AppendFail, StartLoadRunning, StartCheckEmpty,
         StartSize, StopExitCheck, SetStore
<1>2. \A q \in Callers : cpc[q] \in Stopping => cpc'[q] = cpc[q]
  BY DEF AppendFull, AppendTimeout, AppendFail, StartLoadRunning, StartCheckEmpty,
         StartSize, StopExitCheck, SetStore, Goto, TypeOK, Stopping
<1> QED BY <1>1, <1>2, WakeFrame

(* A step that leaves nobody parked: m_mtx is free and every waiter is woken. *)
LEMMA WakeAll ==
  ASSUME WakeInv, m_mtx = Free, m_mtx' = Free,
         \A w \in Workers : wpc'[w] \notin Parked
  PROVE  WakeInv'
  BY PoolAssumption DEF WakeInv, LockOwner, NoLostWakeup, Parked, Callers

LEMMA NobodyToWait ==
  ASSUME WakeInv, m_mtx = Free
  PROVE  \A w \in Workers : wpc[w] # "towait"
  BY PoolAssumption DEF WakeInv, LockOwner, Callers

LEMMA WakeNotifiers ==
  ASSUME TypeOK, WakeInv, NEW p \in Callers,
         \/ AppendPush(p) \/ AppendNotify(p) \/ StopNotify(p) \/ StopLock(p)
  PROVE  WakeInv'
<1>1. CASE AppendPush(p)
  <2>1. PICK S \in NewThreads(Growth(Len(m_tasksQueue) + 1)) :
          CanStart(S) /\ wpc' = Started(WorkersNotified, S)
    BY <1>1 DEF AppendPush
  <2>2. m_mtx = Free /\ m_mtx' = Free
    BY <1>1 DEF AppendPush
  <2>3. \A w \in Workers : wpc'[w] \in {WorkersNotified[w], "acquire"}
    BY <2>1, NotifiedType, StartedType
  <2>4. \A w \in Workers : wpc'[w] \notin Parked
    BY <2>2, <2>3, NobodyToWait, NotifiedType DEF Parked
  <2> QED BY <2>2, <2>4, WakeAll
<1>2. CASE AppendNotify(p)
  <2>1. \A w \in Workers : wpc'[w] = wpc[w] \/ (wpc[w] # "towait" /\ wpc'[w] \notin Parked)
    BY <1>2, NotifiedType DEF AppendNotify, Parked
  <2>2. \A q \in Callers : cpc[q] \in Stopping => cpc'[q] = cpc[q]
    BY <1>2, CallersNotifiedType DEF AppendNotify, CallerPCs, Stopping
  <2> QED BY <1>2, <2>1, <2>2, WakeFrame DEF AppendNotify
<1>3. CASE StopNotify(p)
  <2>1. LockOwner'
    BY <1>3, NotifiedType DEF StopNotify, WakeInv, LockOwner
  <2>2. cpc'[p] = "stoplock"
    BY <1>3, CallersNotifiedType DEF StopNotify, CallerPCs
  <2>3. \A w \in Workers : wpc'[w] \in Parked => m_tasksQueue' = <<>>
    BY <1>3, NotifiedType DEF StopNotify, WakeInv, NoLostWakeup, Parked
  <2> QED BY <2>1, <2>2, <2>3 DEF WakeInv, NoLostWakeup
<1>4. CASE StopLock(p)
  <2>1. m_mtx = Free /\ m_mtx' = Free /\ wpc' = WorkersNotified
    BY <1>4 DEF StopLock
  <2>2. \A w \in Workers : wpc'[w] \notin Parked
    BY <2>1, NobodyToWait, NotifiedType DEF Parked
  <2> QED BY <2>1, <2>2, WakeAll
<1> QED BY <1>1, <1>2, <1>3, <1>4

(* The two steps that change m_isPoolRunning. *)
LEMMA WakeRunning ==
  ASSUME TypeOK, WakeInv, NEW p \in Callers, StartRun(p) \/ StopStore(p)
  PROVE  WakeInv'
<1>1. CASE StartRun(p)
  <2>1. CanStart(m_threadsContainer') /\ wpc' = Started(wpc, m_threadsContainer')
    BY <1>1 DEF StartRun
  <2>2. \A w \in Workers : \/ wpc'[w] = wpc[w]
                           \/ wpc'[w] = "acquire" /\ wpc[w] = "none"
    BY <2>1, StartedType DEF TypeOK
  <2>3. m_mtx' = m_mtx /\ m_tasksQueue' = m_tasksQueue /\ m_isPoolRunning' = TRUE
    BY <1>1 DEF StartRun
  <2>4. LockOwner'
    BY <2>2, <2>3 DEF WakeInv, LockOwner
  <2>5. NoLostWakeup'
    BY <2>2, <2>3 DEF WakeInv, NoLostWakeup, Parked
  <2> QED BY <2>4, <2>5 DEF WakeInv
<1>2. CASE StopStore(p)
  <2>1. UNCHANGED <<m_mtx, m_tasksQueue, wpc>> /\ cpc'[p] = "stopnotify"
    BY <1>2 DEF StopStore, Goto, TypeOK
  <2> QED BY <2>1 DEF WakeInv, LockOwner, NoLostWakeup
<1> QED BY <1>1, <1>2

LEMMA WakeWorker ==
  ASSUME TypeOK, WakeInv, NEW w \in Workers, WorkerStep(w)
  PROVE  WakeInv'
<1>1. CASE AcquireTake(w)
  <2>1. m_mtx = Free /\ m_mtx' = Free
    BY <1>1 DEF AcquireTake
  <2>2. \A v \in Workers : wpc'[v] \notin Parked
    BY <1>1, <2>1, NobodyToWait, NotifiedType DEF AcquireTake, Parked
  <2> QED BY <2>1, <2>2, WakeAll
<1>2. CASE AcquireEmpty(w)
  <2>1. CASE m_isPoolRunning
    <3>1. /\ m_mtx = Free /\ m_mtx' = w /\ m_tasksQueue' = <<>>
          /\ wpc' = [wpc EXCEPT ![w] = "towait"] /\ m_isPoolRunning'
      BY <1>2, <2>1 DEF AcquireEmpty, Step
    <3>2. \A v \in Workers : wpc[v] # "towait"
      BY <3>1, NobodyToWait
    <3> QED BY <3>1, <3>2 DEF WakeInv, LockOwner, NoLostWakeup, TypeOK
  <2>2. CASE ~m_isPoolRunning
    <3>1. /\ UNCHANGED <<m_mtx, m_tasksQueue, m_isPoolRunning, cpc>>
          /\ wpc[w] = "acquire" /\ wpc' = [wpc EXCEPT ![w] = "exit"]
      BY <1>2, <2>2 DEF AcquireEmpty, Step
    <3> QED BY <3>1, WakeFrame DEF TypeOK, Parked
  <2> QED BY <2>1, <2>2
<1>3. CASE AcquireWait(w)
  <2>1. /\ UNCHANGED <<m_tasksQueue, m_isPoolRunning, cpc>> /\ m_mtx' = Free
        /\ wpc[w] = "towait" /\ wpc' = [wpc EXCEPT ![w] = "wait"]
    BY <1>3 DEF AcquireWait, Step
  <2>2. m_mtx = w
    BY <2>1 DEF WakeInv, LockOwner
  <2>3. LockOwner'
    BY <2>1, <2>2, PoolAssumption DEF WakeInv, LockOwner, TypeOK, Callers
  <2>4. NoLostWakeup'
    BY <2>1 DEF WakeInv, NoLostWakeup, TypeOK, Parked
  <2> QED BY <2>3, <2>4 DEF WakeInv
<1>4. CASE AcquireTimeout(w)
  <2>1. /\ UNCHANGED <<m_mtx, m_tasksQueue, m_isPoolRunning, cpc>>
        /\ \A v \in Workers : \/ wpc'[v] = wpc[v]
                              \/ wpc[v] # "towait" /\ wpc'[v] \notin Parked
    BY <1>4 DEF AcquireTimeout, Step, TypeOK, Parked
  <2> QED BY <2>1, WakeFrame
<1>5. CASE RunBusy(w) \/ RunReturn(w) \/ RunIdle(w)
  <2>1. /\ UNCHANGED <<m_mtx, m_tasksQueue, m_isPoolRunning, cpc>>
        /\ \A v \in Workers : \/ wpc'[v] = wpc[v]
                              \/ wpc[v] # "towait" /\ wpc'[v] \notin Parked
    BY <1>5 DEF RunBusy, RunReturn, RunIdle, Step, TypeOK, Parked
  <2> QED BY <2>1, WakeFrame
<1>6. CASE RunErase(w) \/ RunUncount(w)
  <2>1. /\ UNCHANGED <<m_mtx, m_tasksQueue, m_isPoolRunning, cpc>>
        /\ \A v \in Workers : \/ wpc'[v] = wpc[v]
                              \/ wpc[v] # "towait" /\ wpc'[v] \notin Parked
    BY <1>6 DEF RunErase, RunUncount, Step, TypeOK, Parked
  <2> QED BY <2>1, WakeFrame
<1>7. CASE RunExitNotify(w)
  <2>1. /\ UNCHANGED <<m_mtx, m_tasksQueue, m_isPoolRunning>>
        /\ \A v \in Workers : \/ wpc'[v] = wpc[v]
                              \/ wpc[v] # "towait" /\ wpc'[v] \notin Parked
        /\ \A q \in Callers : cpc[q] \in Stopping => cpc'[q] = cpc[q]
    BY <1>7 DEF RunExitNotify, Step, TypeOK, Parked, Stopping
  <2> QED BY <2>1, WakeFrame
<1> QED BY <1>1, <1>2, <1>3, <1>4, <1>5, <1>6, <1>7 DEF WorkerStep

(* However the threads of the program interleave their calls of the pool, no worker
   waits while a task is queued, and none waits in a stopped pool once stop() has
   made the notify_all under m_mtx. *)
THEOREM NoWakeupIsLost == Spec => []NoLostWakeup
<1>1. Init => WakeInv
  BY PoolAssumption DEF Init, WakeInv, LockOwner, NoLostWakeup, Parked, Callers
<1>2. TypeOK /\ WakeInv /\ [Next]_vars => WakeInv'
  <2> SUFFICES ASSUME TypeOK, WakeInv, [Next]_vars PROVE WakeInv'
    OBVIOUS
  <2>1. ASSUME NEW p \in Callers, CallStep(p) PROVE WakeInv'
    BY <2>1, WakeCallSteps, WakeNotifiers, WakeRunning DEF CallStep
  <2>2. CASE UNCHANGED vars
    BY <2>2 DEF vars, WakeInv, LockOwner, NoLostWakeup
  <2> QED BY <2>1, <2>2, WakeCall, WakeWorker DEF Next, Quiescent
<1>3. WakeInv => NoLostWakeup
  BY DEF WakeInv
<1> QED BY <1>1, <1>2, <1>3, TypeCorrect, PTL DEF Spec

-----------------------------------------------------------------------------
(* Every accepted join is in one place.  TicketsOnce is inductive: the queue holds
   the tickets that nobody took, in order, so the front is a ticket no worker
   holds and none has run. *)
LEMMA TicketsFrame ==
  ASSUME TicketsOnce, UNCHANGED <<m_tasksQueue, issued, done, job>>,
         \A w \in Workers : wpc'[w] \in Holding <=> wpc[w] \in Holding
  PROVE  TicketsOnce'
  BY DEF TicketsOnce, Taken

LEMMA NotifiedHolding ==
  ASSUME TypeOK, NEW w \in Workers
  PROVE  WorkersNotified[w] \in Holding <=> wpc[w] \in Holding
  BY NotifiedType DEF Holding

LEMMA TicketsPush ==
  ASSUME TypeOK, TicketsOnce, NEW p \in Callers, AppendPush(p)
  PROVE  TicketsOnce'
<1>1. /\ m_tasksQueue' = Append(m_tasksQueue, issued + 1) /\ issued' = issued + 1
      /\ done' = done /\ job' = job
  BY DEF AppendPush
<1>2. PICK S \in NewThreads(Growth(Len(m_tasksQueue) + 1)) :
        CanStart(S) /\ wpc' = Started(WorkersNotified, S)
  BY DEF AppendPush
<1>3. \A w \in Workers : wpc'[w] \in Holding <=> wpc[w] \in Holding
  <2> SUFFICES ASSUME NEW w \in Workers PROVE wpc'[w] \in Holding <=> wpc[w] \in Holding
    OBVIOUS
  <2>1. \/ wpc'[w] = WorkersNotified[w]
        \/ wpc'[w] = "acquire" /\ wpc[w] = "none"
    BY <1>2, NotifiedType, StartedType
  <2> QED BY <2>1, NotifiedHolding DEF Holding
<1>4. /\ m_tasksQueue \in Seq(Nat \ {0}) /\ issued \in Nat
      /\ Taken \in Nat
      /\ \A i \in 1 .. Len(m_tasksQueue) : m_tasksQueue[i] = Taken + i
  BY DEF TypeOK, TicketsOnce
<1>5. Len(m_tasksQueue') = Len(m_tasksQueue) + 1 /\ Taken' = Taken
  BY <1>1, <1>4 DEF Taken
<1>6. \A i \in 1 .. Len(m_tasksQueue') : m_tasksQueue'[i] = Taken' + i
  BY <1>1, <1>4, <1>5 DEF Taken
<1> QED BY <1>1, <1>3, <1>4, <1>5, <1>6 DEF TicketsOnce

LEMMA TicketsTake ==
  ASSUME TypeOK, TicketsOnce, NEW w \in Workers, AcquireTake(w)
  PROVE  TicketsOnce'
<1>1. /\ wpc[w] = "acquire" /\ m_tasksQueue # <<>>
      /\ job' = [job EXCEPT ![w] = Head(m_tasksQueue)]
      /\ m_tasksQueue' = Tail(m_tasksQueue)
      /\ wpc' = [WorkersNotified EXCEPT ![w] = "got"]
      /\ issued' = issued /\ done' = done
  BY DEF AcquireTake, history
<1>2. m_tasksQueue \in Seq(Nat \ {0}) /\ issued \in Nat /\ Taken \in Nat
  BY DEF TypeOK, TicketsOnce
<1>3. /\ Len(m_tasksQueue) \in Nat \ {0} /\ Len(m_tasksQueue') = Len(m_tasksQueue) - 1
      /\ Taken' = Taken + 1
  BY <1>1, <1>2 DEF Taken
<1>4. Head(m_tasksQueue) = Taken + 1
  BY <1>1, <1>2, <1>3 DEF TicketsOnce
<1>5. \A i \in 1 .. Len(m_tasksQueue') : m_tasksQueue'[i] = Taken' + i
  <2> SUFFICES ASSUME NEW i \in 1 .. Len(m_tasksQueue') PROVE m_tasksQueue'[i] = Taken' + i
    OBVIOUS
  <2>1. i + 1 \in 1 .. Len(m_tasksQueue) /\ m_tasksQueue'[i] = m_tasksQueue[i + 1]
    BY <1>1, <1>2, <1>3
  <2>2. m_tasksQueue[i + 1] = Taken + (i + 1)
    BY <2>1 DEF TicketsOnce
  <2> QED BY <1>2, <1>3, <2>1, <2>2
<1>6. job[w] = 0
  BY <1>1 DEF TicketsOnce, Holding
<1>7. /\ job'[w] = Taken + 1
      /\ \A v \in Workers : v # w => job'[v] = job[v] /\ job[v] <= Taken
  BY <1>1, <1>4 DEF TypeOK, TicketsOnce
<1>8. \A v \in Workers : job[v] \in Nat
  BY DEF TypeOK
<1>9. \A v \in Workers : wpc'[v] \in Holding <=> job'[v] # 0
  <2>1. wpc'[w] = "got"
    BY <1>1, NotifiedType
  <2>2. \A v \in Workers : v # w => (wpc'[v] \in Holding <=> wpc[v] \in Holding)
    BY <1>1, NotifiedType, NotifiedHolding
  <2> QED BY <1>2, <1>7, <2>1, <2>2 DEF TicketsOnce, Holding
<1>10. \A u, v \in Workers : u # v /\ job'[u] # 0 => job'[u] # job'[v]
  <2> SUFFICES ASSUME NEW u \in Workers, NEW v \in Workers, u # v, job'[u] # 0
               PROVE  job'[u] # job'[v]
    OBVIOUS
  <2>1. CASE u # w /\ v # w
    BY <1>7, <2>1 DEF TicketsOnce
  <2>2. CASE u = w \/ v = w
    BY <1>2, <1>7, <1>8, <2>2
  <2> QED BY <2>1, <2>2
<1>11. \A t \in 1 .. Taken' : t \in done' \/ \E v \in Workers : job'[v] = t
  <2> SUFFICES ASSUME NEW t \in 1 .. Taken', t \notin done' PROVE \E v \in Workers : job'[v] = t
    OBVIOUS
  <2>1. CASE t = Taken + 1
    BY <1>7, <2>1
  <2>2. CASE t \in 1 .. Taken
    <3>1. PICK v \in Workers : job[v] = t
      BY <1>1, <2>2 DEF TicketsOnce
    <3>2. v # w
      BY <1>6, <2>2, <3>1
    <3> QED BY <1>7, <3>1, <3>2
  <2> QED BY <1>2, <1>3, <2>1, <2>2
<1>12. \A v \in Workers : job'[v] \notin done' /\ job'[v] <= Taken'
  <2> SUFFICES ASSUME NEW v \in Workers PROVE job'[v] \notin done' /\ job'[v] <= Taken'
    OBVIOUS
  <2>1. CASE v = w
    BY <1>1, <1>2, <1>3, <1>7, <2>1 DEF TicketsOnce
  <2>2. CASE v # w
    BY <1>1, <1>2, <1>3, <1>7, <1>8, <2>2 DEF TicketsOnce
  <2> QED BY <2>1, <2>2
<1>13. done' \subseteq 1 .. Taken'
  BY <1>1, <1>2, <1>3 DEF TicketsOnce
<1>14. Taken' \in Nat
  BY <1>2, <1>3
<1> QED BY <1>5, <1>9, <1>10, <1>11, <1>12, <1>13, <1>14 DEF TicketsOnce

LEMMA TicketsReturn ==
  ASSUME TypeOK, TicketsOnce, NEW w \in Workers, RunReturn(w)
  PROVE  TicketsOnce'
<1>1. /\ wpc[w] = "run" /\ wpc' = [wpc EXCEPT ![w] = "ret"]
      /\ done' = done \cup {job[w]} /\ job' = [job EXCEPT ![w] = 0]
      /\ m_tasksQueue' = m_tasksQueue /\ issued' = issued
  BY DEF RunReturn, Step
<1>2. job[w] \in 1 .. Taken /\ Taken \in Nat /\ Taken' = Taken
  BY <1>1 DEF TypeOK, TicketsOnce, Taken, Holding
<1>3. job'[w] = 0 /\ \A v \in Workers : v # w => job'[v] = job[v]
  BY <1>1 DEF TypeOK
<1>4. \A v \in Workers : wpc'[v] \in Holding <=> job'[v] # 0
  BY <1>1, <1>3 DEF TypeOK, TicketsOnce, Holding
<1>5. \A t \in 1 .. Taken' : t \in done' \/ \E v \in Workers : job'[v] = t
  BY <1>1, <1>2, <1>3 DEF TicketsOnce
<1>6. \A v \in Workers : job'[v] \notin done' /\ job'[v] <= Taken'
  <2> SUFFICES ASSUME NEW v \in Workers PROVE job'[v] \notin done' /\ job'[v] <= Taken'
    OBVIOUS
  <2>1. CASE v = w
    BY <1>1, <1>2, <1>3, <2>1 DEF TicketsOnce
  <2>2. CASE v # w
    BY <1>1, <1>2, <1>3, <2>2 DEF TicketsOnce
  <2> QED BY <2>1, <2>2
<1>7. done' \subseteq 1 .. Taken'
  BY <1>1, <1>2 DEF TicketsOnce
<1> QED BY <1>1, <1>2, <1>3, <1>4, <1>5, <1>6, <1>7 DEF TicketsOnce

LEMMA TicketsCallStep ==
  ASSUME TypeOK, TicketsOnce, NEW p \in Callers, CallStep(p)
  PROVE  TicketsOnce'
<1>1. CASE AppendPush(p)
  BY <1>1, TicketsPush
<1>2. CASE AppendNotify(p) \/ StopNotify(p) \/ StopLock(p)
  <2>1. UNCHANGED <<m_tasksQueue, issued, done, job>> /\ wpc' = WorkersNotified
    BY <1>2 DEF AppendNotify, StopNotify, StopLock, history
  <2> QED BY <2>1, NotifiedHolding, TicketsFrame
<1>3. CASE StartRun(p)
  <2>1. /\ UNCHANGED <<m_tasksQueue, issued, done, job>>
        /\ CanStart(m_threadsContainer') /\ wpc' = Started(wpc, m_threadsContainer')
    BY <1>3 DEF StartRun, history
  <2>2. \A w \in Workers : wpc'[w] = wpc[w] \/ (wpc'[w] = "acquire" /\ wpc[w] = "none")
    BY <2>1, StartedType DEF TypeOK
  <2>3. \A w \in Workers : wpc'[w] \in Holding <=> wpc[w] \in Holding
    BY <2>2 DEF Holding
  <2> QED BY <2>1, <2>3, TicketsFrame
<1>4. CASE AppendFull(p) \/ AppendTimeout(p) \/ AppendFail(p) \/ StartLoadRunning(p)
  BY <1>4, TicketsFrame DEF AppendFull, AppendTimeout, AppendFail, StartLoadRunning, history
<1>5. CASE StartCheckEmpty(p) \/ StartSize(p) \/ StopStore(p)
  BY <1>5, TicketsFrame DEF StartCheckEmpty, StartSize, StopStore, history
<1>6. CASE StopExitCheck(p) \/ SetStore(p)
  BY <1>6, TicketsFrame DEF StopExitCheck, SetStore, history
<1> QED BY <1>1, <1>2, <1>3, <1>4, <1>5, <1>6 DEF CallStep

LEMMA TicketsWorker ==
  ASSUME TypeOK, TicketsOnce, NEW w \in Workers, WorkerStep(w)
  PROVE  TicketsOnce'
<1>1. CASE AcquireTake(w)
  BY <1>1, TicketsTake
<1>2. CASE RunReturn(w)
  BY <1>2, TicketsReturn
<1>3. CASE AcquireEmpty(w) \/ AcquireWait(w) \/ AcquireTimeout(w)
  <2>1. /\ UNCHANGED <<m_tasksQueue, issued, done, job>>
        /\ \A v \in Workers : wpc'[v] \in Holding <=> wpc[v] \in Holding
    BY <1>3 DEF AcquireEmpty, AcquireWait, AcquireTimeout, Step, TypeOK,
                Holding, history
  <2> QED BY <2>1, TicketsFrame
<1>4. CASE RunBusy(w) \/ RunIdle(w)
  <2>1. /\ UNCHANGED <<m_tasksQueue, issued, done, job>>
        /\ \A v \in Workers : wpc'[v] \in Holding <=> wpc[v] \in Holding
    BY <1>4 DEF RunBusy, RunIdle, Step, TypeOK, Holding, history
  <2> QED BY <2>1, TicketsFrame
<1>5. CASE RunErase(w) \/ RunUncount(w) \/ RunExitNotify(w)
  <2>1. /\ UNCHANGED <<m_tasksQueue, issued, done, job>>
        /\ \A v \in Workers : wpc'[v] \in Holding <=> wpc[v] \in Holding
    BY <1>5 DEF RunErase, RunUncount, RunExitNotify, Step, TypeOK, Holding, history
  <2> QED BY <2>1, TicketsFrame
<1> QED BY <1>1, <1>2, <1>3, <1>4, <1>5 DEF WorkerStep

(* No accepted join is lost, run twice or taken out of order, in any interleaving
   of joins, starts, stops, destruction and worker steps. *)
THEOREM TicketsNeverLost == Spec => []TicketsOnce
<1>1. Init => TicketsOnce
  <2> SUFFICES ASSUME Init PROVE TicketsOnce
    OBVIOUS
  <2>1. m_tasksQueue = <<>> /\ issued = 0 /\ done = {}
    BY DEF Init
  <2>3. Len(m_tasksQueue) = 0
    BY <2>1
  <2>4. Taken = 0
    BY <2>1, <2>3, 0 - 0 = 0 DEF Taken
  <2>2. \A w \in Workers : job[w] = 0 /\ wpc[w] = "none"
    BY DEF Init
  <2> QED BY <2>1, <2>2, <2>3, <2>4 DEF TicketsOnce, Holding
<1>2. TypeOK /\ TicketsOnce /\ [Next]_vars => TicketsOnce'
  <2> SUFFICES ASSUME TypeOK, TicketsOnce, [Next]_vars PROVE TicketsOnce'
    OBVIOUS
  <2>1. ASSUME NEW p \in Callers, CallBegin(p) PROVE TicketsOnce'
    <3>1. UNCHANGED <<m_tasksQueue, issued, done, job, wpc>>
      BY <2>1 DEF CallBegin, RunnableJoin, StartCall, StopCall, SetCall
    <3> QED BY <3>1, TicketsFrame
  <2>2. CASE UNCHANGED vars
    BY <2>2, TicketsFrame DEF vars, history
  <2> QED BY <2>1, <2>2, TicketsCallStep, TicketsWorker DEF Next, Quiescent
<1> QED BY <1>1, <1>2, TypeCorrect, PTL DEF Spec

-----------------------------------------------------------------------------
(* How many workers are where *)
At(pcs, P) == {w \in Workers : pcs[w] \in P}

LEMMA AtFinite ==
  ASSUME NEW pcs, NEW P
  PROVE  IsFiniteSet(At(pcs, P)) /\ Cardinality(At(pcs, P)) \in Nat
<1>1. IsFiniteSet(Workers)
  BY PoolAssumption, FS_Product DEF Workers
<1>2. At(pcs, P) \in SUBSET Workers
  BY DEF At
<1> QED BY <1>1, <1>2, FS_Subset, FS_CardinalityType

(* A worker that goes from one place to another leaves the one count and enters the other. *)
LEMMA OneMoves ==
  ASSUME NEW pcs \in [Workers -> WorkerPCs], NEW w \in Workers, NEW to, NEW P
  PROVE  Cardinality(At([pcs EXCEPT ![w] = to], P)) =
           Cardinality(At(pcs, P)) - (IF pcs[w] \in P THEN 1 ELSE 0) + (IF to \in P THEN 1 ELSE 0)
<1> DEFINE Others == At(pcs, P) \ {w}
<1>1. IsFiniteSet(At(pcs, P)) /\ Cardinality(At(pcs, P)) \in Nat
  BY AtFinite
<1>2. /\ IsFiniteSet(Others)
      /\ Cardinality(Others) = Cardinality(At(pcs, P)) - (IF pcs[w] \in P THEN 1 ELSE 0)
  BY <1>1, FS_RemoveElement DEF At
<1>3. At([pcs EXCEPT ![w] = to], P) = IF to \in P THEN Others \cup {w} ELSE Others
  BY DEF At
<1>4. w \notin Others
  OBVIOUS
<1>5. Cardinality(Others \cup {w}) = Cardinality(Others) + 1
  BY <1>2, <1>4, FS_AddElement
<1>6. Cardinality(Others) \in Int
  BY <1>1, <1>2
<1> HIDE DEF Others
<1> QED BY <1>2, <1>3, <1>5, <1>6, <1>1

(* A notify_all changes no count: a woken worker is as idle as a waiting one. *)
LEMMA NobodyMoves ==
  ASSUME TypeOK
  PROVE  /\ At(WorkersNotified, Idle) = At(wpc, Idle)
         /\ At(WorkersNotified, Busy) = At(wpc, Busy)
  BY NotifiedType DEF At, Idle, Busy

(* Starting the threads S makes one idle worker for each of them. *)
LEMMA SomeStart ==
  ASSUME TypeOK, NEW pcs \in [Workers -> WorkerPCs], NEW S \in SUBSET ThreadIds, CanStart(S),
         \A w \in Workers : wpc[w] = "none" => pcs[w] = "none"
  PROVE  /\ Cardinality(At(Started(pcs, S), Idle)) = Cardinality(At(pcs, Idle)) + Cardinality(S)
         /\ At(Started(pcs, S), Busy) = At(pcs, Busy)
<1> DEFINE New == {w \in Workers : w[1] \in S /\ w[2] = FreeSlot(w[1])}
           Thread == [i \in S |-> <<i, FreeSlot(i)>>]
<1>1. \A i \in S : FreeSlot(i) \in Slots /\ wpc[<<i, FreeSlot(i)>>] = "none"
  <2> SUFFICES ASSUME NEW i \in S PROVE FreeSlot(i) \in Slots /\ wpc[<<i, FreeSlot(i)>>] = "none"
    OBVIOUS
  <2>1. \E k \in Slots : wpc[<<i, k>>] = "none"
    BY DEF CanStart
  <2> QED BY <2>1 DEF FreeSlot
<1>2. \A w \in New : w \in Workers /\ pcs[w] = "none" /\ w = <<w[1], FreeSlot(w[1])>>
  <2> SUFFICES ASSUME NEW w \in New
               PROVE  w \in Workers /\ pcs[w] = "none" /\ w = <<w[1], FreeSlot(w[1])>>
    OBVIOUS
  <2>1. w \in Workers /\ w[1] \in S /\ w[2] = FreeSlot(w[1])
    OBVIOUS
  <2>2. w = <<w[1], FreeSlot(w[1])>>
    BY <2>1 DEF Workers
  <2> QED BY <1>1, <2>1, <2>2
<1>3. Thread \in Bijection(S, New)
  <2>1. \A i \in S : <<i, FreeSlot(i)>> \in New
    BY <1>1 DEF Workers
  <2>2. Thread \in [S -> New]
    BY <2>1
  <2>3. \A i, j \in S : Thread[i] = Thread[j] => i = j
    OBVIOUS
  <2>4. \A w \in New : \E i \in S : Thread[i] = w
    BY <1>2
  <2> QED BY <2>2, <2>3, <2>4 DEF Bijection, Injection, IsInjective, Surjection
<1>4. IsFiniteSet(New) /\ Cardinality(New) = Cardinality(S)
  <2>1. IsFiniteSet(S)
    BY PoolAssumption, FS_Subset
  <2>2. ExistsBijection(S, New)
    BY <1>3 DEF ExistsBijection
  <2> HIDE DEF New
  <2> QED BY <2>1, <2>2, FS_Bijection
<1>5. At(Started(pcs, S), Idle) = At(pcs, Idle) \cup New /\ At(pcs, Idle) \cap New = {}
  BY <1>2 DEF At, Started, Idle
<1>6. At(Started(pcs, S), Busy) = At(pcs, Busy)
  BY <1>2 DEF At, Started, Busy
<1>7. IsFiniteSet(At(pcs, Idle)) /\ Cardinality(At(pcs, Idle)) \in Nat
  BY AtFinite
<1>8. Cardinality({}) = 0
  BY FS_EmptySet
<1>9. Cardinality(New) \in Nat
  BY <1>4, FS_CardinalityType
<1> HIDE DEF New
<1>10. Cardinality(At(pcs, Idle) \cap New) = 0
  BY <1>5, <1>8, Zenon
<1>11. Cardinality(At(pcs, Idle) \cup New) = Cardinality(At(pcs, Idle)) + Cardinality(New)
  <2>1. Cardinality(At(pcs, Idle) \cup New)
          = Cardinality(At(pcs, Idle)) + Cardinality(New) - Cardinality(At(pcs, Idle) \cap New)
    BY <1>4, <1>7, FS_Union, Zenon
  <2> QED BY <1>7, <1>9, <1>10, <2>1
<1> QED BY <1>4, <1>5, <1>6, <1>11

-----------------------------------------------------------------------------
(* The counters.  Two concurrent start() can start a thread object twice, which is
   counted once (see README, Disagreements), so what follows is about programs in which
   one thread joins and starts; others may stop the pool and set its limits, and tasks
   may join tasks. *)
OneStarter ==
  \A c, d \in Clients :
    ClientOps[c] \cap {"join", "start"} # {} /\ ClientOps[d] \cap {"join", "start"} # {} => c = d

Starting == {"startsize", "startrun"}
FoundStopped == {"startcheck"} \cup Starting
Submitting == {"append", "fullwait", "lastcheck", "appended", "start"} \cup FoundStopped

(* a thread that has not left is in the container, and each thread object has one *)
InContainer ==
  /\ \A w \in Workers : wpc[w] \notin Gone => w[1] \in m_threadsContainer
  /\ \A v, w \in Workers : v[1] = w[1] /\ wpc[v] \notin Gone /\ wpc[w] \notin Gone => v = w

(* a task that joins is being run, so the start() that follows finds a busy thread *)
NestedCalls ==
  \A w \in Workers : cpc[w] # "idle" => wpc[w] = "run" /\ cpc[w] \notin Starting

(* nobody runs the pool behind a start() that found it stopped and empty *)
StarterAlone ==
  \A c \in Clients :
    /\ cpc[c] \in Submitting => ClientOps[c] \cap {"join", "start"} # {}
    /\ cpc[c] \in FoundStopped => ~m_isPoolRunning
    /\ cpc[c] \in Starting => m_threadsContainer = {}

CounterInv == CountersExact /\ InContainer /\ NestedCalls /\ StarterAlone

LEMMA CountFrame ==
  ASSUME CountersExact, UNCHANGED counters,
         At(wpc', Idle) = At(wpc, Idle), At(wpc', Busy) = At(wpc, Busy)
  PROVE  CountersExact'
  BY DEF CountersExact, At, counters

LEMMA ContainerFrame ==
  ASSUME InContainer, UNCHANGED m_threadsContainer,
         \A w \in Workers : wpc'[w] \notin Gone => wpc[w] \notin Gone
  PROVE  InContainer'
  BY DEF InContainer

(* A step in which no caller goes further into start(). *)
LEMMA CallsFrame ==
  ASSUME NestedCalls, StarterAlone,
         m_isPoolRunning' => m_isPoolRunning,
         m_threadsContainer' \subseteq m_threadsContainer,
         \A w \in Workers : wpc[w] = "run" => wpc'[w] = "run" \/ cpc'[w] = "idle",
         \A q \in Callers : \/ cpc'[q] = cpc[q]
                            \/ cpc'[q] \notin Submitting /\ cpc[q] # "idle"
                            \/ cpc[q] \in Submitting /\ cpc'[q] \in Submitting \ FoundStopped
  PROVE  NestedCalls' /\ StarterAlone'
<1>1. NestedCalls'
  BY DEF NestedCalls, Callers, Submitting, FoundStopped, Starting
<1>2. StarterAlone'
  BY DEF StarterAlone, Callers, Submitting, FoundStopped, Starting
<1> QED BY <1>1, <1>2

LEMMA CountCallBegin ==
  ASSUME TypeOK, CounterInv, NEW p \in Callers, CallBegin(p)
  PROVE  CounterInv'
<1>1. UNCHANGED <<m_isPoolRunning, m_threadsContainer, counters, wpc>>
  BY DEF CallBegin, RunnableJoin, StartCall, StopCall, SetCall
<1>2. CountersExact' /\ InContainer'
  BY <1>1, CountFrame, ContainerFrame DEF CounterInv
<1>3. PICK to \in {"append", "start", "stop", "set"} :
        /\ cpc[p] = "idle" /\ cpc' = [cpc EXCEPT ![p] = to]
        /\ p \in Workers => wpc[p] = "run"
        /\ p \in Clients /\ to \in {"append", "start"} => ClientOps[p] \cap {"join", "start"} # {}
  BY PoolAssumption DEF CallBegin, RunnableJoin, StartCall, StopCall, SetCall, MayCall, Goto
<1>4. NestedCalls'
  BY <1>1, <1>3 DEF CounterInv, NestedCalls, TypeOK, Callers, Starting
<1>5. StarterAlone'
  BY <1>1, <1>3 DEF CounterInv, StarterAlone, TypeOK, Callers, Submitting, FoundStopped, Starting
<1> QED BY <1>2, <1>4, <1>5 DEF CounterInv

(* A push adds threads only while the pool runs, and then nobody is in start(). *)
LEMMA CountPush ==
  ASSUME TypeOK, CounterInv, NEW p \in Callers, AppendPush(p)
  PROVE  CounterInv'
<1>1. PICK S \in NewThreads(Growth(Len(m_tasksQueue) + 1)) :
        /\ CanStart(S)
        /\ m_threadsContainer' = m_threadsContainer \cup S
        /\ m_idleThreadsSize' = m_idleThreadsSize + Cardinality(S)
        /\ wpc' = Started(WorkersNotified, S)
  BY DEF AppendPush
<1>2. /\ S \subseteq ThreadIds \ m_threadsContainer
      /\ Cardinality(S) = Growth(Len(m_tasksQueue) + 1)
  BY <1>1 DEF NewThreads
<1>3. IsFiniteSet(S) /\ (Cardinality(S) = 0 => S = {})
  BY <1>2, PoolAssumption, FS_Subset, FS_EmptySet
<1>4. /\ m_busyThreadsSize' = m_busyThreadsSize /\ m_isPoolRunning' = m_isPoolRunning
      /\ cpc[p] \in {"append", "lastcheck"} /\ cpc' = CallersNotified(p, "appended")
  BY DEF AppendPush
<1>5. WorkersNotified \in [Workers -> WorkerPCs]
      /\ \A w \in Workers : wpc[w] = "none" => WorkersNotified[w] = "none"
  BY NotifiedType
<1>6. CountersExact'
  <2>1. /\ Cardinality(At(wpc', Idle)) = Cardinality(At(wpc, Idle)) + Cardinality(S)
        /\ At(wpc', Busy) = At(wpc, Busy)
    BY <1>1, <1>2, <1>5, SomeStart, NobodyMoves
  <2> QED BY <1>1, <1>4, <2>1 DEF CounterInv, CountersExact, At
<1>7. \A w \in Workers : wpc'[w] = IF w[1] \in S /\ w[2] = FreeSlot(w[1]) THEN "acquire"
                                   ELSE WorkersNotified[w]
  BY <1>1 DEF Started
<1>8. InContainer'
  <2>1. \A w \in Workers : w[1] \in S => wpc[w] \in Gone /\ w[1] \notin m_threadsContainer
    BY <1>2 DEF CounterInv, InContainer
  <2>2. \A w \in Workers : wpc'[w] \notin Gone =>
          \/ w[1] \in S /\ w[2] = FreeSlot(w[1])
          \/ w[1] \notin S /\ wpc[w] \notin Gone
    BY <1>7, <2>1, NotifiedType DEF Gone
  <2>3. \A v, w \in Workers : v[1] = w[1] /\ v[2] = w[2] => v = w
    BY DEF Workers
  <2>4. \A w \in Workers : wpc'[w] \notin Gone => w[1] \in m_threadsContainer'
    BY <1>1, <2>2 DEF CounterInv, InContainer
  <2>5. \A v, w \in Workers : v[1] = w[1] /\ wpc'[v] \notin Gone /\ wpc'[w] \notin Gone => v = w
    BY <2>2, <2>3 DEF CounterInv, InContainer
  <2> QED BY <2>4, <2>5 DEF InContainer
<1>9. \A w \in Workers : wpc[w] = "run" => wpc'[w] = "run"
  BY <1>1, <1>5, NotifiedType, StartedType
<1>10. \A q \in Callers : \/ cpc'[q] = cpc[q]
                          \/ cpc[q] \in Submitting /\ cpc'[q] \in Submitting \ FoundStopped
  BY <1>4, CallersNotifiedType DEF CallerPCs, Submitting, FoundStopped, Starting
<1>11. CASE S = {}
  BY <1>1, <1>4, <1>6, <1>8, <1>9, <1>10, <1>11, CallsFrame DEF CounterInv
<1>12. CASE S # {}
  <2>1. m_isPoolRunning
    BY <1>2, <1>3, <1>12 DEF Growth
  <2>2. \A c \in Clients : cpc[c] \notin FoundStopped
    BY <2>1 DEF CounterInv, StarterAlone
  <2>3. NestedCalls'
    BY <1>9, <1>10 DEF CounterInv, NestedCalls, Callers, Submitting, FoundStopped, Starting
  <2>4. StarterAlone'
    BY <1>10, <2>2 DEF CounterInv, StarterAlone, Callers, Submitting, FoundStopped, Starting
  <2> QED BY <1>6, <1>8, <2>3, <2>4 DEF CounterInv
<1> QED BY <1>11, <1>12

LEMMA CountNotifiers ==
  ASSUME TypeOK, CounterInv, NEW p \in Callers, AppendNotify(p) \/ StopNotify(p) \/ StopLock(p)
  PROVE  CounterInv'
<1>1. UNCHANGED <<m_isPoolRunning, m_threadsContainer, counters>> /\ wpc' = WorkersNotified
  BY DEF AppendNotify, StopNotify, StopLock
<1>2. CountersExact'
  BY <1>1, NobodyMoves, CountFrame DEF CounterInv
<1>3. InContainer'
  BY <1>1, NotifiedType, ContainerFrame DEF CounterInv, Gone
<1>4. \A w \in Workers : wpc[w] = "run" => wpc'[w] = "run"
  BY <1>1, NotifiedType
<1>5. \/ cpc[p] = "appended" /\ cpc' = CallersNotified(p, "start")
      \/ cpc[p] = "stopnotify" /\ cpc' = CallersNotified(p, "stoplock")
      \/ cpc[p] = "stoplock" /\ cpc' = CallersNotified(p, AfterExitWait)
  BY DEF AppendNotify, StopNotify, StopLock
<1>6. AfterExitWait \in {"idle", "exitwait"}
  BY DEF AfterExitWait
<1>7. \A q \in Callers : \/ cpc'[q] = cpc[q]
                         \/ cpc'[q] \notin Submitting /\ cpc[q] # "idle"
                         \/ cpc[q] \in Submitting /\ cpc'[q] \in Submitting \ FoundStopped
  <2>1. PICK to \in {"start", "stoplock", "idle", "exitwait"} :
          /\ cpc' = CallersNotified(p, to)
          /\ \/ cpc[p] = "appended" /\ to = "start"
             \/ cpc[p] \in Stopping /\ to # "start"
    <3>1. CASE cpc[p] = "appended" /\ cpc' = CallersNotified(p, "start")
      BY <3>1
    <3>2. CASE cpc[p] = "stopnotify" /\ cpc' = CallersNotified(p, "stoplock")
      BY <3>2 DEF Stopping
    <3>3. CASE cpc[p] = "stoplock" /\ cpc' = CallersNotified(p, AfterExitWait)
      BY <1>6, <3>3 DEF Stopping
    <3> QED BY <1>5, <3>1, <3>2, <3>3
  <2>2. \A q \in Callers : cpc'[q] = IF q = p THEN to
                                     ELSE IF cpc[q] = "fullwait" THEN "append" ELSE cpc[q]
    BY <2>1, CallersNotifiedType DEF CallerPCs
  <2> QED BY <2>1, <2>2 DEF Submitting, FoundStopped, Starting, Stopping
<1>8. NestedCalls' /\ StarterAlone'
  BY <1>1, <1>4, <1>7, CallsFrame DEF CounterInv
<1> QED BY <1>2, <1>3, <1>8 DEF CounterInv

LEMMA CountStart ==
  ASSUME OneStarter, TypeOK, CounterInv, NEW p \in Callers,
         StartLoadRunning(p) \/ StartCheckEmpty(p) \/ StartSize(p) \/ StopStore(p)
  PROVE  CounterInv'
<1>1. UNCHANGED <<m_threadsContainer, counters, wpc>>
  BY DEF StartLoadRunning, StartCheckEmpty, StartSize, StopStore
<1>2. CountersExact' /\ InContainer'
  BY <1>1, CountFrame, ContainerFrame DEF CounterInv
<1>3. CASE StartLoadRunning(p)
  <2>1. /\ m_isPoolRunning' = m_isPoolRunning /\ cpc[p] = "start"
        /\ cpc' = [cpc EXCEPT ![p] = IF m_isPoolRunning THEN "idle" ELSE "startcheck"]
    BY <1>3 DEF StartLoadRunning, Goto
  <2>2. NestedCalls'
    BY <1>1, <2>1 DEF CounterInv, NestedCalls, TypeOK, Callers, Starting
  <2>3. StarterAlone'
    BY <1>1, <2>1 DEF CounterInv, StarterAlone, TypeOK, Callers, Submitting, FoundStopped, Starting
  <2> QED BY <1>2, <2>2, <2>3 DEF CounterInv
<1>4. CASE StartCheckEmpty(p)
  <2>1. /\ m_isPoolRunning' = m_isPoolRunning /\ cpc[p] = "startcheck"
        /\ cpc' = [cpc EXCEPT ![p] = IF LeftOfEarlierRun THEN "idle" ELSE "startsize"]
    BY <1>4 DEF StartCheckEmpty, Goto
  <2>2. ASSUME p \in Workers PROVE LeftOfEarlierRun
    <3>1. p \in At(wpc, Busy)
      BY <2>1, <2>2 DEF CounterInv, NestedCalls, At, Busy
    <3>2. Cardinality(At(wpc, Busy)) \in Nat \ {0}
      BY <3>1, AtFinite, FS_EmptySet
    <3> QED BY <3>2 DEF LeftOfEarlierRun, CounterInv, CountersExact, At
  <2>3. NestedCalls'
    BY <1>1, <2>1, <2>2 DEF CounterInv, NestedCalls, TypeOK, Callers, Starting
  <2>4. ~LeftOfEarlierRun => m_threadsContainer = {}
    BY DEF LeftOfEarlierRun
  <2>5. StarterAlone'
    BY <1>1, <2>1, <2>4
    DEF CounterInv, StarterAlone, TypeOK, Callers, Submitting, FoundStopped, Starting
  <2> QED BY <1>2, <2>3, <2>5 DEF CounterInv
<1>5. CASE StartSize(p)
  <2>1. /\ m_isPoolRunning' = m_isPoolRunning /\ cpc[p] = "startsize"
        /\ cpc' = [cpc EXCEPT ![p] = "startrun"]
    BY <1>5 DEF StartSize, Goto
  <2>2. NestedCalls'
    BY <1>1, <2>1 DEF CounterInv, NestedCalls, TypeOK, Callers, Starting
  <2>3. StarterAlone'
    BY <1>1, <2>1 DEF CounterInv, StarterAlone, TypeOK, Callers, Submitting, FoundStopped, Starting
  <2> QED BY <1>2, <2>2, <2>3 DEF CounterInv
<1>6. CASE StopStore(p)
  <2>1. ~m_isPoolRunning' /\ cpc[p] = "stop" /\ cpc' = [cpc EXCEPT ![p] = "stopnotify"]
    BY <1>6 DEF StopStore, Goto
  <2>2. NestedCalls'
    BY <1>1, <2>1 DEF CounterInv, NestedCalls, TypeOK, Callers, Starting
  <2>3. StarterAlone'
    BY <1>1, <2>1 DEF CounterInv, StarterAlone, TypeOK, Callers, Submitting, FoundStopped, Starting
  <2> QED BY <1>2, <2>2, <2>3 DEF CounterInv
<1> QED BY <1>3, <1>4, <1>5, <1>6

(* The thread that starts the pool found nothing of an earlier run, and nobody has
   added a thread since: every thread of the container is started once. *)
LEMMA CountStartRun ==
  ASSUME OneStarter, TypeOK, CounterInv, NEW p \in Callers, StartRun(p)
  PROVE  CounterInv'
<1>1. cpc[p] = "startrun" /\ cpc' = [cpc EXCEPT ![p] = "idle"] /\ UNCHANGED m_busyThreadsSize
  BY DEF StartRun, Goto
<1>2. p \in Clients /\ p \notin Workers /\ m_threadsContainer = {}
  BY <1>1 DEF CounterInv, NestedCalls, StarterAlone, Callers, FoundStopped, Starting
<1>3. PICK S \in NewThreads(thSize[p]) :
        /\ m_threadsContainer' = S /\ CanStart(S)
        /\ m_idleThreadsSize' = m_idleThreadsSize + Cardinality(S)
        /\ wpc' = Started(wpc, S)
  <2>1. PICK S \in NewThreads(thSize[p]) :
          /\ m_threadsContainer' = m_threadsContainer \cup S
          /\ CanStart(m_threadsContainer')
          /\ m_idleThreadsSize' = m_idleThreadsSize + Cardinality(S)
          /\ wpc' = Started(wpc, m_threadsContainer')
    BY DEF StartRun
  <2>2. m_threadsContainer' = S
    BY <1>2, <2>1
  <2> QED BY <2>1, <2>2
<1>4. S \subseteq ThreadIds
  BY <1>3 DEF NewThreads
<1>5. CountersExact'
  <2>1. /\ Cardinality(At(wpc', Idle)) = Cardinality(At(wpc, Idle)) + Cardinality(S)
        /\ At(wpc', Busy) = At(wpc, Busy)
    BY <1>3, <1>4, SomeStart DEF TypeOK
  <2> QED BY <1>1, <1>3, <2>1 DEF CounterInv, CountersExact, At
<1>6. InContainer'
  <2>1. \A w \in Workers : wpc[w] \in Gone
    BY <1>2 DEF CounterInv, InContainer
  <2>2. \A w \in Workers : wpc'[w] \notin Gone => w[1] \in S /\ w[2] = FreeSlot(w[1])
    BY <1>3, <2>1 DEF Started
  <2>3. \A v, w \in Workers : v[1] = w[1] /\ v[2] = w[2] => v = w
    BY DEF Workers
  <2> QED BY <1>3, <2>2, <2>3 DEF InContainer
<1>7. NestedCalls'
  <2>1. \A w \in Workers : wpc[w] = "run" => wpc'[w] = "run"
    BY <1>3, StartedType DEF TypeOK
  <2> QED BY <1>1, <1>2, <2>1 DEF CounterInv, NestedCalls, TypeOK, Callers
<1>8. StarterAlone'
  <2>1. \A c \in Clients : cpc'[c] \notin FoundStopped
    BY <1>1, <1>2 DEF OneStarter, CounterInv, StarterAlone, TypeOK, Callers, Submitting,
                      FoundStopped, Starting
  <2>2. \A c \in Clients : cpc'[c] \in Submitting => ClientOps[c] \cap {"join", "start"} # {}
    BY <1>1 DEF CounterInv, StarterAlone, TypeOK, Callers, Submitting, FoundStopped, Starting
  <2> QED BY <2>1, <2>2 DEF StarterAlone, FoundStopped
<1> QED BY <1>5, <1>6, <1>7, <1>8 DEF CounterInv

LEMMA CountOtherCalls ==
  ASSUME TypeOK, CounterInv, NEW p \in Callers,
         \/ AppendFull(p) \/ AppendTimeout(p) \/ AppendFail(p) \/ StopExitCheck(p) \/ SetStore(p)
  PROVE  CounterInv'
<1>1. UNCHANGED <<m_isPoolRunning, m_threadsContainer, counters, wpc>>
  BY DEF AppendFull, AppendTimeout, AppendFail, StopExitCheck, SetStore
<1>2. CountersExact' /\ InContainer'
  BY <1>1, CountFrame, ContainerFrame DEF CounterInv
<1>3. PICK to \in {"fullwait", "lastcheck", "start", "idle", "exitwait"} :
        /\ cpc' = [cpc EXCEPT ![p] = to]
        /\ \/ cpc[p] \in Submitting /\ to \in Submitting \ FoundStopped
           \/ cpc[p] \in {"exitcheck", "set"} /\ to \in {"idle", "exitwait"}
  BY DEF AppendFull, AppendTimeout, AppendFail, StopExitCheck, SetStore, Goto, AfterExitWait,
         Submitting, FoundStopped, Starting
<1>4. \A q \in Callers : \/ cpc'[q] = cpc[q]
                         \/ cpc'[q] \notin Submitting /\ cpc[q] # "idle"
                         \/ cpc[q] \in Submitting /\ cpc'[q] \in Submitting \ FoundStopped
  BY <1>3 DEF TypeOK, Submitting, FoundStopped, Starting
<1>5. NestedCalls' /\ StarterAlone'
  BY <1>1, <1>4, CallsFrame DEF CounterInv
<1> QED BY <1>2, <1>5 DEF CounterInv

LEMMA CountWorker ==
  ASSUME TypeOK, CounterInv, NEW w \in Workers, WorkerStep(w)
  PROVE  CounterInv'
<1>1. m_isPoolRunning' = m_isPoolRunning
  BY DEF WorkerStep, AcquireTake, AcquireEmpty, AcquireWait, AcquireTimeout,
         RunBusy, RunReturn, RunIdle, RunErase, RunUncount, RunExitNotify
<1>2. \/ UNCHANGED m_threadsContainer
      \/ RunErase(w)
  BY DEF WorkerStep, AcquireTake, AcquireEmpty, AcquireWait, AcquireTimeout,
         RunBusy, RunReturn, RunIdle, RunUncount, RunExitNotify
<1>3. \A q \in Callers : \/ cpc'[q] = cpc[q]
                         \/ cpc[q] = "fullwait" /\ cpc'[q] = "append"
                         \/ cpc[q] = "exitwait" /\ cpc'[q] = "exitcheck"
  BY DEF WorkerStep, AcquireTake, AcquireEmpty, AcquireWait, AcquireTimeout,
         RunBusy, RunReturn, RunIdle, RunErase, RunUncount, RunExitNotify
<1> DEFINE pcs == IF AcquireTake(w) THEN WorkersNotified ELSE wpc
<1>4. /\ pcs \in [Workers -> WorkerPCs]
      /\ At(pcs, Idle) = At(wpc, Idle) /\ At(pcs, Busy) = At(wpc, Busy)
      /\ \A v \in Workers : /\ pcs[v] \in Gone <=> wpc[v] \in Gone
                            /\ wpc[v] = "run" <=> pcs[v] = "run"
  BY NotifiedType, NobodyMoves DEF TypeOK, Gone
<1>5. PICK to \in WorkerPCs :
        /\ wpc' = [pcs EXCEPT ![w] = to]
        /\ (pcs[w] \in Gone => to \in Gone)
        /\ (pcs[w] = "run" => cpc'[w] = "idle")
        /\ m_idleThreadsSize' = m_idleThreadsSize - (IF pcs[w] \in Idle THEN 1 ELSE 0)
                                                  + (IF to \in Idle THEN 1 ELSE 0)
        /\ m_busyThreadsSize' = m_busyThreadsSize - (IF pcs[w] \in Busy THEN 1 ELSE 0)
                                                  + (IF to \in Busy THEN 1 ELSE 0)
  <2>0. m_idleThreadsSize \in Int /\ m_busyThreadsSize \in Int
    BY DEF TypeOK
  <2>1. CASE AcquireTake(w)
    <3>1. pcs = WorkersNotified /\ pcs[w] = "acquire" /\ UNCHANGED counters
          /\ wpc' = [pcs EXCEPT ![w] = "got"]
      BY <2>1, NotifiedType DEF AcquireTake
    <3> QED BY <2>0, <3>1 DEF Gone, Idle, Busy, WorkerPCs, counters
  <2>2. CASE ~AcquireTake(w)
    <3>1. pcs = wpc
      BY <2>2
    <3> HIDE DEF pcs
    <3>2. CASE AcquireEmpty(w) \/ AcquireWait(w) \/ AcquireTimeout(w)
      <4>1. PICK to \in {"towait", "wait", "acquire", "expired", "exit"} :
              /\ wpc[w] \in {"acquire", "towait", "wait", "expired"}
              /\ wpc' = [wpc EXCEPT ![w] = to] /\ UNCHANGED counters
        BY <3>2 DEF AcquireEmpty, AcquireWait, AcquireTimeout, Step
      <4>2. /\ to \in WorkerPCs /\ to \in Idle /\ to \notin Busy /\ pcs[w] \notin Gone \cup {"run"}
            /\ pcs[w] \in Idle /\ pcs[w] \notin Busy
        BY <3>1, <4>1 DEF Gone, Idle, Busy, WorkerPCs
      <4>3. wpc' = [pcs EXCEPT ![w] = to]
        BY <3>1, <4>1
      <4>4. m_idleThreadsSize' = m_idleThreadsSize - (IF pcs[w] \in Idle THEN 1 ELSE 0)
                                                   + (IF to \in Idle THEN 1 ELSE 0)
        BY <2>0, <4>1, <4>2 DEF counters
      <4>5. m_busyThreadsSize' = m_busyThreadsSize - (IF pcs[w] \in Busy THEN 1 ELSE 0)
                                                   + (IF to \in Busy THEN 1 ELSE 0)
        BY <2>0, <4>1, <4>2 DEF counters
      <4>6. pcs[w] \notin Gone /\ pcs[w] # "run"
        BY <4>2
      <4> QED BY <4>2, <4>3, <4>4, <4>5, <4>6, Zenon
    <3>3. CASE RunBusy(w) \/ RunIdle(w)
      BY <2>0, <3>1, <3>3 DEF RunBusy, RunIdle, Step, Gone, Idle, Busy, WorkerPCs
    <3>4. CASE RunReturn(w)
      BY <2>0, <3>1, <3>4 DEF RunReturn, Step, Gone, Idle, Busy, WorkerPCs, counters
    <3>5. CASE RunErase(w) \/ RunUncount(w)
      BY <2>0, <3>1, <3>5 DEF RunErase, RunUncount, Step, Gone, Idle, Busy, WorkerPCs, counters
    <3>6. CASE RunExitNotify(w)
      BY <2>0, <3>1, <3>6 DEF RunExitNotify, Step, Gone, Idle, Busy, WorkerPCs, counters
    <3> QED BY <2>2, <3>2, <3>3, <3>4, <3>5, <3>6 DEF WorkerStep
  <2> QED BY <2>1, <2>2
<1> HIDE DEF pcs
<1>6. CountersExact'
  <2>1. \A P : Cardinality(At([pcs EXCEPT ![w] = to], P)) = Cardinality(At(pcs, P))
                 - (IF pcs[w] \in P THEN 1 ELSE 0) + (IF to \in P THEN 1 ELSE 0)
    BY <1>4, OneMoves
  <2>2. Cardinality(At(wpc', Idle)) = Cardinality(At(wpc, Idle))
          - (IF pcs[w] \in Idle THEN 1 ELSE 0) + (IF to \in Idle THEN 1 ELSE 0)
    BY <1>4, <1>5, <2>1
  <2>3. Cardinality(At(wpc', Busy)) = Cardinality(At(wpc, Busy))
          - (IF pcs[w] \in Busy THEN 1 ELSE 0) + (IF to \in Busy THEN 1 ELSE 0)
    BY <1>4, <1>5, <2>1
  <2> QED BY <1>5, <2>2, <2>3 DEF CounterInv, CountersExact, At
<1>7. \A v \in Workers : wpc'[v] \notin Gone => wpc[v] \notin Gone
  BY <1>4, <1>5
<1>8. InContainer'
  <2>1. CASE UNCHANGED m_threadsContainer
    BY <1>7, <2>1, ContainerFrame DEF CounterInv
  <2>2. CASE RunErase(w)
    <3>1. /\ wpc[w] = "exit" /\ wpc' = [wpc EXCEPT ![w] = "erased"]
          /\ m_threadsContainer' = m_threadsContainer \ {w[1]}
      BY <2>2 DEF RunErase, Step
    <3>2. \A v \in Workers : wpc'[v] \notin Gone => v # w /\ wpc[v] \notin Gone /\ v[1] # w[1]
      BY <3>1 DEF CounterInv, InContainer, TypeOK, Gone
    <3> QED BY <3>1, <3>2 DEF CounterInv, InContainer
  <2> QED BY <1>2, <2>1, <2>2
<1>9. m_threadsContainer' \subseteq m_threadsContainer
  BY <1>2 DEF RunErase
<1>10. \A v \in Workers : wpc[v] = "run" => wpc'[v] = "run" \/ cpc'[v] = "idle"
  BY <1>4, <1>5
<1>11. NestedCalls' /\ StarterAlone'
  <2>1. \A q \in Callers : \/ cpc'[q] = cpc[q]
                           \/ cpc'[q] \notin Submitting /\ cpc[q] # "idle"
                           \/ cpc[q] \in Submitting /\ cpc'[q] \in Submitting \ FoundStopped
    BY <1>3 DEF Submitting, FoundStopped, Starting
  <2> QED BY <1>1, <1>9, <1>10, <2>1, CallsFrame DEF CounterInv
<1> QED BY <1>6, <1>8, <1>11 DEF CounterInv

LEMMA CountersInductive ==
  ASSUME OneStarter
  PROVE  Spec => []CounterInv
<1>1. Init => CounterInv
  <2> SUFFICES ASSUME Init PROVE CounterInv
    OBVIOUS
  <2>1. /\ \A w \in Workers : wpc[w] = "none" /\ cpc[w] = "idle"
        /\ \A c \in Clients : cpc[c] = "idle"
        /\ m_idleThreadsSize = 0 /\ m_busyThreadsSize = 0
    BY DEF Init, Callers
  <2>2. {w \in Workers : wpc[w] \in Idle} = {} /\ {w \in Workers : wpc[w] \in Busy} = {}
    BY <2>1 DEF Idle, Busy
  <2>3. CountersExact
    BY <2>1, <2>2, FS_EmptySet DEF CountersExact
  <2> QED BY <2>1, <2>3 DEF CounterInv, InContainer, NestedCalls, StarterAlone, Gone, Submitting,
                           FoundStopped, Starting
<1>2. TypeOK /\ CounterInv /\ [Next]_vars => CounterInv'
  <2> SUFFICES ASSUME TypeOK, CounterInv, [Next]_vars PROVE CounterInv'
    OBVIOUS
  <2>1. ASSUME NEW p \in Callers, CallStep(p) PROVE CounterInv'
    BY <2>1, CountPush, CountNotifiers, CountStart, CountStartRun, CountOtherCalls DEF CallStep
  <2>2. CASE UNCHANGED vars
    BY <2>2 DEF vars, counters, CounterInv, CountersExact, InContainer, NestedCalls, StarterAlone
  <2> QED BY <2>1, <2>2, CountCallBegin, CountWorker DEF Next, Quiescent
<1> QED BY <1>1, <1>2, TypeCorrect, PTL DEF Spec

(* The counters that start() and the growth of append() decide by are exact after every
   step, so neither is ever negative, if one thread joins and starts. *)
THEOREM CountersAlwaysExact ==
  ASSUME OneStarter
  PROVE  Spec => []CountersExact
<1>1. CounterInv => CountersExact
  BY DEF CounterInv
<1> QED BY <1>1, CountersInductive, PTL

(* Only a stop() that saw the container empty under m_mtx makes its caller go on. *)
LEMMA StopSawItEmpty ==
  ASSUME TypeOK, Next, NEW p \in Callers, StopReturns(p)
  PROVE  m_threadsContainer = {}
<1>1. cpc[p] \in {"stoplock", "exitcheck"} /\ cpc'[p] = "idle"
  BY DEF StopReturns
<1>2. ASSUME NEW q \in Callers, CallBegin(q) PROVE FALSE
  BY <1>1, <1>2 DEF CallBegin, RunnableJoin, StartCall, StopCall, SetCall, MayCall, Goto, TypeOK
<1>3. ASSUME NEW q \in Callers, CallStep(q) PROVE m_threadsContainer = {}
  <2>1. CASE q # p
    <3>1. cpc'[p] = cpc[p]
      BY <1>1, <1>3, <2>1 DEF CallStep, AppendPush, AppendFull, AppendTimeout, AppendFail,
        AppendNotify, StartLoadRunning, StartCheckEmpty, StartSize, StartRun, StopStore,
        StopNotify, StopLock, StopExitCheck, SetStore, Goto, CallersNotified, TypeOK
    <3> QED BY <1>1, <3>1
  <2>2. CASE q = p
    <3>1. StopLock(p) \/ StopExitCheck(p)
      BY <1>1, <1>3, <2>2 DEF CallStep, AppendPush, AppendFull, AppendTimeout, AppendFail,
        AppendNotify, StartLoadRunning, StartCheckEmpty, StartSize, StartRun, StopStore,
        StopNotify, SetStore, Goto
    <3>2. cpc'[p] = AfterExitWait
      BY <3>1 DEF StopLock, StopExitCheck, CallersNotified, Goto, TypeOK
    <3> QED BY <1>1, <3>2 DEF AfterExitWait
  <2> QED BY <2>1, <2>2
<1>4. ASSUME NEW w \in Workers, WorkerStep(w) PROVE FALSE
  BY <1>1, <1>4 DEF WorkerStep, AcquireTake, AcquireEmpty, AcquireWait, AcquireTimeout,
    RunBusy, RunReturn, RunIdle, RunErase, RunUncount, RunExitNotify
<1>5. CASE Quiescent
  BY <1>1, <1>5 DEF Quiescent, vars
<1> QED BY <1>2, <1>3, <1>4, <1>5 DEF Next

(* No thread of the pool is anywhere near the queue or a task when stop() or the
   destructor returns, if one thread joins and starts. *)
THEOREM StopAlwaysMeansQuiet ==
  ASSUME OneStarter
  PROVE  Spec => StopMeansQuiet
<1>1. TypeOK /\ CounterInv /\ [Next]_vars =>
        [\A p \in Callers : StopReturns(p) => \A w \in Workers : wpc[w] \in Gone]_vars
  BY StopSawItEmpty DEF CounterInv, InContainer
<1> QED BY <1>1, CountersInductive, TypeCorrect, PTL DEF Spec, StopMeansQuiet
=============================================================================
