------------------------------ MODULE XResult ------------------------------
(***************************************************************************)
(* One task object (XAbstractRunnable), its result (XResult) and the pools *)
(* it is joined to: xabstractrunnable.cpp, xresult.cpp and the part of     *)
(* append() that claims the task (xthreadpool.cpp).                        *)
(*                                                                         *)
(* A pool is the number of times its queue holds the task; its threads and *)
(* its growth are module XThreadPool's.  The value of a run is the number  *)
(* of the run.  std::promise is modelled by its shared states: each one is *)
(* Unset, Broken or the value it was given.  result() is noexcept inside   *)
(* get_, try_get_ and get_for_, so a future_error there ends the program.  *)
(***************************************************************************)
EXTENDS Integers, Sequences, FiniteSets

CONSTANTS
  Clients,     \* threads that join the task and ask for its result
  ClientOps,   \* [Clients -> SUBSET {"join", "get", "try_get", "get_for", "get_until"}]
  Disciplined, \* TRUE iff a client asks for a result only while its last join has one to
               \* come, and joins again only when it has it
  Pools, Workers,
  PoolOf,      \* the pool of each worker thread
  QueueFull,   \* TRUE iff a join may find the queue full for one second
  MaxJoins,    \* bound: joins that are started
  MaxGets,     \* bound: calls of result()
  NoPool       \* m_owner when it is null

ASSUME ResultAssumption ==
  /\ ClientOps \in [Clients -> SUBSET {"join", "get", "try_get", "get_for", "get_until"}]
  /\ Disciplined \in BOOLEAN /\ QueueFull \in BOOLEAN
  /\ PoolOf \in [Workers -> Pools]
  /\ MaxJoins \in Nat /\ MaxGets \in Nat
  /\ NoPool \notin Pools

Unset  == 0
Broken == -1

VARIABLES
  m_owner,      \* the pool the task says it belongs to
  m_is_running, \* the pool whose m_isPoolRunning the task's is_Running() reads, or NoPool
  queued,       \* how often each pool's queue holds the task
  m_recall_, m_allow_get_,
  m_bin_sem_,   \* permits
  shared,       \* the shared states of the promises so far; m_result_ owns the last one
  retrieved,    \* the shared states whose future was taken
  wpc, run,     \* where each worker is in call(), and the number of its run
  cpc, pool, fut, op, \* where each client is, its pool or shared state, its operation
  joins, pushes, runs, gets, \* joins begun, joins accepted, runs, calls of result()
  last, received,    \* history: the run each client's last join asked for; its last result
  delivered,    \* history: the results that were returned
  terminated    \* std::terminate was called

flags  == <<m_recall_, m_allow_get_, m_bin_sem_>>
result == <<flags, shared, retrieved>>
task   == <<m_owner, m_is_running, queued>>
worker == <<wpc, run>>
counts == <<joins, pushes, runs, gets>>
deliveries == <<last, received, delivered>>
resultVars   == <<result, task, worker, cpc, pool, fut, op, counts, deliveries, terminated>>

ResultInit ==
  /\ m_owner = NoPool /\ m_is_running = NoPool
  /\ queued = [p \in Pools |-> 0]
  /\ m_recall_ = FALSE /\ m_allow_get_ = FALSE /\ m_bin_sem_ = 0
  /\ shared = <<Unset>> /\ retrieved = {}
  /\ wpc = [w \in Workers |-> "idle"] /\ run = [w \in Workers |-> 0]
  /\ cpc = [c \in Clients |-> "idle"]
  /\ pool = [c \in Clients |-> NoPool] /\ fut = [c \in Clients |-> 0]
  /\ op = [c \in Clients |-> "join"]
  /\ joins = 0 /\ pushes = 0 /\ runs = 0 /\ gets = 0
  /\ last = [c \in Clients |-> 0] /\ received = [c \in Clients |-> 0]
  /\ delivered = <<>>
  /\ terminated = FALSE

ClientGoto(c, at, to) == ~terminated /\ cpc[c] = at /\ cpc' = [cpc EXCEPT ![c] = to]
WorkerGoto(w, at, to) == ~terminated /\ wpc[w] = at /\ wpc' = [wpc EXCEPT ![w] = to]

-----------------------------------------------------------------------------
(* joinThreadPool / runnableJoin: what append() does with the task *)
JoinCall(c) ==
  /\ "join" \in ClientOps[c] /\ joins < MaxJoins
  /\ Disciplined => received[c] = last[c]
  /\ ClientGoto(c, "idle", "owner")
  /\ \E p \in Pools : pool' = [pool EXCEPT ![c] = p]
  /\ joins' = joins + 1
  /\ UNCHANGED <<result, task, worker, fut, op, pushes, runs, gets, deliveries, terminated>>

(* testAndSetOrdered(null, this): a task of another pool is refused *)
JoinOwner(c) ==
  /\ ClientGoto(c, "owner", IF m_owner \in {NoPool, pool[c]} THEN "lock" ELSE "idle")
  /\ m_owner' = IF m_owner = NoPool THEN pool[c] ELSE m_owner
  /\ UNCHANGED <<result, m_is_running, queued, worker, pool, fut, op, counts, deliveries,
                 terminated>>

(* no room within one second: the join fails and leaves m_owner as it is *)
JoinFull(c) ==
  /\ QueueFull
  /\ ClientGoto(c, "lock", "idle")
  /\ UNCHANGED <<result, task, worker, pool, fut, op, counts, deliveries, terminated>>

JoinReset(c) ==
  /\ ClientGoto(c, "lock", "allow")
  /\ m_is_running' = pool[c]
  /\ m_recall_' = FALSE
  /\ UNCHANGED <<m_allow_get_, m_bin_sem_, shared, retrieved, m_owner, queued, worker,
                 pool, fut, op, counts, deliveries, terminated>>

JoinAllow(c) ==
  /\ ClientGoto(c, "allow", "idle")
  /\ m_allow_get_' = TRUE
  /\ queued' = [queued EXCEPT ![pool[c]] = @ + 1]
  /\ pushes' = pushes + 1
  /\ last' = [last EXCEPT ![c] = pushes + 1]
  /\ UNCHANGED <<m_recall_, m_bin_sem_, shared, retrieved, m_owner, m_is_running, worker,
                 pool, fut, op, joins, runs, gets, received, delivered, terminated>>

-----------------------------------------------------------------------------
(* result(): get_, try_get_, get_for_ and get_until *)
ReturnEmpty(c) == cpc' = [cpc EXCEPT ![c] = "idle"]
Return(c, v) ==
  /\ cpc' = [cpc EXCEPT ![c] = "idle"]
  /\ received' = [received EXCEPT ![c] = v] /\ delivered' = Append(delivered, v)

(* a future_error or broken_promise: get_until may throw, the others may not *)
Fails(c) ==
  IF op[c] = "get_until" THEN ReturnEmpty(c) /\ UNCHANGED terminated
  ELSE terminated' = TRUE /\ UNCHANGED cpc

ResultCall(c, o) ==
  /\ o \in ClientOps[c] /\ gets < MaxGets
  /\ Disciplined => received[c] # last[c]
  /\ op' = [op EXCEPT ![c] = o] /\ gets' = gets + 1
  /\ UNCHANGED <<shared, retrieved, m_recall_, m_allow_get_, task, worker, pool, fut,
                 joins, pushes, runs, deliveries, terminated>>

GetCall(c) ==
  /\ ResultCall(c, "get")
  /\ ClientGoto(c, "idle", "recall")
  /\ UNCHANGED m_bin_sem_

TryGet(c) ==
  /\ ResultCall(c, "try_get")
  /\ IF m_bin_sem_ > 0
     THEN m_bin_sem_' = m_bin_sem_ - 1 /\ ClientGoto(c, "idle", "future")
     ELSE ClientGoto(c, "idle", "idle") /\ UNCHANGED m_bin_sem_

TimedCall(c) ==
  \E o \in {"get_for", "get_until"} :
    ResultCall(c, o) /\ ClientGoto(c, "idle", o) /\ UNCHANGED m_bin_sem_

(* get_: m_recall_ is loaded, then stored; m_allow_get_ likewise *)
GetRecall(c) ==
  /\ ClientGoto(c, "recall", IF m_recall_ THEN "idle" ELSE "mark")
  /\ UNCHANGED <<result, task, worker, pool, fut, op, counts, deliveries, terminated>>

GetMark(c) ==
  /\ ClientGoto(c, "mark", "allowed")
  /\ m_recall_' = TRUE
  /\ UNCHANGED <<m_allow_get_, m_bin_sem_, shared, retrieved, task, worker, pool, fut, op,
                 counts, deliveries, terminated>>

GetAllowed(c) ==
  /\ ClientGoto(c, "allowed", IF m_allow_get_ THEN "disallow" ELSE "idle")
  /\ UNCHANGED <<result, task, worker, pool, fut, op, counts, deliveries, terminated>>

GetDisallow(c) ==
  /\ ClientGoto(c, "disallow", "acquire")
  /\ m_allow_get_' = FALSE
  /\ UNCHANGED <<m_recall_, m_bin_sem_, shared, retrieved, task, worker, pool, fut, op,
                 counts, deliveries, terminated>>

GetAcquire(c) ==
  /\ m_bin_sem_ > 0
  /\ ClientGoto(c, "acquire", "future")
  /\ m_bin_sem_' = m_bin_sem_ - 1
  /\ UNCHANGED <<m_recall_, m_allow_get_, shared, retrieved, task, worker, pool, fut, op,
                 counts, deliveries, terminated>>

(* get_for_ returns {} when it acquires, get_until when it does not *)
TimedAcquire(c) ==
  /\ m_bin_sem_ > 0 /\ m_bin_sem_' = m_bin_sem_ - 1
  /\ ClientGoto(c, "get_until", "future") \/ ClientGoto(c, "get_for", "idle")
  /\ UNCHANGED <<m_recall_, m_allow_get_, shared, retrieved, task, worker, pool, fut, op,
                 counts, deliveries, terminated>>

TimedOut(c) ==
  /\ m_bin_sem_ = 0
  /\ ClientGoto(c, "get_for", "future") \/ ClientGoto(c, "get_until", "idle")
  /\ UNCHANGED <<result, task, worker, pool, fut, op, counts, deliveries, terminated>>

(* mutant: the future may be taken again and again *)
GetSharedFuture(c) ==
  /\ fut' = [fut EXCEPT ![c] = Len(shared)]
  /\ ClientGoto(c, "future", "wait")
  /\ UNCHANGED <<flags, shared, retrieved, task, worker, pool, op, counts, deliveries,
                 terminated>>

GetFuture(c) ==
  /\ ~terminated /\ cpc[c] = "future"
  /\ IF Len(shared) \in retrieved
     THEN Fails(c) /\ UNCHANGED <<retrieved, fut>>
     ELSE /\ retrieved' = retrieved \cup {Len(shared)}
          /\ fut' = [fut EXCEPT ![c] = Len(shared)]
          /\ ClientGoto(c, "future", "wait") /\ UNCHANGED terminated
  /\ UNCHANGED <<flags, shared, task, worker, pool, op, counts, deliveries>>

GetValue(c) ==
  /\ ~terminated /\ cpc[c] = "wait" /\ shared[fut[c]] # Unset
  /\ IF shared[fut[c]] = Broken THEN Fails(c) /\ UNCHANGED <<received, delivered>>
     ELSE Return(c, shared[fut[c]]) /\ UNCHANGED terminated
  /\ UNCHANGED <<result, task, worker, pool, fut, op, counts, last>>

-----------------------------------------------------------------------------
(* A worker takes the task from its pool's queue and executes call() *)
(* mutant: the entry stays in the queue *)
TakeCopy(w) ==
  /\ queued[PoolOf[w]] > 0 /\ runs < MaxJoins
  /\ WorkerGoto(w, "idle", "run")
  /\ runs' = runs + 1
  /\ run' = [run EXCEPT ![w] = runs + 1]
  /\ UNCHANGED <<result, task, cpc, pool, fut, op, joins, pushes, gets, deliveries, terminated>>

TakeTask(w) ==
  /\ queued[PoolOf[w]] > 0
  /\ WorkerGoto(w, "idle", "run")
  /\ queued' = [queued EXCEPT ![PoolOf[w]] = @ - 1]
  /\ runs' = runs + 1
  /\ run' = [run EXCEPT ![w] = runs + 1]
  /\ UNCHANGED <<result, m_owner, m_is_running, cpc, pool, fut, op, joins, pushes, gets,
                 deliveries, terminated>>

(* run() returns or throws a std::exception: set() is called either way *)
Run(w) ==
  /\ WorkerGoto(w, "run", "set")
  /\ UNCHANGED <<result, task, run, cpc, pool, fut, op, counts, deliveries, terminated>>

(* mutant: the promise of the last run is used again *)
SetStale(w) ==
  /\ WorkerGoto(w, "set", "value")
  /\ UNCHANGED <<result, task, run, cpc, pool, fut, op, counts, deliveries, terminated>>

(* m_result_ = {} : the old shared state is abandoned *)
SetFresh(w) ==
  /\ WorkerGoto(w, "set", "value")
  /\ shared' = Append([g \in DOMAIN shared |->
                         IF g = Len(shared) /\ shared[g] = Unset THEN Broken ELSE shared[g]],
                      Unset)
  /\ UNCHANGED <<flags, retrieved, task, run, cpc, pool, fut, op, counts, deliveries,
                 terminated>>

(* set_value: promise_already_satisfied inside a noexcept function *)
SetValue(w) ==
  /\ IF shared[Len(shared)] = Unset
     THEN /\ WorkerGoto(w, "value", "release") /\ UNCHANGED terminated
          /\ shared' = [shared EXCEPT ![Len(shared)] = run[w]]
     ELSE ~terminated /\ wpc[w] = "value" /\ terminated' = TRUE /\ UNCHANGED <<wpc, shared>>
  /\ UNCHANGED <<flags, retrieved, task, run, cpc, pool, fut, op, counts, deliveries>>

(* mutant: set() forgets the permit *)
SetSilent(w) ==
  /\ WorkerGoto(w, "release", "unset_running")
  /\ UNCHANGED <<result, task, run, cpc, pool, fut, op, counts, deliveries, terminated>>

(* release() of a binary semaphore that has its permit is undefined: the build
   either counts on or stays at one *)
SetRelease(w) ==
  /\ WorkerGoto(w, "release", "unset_running")
  /\ m_bin_sem_' \in {m_bin_sem_ + 1, 1}
  /\ UNCHANGED <<m_recall_, m_allow_get_, shared, retrieved, task, run, cpc, pool, fut, op,
                 counts, deliveries, terminated>>

CallEnd(w) ==
  /\ \/ WorkerGoto(w, "unset_running", "unset_owner") /\ m_is_running' = NoPool /\ UNCHANGED m_owner
     \/ WorkerGoto(w, "unset_owner", "idle") /\ m_owner' = NoPool /\ UNCHANGED m_is_running
  /\ UNCHANGED <<result, queued, run, cpc, pool, fut, op, counts, deliveries, terminated>>

-----------------------------------------------------------------------------
Begin(c) == JoinCall(c) \/ GetCall(c) \/ TryGet(c) \/ TimedCall(c)

ClientStep(c) ==
  \/ JoinOwner(c) \/ JoinFull(c) \/ JoinReset(c) \/ JoinAllow(c)
  \/ GetRecall(c) \/ GetMark(c) \/ GetAllowed(c) \/ GetDisallow(c) \/ GetAcquire(c)
  \/ TimedAcquire(c) \/ TimedOut(c) \/ GetFuture(c) \/ GetValue(c)

WorkerStep(w) ==
  \/ TakeTask(w) \/ Run(w) \/ SetFresh(w) \/ SetValue(w) \/ SetRelease(w) \/ CallEnd(w)

(* every call has returned and every accepted join was run *)
ResultAtRest ==
  /\ \A c \in Clients : cpc[c] = "idle"
  /\ \A w \in Workers : wpc[w] = "idle" /\ queued[PoolOf[w]] = 0
  /\ UNCHANGED resultVars

ResultNext == \/ \E c \in Clients : Begin(c) \/ ClientStep(c)
        \/ \E w \in Workers : WorkerStep(w)
        \/ ResultAtRest

ResultSpec == ResultInit /\ [][ResultNext]_resultVars

-----------------------------------------------------------------------------
(* The result of a run is returned at most once, whatever the clients do. *)
ResultOnce ==
  \A i, j \in DOMAIN delivered : i # j => delivered[i] # delivered[j]

(* A client that joins, takes the result and joins again gets each time the result
   of the run its own join asked for, never that of an earlier one. *)
OwnResult ==
  [][\A c \in Clients : received'[c] # received[c] => received'[c] = last[c]]_resultVars

(* No call of result(), join or call() ends the program. *)
NotTerminated == ~terminated

(* Every call of join and of result() returns. *)
CallsReturn == \A c \in Clients : cpc[c] # "idle" ~> cpc[c] = "idle"
=============================================================================
