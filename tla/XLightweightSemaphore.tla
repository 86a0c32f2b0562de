----------------------- MODULE XLightweightSemaphore -----------------------
(***************************************************************************)
(* The semaphore that keeps its count in an atomic and sends only those    *)
(* who find nothing to a kernel semaphore (xlightweightsemaphore.cpp).     *)
(*                                                                         *)
(* A load of m_count whose compare_exchange succeeds is one step, one that *)
(* fails is none: it is tried again.  The spinning of maxSpins rounds is a *)
(* state in which the thread may still find a permit or give up.  Atomic   *)
(* operations are sequentially consistent here.                            *)
(***************************************************************************)
EXTENDS Integers, FiniteSets

CONSTANTS
  Threads,      \* threads that use the semaphore
  initialCount, \* argument of the constructor
  Maxes,        \* arguments of tryWaitMany and waitMany; 1 is tryWait and wait
  SignalCounts, \* arguments of signal
  Timeouts,     \* subset of {"none", "zero", "some"}: timeout_usecs < 0, = 0, > 0
  MaxCalls      \* bound: calls of the semaphore

ASSUME SemaphoreAssumption ==
  /\ IsFiniteSet(Threads) /\ initialCount \in Nat
  /\ Maxes \subseteq Nat \ {0} /\ SignalCounts \subseteq Nat
  /\ Timeouts \subseteq {"none", "zero", "some"} /\ MaxCalls \in Nat

VARIABLES
  m_count,   \* permits that can be taken at once; below zero the waiters it owes
  m_sema_,   \* the value of the kernel semaphore
  pc,        \* where each thread is
  max, timeout, \* the arguments of its wait
  got,       \* permits its call has taken so far
  toRelease, \* posts its signal() still has to make
  calls,
  signalled, acquired \* history: permits given and taken

args == <<max, timeout>>
history == <<calls, signalled, acquired>>
semVars == <<m_count, m_sema_, pc, args, got, toRelease, history>>

(* threads that have subtracted themselves from m_count without having a permit *)
Waiting == {t \in Threads : pc[t] \in {"blocked", "adjust", "trywait"}}

Least(a, b) == IF a < b THEN a ELSE b

(* the constructor gives initialCount to the kernel semaphore and none to m_count *)
Init ==
  /\ m_count = 0 /\ m_sema_ = initialCount
  /\ pc = [t \in Threads |-> "idle"]
  /\ max = [t \in Threads |-> 1] /\ timeout = [t \in Threads |-> "none"]
  /\ got = [t \in Threads |-> 0] /\ toRelease = [t \in Threads |-> 0]
  /\ calls = 0 /\ signalled = 0 /\ acquired = 0

Goto(t, at, to) == pc[t] = at /\ pc' = [pc EXCEPT ![t] = to]

-----------------------------------------------------------------------------
(* n permits are taken out of m_count, out of the kernel semaphore *)
Take(t, n) ==
  /\ m_count' = m_count - n /\ acquired' = acquired + n
  /\ got' = [got EXCEPT ![t] = @ + n]

TakeKernel(t) ==
  /\ m_sema_' = m_sema_ - 1 /\ acquired' = acquired + 1
  /\ got' = [got EXCEPT ![t] = @ + 1]

(* tryWait and tryWaitMany: as many permits as there are, at most m *)
Available(m) == IF m_count > 0 THEN Least(m, m_count) ELSE 0

TryWaitMany(t, m) ==
  /\ Goto(t, "idle", "idle")
  /\ m_count' = m_count - Available(m) /\ acquired' = acquired + Available(m)
  /\ got' = [got EXCEPT ![t] = Available(m)]
  /\ UNCHANGED <<m_sema_, args, toRelease, signalled>>

(* wait and waitMany: tryWaitMany, and the spinning when there was nothing *)
WaitMany(t, m, timeout_usecs) ==
  /\ Goto(t, "idle", IF m_count > 0 THEN "idle" ELSE "spin")
  /\ m_count' = m_count - Available(m) /\ acquired' = acquired + Available(m)
  /\ got' = [got EXCEPT ![t] = Available(m)]
  /\ max' = [max EXCEPT ![t] = m] /\ timeout' = [timeout EXCEPT ![t] = timeout_usecs]
  /\ UNCHANGED <<m_sema_, toRelease, signalled>>

SpinTake(t) ==
  /\ m_count > 0
  /\ Goto(t, "spin", "idle") /\ Take(t, Available(max[t]))
  /\ UNCHANGED <<m_sema_, args, toRelease, calls, signalled>>

(* fetchAndSubAcquire(1): a permit, or a place among the waiters *)
Subtract(t) ==
  /\ IF m_count > 0 THEN Goto(t, "spin", "more") /\ Take(t, 1)
     ELSE /\ Goto(t, "spin", IF timeout[t] = "zero" THEN "adjust" ELSE "blocked")
          /\ m_count' = m_count - 1
          /\ UNCHANGED <<got, acquired>>
  /\ UNCHANGED <<m_sema_, args, toRelease, calls, signalled>>

KernelWait(t) ==
  /\ m_sema_ > 0
  /\ Goto(t, "blocked", "more") /\ TakeKernel(t)
  /\ UNCHANGED <<m_count, args, toRelease, calls, signalled>>

KernelTimeout(t) ==
  /\ timeout[t] = "some"
  /\ Goto(t, "blocked", "adjust")
  /\ UNCHANGED <<m_count, m_sema_, args, got, toRelease, history>>

(* out of time: the count is given back unless a signal has already been told *)
AdjustRestore(t) ==
  /\ m_count < 0 /\ m_count' = m_count + 1
  /\ Goto(t, "adjust", "idle")
  /\ UNCHANGED <<m_sema_, args, got, toRelease, history>>

AdjustSignalled(t) ==
  /\ m_count >= 0
  /\ Goto(t, "adjust", "trywait")
  /\ UNCHANGED <<m_count, m_sema_, args, got, toRelease, history>>

AdjustTry(t) ==
  /\ IF m_sema_ > 0 THEN Goto(t, "trywait", "more") /\ TakeKernel(t)
     ELSE Goto(t, "trywait", "adjust") /\ UNCHANGED <<m_sema_, got, acquired>>
  /\ UNCHANGED <<m_count, args, toRelease, calls, signalled>>

(* the tail of waitMany: what else is there at once *)
TakeMore(t) ==
  /\ Goto(t, "more", "idle") /\ Take(t, Available(max[t] - 1))
  /\ UNCHANGED <<m_sema_, args, toRelease, calls, signalled>>

(* mutant: one waiter is released, however many permits there are *)
OwedOne(n) == IF m_count < 0 THEN Least(1, n) ELSE 0

(* how many of n new permits belong to threads that wait for the kernel semaphore *)
Owed(n) == IF m_count < 0 THEN Least(-m_count, n) ELSE 0

Signal(t, n) ==
  /\ Goto(t, "idle", IF Owed(n) > 0 THEN "post" ELSE "idle")
  /\ m_count' = m_count + n /\ signalled' = signalled + n
  /\ toRelease' = [toRelease EXCEPT ![t] = Owed(n)]
  /\ UNCHANGED <<m_sema_, args, got, acquired>>

(* Semaphore::signal(count): one sem_post after the other *)
Post(t) ==
  /\ m_sema_' = m_sema_ + 1
  /\ toRelease' = [toRelease EXCEPT ![t] = @ - 1]
  /\ Goto(t, "post", IF toRelease[t] = 1 THEN "idle" ELSE "post")
  /\ UNCHANGED <<m_count, args, got, history>>

-----------------------------------------------------------------------------
Call(t) ==
  /\ calls < MaxCalls /\ calls' = calls + 1
  /\ \/ \E m \in Maxes : TryWaitMany(t, m)
     \/ \E m \in Maxes, u \in Timeouts : WaitMany(t, m, u)
     \/ \E n \in SignalCounts : Signal(t, n)

WaitStep(t) ==
  \/ SpinTake(t) \/ Subtract(t) \/ KernelWait(t) \/ KernelTimeout(t)
  \/ AdjustRestore(t) \/ AdjustSignalled(t) \/ AdjustTry(t) \/ TakeMore(t)

Step(t) == WaitStep(t) \/ Post(t)

(* nobody is in a call, or those who are wait for a signal nobody will make *)
AtRest ==
  /\ \A t \in Threads : pc[t] \in {"idle", "blocked"}
  /\ (m_sema_ = 0) \/ (\A t \in Threads : pc[t] = "idle")
Quiescent == AtRest /\ UNCHANGED semVars

Next == (\E t \in Threads : Call(t) \/ Step(t)) \/ Quiescent

Spec == Init /\ [][Next]_semVars

-----------------------------------------------------------------------------
(* However signals, timeouts and waits race, no more permits are taken than were given. *)
NeverOverAcquired == acquired <= initialCount + signalled

(* A thread sleeps for good only when every permit was taken: no signal is lost between
   the count and the kernel semaphore, also when a waiter times out as it is signalled. *)
NoLostSignal ==
  AtRest /\ (\E t \in Threads : pc[t] = "blocked") => acquired = initialCount + signalled

PermitsKept == NeverOverAcquired /\ NoLostSignal
=============================================================================
