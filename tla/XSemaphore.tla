----------------------------- MODULE XSemaphore -----------------------------
(***************************************************************************)
(* XCounting_Semaphore (XThreadPool/xsemaphore.hpp), which takes the place *)
(* of std::counting_semaphore in builds before C++20: a count under a      *)
(* mutex, and a condition variable for those who find it zero.             *)
(*                                                                         *)
(* Whatever happens under m_mutex_ is one step: from acquire, or from a    *)
(* wake-up that has the mutex again, to the end of the call or to the wait *)
(* that gives the mutex up.                                                *)
(***************************************************************************)
EXTENDS Integers

CONSTANTS
  Threads,
  LeastMaxValue,   \* the template argument, max()
  Updates,         \* arguments of release
  MaxReleases      \* bound: calls of release

VARIABLES
  count_,
  desired,         \* the count it was made with
  pc,              \* of each thread: out, asleep in m_cv_, woken, or out of time
  timed,           \* does the thread wait with a timeout?
  released, acquired, releases   \* history: permits given and taken; calls

vars == <<count_, desired, pc, timed, released, acquired, releases>>

Init ==
  /\ desired \in 0..LeastMaxValue /\ count_ = desired
  /\ pc = [t \in Threads |-> "out"] /\ timed = [t \in Threads |-> FALSE]
  /\ released = 0 /\ acquired = 0 /\ releases = 0

Take(t) ==
  /\ count_ > 0 /\ count_' = count_ - 1 /\ acquired' = acquired + 1
  /\ pc' = [pc EXCEPT ![t] = "out"]

Leave(t) == count_ = 0 /\ pc' = [pc EXCEPT ![t] = "out"] /\ UNCHANGED <<count_, acquired>>

Sleep(t) == count_ = 0 /\ pc' = [pc EXCEPT ![t] = "asleep"] /\ UNCHANGED <<count_, acquired>>

(* mutant: one thread is notified, however many permits there are *)
NotifiedOne ==
  {[pc EXCEPT ![w] = "woken"] : w \in {u \in Threads : pc[u] = "asleep"}}
    \cup {p \in {pc} : \A t \in Threads : pc[t] # "asleep"}

(* notify_all *)
Notified == {[t \in Threads |-> IF pc[t] = "asleep" THEN "woken" ELSE pc[t]]}

(* release; one that exceeds max() is an error of the caller (the assertion) *)
Release(t) ==
  /\ pc[t] = "out" /\ releases < MaxReleases /\ releases' = releases + 1
  /\ \E update \in Updates :
       /\ count_ <= LeastMaxValue - update
       /\ count_' = count_ + update /\ released' = released + update
  /\ pc' \in Notified
  /\ UNCHANGED <<desired, timed, acquired>>

(* acquire, try_acquire_for and try_acquire_until *)
Acquire(t) ==
  /\ pc[t] = "out" /\ timed' \in {[timed EXCEPT ![t] = b] : b \in BOOLEAN}
  /\ Take(t) \/ Sleep(t)
  /\ UNCHANGED <<desired, released, releases>>

TryAcquire(t) ==
  /\ pc[t] = "out" /\ (Take(t) \/ Leave(t))
  /\ UNCHANGED <<desired, timed, released, releases>>

(* a wake-up, also one without reason *)
Spurious(t) ==
  /\ pc[t] = "asleep" /\ pc' = [pc EXCEPT ![t] = "woken"]
  /\ UNCHANGED <<count_, desired, timed, released, acquired, releases>>

Timeout(t) ==
  /\ pc[t] \in {"asleep", "woken"} /\ timed[t] /\ pc' = [pc EXCEPT ![t] = "late"]
  /\ UNCHANGED <<count_, desired, timed, released, acquired, releases>>

Again(t) ==
  /\ pc[t] = "woken" /\ (Take(t) \/ Sleep(t))
  /\ UNCHANGED <<desired, timed, released, releases>>

(* the predicate decides, once more, about a thread that is out of time *)
Late(t) ==
  /\ pc[t] = "late" /\ (Take(t) \/ Leave(t))
  /\ UNCHANGED <<desired, timed, released, releases>>

Step(t) ==
  \/ Release(t) \/ Acquire(t) \/ TryAcquire(t)
  \/ Spurious(t) \/ Timeout(t) \/ Again(t) \/ Late(t)

Next == \E t \in Threads : Step(t)

Spec == Init /\ [][Next]_vars

-----------------------------------------------------------------------------
(* No thread sleeps on while there is a permit, whatever timeouts and tries take others away
   (release notifies all, under the mutex). *)
NoneSleepsOnPermits == count_ > 0 => \A t \in Threads : pc[t] # "asleep"

(* Every permit that was given is there or was taken, once; the count stays within its bounds. *)
PermitsAccounted ==
  count_ \in 0..LeastMaxValue /\ count_ + acquired = desired + released
=============================================================================
