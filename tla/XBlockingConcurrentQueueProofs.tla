------------------- MODULE XBlockingConcurrentQueueProofs -------------------
(***************************************************************************)
(* What the lightweight semaphore promises those who signal and wait, and  *)
(* XBlockingConcurrentQueue its consumers, for any threads, any amounts    *)
(* and any number of calls.                                                *)
(*                                                                         *)
(* The permits are in three places: in m_count, in the kernel semaphore    *)
(* and in the sem_posts that a signal() still has to make.  Two equations  *)
(* say so at every step; PermitsKept follows from them.                    *)
(*                                                                         *)
(* The elements are those a producer has still to signal, those signalled  *)
(* and not acquired, and those a consumer is entitled to.                  *)
(*                                                                         *)
(* Then the choice of a producer (XDispatch): what a consumer has visited  *)
(* and seen empty, what it claims in excess, and where its token stands.   *)
(***************************************************************************)
EXTENDS XBlockingConcurrentQueue, XChoice, Totals

-----------------------------------------------------------------------------
(* The semaphore *)
PCs == {"idle", "spin", "blocked", "adjust", "trywait", "more", "post"}

TypeOK ==
  /\ m_count \in Int /\ m_sema_ \in Nat /\ signalled \in Int /\ acquired \in Int
  /\ pc \in [Threads -> PCs] /\ max \in [Threads -> Nat \ {0}]
  /\ toRelease \in [Threads -> Nat]

(* a thread has posts to make exactly while it is in signal() *)
Posting == \A t \in Threads : pc[t] = "post" <=> toRelease[t] > 0

(* one element for each sem_post still to come *)
Posts == {p \in Threads \X Nat : 1 <= p[2] /\ p[2] <= toRelease[p[1]]}

(* the waiters that no signal has released yet *)
Unreleased == IF m_count < 0 THEN -m_count ELSE 0

(* what was not taken is in m_count, to which those who wait are added *)
CountKept == initialCount + signalled - acquired = initialCount + m_count + Cardinality(Waiting)

(* the kernel semaphore has, or will have, a post for each waiter that was released *)
KernelKept ==
  m_sema_ + Cardinality(Posts) = initialCount + Cardinality(Waiting) - Unreleased

SemaphoreInv ==
  /\ TypeOK /\ Posting /\ IsFiniteSet(Posts)
  /\ CountKept /\ KernelKept

-----------------------------------------------------------------------------
(* A set that changes by one element at most. *)
LEMMA OneIn ==
  ASSUME NEW A, NEW B, NEW t, IsFiniteSet(A), A \ {t} = B \ {t}
  PROVE  Cardinality(B) = Cardinality(A) - (IF t \in A THEN 1 ELSE 0) + (IF t \in B THEN 1 ELSE 0)
<1> DEFINE Rest == A \ {t}
<1>0. Cardinality(A) \in Nat
  BY FS_CardinalityType
<1>1. IsFiniteSet(Rest) /\ Cardinality(Rest) = Cardinality(A) - (IF t \in A THEN 1 ELSE 0)
  BY <1>0, FS_RemoveElement
<1>2. t \notin Rest
  OBVIOUS
<1>3. Cardinality(Rest \cup {t}) = Cardinality(Rest) + 1
  BY <1>1, <1>2, FS_AddElement
<1>4. B = IF t \in B THEN Rest \cup {t} ELSE Rest
  OBVIOUS
<1>5. Cardinality(Rest) \in Nat
  BY <1>1, FS_CardinalityType
<1> HIDE DEF Rest
<1>6. CASE t \in B
  <2>1. Cardinality(B) = Cardinality(Rest) + 1
    BY <1>3, <1>4, <1>6
  <2> QED BY <1>0, <1>1, <1>5, <1>6, <2>1
<1>7. CASE t \notin B
  <2>1. B = Rest
    BY <1>4, <1>7
  <2> QED BY <1>0, <1>1, <1>5, <1>7, <2>1
<1> QED BY <1>6, <1>7

(* m permits, or as many as there are *)
LEMMA AvailableBounds ==
  ASSUME m_count \in Int, NEW m \in Nat
  PROVE  /\ Available(m) \in Nat /\ (Available(m) > 0 => Available(m) <= m_count)
BY DEF Available, Least

Waits(l) == l \in {"blocked", "adjust", "trywait"}

(* a thread joins those who wait, or leaves them *)
LEMMA WaitingMoves ==
  ASSUME SemaphoreAssumption, TypeOK, NEW t \in Threads, NEW l,
         pc' = [pc EXCEPT ![t] = l]
  PROVE  /\ IsFiniteSet(Waiting) /\ Cardinality(Waiting) \in Nat
         /\ (Waits(pc[t]) <=> Waits(l)) => Cardinality(Waiting)' = Cardinality(Waiting)
         /\ ~Waits(pc[t]) /\ Waits(l) => Cardinality(Waiting)' = Cardinality(Waiting) + 1
         /\ Waits(pc[t]) /\ ~Waits(l) => Cardinality(Waiting)' = Cardinality(Waiting) - 1
<1>1. IsFiniteSet(Waiting) /\ Cardinality(Waiting) \in Nat
  BY FS_Subset, FS_CardinalityType DEF Waiting, SemaphoreAssumption
<1>2. Waiting \ {t} = Waiting' \ {t}
  BY DEF Waiting, TypeOK
<1>3. Cardinality(Waiting') = Cardinality(Waiting)
        - (IF t \in Waiting THEN 1 ELSE 0) + (IF t \in Waiting' THEN 1 ELSE 0)
  BY <1>1, <1>2, OneIn, Zenon
<1>4. /\ t \in Waiting <=> Waits(pc[t])
      /\ t \in Waiting' <=> Waits(l)
  BY DEF Waiting, Waits, TypeOK
<1> QED BY <1>1, <1>3, <1>4

(* signal() gets as many posts to make as it releases waiters, and makes them one by one *)
LEMMA PostsGrow ==
  ASSUME TypeOK, IsFiniteSet(Posts), NEW t \in Threads, toRelease[t] = 0, NEW n \in Nat,
         toRelease' = [toRelease EXCEPT ![t] = n]
  PROVE  IsFiniteSet(Posts)' /\ Cardinality(Posts)' = Cardinality(Posts) + n
<1> DEFINE New == {t} \X (1 .. n)
<1>1. Posts' = Posts \cup New
  BY DEF Posts, TypeOK
<1>2. IsFiniteSet(New) /\ Cardinality(New) = n
  <2>1. IsFiniteSet(1 .. n) /\ Cardinality(1 .. n) = n
    BY FS_Interval
  <2>2. IsFiniteSet({t}) /\ Cardinality({t}) = 1
    BY FS_Singleton
  <2>3. IsFiniteSet(New) /\ Cardinality(New) = Cardinality({t}) * Cardinality(1 .. n)
    BY <2>1, <2>2, FS_Product
  <2> QED BY <2>1, <2>2, <2>3
<1>3. Posts \cap New = {}
  BY DEF Posts, TypeOK
<1> HIDE DEF New
<1>4. /\ IsFiniteSet(Posts \cup New)
      /\ Cardinality(Posts \cup New) = Cardinality(Posts) + Cardinality(New) - Cardinality(Posts \cap New)
  BY <1>2, FS_Union
<1>5. Cardinality(Posts \cap New) = 0 /\ Cardinality(Posts) \in Nat
  BY <1>3, FS_EmptySet, FS_CardinalityType
<1> QED BY <1>1, <1>2, <1>4, <1>5

(* one post less *)
LEMMA PostsShrink ==
  ASSUME TypeOK, IsFiniteSet(Posts), NEW t \in Threads, toRelease[t] > 0,
         toRelease' = [toRelease EXCEPT ![t] = @ - 1]
  PROVE  IsFiniteSet(Posts)' /\ Cardinality(Posts)' = Cardinality(Posts) - 1
<1>1. <<t, toRelease[t]>> \in Posts
  BY DEF Posts, TypeOK
<1>2. Posts' = Posts \ {<<t, toRelease[t]>>}
  BY DEF Posts, TypeOK
<1> QED BY <1>1, <1>2, FS_RemoveElement

(* a call of the semaphore, by whoever uses it and however often *)
Asks(t) ==
  \/ \E m \in Maxes : TryWaitMany(t, m)
  \/ \E m \in Maxes, u \in Timeouts : WaitMany(t, m, u)
  \/ \E n \in Nat : Signal(t, n)

(* whatever a thread does, the types are kept, and posts belong to a signal() *)
LEMMA TypeStep ==
  ASSUME SemaphoreAssumption, TypeOK, Posting, NEW t \in Threads, Asks(t) \/ Step(t)
  PROVE  TypeOK' /\ Posting'
<1> USE DEF TypeOK, PCs
<1>1. CASE Asks(t)
  <2>1. CASE \E m \in Maxes : TryWaitMany(t, m)
    BY <2>1, AvailableBounds DEF TryWaitMany, args, Goto, Posting, SemaphoreAssumption
  <2>2. CASE \E m \in Maxes, u \in Timeouts : WaitMany(t, m, u)
    BY <2>2, AvailableBounds DEF WaitMany, args, Goto, Posting, SemaphoreAssumption
  <2>3. CASE \E n \in Nat : Signal(t, n)
    <3>1. PICK n \in Nat : Signal(t, n)
      BY <2>3
    <3>2. Owed(n) \in Nat
      BY <3>1 DEF Owed, Least, SemaphoreAssumption
    <3> QED BY <3>1, <3>2 DEF Signal, args, Goto, Posting, SemaphoreAssumption
  <2> QED BY <1>1, <2>1, <2>2, <2>3 DEF Asks
<1>2. CASE SpinTake(t) \/ Subtract(t) \/ TakeMore(t)
  <2>1. max[t] \in Nat \ {0} /\ max[t] - 1 \in Nat
    OBVIOUS
  <2> QED BY <1>2, <2>1, AvailableBounds DEF SpinTake, Subtract, TakeMore, Take, args,
             history, Goto, Posting
<1>3. CASE KernelWait(t) \/ KernelTimeout(t) \/ AdjustRestore(t) \/ AdjustSignalled(t) \/ AdjustTry(t)
  BY <1>3 DEF KernelWait, KernelTimeout, AdjustRestore, AdjustSignalled, AdjustTry, TakeKernel,
              args, history, Goto, Posting
<1>4. CASE Post(t)
  BY <1>4 DEF Post, args, history, Goto, Posting
<1> QED BY <1>1, <1>2, <1>3, <1>4 DEF Step, WaitStep

Equations == IsFiniteSet(Posts) /\ CountKept /\ KernelKept

(* signal(): the permits go to m_count, the posts to the waiters it releases *)
LEMMA SignalStep ==
  ASSUME SemaphoreAssumption, SemaphoreInv, NEW t \in Threads, NEW n \in Nat, Signal(t, n)
  PROVE  Equations'
<1> USE DEF SemaphoreInv
<1>1. n \in Nat /\ Owed(n) \in Nat
  BY DEF Owed, Least, SemaphoreAssumption, TypeOK
<1>2. pc[t] = "idle" /\ toRelease[t] = 0
  BY DEF Signal, Goto, Posting, TypeOK
<1>3. /\ Cardinality(Waiting) \in Nat /\ Cardinality(Waiting)' = Cardinality(Waiting)
  <2>1. PICK l \in {"post", "idle"} : pc' = [pc EXCEPT ![t] = l]
    BY DEF Signal, Goto
  <2> QED BY <1>2, <2>1, WaitingMoves DEF Waits
<1>4. /\ IsFiniteSet(Posts)' /\ Cardinality(Posts)' = Cardinality(Posts) + Owed(n)
      /\ Cardinality(Posts) \in Nat
  BY <1>1, <1>2, PostsGrow, FS_CardinalityType DEF Signal
<1>5. CountKept'
  BY <1>1, <1>3 DEF CountKept, Signal, TypeOK, SemaphoreAssumption
<1>6. Unreleased' = Unreleased - Owed(n)
  BY <1>1 DEF Unreleased, Owed, Least, Signal, TypeOK
<1>7. KernelKept'
  BY <1>1, <1>3, <1>4, <1>6 DEF KernelKept, Signal, TypeOK, SemaphoreAssumption, Unreleased
<1> QED BY <1>4, <1>5, <1>7 DEF Equations

(* one sem_post *)
LEMMA PostStep ==
  ASSUME SemaphoreAssumption, SemaphoreInv, NEW t \in Threads, Post(t)
  PROVE  Equations'
<1> USE DEF SemaphoreInv
<1>1. toRelease[t] > 0
  BY DEF Post, Goto, Posting
<1>2. /\ Cardinality(Waiting) \in Nat /\ Cardinality(Waiting)' = Cardinality(Waiting)
  <2>1. CASE toRelease[t] = 1
    BY <2>1, WaitingMoves DEF Waits, Post, Goto
  <2>2. CASE toRelease[t] # 1
    BY <2>2, WaitingMoves DEF Waits, Post, Goto
  <2> QED BY <2>1, <2>2
<1>3. /\ IsFiniteSet(Posts)' /\ Cardinality(Posts)' = Cardinality(Posts) - 1
      /\ Cardinality(Posts) \in Nat
  BY <1>1, PostsShrink, FS_CardinalityType DEF Post
<1>4. CountKept'
  BY <1>2 DEF CountKept, Post, history, TypeOK, SemaphoreAssumption
<1>5. KernelKept'
  BY <1>2, <1>3 DEF KernelKept, Unreleased, Post, TypeOK, SemaphoreAssumption
<1> QED BY <1>3, <1>4, <1>5 DEF Equations

(* permits are taken out of m_count: only when there are some, so nobody is unreleased *)
LEMMA CountStep ==
  ASSUME SemaphoreAssumption, SemaphoreInv, NEW n \in Nat,
         n > 0 => n <= m_count, m_count' = m_count - n, acquired' = acquired + n,
         UNCHANGED <<m_sema_, toRelease, signalled>>,
         Cardinality(Waiting) \in Nat, Cardinality(Waiting)' = Cardinality(Waiting)
  PROVE  Equations'
<1> USE DEF SemaphoreInv
<1>1. Posts' = Posts /\ Cardinality(Posts) \in Nat
  BY FS_CardinalityType DEF Posts
<1>2. CountKept'
  <2>1. m_count \in Int /\ acquired \in Int /\ signalled \in Int /\ initialCount \in Int
    BY DEF TypeOK, SemaphoreAssumption
  <2>2. initialCount + signalled - acquired = initialCount + m_count + Cardinality(Waiting)
    BY DEF CountKept
  <2>3. initialCount + signalled' - acquired' = initialCount + m_count' + Cardinality(Waiting)'
    BY <2>1, <2>2
  <2> QED BY <2>3 DEF CountKept
<1>3. Unreleased' = Unreleased
  BY DEF Unreleased, TypeOK
<1>4. KernelKept'
  BY <1>1, <1>3 DEF KernelKept
<1> QED BY <1>1, <1>2, <1>4 DEF Equations

(* a thread joins those who wait, or leaves them with a permit of the kernel semaphore or,
   when it is out of time, with the place it took in m_count *)
LEMMA WaiterStep ==
  ASSUME SemaphoreAssumption, SemaphoreInv, NEW t \in Threads,
         \/ Subtract(t) /\ m_count <= 0
         \/ KernelWait(t) \/ KernelTimeout(t)
         \/ AdjustRestore(t) \/ AdjustSignalled(t) \/ AdjustTry(t)
  PROVE  Equations'
<1> USE DEF SemaphoreInv
<1>1. Posts' = Posts /\ Cardinality(Posts) \in Nat
  BY FS_CardinalityType
     DEF Posts, Subtract, KernelWait, KernelTimeout, AdjustRestore, AdjustSignalled, AdjustTry
<1>2. CASE Subtract(t) /\ m_count <= 0
  <2>1. PICK l \in {"adjust", "blocked"} : pc[t] = "spin" /\ pc' = [pc EXCEPT ![t] = l]
    BY <1>2 DEF Subtract, Goto, TypeOK
  <2>2. Cardinality(Waiting) \in Nat /\ Cardinality(Waiting)' = Cardinality(Waiting) + 1
    BY <2>1, WaitingMoves DEF Waits
  <2> QED BY <1>1, <1>2, <2>2 DEF Subtract, Equations, CountKept, KernelKept, Unreleased,
             TypeOK, SemaphoreAssumption
<1>3. CASE KernelWait(t) \/ (AdjustTry(t) /\ m_sema_ > 0)
  <2>1. pc[t] \in {"blocked", "trywait"} /\ pc' = [pc EXCEPT ![t] = "more"]
    BY <1>3 DEF KernelWait, AdjustTry, Goto
  <2>2. Waits(pc[t]) /\ ~Waits("more")
    BY <2>1 DEF Waits
  <2>3. Cardinality(Waiting) \in Nat /\ Cardinality(Waiting)' = Cardinality(Waiting) - 1
    BY <2>1, <2>2, WaitingMoves
  <2>4. /\ m_sema_' = m_sema_ - 1 /\ acquired' = acquired + 1
        /\ UNCHANGED <<m_count, signalled>>
    BY <1>3 DEF KernelWait, AdjustTry, TakeKernel
  <2>5. CountKept'
    BY <2>3, <2>4 DEF CountKept, TypeOK, SemaphoreAssumption
  <2>6. KernelKept'
    BY <1>1, <2>3, <2>4 DEF KernelKept, Unreleased, TypeOK, SemaphoreAssumption
  <2> QED BY <1>1, <2>5, <2>6 DEF Equations
<1>4. CASE AdjustRestore(t)
  <2>1. pc[t] = "adjust" /\ pc' = [pc EXCEPT ![t] = "idle"]
    BY <1>4 DEF AdjustRestore, Goto
  <2>2. Waits(pc[t]) /\ ~Waits("idle")
    BY <2>1 DEF Waits
  <2>3. Cardinality(Waiting) \in Nat /\ Cardinality(Waiting)' = Cardinality(Waiting) - 1
    BY <2>1, <2>2, WaitingMoves
  <2> QED BY <1>1, <1>4, <2>3 DEF AdjustRestore, history, Equations, CountKept, KernelKept,
             Unreleased, TypeOK, SemaphoreAssumption
<1>5. CASE KernelTimeout(t) \/ AdjustSignalled(t) \/ (AdjustTry(t) /\ ~(m_sema_ > 0))
  <2>1. PICK l \in {"adjust", "trywait"} : pc[t] \in {"blocked", "adjust", "trywait"} /\ pc' = [pc EXCEPT ![t] = l]
    BY <1>5 DEF KernelTimeout, AdjustSignalled, AdjustTry, Goto
  <2>2. Cardinality(Waiting) \in Nat /\ Cardinality(Waiting)' = Cardinality(Waiting)
    BY <2>1, WaitingMoves DEF Waits
  <2> QED BY <1>1, <1>5, <2>2 DEF KernelTimeout, AdjustSignalled, AdjustTry, history,
             Equations, CountKept, KernelKept, Unreleased, TypeOK
<1> QED BY <1>2, <1>3, <1>4, <1>5

(* the two equations survive whatever a thread does *)
LEMMA InvStep ==
  ASSUME SemaphoreAssumption, SemaphoreInv, NEW t \in Threads, Asks(t) \/ Step(t)
  PROVE  SemaphoreInv'
<1>1. TypeOK' /\ Posting'
  BY TypeStep DEF SemaphoreInv
<1>2. CASE Asks(t)
  <2>1. CASE \E n \in Nat : Signal(t, n)
    BY <1>1, <2>1, SignalStep DEF SemaphoreInv, Equations
  <2>2. CASE \E m \in Maxes : TryWaitMany(t, m) \/ \E u \in Timeouts : WaitMany(t, m, u)
    <3>1. PICK m \in Maxes : TryWaitMany(t, m) \/ \E u \in Timeouts : WaitMany(t, m, u)
      BY <2>2
    <3>2. m \in Nat /\ Available(m) \in Nat /\ (Available(m) > 0 => Available(m) <= m_count)
      BY AvailableBounds DEF SemaphoreInv, TypeOK, SemaphoreAssumption
    <3>3. PICK l \in {"idle", "spin"} : pc[t] = "idle" /\ pc' = [pc EXCEPT ![t] = l]
      BY <3>1 DEF TryWaitMany, WaitMany, Goto
    <3>4. Cardinality(Waiting) \in Nat /\ Cardinality(Waiting)' = Cardinality(Waiting)
      BY <3>3, WaitingMoves DEF Waits, SemaphoreInv
    <3>5. /\ m_count' = m_count - Available(m) /\ acquired' = acquired + Available(m)
          /\ UNCHANGED <<m_sema_, toRelease, signalled>>
      BY <3>1 DEF TryWaitMany, WaitMany
    <3> QED BY <1>1, <3>2, <3>4, <3>5, CountStep DEF SemaphoreInv, Equations
  <2> QED BY <1>2, <2>1, <2>2 DEF Asks
<1>3. CASE SpinTake(t) \/ TakeMore(t) \/ (Subtract(t) /\ m_count > 0)
  <2>1. PICK n \in Nat : (n > 0 => n <= m_count) /\ Take(t, n)
    <3>1. max[t] \in Nat /\ max[t] - 1 \in Nat
      BY DEF SemaphoreInv, TypeOK
    <3> QED BY <1>3, <3>1, AvailableBounds DEF SpinTake, TakeMore, Subtract,
               SemaphoreInv, TypeOK
  <2>2. PICK l \in {"idle", "more"} : pc[t] \in {"spin", "more"} /\ pc' = [pc EXCEPT ![t] = l]
    BY <1>3 DEF SpinTake, TakeMore, Subtract, Goto
  <2>3. Cardinality(Waiting) \in Nat /\ Cardinality(Waiting)' = Cardinality(Waiting)
    BY <2>2, WaitingMoves DEF Waits, SemaphoreInv
  <2>4. UNCHANGED <<m_sema_, toRelease, signalled>>
    BY <1>3 DEF SpinTake, TakeMore, Subtract
  <2> QED BY <1>1, <2>1, <2>3, <2>4, CountStep DEF Take, SemaphoreInv, Equations
<1>4. CASE \/ Subtract(t) /\ m_count <= 0
           \/ KernelWait(t) \/ KernelTimeout(t)
           \/ AdjustRestore(t) \/ AdjustSignalled(t) \/ AdjustTry(t)
  BY <1>1, <1>4, WaiterStep DEF SemaphoreInv, Equations
<1>5. CASE Post(t)
  BY <1>1, <1>5, PostStep DEF SemaphoreInv, Equations
<1>6. m_count > 0 \/ m_count <= 0
  BY DEF SemaphoreInv, TypeOK
<1> QED BY <1>2, <1>3, <1>4, <1>5, <1>6 DEF Step, WaitStep

(* the constructor sets them up *)
LEMMA SemaphoreStarts ==
  ASSUME SemaphoreAssumption, Init
  PROVE  SemaphoreInv
<1>1. TypeOK /\ Posting
  BY DEF Init, TypeOK, Posting, PCs, SemaphoreAssumption
<1>2. Posts = {} /\ Waiting = {}
  BY DEF Init, Posts, Waiting
<1>3. IsFiniteSet(Posts) /\ Cardinality(Posts) = 0 /\ Cardinality(Waiting) = 0
  BY <1>2, FS_EmptySet
<1> QED BY <1>1, <1>3 DEF SemaphoreInv, Init, CountKept, KernelKept, Unreleased,
           SemaphoreAssumption

LEMMA SemaphoreStutters ==
  ASSUME SemaphoreInv, UNCHANGED semVars
  PROVE  SemaphoreInv'
<1>1. Posts' = Posts /\ Waiting' = Waiting
  BY DEF Posts, Waiting, semVars
<1> QED BY <1>1 DEF semVars, args, history, SemaphoreInv, TypeOK, Posting,
           CountKept, KernelKept, Unreleased

(* the two equations hold in every state *)
LEMMA SemaphoreInductive ==
  ASSUME SemaphoreAssumption
  PROVE  Spec => []SemaphoreInv
<1>1. Init => SemaphoreInv
  BY SemaphoreStarts
<1>2. SemaphoreInv /\ [Next]_semVars => SemaphoreInv'
  <2> SUFFICES ASSUME SemaphoreInv, [Next]_semVars PROVE SemaphoreInv'
    OBVIOUS
  <2>1. ASSUME UNCHANGED semVars PROVE SemaphoreInv'
    BY <2>1, SemaphoreStutters
  <2>2. ASSUME NEW t \in Threads, Call(t) \/ Step(t) PROVE SemaphoreInv'
    <3>1. Asks(t) \/ Step(t)
      BY <2>2 DEF Call, Asks, SemaphoreAssumption
    <3> QED BY <3>1, InvStep
  <2> QED BY <2>1, <2>2 DEF Next, Quiescent
<1> QED BY <1>1, <1>2, PTL DEF Spec

(* what they say of the permits *)
LEMMA PermitsFollow ==
  ASSUME SemaphoreAssumption, SemaphoreInv
  PROVE  PermitsKept
<1>1. Cardinality(Posts) \in Nat /\ IsFiniteSet(Waiting) /\ Cardinality(Waiting) \in Nat
  BY FS_CardinalityType, FS_Subset DEF SemaphoreInv, Waiting, SemaphoreAssumption
<1>2. NeverOverAcquired
  BY <1>1 DEF SemaphoreInv, NeverOverAcquired, CountKept, KernelKept, Unreleased, TypeOK,
     SemaphoreAssumption
<1>3. ASSUME AtRest, NEW t \in Threads, pc[t] = "blocked"
      PROVE  acquired = initialCount + signalled
  <2>1. m_sema_ = 0
    BY <1>3 DEF AtRest
  <2>2. Cardinality(Posts) = 0
    <3>1. Posts = {}
      BY <1>3 DEF AtRest, Posts, SemaphoreInv, Posting, TypeOK
    <3> QED BY <3>1, FS_EmptySet
  <2>3. Cardinality(Waiting) > 0
    <3>1. t \in Waiting
      BY <1>3 DEF Waiting
    <3> QED BY <1>1, <3>1, FS_EmptySet
  <2>4. Unreleased = initialCount + Cardinality(Waiting)
    BY <1>1, <2>1, <2>2 DEF SemaphoreInv, KernelKept, Unreleased, TypeOK, SemaphoreAssumption
  <2>5. m_count = -(initialCount + Cardinality(Waiting))
    BY <1>1, <2>3, <2>4 DEF SemaphoreInv, Unreleased, TypeOK, SemaphoreAssumption
  <2> QED BY <1>1, <2>5 DEF SemaphoreInv, CountKept, TypeOK, SemaphoreAssumption
<1> QED BY <1>2, <1>3 DEF PermitsKept, NoLostSignal

(* However signals, timeouts and waits race (XLightweightSemaphore::wait, tryWait, waitMany,
   signal): no more permits are taken than were given, and no thread sleeps while one is left
   that nobody is about to hand over. *)
THEOREM PermitsAlwaysKept ==
  ASSUME SemaphoreAssumption
  PROVE  Spec => []PermitsKept
<1>1. SemaphoreInv => PermitsKept
  BY PermitsFollow
<1> QED BY <1>1, SemaphoreInductive, PTL

-----------------------------------------------------------------------------
(* The queue *)
(* the elements a thread answers for: it has still to signal them or is entitled to them *)
Held(t) == IF qpc[t] = "signal" THEN left[t] ELSE Entitled(t)
Holds == [t \in Threads |-> Held(t)]

QueueTypes ==
  /\ size \in Int /\ qpc \in [Threads -> {"out", "signal", "sema", "take"}]
  /\ left \in [Threads -> Nat] /\ got \in [Threads -> Nat]

(* a thread inside the semaphore got there from the queue, and has nothing while it waits *)
Place(t) ==
  /\ pc[t] \in {"spin", "blocked", "adjust", "trywait", "more"} => qpc[t] = "sema"
  /\ pc[t] = "post" => qpc[t] = "out"
  /\ pc[t] \in {"spin", "blocked", "adjust", "trywait"} => got[t] = 0
Places == \A t \in Threads : Place(t)

(* each element belongs to a permit not yet acquired, or to one thread *)
ElementsKept == size = signalled - acquired + Total(Threads, Holds)

QueueInv == SemaphoreInv /\ QueueTypes /\ Places /\ ElementsKept

LEMMA HoldsType == QueueTypes => Holds \in [Threads -> Nat]
BY DEF QueueTypes, Holds, Held, Entitled

(* The permits of Entitled, added up. *)
LEMMA EntitledIsSum ==
  ASSUME IsFiniteSet(Threads), NEW e \in [Threads -> Nat], \A t \in Threads : e[t] = Entitled(t)
  PROVE  \E sum : Sums(Threads, e, sum) /\ MapThenSumSet(Entitled, Threads) = sum[Threads]
<1> DEFINE Iter(g) == [s \in SUBSET Threads |->
                         IF s = {} THEN 0 ELSE Entitled(First(s)) + g[s \ {First(s)}]]
           f == CHOOSE g : g = Iter(g)
<1>1. MapThenSumSet(Entitled, Threads) = f[Threads]
  BY DEF MapThenSumSet, MapThenFoldSet, First
<1>2. ASSUME NEW s \in SUBSET Threads, s # {} PROVE e[First(s)] = Entitled(First(s))
  BY <1>2 DEF First
<1>3. PICK sum \in [SUBSET Threads -> Nat] : Sums(Threads, e, sum)
  BY SumsExist
<1>4. sum = Iter(sum)
  BY <1>2, <1>3 DEF Sums
<1>5. f = Iter(f)
  BY <1>4
<1> HIDE DEF f
<1>6. \A s \in SUBSET Threads : f[s] = Iter(f)[s]
  BY <1>5
<1>7. Sums(Threads, e, f)
  BY <1>2, <1>6 DEF Sums
<1> QED BY <1>1, <1>7

(* A step of t keeps the equation if it keeps it for what t answers for. *)
LEMMA ElementsMove ==
  ASSUME SemaphoreAssumption, QueueTypes, QueueTypes', ElementsKept, NEW t \in Threads,
         \A u \in Threads \ {t} : UNCHANGED Held(u),
         signalled \in Int, acquired \in Int, signalled' \in Int, acquired' \in Int,
         size' - (signalled' - acquired') - Held(t)' = size - (signalled - acquired) - Held(t)
  PROVE  ElementsKept'
<1> DEFINE e == Holds
           f == Holds'
<1>1. e \in [Threads -> Nat] /\ f \in [Threads -> Nat]
  <2>1. QueueTypes' => f \in [Threads -> Nat]
    BY DEF QueueTypes, Holds, Held, Entitled
  <2> QED BY <2>1, HoldsType
<1>2. f = [e EXCEPT ![t] = f[t]] /\ e[t] = Held(t) /\ f[t] = Held(t)'
  BY DEF Holds
<1>3. size = signalled - acquired + Total(Threads, e)
  BY DEF ElementsKept
<1> HIDE DEF e, f
<1>4. Total(Threads, e) \in Nat /\ Total(Threads, f) = Total(Threads, e) - e[t] + f[t]
  BY <1>1, <1>2, TotalsCompare DEF SemaphoreAssumption
<1>5. e[t] \in Nat /\ f[t] \in Nat /\ size \in Int /\ size' \in Int
  BY <1>1 DEF QueueTypes
<1>6. size' = signalled' - acquired' + Total(Threads, f)
  BY <1>2, <1>3, <1>4, <1>5
<1>7. size' = signalled' - acquired' + Total(Threads, Holds')
  BY <1>6 DEF f
<1> QED BY <1>7 DEF ElementsKept, Total, MapThenSumSet, MapThenFoldSet

(* an enqueue and its signal: elements become permits *)
LEMMA ProducerStep ==
  ASSUME SemaphoreAssumption, QueueInv, SemaphoreInv', NEW t \in Threads,
         (\E n \in SignalCounts : Enqueue(t, n)) \/ EnqueueSignal(t)
  PROVE  QueueInv'
<1>1. QueueTypes' /\ Places'
  BY DEF QueueInv, SemaphoreInv, TypeOK, PCs, QueueTypes, Places, Place, Enqueue, EnqueueSignal,
         MayCall, QGoto, semVars, Signal, Goto, SemaphoreAssumption
<1>2. /\ signalled \in Int /\ acquired \in Int /\ signalled' \in Int /\ acquired' \in Int
  BY DEF QueueInv, SemaphoreInv, TypeOK
<1>3. \A u \in Threads \ {t} : UNCHANGED Held(u)
  BY DEF QueueInv, QueueTypes, Held, Entitled, Enqueue, EnqueueSignal, QGoto, semVars, Signal
<1>4. size' - (signalled' - acquired') - Held(t)' = size - (signalled - acquired) - Held(t)
  BY <1>2 DEF QueueInv, QueueTypes, Held, Entitled, Enqueue, EnqueueSignal, QGoto, semVars,
              Signal, history, SemaphoreAssumption
<1>5. ElementsKept'
  BY <1>1, <1>2, <1>3, <1>4, ElementsMove DEF QueueInv
<1> QED BY <1>1, <1>5 DEF QueueInv

(* a dequeue before and after the semaphore: permits become elements *)
LEMMA ConsumerStep ==
  ASSUME SemaphoreAssumption, QueueInv, SemaphoreInv', NEW t \in Threads,
         \/ \E m \in Maxes : TryDequeue(t, m)
         \/ \E m \in Maxes, u \in Timeouts : WaitDequeue(t, m, u)
         \/ Waited(t) \/ TakeElements(t)
  PROVE  QueueInv'
<1> USE DEF QueueInv
<1>0. \A m \in Maxes : Available(m) \in Nat /\ (m_count <= 0 => Available(m) = 0)
  BY AvailableBounds DEF SemaphoreInv, TypeOK, SemaphoreAssumption, Available
<1>2. /\ signalled \in Int /\ acquired \in Int /\ signalled' \in Int /\ acquired' \in Int
      /\ m_count \in Int
  BY DEF SemaphoreInv, TypeOK
<1>3. CASE \E m \in Maxes : TryDequeue(t, m)
  <2>1. PICK m \in Maxes : TryDequeue(t, m)
    BY <1>3
  <2>2. QueueTypes' /\ Places'
    BY <1>0, <2>1 DEF SemaphoreInv, TypeOK, PCs, QueueTypes, Places, Place, TryDequeue,
           MayCall, QGoto, TryWaitMany, Goto
  <2>3. \A u \in Threads \ {t} : UNCHANGED Held(u)
    BY <2>1 DEF QueueTypes, Held, Entitled, TryDequeue, QGoto, TryWaitMany
  <2>4. Held(t) = 0 /\ Held(t)' = Available(m)
    BY <1>0, <2>1 DEF QueueTypes, Held, Entitled, TryDequeue, QGoto
  <2>5. size' = size /\ signalled' = signalled /\ acquired' = acquired + Available(m)
    BY <2>1 DEF TryDequeue, TryWaitMany
  <2>6. ElementsKept'
    BY <1>0, <1>2, <2>2, <2>3, <2>4, <2>5, ElementsMove DEF QueueTypes
  <2> QED BY <2>2, <2>6
<1>4. CASE \E m \in Maxes, u \in Timeouts : WaitDequeue(t, m, u)
  <2>1. PICK m \in Maxes : \E u \in Timeouts : WaitDequeue(t, m, u)
    BY <1>4
  <2>2. QueueTypes' /\ Places'
    BY <1>0, <1>2, <2>1 DEF SemaphoreInv, TypeOK, PCs, QueueTypes, Places, Place, WaitDequeue,
           MayCall, QGoto, WaitMany, Goto
  <2>3. \A u \in Threads \ {t} : UNCHANGED Held(u)
    BY <2>1 DEF QueueTypes, Held, Entitled, WaitDequeue, QGoto, WaitMany
  <2>4. Held(t) = 0 /\ Held(t)' = Available(m)
    BY <1>0, <2>1 DEF QueueTypes, Held, Entitled, WaitDequeue, QGoto, WaitMany
  <2>5. size' = size /\ signalled' = signalled /\ acquired' = acquired + Available(m)
    BY <2>1 DEF WaitDequeue, WaitMany
  <2>6. ElementsKept'
    BY <1>0, <1>2, <2>2, <2>3, <2>4, <2>5, ElementsMove DEF QueueTypes
  <2> QED BY <2>2, <2>6
<1>5. CASE Waited(t)
  <2>1. QueueTypes' /\ Places'
    BY <1>5 DEF SemaphoreInv, TypeOK, PCs, QueueTypes, Places, Place, Waited, QGoto, semVars
  <2>2. \A u \in Threads : UNCHANGED Held(u)
    BY <1>5 DEF QueueTypes, Held, Entitled, Waited, QGoto, semVars
  <2>3. size' = size /\ signalled' = signalled /\ acquired' = acquired
    BY <1>5 DEF Waited, semVars, history
  <2>4. ElementsKept'
    BY <1>2, <2>1, <2>2, <2>3, ElementsMove
  <2> QED BY <2>1, <2>4
<1>6. CASE TakeElements(t)
  <2>1. PICK k \in 1..Least(left[t], size) :
          /\ QGoto(t, "take", IF k = left[t] THEN "out" ELSE "take")
          /\ size' = size - k /\ left' = [left EXCEPT ![t] = @ - k]
          /\ UNCHANGED semVars
    BY <1>6 DEF TakeElements
  <2>2. k \in Nat /\ k <= left[t] /\ left[t] \in Nat /\ size \in Int
    BY DEF QueueTypes, Least
  <2>3. QueueTypes' /\ Places'
    BY <2>1, <2>2 DEF SemaphoreInv, TypeOK, PCs, QueueTypes, Places, Place, QGoto, semVars
  <2>4. \A u \in Threads \ {t} : UNCHANGED Held(u)
    BY <2>1 DEF QueueTypes, Held, Entitled, QGoto, semVars
  <2>5. Held(t) = left[t] /\ Held(t)' = left[t] - k
    BY <2>1, <2>2 DEF QueueTypes, Held, Entitled, QGoto
  <2>6. size' = size - k /\ signalled' = signalled /\ acquired' = acquired
    BY <2>1 DEF semVars, history
  <2>7. ElementsKept'
    BY <1>2, <2>2, <2>3, <2>4, <2>5, <2>6, ElementsMove
  <2> QED BY <2>3, <2>7
<1> QED BY <1>3, <1>4, <1>5, <1>6

(* inside the semaphore: what is acquired is got by the same thread *)
LEMMA InsideStep ==
  ASSUME SemaphoreAssumption, QueueInv, SemaphoreInv', NEW t \in Threads, SemaphoreStep(t)
  PROVE  QueueInv'
<1> USE DEF QueueInv
<1>1. /\ signalled \in Int /\ acquired \in Int /\ signalled' \in Int /\ acquired' \in Int
      /\ m_count \in Int
  BY DEF SemaphoreInv, TypeOK
<1>2. UNCHANGED <<size, qpc, left>> /\ signalled' = signalled
  BY DEF SemaphoreStep, queueVars, Step, WaitStep, SpinTake, Subtract, KernelWait, KernelTimeout,
         AdjustRestore, AdjustSignalled, AdjustTry, TakeMore, Post, history
<1>3. Step(t) /\ Place(t)
  BY DEF SemaphoreStep, Places
<1>4. PICK n \in Nat :
        /\ got' = [got EXCEPT ![t] = @ + n] /\ acquired' = acquired + n
        /\ n > 0 => pc[t] \in {"spin", "blocked", "trywait", "more"}
                    /\ pc'[t] \in {"idle", "more"}
  <2>1. CASE SpinTake(t) \/ TakeMore(t)
    <3>1. max[t] \in Nat /\ max[t] - 1 \in Nat
      BY DEF SemaphoreInv, TypeOK
    <3>2. Available(max[t]) \in Nat /\ Available(max[t] - 1) \in Nat
      BY <1>1, <3>1, AvailableBounds
    <3> QED BY <2>1, <3>2 DEF SpinTake, TakeMore, Take, Goto, SemaphoreInv, TypeOK
  <2>2. CASE (Subtract(t) /\ m_count > 0) \/ KernelWait(t) \/ (AdjustTry(t) /\ m_sema_ > 0)
    <3>1. /\ got' = [got EXCEPT ![t] = @ + 1] /\ acquired' = acquired + 1
          /\ pc[t] \in {"spin", "blocked", "trywait"} /\ pc'[t] = "more"
      BY <2>2 DEF Subtract, KernelWait, AdjustTry, Take, TakeKernel, Goto, SemaphoreInv, TypeOK
    <3> QED BY <3>1
  <2>3. CASE \/ (Subtract(t) /\ ~(m_count > 0)) \/ KernelTimeout(t) \/ AdjustRestore(t)
             \/ AdjustSignalled(t) \/ (AdjustTry(t) /\ ~(m_sema_ > 0)) \/ Post(t)
    <3>1. got' = got /\ acquired' = acquired
      BY <2>3 DEF Subtract, KernelTimeout, AdjustRestore, AdjustSignalled, AdjustTry, Post, history
    <3>2. got' = [got EXCEPT ![t] = @ + 0] /\ acquired' = acquired + 0
      BY <1>1, <3>1 DEF QueueTypes
    <3>3. 0 \in Nat /\ ~(0 > 0)
      OBVIOUS
    <3> QED BY <3>2, <3>3, Zenon
  <2> QED BY <1>3, <2>1, <2>2, <2>3 DEF Step, WaitStep
<1>5. \A u \in Threads \ {t} : pc'[u] = pc[u]
  BY <1>3 DEF Step, WaitStep, SpinTake, Subtract, KernelWait, KernelTimeout,
         AdjustRestore, AdjustSignalled, AdjustTry, TakeMore, Post, Goto, SemaphoreInv, TypeOK
<1>6. /\ \/ pc[t] = "post" /\ pc'[t] \in {"post", "idle"}
         \/ qpc[t] = "sema" /\ pc'[t] # "post"
      /\ pc'[t] \in {"spin", "blocked", "adjust", "trywait"} =>
           pc[t] \in {"spin", "blocked", "adjust", "trywait"}
  BY <1>3 DEF Place, Step, WaitStep, SpinTake, Subtract, KernelWait, KernelTimeout,
         AdjustRestore, AdjustSignalled, AdjustTry, TakeMore, Post, Goto, SemaphoreInv, TypeOK
<1>7. QueueTypes'
  BY <1>2, <1>4 DEF QueueTypes
<1>8. \A u \in Threads \ {t} : Place(u)'
  BY <1>2, <1>4, <1>5 DEF Places, Place, QueueTypes
<1>9. Place(t)'
  BY <1>2, <1>3, <1>4, <1>6 DEF Place, QueueTypes
<1>10. n > 0 => qpc[t] = "sema"
  BY <1>3, <1>4 DEF Place
<1>11. \A u \in Threads \ {t} : UNCHANGED Held(u)
  BY <1>2, <1>4 DEF Held, Entitled, QueueTypes
<1>12. Held(t)' = Held(t) + n /\ Held(t) \in Nat
  BY <1>2, <1>4, <1>10 DEF Held, Entitled, QueueTypes
<1>13. ElementsKept'
  BY <1>1, <1>2, <1>4, <1>7, <1>11, <1>12, ElementsMove DEF QueueTypes
<1> QED BY <1>7, <1>8, <1>9, <1>13 DEF Places

LEMMA QueueInductive ==
  ASSUME SemaphoreAssumption
  PROVE  QueueSpec => []QueueInv
<1>1. QueueInit => QueueInv
  <2> SUFFICES ASSUME QueueInit PROVE QueueInv
    OBVIOUS
  <2>1. SemaphoreInv
    BY SemaphoreStarts DEF QueueInit
  <2>2. QueueTypes /\ Places
    BY DEF QueueInit, Init, QueueTypes, Places, Place
  <2>3. \A t \in Threads : Holds[t] = 0
    BY DEF QueueInit, Holds, Held, Entitled
  <2>4. Total(Threads, Holds) = 0
    BY <2>2, <2>3, HoldsType, TotalsCompare DEF SemaphoreAssumption
  <2> QED BY <2>1, <2>2, <2>4 DEF QueueInv, ElementsKept, QueueInit, Init
<1>2. QueueInv /\ [QueueNext]_allVars => QueueInv'
  <2> SUFFICES ASSUME QueueInv, [QueueNext]_allVars PROVE QueueInv'
    OBVIOUS
  <2>1. ASSUME UNCHANGED allVars PROVE QueueInv'
    <3>1. SemaphoreInv'
      BY <2>1, SemaphoreStutters DEF allVars, QueueInv
    <3>2. QueueTypes' /\ Places'
      BY <2>1 DEF allVars, queueVars, semVars, QueueInv, QueueTypes, Places, Place
    <3>3. Holds' = Holds
      BY <2>1 DEF allVars, queueVars, semVars, Holds, Held, Entitled
    <3>4. ElementsKept'
      BY <2>1, <3>3 DEF allVars, queueVars, semVars, history, QueueInv, ElementsKept, Total,
                          MapThenSumSet, MapThenFoldSet
    <3> QED BY <3>1, <3>2, <3>4 DEF QueueInv
  <2>2. ASSUME NEW t \in Threads, QueueCall(t) \/ QueueStep(t) PROVE QueueInv'
    <3>1. CASE (\E n \in SignalCounts : Enqueue(t, n)) \/ Waited(t) \/ TakeElements(t)
      <4>1. UNCHANGED semVars
        BY <3>1 DEF Enqueue, Waited, TakeElements
      <4>2. SemaphoreInv'
        BY <4>1, SemaphoreStutters DEF QueueInv
      <4> QED BY <3>1, <4>2, ProducerStep, ConsumerStep
    <3>2. CASE \/ EnqueueSignal(t) \/ SemaphoreStep(t)
               \/ \E m \in Maxes : TryDequeue(t, m)
               \/ \E m \in Maxes, u \in Timeouts : WaitDequeue(t, m, u)
      <4>1. Asks(t) \/ Step(t)
        <5>1. left[t] \in Nat
          BY DEF QueueInv, QueueTypes
        <5> QED BY <3>2, <5>1 DEF EnqueueSignal, SemaphoreStep, TryDequeue, WaitDequeue, Asks
      <4>2. SemaphoreInv'
        BY <4>1, InvStep DEF QueueInv
      <4> QED BY <3>2, <4>2, ProducerStep, ConsumerStep, InsideStep
    <3> QED BY <2>2, <3>1, <3>2 DEF QueueCall, QueueStep
  <2> QED BY <2>1, <2>2 DEF QueueNext, TakeNothing
<1> QED BY <1>1, <1>2, PTL DEF QueueSpec

(* what the equations say of the permits *)
LEMMA PermitsOfQueue ==
  ASSUME SemaphoreAssumption, QueueAssumption, QueueInv
  PROVE  /\ Available(size + 1) <= signalled - acquired
         /\ signalled - acquired \in Nat
         /\ NoLostSignal
<1>1. SemaphoreInv
  BY DEF QueueInv
<1>2. PermitsKept
  BY <1>1, PermitsFollow
<1>3. /\ signalled - acquired = m_count + Cardinality(Waiting)
      /\ signalled \in Int /\ acquired \in Int /\ m_count \in Int
  BY <1>1 DEF SemaphoreInv, CountKept, TypeOK, QueueAssumption, SemaphoreAssumption
<1>4. Cardinality(Waiting) \in Nat
  BY FS_Subset, FS_CardinalityType DEF Waiting, SemaphoreAssumption
<1>5. signalled - acquired \in Nat
  BY <1>2, <1>3 DEF PermitsKept, NeverOverAcquired, QueueAssumption
<1>6. Available(size + 1) <= signalled - acquired
  BY <1>3, <1>4, <1>5 DEF Available, Least, QueueInv, QueueTypes
<1> QED BY <1>2, <1>5, <1>6 DEF PermitsKept

(* Whatever the other threads do between a push and its signal, or a permit and its element
   (BlockingConcurrentQueue::enqueue, wait_dequeue, try_dequeue): the permits there are and those
   consumers have got are never more than the elements, so a consumer's loop ends. *)
THEOREM AlwaysBackedByElements ==
  ASSUME SemaphoreAssumption, QueueAssumption
  PROVE  QueueSpec => []BackedByElements
<1>1. QueueInv => BackedByElements
  <2> SUFFICES ASSUME QueueInv PROVE BackedByElements
    OBVIOUS
  <2> DEFINE e == [t \in Threads |-> Entitled(t)]
  <2>1. e \in [Threads -> Nat] /\ Holds \in [Threads -> Nat] /\ IsFiniteSet(Threads)
    BY DEF QueueInv, QueueTypes, Entitled, Holds, Held, SemaphoreAssumption
  <2>2. \A t \in Threads : e[t] = Entitled(t) /\ e[t] <= Holds[t]
    BY DEF QueueInv, QueueTypes, Entitled, Holds, Held
  <2> HIDE DEF e
  <2>3. PICK sum : Sums(Threads, e, sum) /\ MapThenSumSet(Entitled, Threads) = sum[Threads]
    BY <2>1, <2>2, EntitledIsSum
  <2>4. PICK rest : Sums(Threads, Holds, rest) /\ Total(Threads, Holds) = rest[Threads]
    BY <2>1, TotalIsSum
  <2>5. sum[Threads] \in Nat /\ sum[Threads] <= rest[Threads]
    BY <2>1, <2>2, <2>3, <2>4, SumsCompare
  <2>6. rest[Threads] \in Nat
    BY <2>1, <2>4, TotalsCompare
  <2>7. size = signalled - acquired + rest[Threads]
    BY <2>4 DEF QueueInv, ElementsKept
  <2>8. Available(size + 1) \in Int
    BY DEF Available, Least, QueueInv, QueueTypes, SemaphoreInv, TypeOK
  <2> QED BY <2>3, <2>5, <2>6, <2>7, <2>8, PermitsOfQueue DEF BackedByElements
<1> QED BY <1>1, QueueInductive, PTL

(* When everyone is done or asleep, a consumer sleeps only because there is no element
   (BlockingConcurrentQueue::wait_dequeue): no signal() is lost, and no permit is left over. *)
THEOREM NobodyEverSleepsOnElements ==
  ASSUME SemaphoreAssumption, QueueAssumption
  PROVE  QueueSpec => []NobodySleepsOnElements
<1>1. QueueInv => NobodySleepsOnElements
  <2> SUFFICES ASSUME QueueInv, QueueAtRest, NEW b \in Threads, pc[b] = "blocked"
               PROVE  size = 0
    BY DEF NobodySleepsOnElements
  <2>1. acquired = signalled
    BY PermitsOfQueue DEF NoLostSignal, QueueAtRest, QueueAssumption, QueueInv, SemaphoreInv, TypeOK
  <2>2. \A t \in Threads : Holds[t] = 0
    BY DEF QueueInv, QueueTypes, Places, Place, QueueAtRest, Holds, Held, Entitled
  <2>3. Total(Threads, Holds) = 0
    BY <2>2, HoldsType, TotalsCompare DEF SemaphoreAssumption, QueueInv
  <2> QED BY <2>1, <2>3 DEF QueueInv, ElementsKept, SemaphoreInv, TypeOK
<1> QED BY <1>1, QueueInductive, PTL

-----------------------------------------------------------------------------
(* The choice of a producer: XDispatch *)
(* finitely many consumers, who ask for at least one element, and a scan of at least one producer *)
Asking ==
  /\ IsFiniteSet(Dequeuers) /\ MaxProducers \in Nat /\ Batches \subseteq Nat \ {0}
  /\ ScanLimit \in Nat \ {0} /\ CountMod \in Nat \ {0}

Visits == {"check", "claim", "settle"}
ScanStates ==
  [pc : {"scan"}, ptr : Nat, best : Nat, bestSize : Nat, nonEmpty : Nat, first : Nat, empty : SUBSET Nat]
VisitStates ==
  [pc : {"rotate", "done"} \cup Visits, stage : {"best", "others", "all", "from", "current", "round"},
   walk : Seq(Nat), max : Nat \ {0}, single : BOOLEAN, tail : Nat, asked : Nat, got : Nat, count : Nat,
   first : Nat, empty : SUBSET Nat]

Members(s) == {s[i] : i \in 1..Len(s)}

(* the producers from the first that were not looked at yet, when n are listed *)
ScanInv(d, n) ==
  /\ d.ptr <= d.first /\ d.first <= n /\ d.nonEmpty <= ScanLimit
  /\ IF d.nonEmpty = 0 THEN (d.ptr + 1)..d.first \subseteq d.empty /\ d.bestSize = 0
     ELSE d.best \in 1..n

VisitInv(d, n) ==
  /\ Members(d.walk) \subseteq 1..n /\ d.first <= n /\ d.tail <= n
  /\ (d.walk = <<>>) = (d.pc \notin Visits)
  /\ d.pc = "rotate" => d.stage = "current"
  /\ d.stage \in {"best", "current"} => d.count = 0 /\ Len(d.walk) <= 1
  /\ (d.pc # "settle" => d.got = 0) /\ d.got <= d.asked
  /\ d.count = 0 =>
       /\ d.stage \in {"others", "all", "round"} => 1..d.first \subseteq d.empty \cup Members(d.walk)
       /\ d.stage # "from" /\ d.pc = "done" => 1..d.first \subseteq d.empty

ConsumerInv(d, n) == (d \in ScanStates => ScanInv(d, n)) /\ (d \in VisitStates => VisitInv(d, n))

(* where a token is, when n producers are listed *)
TokenStates ==
  [initialOffset : Nat, lastKnown : Int, items : Nat, current : Nat, desired : Nat, counts : SUBSET Nat]

TokenInv(k, n) == k \in TokenStates => (k.desired # 0 => k.current \in 1..n /\ k.desired \in 1..n)

(* what a consumer has claimed at producer p, and what it has claimed too much *)
Settling(d, p) == d.pc = "settle" /\ Head(d.walk) = p
ClaimOf(d, p) == IF Settling(d, p) THEN d.got ELSE 0
ExcessOf(d, p) == IF Settling(d, p) THEN d.asked - d.got ELSE 0
ClaimedAt(p) == [c \in Dequeuers |-> ClaimOf(consumer[c], p)]
ExcessAt(p) == [c \in Dequeuers |-> ExcessOf(consumer[c], p)]

(* what the proxy has still to count, of the producers and of the consumers *)
Uncounted == [p \in 1..MaxProducers |-> unclaimed[p] - enqueuing[p]]
AmountOf(d) == IF d.pc \in {"idle", "scan"} THEN 0 ELSE d.count + d.got
Amounts == [c \in Dequeuers |-> AmountOf(consumer[c])]

DispatchTypes ==
  /\ listed \in Nat /\ producerCount \in Nat /\ listed <= producerCount /\ producerCount <= MaxProducers
  /\ unclaimed \in [1..MaxProducers -> Nat] /\ excess \in [1..MaxProducers -> Nat]
  /\ behind \in [1..MaxProducers -> Nat] /\ enqueuing \in [1..MaxProducers -> Nat]
  /\ proxyCount \in 0..(CountMod - 1) /\ globalExplicitConsumerOffset \in Nat /\ nextExplicitConsumerId \in Nat
  /\ dispatched \in Nat /\ Asking
  /\ token \in [Dequeuers -> {Dispatch!NoToken} \cup TokenStates]
  /\ consumer \in [Dequeuers -> {Dispatch!Idle} \cup ScanStates \cup VisitStates]

ClaimsInv ==
  \A p \in 1..MaxProducers : behind[p] = Total(Dequeuers, ClaimedAt(p)) /\ excess[p] = Total(Dequeuers, ExcessAt(p))

(* a is b but for a multiple of m *)
Differs(a, b, m) == \E k \in Int : a = b + k * m
CountInv == Differs(proxyCount, Total(1..MaxProducers, Uncounted) + Total(Dequeuers, Amounts), CountMod)

(* a consumer that visits producers with a token *)
WithToken(d) == d \in VisitStates /\ d.stage \in {"current", "round"}

PlacesInv ==
  \A c \in Dequeuers : /\ ConsumerInv(consumer[c], listed) /\ TokenInv(token[c], listed)
                       /\ WithToken(consumer[c]) => token[c] \in TokenStates

DispatchInv == DispatchTypes /\ PlacesInv /\ ClaimsInv /\ CountInv

(* the tokens and the offsets after a step *)
TokensKept ==
  /\ token' \in [Dequeuers -> {Dispatch!NoToken} \cup TokenStates]
  /\ \A e \in Dequeuers : TokenInv(token'[e], listed) /\ (token[e] \in TokenStates => token'[e] \in TokenStates)
  /\ globalExplicitConsumerOffset' \in Nat /\ nextExplicitConsumerId' \in Nat

-----------------------------------------------------------------------------
(* The walks over the list of producers *)
LEMMA DownwardsMeets ==
  ASSUME NEW from \in Nat, NEW to \in Nat
  PROVE  Dispatch!Downwards(from, to) \in Seq(Nat) /\ Members(Dispatch!Downwards(from, to)) = to..from
<1> DEFINE n == IF from < to THEN 0 ELSE from - to + 1
           s == [i \in 1..n |-> from - i + 1]
<1>1. n \in Nat /\ 1..(from - to + 1) = 1..n
  OBVIOUS
<1>2. Dispatch!Downwards(from, to) = s
  BY <1>1 DEF Dispatch!Downwards
<1>3. \A i \in 1..n : s[i] \in to..from /\ s[i] \in Nat
  OBVIOUS
<1>4. s \in Seq(Nat) /\ Len(s) = n
  BY <1>1, <1>3
<1>5. \A p \in to..from : from - p + 1 \in 1..n /\ s[from - p + 1] = p
  OBVIOUS
<1> HIDE DEF n, s
<1> QED BY <1>2, <1>3, <1>4, <1>5 DEF Members

LEMMA MembersJoin ==
  ASSUME NEW s \in Seq(Nat), NEW t \in Seq(Nat)
  PROVE  s \o t \in Seq(Nat) /\ Members(s \o t) = Members(s) \cup Members(t)
<1>1. s \o t \in Seq(Nat) /\ Len(s \o t) = Len(s) + Len(t) /\ Len(s) \in Nat /\ Len(t) \in Nat
  OBVIOUS
<1>2. \A i \in 1..(Len(s) + Len(t)) : (s \o t)[i] = IF i <= Len(s) THEN s[i] ELSE t[i - Len(s)]
  OBVIOUS
<1>3. \A i \in 1..Len(s) : i \in 1..(Len(s) + Len(t)) /\ (s \o t)[i] = s[i]
  BY <1>1, <1>2
<1>4. \A i \in 1..Len(t) : Len(s) + i \in 1..(Len(s) + Len(t)) /\ (s \o t)[Len(s) + i] = t[i]
  BY <1>1, <1>2
<1>5. \A i \in 1..(Len(s) + Len(t)) : i \in 1..Len(s) \/ i - Len(s) \in 1..Len(t)
  BY <1>1
<1>6. PICK u \in Seq(Nat) : u = s \o t
  BY <1>1
<1>7. Members(u) \subseteq Members(s) \cup Members(t)
  BY <1>1, <1>2, <1>5, <1>6 DEF Members
<1>8. Members(s) \subseteq Members(u)
  BY <1>1, <1>3, <1>6 DEF Members
<1>9. Members(t) \subseteq Members(u)
  BY <1>1, <1>4, <1>6 DEF Members
<1> QED BY <1>6, <1>7, <1>8, <1>9

LEMMA MembersSplit ==
  ASSUME NEW s \in Seq(Nat), s # <<>>
  PROVE  /\ Head(s) \in Members(s) /\ Tail(s) \in Seq(Nat) /\ Len(Tail(s)) = Len(s) - 1
         /\ Members(s) = {Head(s)} \cup Members(Tail(s))
<1>1. Len(s) \in Nat /\ Len(s) >= 1 /\ Head(s) = s[1] /\ Tail(s) \in Seq(Nat) /\ Len(Tail(s)) = Len(s) - 1
  OBVIOUS
<1>2. \A i \in 1..(Len(s) - 1) : Tail(s)[i] = s[i + 1]
  OBVIOUS
<1>3. \A i \in 1..Len(s) : i = 1 \/ i - 1 \in 1..(Len(s) - 1)
  BY <1>1
<1>4. \A i \in 1..(Len(s) - 1) : i + 1 \in 1..Len(s)
  BY <1>1
<1>5. 1 \in 1..Len(s)
  BY <1>1
<1>6. PICK u \in Seq(Nat) : u = Tail(s)
  BY <1>1
<1>7. Members(s) \subseteq {Head(s)} \cup Members(u)
  BY <1>1, <1>2, <1>3, <1>6 DEF Members
<1>8. Members(u) \subseteq Members(s)
  BY <1>1, <1>2, <1>4, <1>6 DEF Members
<1>9. Head(s) \in Members(s)
  BY <1>1, <1>5 DEF Members
<1> QED BY <1>1, <1>6, <1>7, <1>8, <1>9

LEMMA AroundMeets ==
  ASSUME NEW p \in Nat \ {0}, NEW n \in Nat
  PROVE  /\ Dispatch!Around(p, n) \in Seq(Nat)
         /\ Members(Dispatch!Around(p, n)) = 1..(p - 1) \cup (p + 1)..n
         /\ Dispatch!Downwards(n, p + 1) \o Dispatch!Downwards(p - 1, 1) \in Seq(Nat)
         /\ Members(Dispatch!Downwards(n, p + 1) \o Dispatch!Downwards(p - 1, 1)) = 1..(p - 1) \cup (p + 1)..n
<1>1. p - 1 \in Nat /\ p + 1 \in Nat /\ 1 \in Nat
  OBVIOUS
<1>2. PICK lower \in Seq(Nat) : lower = Dispatch!Downwards(p - 1, 1) /\ Members(lower) = 1..(p - 1)
  BY <1>1, DownwardsMeets
<1>3. PICK upper \in Seq(Nat) : upper = Dispatch!Downwards(n, p + 1) /\ Members(upper) = (p + 1)..n
  BY <1>1, DownwardsMeets
<1>4. Dispatch!Around(p, n) = lower \o upper
  BY <1>2, <1>3 DEF Dispatch!Around
<1>5. /\ lower \o upper \in Seq(Nat) /\ Members(lower \o upper) = 1..(p - 1) \cup (p + 1)..n
      /\ upper \o lower \in Seq(Nat) /\ Members(upper \o lower) = (p + 1)..n \cup 1..(p - 1)
  BY <1>2, <1>3, MembersJoin
<1> QED BY <1>2, <1>3, <1>4, <1>5

LEMMA SmallSets ==
  ASSUME NEW a \in Int, NEW b \in Int
  PROVE  /\ Dispatch!Max({a, b}) = (IF a >= b THEN a ELSE b)
         /\ Dispatch!Min({a, b}) = (IF a <= b THEN a ELSE b)
<1>1. PICK x \in {a, b} : \A y \in {a, b} : x >= y
  OBVIOUS
<1>2. PICK z \in {a, b} : \A y \in {a, b} : z <= y
  OBVIOUS
<1>3. Dispatch!Max({a, b}) \in {a, b} /\ \A y \in {a, b} : Dispatch!Max({a, b}) >= y
  BY <1>1 DEF Dispatch!Max
<1>4. Dispatch!Min({a, b}) \in {a, b} /\ \A y \in {a, b} : Dispatch!Min({a, b}) <= y
  BY <1>2 DEF Dispatch!Min
<1> QED BY <1>3, <1>4

-----------------------------------------------------------------------------
(* What a consumer is doing *)
LEMMA States ==
  ASSUME NEW d \in {Dispatch!Idle} \cup ScanStates \cup VisitStates
  PROVE  /\ d.pc = "idle" => d = Dispatch!Idle
         /\ d.pc = "scan" => d \in ScanStates /\ d \notin VisitStates
         /\ d.pc \in {"rotate", "done"} \cup Visits => d \in VisitStates /\ d \notin ScanStates
         /\ d = Dispatch!Idle => d.pc = "idle" /\ d \notin VisitStates /\ d \notin ScanStates
         /\ d.pc \in {"idle", "scan", "rotate", "done"} \cup Visits
         /\ AmountOf(d) \in Nat
<1>1. d = Dispatch!Idle => d.pc = "idle"
  BY DEF Dispatch!Idle
<1>2. d \in ScanStates => d.pc = "scan"
  BY DEF ScanStates
<1>3. d \in VisitStates => d.pc \in {"rotate", "done"} \cup Visits
  BY DEF VisitStates
<1>4. d \in VisitStates => d.count \in Nat /\ d.got \in Nat
  BY DEF VisitStates
<1> QED BY <1>1, <1>2, <1>3, <1>4 DEF Visits, AmountOf

LEMMA MoreListed ==
  ASSUME NEW m \in Nat, NEW n \in Nat, m <= n,
         NEW d \in {Dispatch!Idle} \cup ScanStates \cup VisitStates, ConsumerInv(d, m)
  PROVE  ConsumerInv(d, n)
<1>1. CASE d \in ScanStates
  <2>1. d.pc = "scan" /\ d.ptr \in Nat /\ d.first \in Nat
    BY <1>1 DEF ScanStates
  <2>2. ScanInv(d, n)
    BY <1>1, <2>1 DEF ConsumerInv, ScanInv
  <2> QED BY <2>1, <2>2, States DEF ConsumerInv
<1>2. CASE d \in VisitStates
  <2>1. d.first \in Nat /\ d.tail \in Nat /\ d.pc \in {"rotate", "done"} \cup Visits
    BY <1>2 DEF VisitStates
  <2>2. VisitInv(d, m)
    BY <1>2 DEF ConsumerInv
  <2>3. 1..m \subseteq 1..n
    OBVIOUS
  <2>4. VisitInv(d, n)
    BY <2>1, <2>2, <2>3 DEF VisitInv
  <2> QED BY <2>1, <2>4, States DEF ConsumerInv
<1>3. CASE d = Dispatch!Idle
  BY <1>3, States DEF ConsumerInv
<1> QED BY <1>1, <1>2, <1>3

(* a consumer becomes another: its claims, and those of the other consumers *)
LEMMA ConsumerMoves ==
  ASSUME DispatchInv, NEW c \in Dequeuers, NEW x \in {Dispatch!Idle} \cup ScanStates \cup VisitStates,
         consumer' = [consumer EXCEPT ![c] = x], ConsumerInv(x, listed), WithToken(x) => token'[c] \in TokenStates,
         UNCHANGED listed, TokensKept
  PROVE  /\ consumer' \in [Dequeuers -> {Dispatch!Idle} \cup ScanStates \cup VisitStates] /\ PlacesInv'
         /\ \A e \in Dequeuers : consumer'[e] = IF e = c THEN x ELSE consumer[e]
<1>1. \A e \in Dequeuers : consumer'[e] = IF e = c THEN x ELSE consumer[e]
  BY DEF DispatchInv, DispatchTypes
<1>2. PlacesInv'
  BY <1>1 DEF DispatchInv, PlacesInv, TokensKept
<1> QED BY <1>1, <1>2 DEF DispatchInv, DispatchTypes

LEMMA QuietStep ==
  ASSUME DispatchInv, NEW c \in Dequeuers, NEW x \in {Dispatch!Idle} \cup ScanStates \cup VisitStates,
         consumer' = [consumer EXCEPT ![c] = x], ConsumerInv(x, listed), WithToken(x) => token'[c] \in TokenStates,
         x.pc # "settle", consumer[c].pc # "settle", AmountOf(x) = AmountOf(consumer[c]),
         UNCHANGED <<listed, producerCount, unclaimed, excess, behind, enqueuing, proxyCount>>,
         dispatched' \in Nat, TokensKept
  PROVE  DispatchInv'
<1>1. /\ consumer' \in [Dequeuers -> {Dispatch!Idle} \cup ScanStates \cup VisitStates] /\ PlacesInv'
      /\ \A e \in Dequeuers : consumer'[e] = IF e = c THEN x ELSE consumer[e]
  BY ConsumerMoves
<1>2. DispatchTypes'
  BY <1>1 DEF DispatchInv, DispatchTypes, Asking, TokensKept
<1>3. \A p : ClaimedAt(p)' = ClaimedAt(p) /\ ExcessAt(p)' = ExcessAt(p)
  BY <1>1 DEF ClaimedAt, ExcessAt, ClaimOf, ExcessOf, Settling
<1>4. Amounts' = Amounts /\ Uncounted' = Uncounted
  BY <1>1 DEF Amounts, Uncounted
<1>5. ClaimsInv' /\ CountInv'
  BY <1>3, <1>4 DEF DispatchInv, ClaimsInv, CountInv
<1> QED BY <1>1, <1>2, <1>5 DEF DispatchInv

(* a producer has been visited *)
LEMMA VisitEnds ==
  ASSUME DispatchInv, NEW c \in Dequeuers, consumer[c].pc \in Visits, NEW taken \in Nat
  PROVE  LET x == Dispatch!Visited(c, taken) IN
           /\ x \in VisitStates /\ ConsumerInv(x, listed) /\ x.pc # "settle"
           /\ AmountOf(x) = consumer[c].count + taken /\ (WithToken(x) => WithToken(consumer[c]))
           /\ x.stage # "current"
<1> DEFINE d == consumer[c]
           p == Head(d.walk)
           rest == Dispatch!Remaining(c, taken)
           full == d.count + taken = d.max
           walk == IF full THEN <<>> ELSE rest
           x == [d EXCEPT !.pc = IF walk = <<>> THEN "done" ELSE "check", !.walk = walk,
                          !.stage = CASE @ = "best" -> "others" [] @ = "current" -> "round" [] OTHER -> @,
                          !.tail = IF d.stage = "current" THEN listed ELSE @,
                          !.count = @ + taken, !.asked = 0, !.got = 0,
                          !.empty = IF taken = 0 THEN @ \cup {p} ELSE @]
           z == Dispatch!Returning(x)
<1>1. d \in VisitStates /\ VisitInv(d, listed) /\ listed \in Nat
  BY States DEF DispatchInv, DispatchTypes, PlacesInv, ConsumerInv
<1>2. /\ d.walk \in Seq(Nat) /\ d.walk # <<>> /\ d.count \in Nat /\ d.tail \in Nat /\ d.max \in Nat \ {0}
      /\ d.first \in Nat /\ d.empty \in SUBSET Nat
      /\ d.stage \in {"best", "others", "all", "from", "current", "round"}
      /\ Members(d.walk) \subseteq 1..listed /\ d.first <= listed /\ d.tail <= listed
      /\ d.stage \in {"best", "current"} => d.count = 0 /\ Len(d.walk) <= 1
      /\ d.count = 0 /\ d.stage \in {"others", "all", "round"} => 1..d.first \subseteq d.empty \cup Members(d.walk)
  BY <1>1 DEF VisitStates, VisitInv
<1>3. /\ p \in 1..listed /\ Tail(d.walk) \in Seq(Nat) /\ Members(Tail(d.walk)) \subseteq 1..listed
      /\ Members(d.walk) = {p} \cup Members(Tail(d.walk))
      /\ Len(Tail(d.walk)) = Len(d.walk) - 1
  BY <1>2, MembersSplit
<1>3a. p \in Nat \ {0} /\ p \in Nat
  BY <1>1, <1>3
<1>4. /\ rest \in Seq(Nat) /\ Members(rest) \subseteq 1..listed
      /\ d.stage \in {"best", "current"} => 1..listed \subseteq {p} \cup Members(rest)
      /\ d.stage \in {"others", "all"} \/ (d.stage = "round" /\ taken = 0) => rest = Tail(d.walk)
  <2>1. CASE d.stage = "best"
    <3>1. rest = Dispatch!Downwards(listed, p + 1) \o Dispatch!Downwards(p - 1, 1)
      BY <2>1 DEF Dispatch!Remaining
    <3>2. rest \in Seq(Nat) /\ Members(rest) = 1..(p - 1) \cup (p + 1)..listed
      BY <1>1, <1>3a, <3>1, AroundMeets
    <3> HIDE DEF rest, p, d
    <3> QED BY <1>1, <1>3, <2>1, <3>2
  <2>2. CASE d.stage = "current"
    <3>1. rest = Dispatch!Around(p, listed)
      BY <2>2 DEF Dispatch!Remaining
    <3>2. rest \in Seq(Nat) /\ Members(rest) = 1..(p - 1) \cup (p + 1)..listed
      BY <1>1, <1>3a, <3>1, AroundMeets
    <3> HIDE DEF rest, p, d
    <3> QED BY <1>1, <1>3, <2>2, <3>2
  <2>3. CASE d.stage = "round" /\ taken > 0
    <3>1. rest = Dispatch!Around(p, d.tail)
      BY <2>3 DEF Dispatch!Remaining
    <3>2. rest \in Seq(Nat) /\ Members(rest) = 1..(p - 1) \cup (p + 1)..d.tail
      BY <1>2, <1>3a, <3>1, AroundMeets
    <3> HIDE DEF rest, p, d
    <3> QED BY <1>1, <1>2, <1>3, <2>3, <3>2
  <2>4. CASE d.stage \in {"others", "all", "from"} \/ (d.stage = "round" /\ taken = 0)
    <3>1. rest = Tail(d.walk)
      BY <2>4 DEF Dispatch!Remaining
    <3> HIDE DEF rest, p, d
    <3> QED BY <1>3, <2>4, <3>1
  <2> QED BY <1>2, <2>1, <2>2, <2>3, <2>4
<1>5. /\ x.pc = (IF walk = <<>> THEN "done" ELSE "check") /\ x.walk = walk
      /\ x.stage = (CASE d.stage = "best" -> "others" [] d.stage = "current" -> "round" [] OTHER -> d.stage)
      /\ x.tail = (IF d.stage = "current" THEN listed ELSE d.tail)
      /\ x.count = d.count + taken /\ x.asked = 0 /\ x.got = 0 /\ x.first = d.first
      /\ x.empty = IF taken = 0 THEN d.empty \cup {p} ELSE d.empty
      /\ x \in VisitStates
  <2>1. walk \in Seq(Nat)
    BY <1>4
  <2>2. PICK w, b, s, n, e :
          /\ w = (IF walk = <<>> THEN "done" ELSE "check") /\ b = walk
          /\ s = (CASE d.stage = "best" -> "others" [] d.stage = "current" -> "round" [] OTHER -> d.stage)
          /\ n = (IF d.stage = "current" THEN listed ELSE d.tail)
          /\ e = IF taken = 0 THEN d.empty \cup {p} ELSE d.empty
    OBVIOUS
  <2>3. x = [d EXCEPT !.pc = w, !.walk = b, !.stage = s, !.tail = n, !.count = d.count + taken,
                      !.asked = 0, !.got = 0, !.empty = e]
    BY <2>2
  <2>4. /\ w \in {"done", "check"} /\ b \in Seq(Nat) /\ n \in Nat /\ d.count + taken \in Nat /\ e \in SUBSET Nat
        /\ s \in {"best", "others", "all", "from", "current", "round"}
    <3> HIDE DEF d, p, walk, x
    <3> QED BY <1>1, <1>2, <1>3a, <2>1, <2>2
  <2> HIDE DEF x, walk, p, d
  <2>5. /\ x \in VisitStates /\ x.pc = w /\ x.walk = b /\ x.stage = s /\ x.tail = n /\ x.count = d.count + taken
        /\ x.asked = 0 /\ x.got = 0 /\ x.first = d.first /\ x.empty = e
    <3>1. PICK m \in Nat : m = d.count + taken
      BY <2>4
    <3>2. x = [d EXCEPT !.pc = w, !.walk = b, !.stage = s, !.tail = n, !.count = m, !.asked = 0, !.got = 0, !.empty = e]
      BY <2>3, <3>1
    <3>3. x \in VisitStates
      BY <1>1, <2>4, <3>2 DEF VisitStates, Visits
    <3>4. /\ x.pc = w /\ x.walk = b /\ x.stage = s /\ x.tail = n /\ x.count = m
          /\ x.asked = 0 /\ x.got = 0 /\ x.first = d.first /\ x.empty = e
      BY <1>1, <3>2 DEF VisitStates
    <3> QED BY <3>1, <3>3, <3>4
  <2> QED BY <2>2, <2>5
<1> HIDE DEF x, rest, p
<1>6. walk = <<>> \/ ~full
  OBVIOUS
<1>7. VisitInv(x, listed)
  <2>1. Members(walk) \subseteq 1..listed
    BY <1>4 DEF Members
  <2>2. d.count + taken = 0 => walk = rest /\ taken = 0 /\ d.count = 0
    <3>1. PICK n \in Nat : n = d.count
      BY <1>2
    <3>2. n + taken = 0 => taken = 0 /\ n = 0
      OBVIOUS
    <3>3. d.max # 0
      BY <1>2
    <3> QED BY <3>1, <3>2, <3>3
  <2>3. (d.count + taken = 0 /\ x.stage # "from") => 1..d.first \subseteq x.empty \cup Members(walk)
    <3> SUFFICES ASSUME d.count + taken = 0, x.stage # "from" PROVE 1..d.first \subseteq x.empty \cup Members(walk)
      OBVIOUS
    <3>1. x.empty = d.empty \cup {p} /\ walk = rest /\ d.count = 0 /\ taken = 0
      BY <1>5, <2>2
    <3>2. CASE d.stage \in {"best", "current"}
      <4>1. 1..listed \subseteq {p} \cup Members(rest)
        BY <1>4, <3>2
      <4> QED BY <1>1, <1>2, <3>1, <4>1
    <3>3. CASE d.stage \in {"others", "all", "round"}
      <4>1. 1..d.first \subseteq d.empty \cup Members(d.walk) /\ rest = Tail(d.walk)
        BY <1>2, <1>4, <3>1, <3>3
      <4> QED BY <1>3, <3>1, <4>1
    <3> QED BY <1>2, <1>5, <3>2, <3>3
  <2>4. Members(<<>>) = {}
    BY DEF Members
  <2>5. x.stage \notin {"best", "current"} /\ x.pc \in {"done", "check"} /\ (walk = <<>>) = (x.pc = "done")
    BY <1>2, <1>5
  <2>6. x.tail <= listed
    BY <1>1, <1>2, <1>5
  <2> HIDE DEF walk
  <2> QED BY <1>2, <1>5, <2>1, <2>3, <2>4, <2>5, <2>6 DEF VisitInv, Visits
<1>8. x.pc \in {"done", "check"} /\ x \notin ScanStates
  BY <1>5, States DEF Visits
<1>9. AmountOf(x) = d.count + taken
  <2>1. d.count + taken \in Nat /\ x.pc \notin {"idle", "scan"}
    BY <1>2, <1>8
  <2> HIDE DEF walk, d
  <2> QED BY <1>5, <2>1 DEF AmountOf
<1>10. x \in VisitStates /\ ConsumerInv(x, listed) /\ x.pc # "settle"
  BY <1>5, <1>7, <1>8 DEF ConsumerInv
<1>11. WithToken(x) => WithToken(d)
  BY <1>1, <1>2, <1>5 DEF WithToken
<1>12. x.stage # "current"
  BY <1>2, <1>5
<1>13. x \in VisitStates /\ x.count \in Nat /\ x.first \in Nat /\ x.empty \in SUBSET Nat /\ x.stage # "best"
  BY <1>2, <1>5 DEF VisitStates
<1>14. x.pc = "done" => x.walk = <<>>
  BY <1>5
<1>15. Dispatch!Visited(c, taken) = IF x.pc = "done" THEN z ELSE x
  <2>1. Dispatch!Visited(c, taken) = IF walk = <<>> THEN z ELSE x
    BY DEF Dispatch!Visited, Dispatch!Full, x, z, p, rest
  <2>2. walk = <<>> <=> x.pc = "done"
    <3> HIDE DEF walk, d
    <3> QED BY <1>5
  <2> HIDE DEF walk, z
  <2> QED BY <2>1, <2>2
<1> HIDE DEF d, walk
<1>16. CASE x.pc = "done"
  <2>1. PICK s, f, e : /\ s = (IF x.stage = "from" THEN x.stage ELSE "all")
                       /\ f = (IF x.count = 0 THEN x.first ELSE 0) /\ e = (IF x.count = 0 THEN x.empty ELSE {})
    OBVIOUS
  <2>2. s \in {"from", "all"} /\ f \in Nat /\ f <= listed /\ e \in SUBSET Nat
    BY <1>1, <1>2, <1>5, <1>13, <2>1
  <2>3. z = [x EXCEPT !.stage = s, !.max = 1, !.single = FALSE, !.tail = 0, !.first = f, !.empty = e]
    BY <2>1 DEF Dispatch!Returning, z
  <2> HIDE DEF z
  <2>4. z \in VisitStates
    <3>1. PICK m \in Nat \ {0}, n \in Nat : m = 1 /\ n = 0
      OBVIOUS
    <3>2. PICK b \in BOOLEAN : b = FALSE
      OBVIOUS
    <3>3. s \in {"best", "others", "all", "from", "current", "round"}
      BY <2>2
    <3>4. z = [x EXCEPT !.stage = s, !.max = m, !.single = b, !.tail = n, !.first = f, !.empty = e]
      BY <2>3, <3>1, <3>2
    <3> QED BY <1>13, <2>2, <3>1, <3>2, <3>3, <3>4 DEF VisitStates
  <2>5. /\ z.pc = "done" /\ z.stage = s /\ z.tail = 0 /\ z.first = f /\ z.empty = e /\ z.walk = <<>>
        /\ z.count = x.count /\ z.got = x.got /\ z.asked = x.asked
    BY <1>13, <1>14, <1>16, <2>3 DEF VisitStates
  <2>6. z \notin ScanStates
    BY <2>4, <2>5, States DEF Visits
  <2>7. VisitInv(z, listed)
    BY <1>1, <1>7, <1>14, <1>16, <2>1, <2>2, <2>5 DEF VisitInv, Visits
  <2>8. AmountOf(z) = AmountOf(x) /\ ~WithToken(z) /\ z.stage # "current"
    BY <1>16, <2>2, <2>5 DEF AmountOf, WithToken
  <2> QED BY <1>9, <1>15, <1>16, <2>4, <2>5, <2>6, <2>7, <2>8 DEF ConsumerInv, d
<1>17. CASE x.pc # "done"
  BY <1>9, <1>10, <1>11, <1>12, <1>15, <1>17 DEF d
<1> QED BY <1>16, <1>17

LEMMA TokenMoves ==
  ASSUME DispatchInv, NEW c \in Dequeuers, consumer[c].pc \in Visits, NEW taken \in Nat,
         Dispatch!TokenVisited(c, taken)
  PROVE  TokensKept
<1> DEFINE d == consumer[c]
           k == token[c]
<1>1. d \in VisitStates /\ VisitInv(d, listed)
  BY States DEF DispatchInv, DispatchTypes, PlacesInv, ConsumerInv
<1>2. d.walk \in Seq(Nat) /\ d.walk # <<>> /\ Members(d.walk) \subseteq 1..listed
  BY <1>1 DEF VisitStates, VisitInv
<1>3. Head(d.walk) \in 1..listed /\ listed \in Nat
  BY <1>2, MembersSplit DEF DispatchInv, DispatchTypes
<1>4. /\ token \in [Dequeuers -> {Dispatch!NoToken} \cup TokenStates] /\ globalExplicitConsumerOffset \in Nat
      /\ nextExplicitConsumerId \in Nat /\ CountMod \in Nat \ {0}
      /\ \A e \in Dequeuers : TokenInv(token[e], listed)
      /\ d.stage \in {"current", "round"} => k \in TokenStates
  BY <1>1 DEF DispatchInv, DispatchTypes, Asking, PlacesInv, WithToken
<1>5. globalExplicitConsumerOffset' \in Nat /\ nextExplicitConsumerId' \in Nat
  BY <1>4 DEF Dispatch!TokenVisited
<1>6. \/ token' = token
      \/ d.stage = "current" /\ token' = [token EXCEPT ![c] = [k EXCEPT !.items = k.items + taken]]
      \/ d.stage = "round" /\ token' = [token EXCEPT ![c] = [k EXCEPT !.current = Head(d.walk), !.items = taken]]
  BY <1>4 DEF Dispatch!TokenVisited
<1>7. CASE token' = token
  BY <1>4, <1>5, <1>7 DEF TokensKept
<1>8. ASSUME NEW n \in TokenStates, k \in TokenStates, token' = [token EXCEPT ![c] = n], TokenInv(n, listed)
      PROVE  TokensKept
  BY <1>4, <1>5, <1>8 DEF TokensKept
<1> HIDE DEF d, k
<1>9. CASE d.stage = "current" /\ token' = [token EXCEPT ![c] = [k EXCEPT !.items = k.items + taken]]
  <2>1. PICK n : n = [k EXCEPT !.items = k.items + taken]
    OBVIOUS
  <2>2. k \in TokenStates /\ TokenInv(k, listed)
    BY <1>4, <1>9 DEF k
  <2>3. n \in TokenStates /\ n.current = k.current /\ n.desired = k.desired
    BY <2>1, <2>2 DEF TokenStates
  <2>4. TokenInv(n, listed)
    BY <2>2, <2>3 DEF TokenInv
  <2> QED BY <1>8, <1>9, <2>1, <2>2, <2>3, <2>4
<1>10. CASE d.stage = "round" /\ token' = [token EXCEPT ![c] = [k EXCEPT !.current = Head(d.walk), !.items = taken]]
  <2>1. PICK h \in Nat : h = Head(d.walk) /\ h \in 1..listed
    BY <1>3
  <2>2. PICK n : n = [k EXCEPT !.current = h, !.items = taken]
    OBVIOUS
  <2>3. k \in TokenStates /\ TokenInv(k, listed)
    BY <1>4, <1>10 DEF k
  <2>4. n \in TokenStates /\ n.current = h /\ n.desired = k.desired
    BY <2>2, <2>3 DEF TokenStates
  <2>5. TokenInv(n, listed)
    BY <2>1, <2>3, <2>4 DEF TokenInv
  <2> QED BY <1>8, <1>10, <2>1, <2>2, <2>3, <2>4, <2>5
<1> QED BY <1>6, <1>7, <1>9, <1>10

-----------------------------------------------------------------------------
(* The calls that a consumer begins *)
LEMMA TokensUnchanged ==
  ASSUME DispatchInv, UNCHANGED <<token, globalExplicitConsumerOffset, nextExplicitConsumerId>>
  PROVE  TokensKept
BY DEF DispatchInv, DispatchTypes, PlacesInv, TokensKept

LEMMA VisitingState ==
  ASSUME NEW stage \in {"best", "others", "all", "from", "current", "round"}, NEW walk \in Seq(Nat),
         NEW most \in Nat \ {0}, listed \in Nat, NEW x, x = Dispatch!Visiting(stage, walk, most)
  PROVE  /\ x \in VisitStates /\ x.pc = (IF walk = <<>> THEN "done" ELSE "check") /\ x.stage = stage
         /\ x.walk = walk /\ x.max = most /\ x.tail = listed /\ x.asked = 0 /\ x.got = 0 /\ x.count = 0
         /\ x.first = listed /\ x.empty = {}
BY DEF Dispatch!Visiting, VisitStates, Visits

(* a call, as it begins or as its scan ends *)
LEMMA CallBegins ==
  ASSUME DispatchInv, NEW c \in Dequeuers, consumer[c].pc \in {"idle", "scan"}, NEW x \in VisitStates,
         consumer' = [consumer EXCEPT ![c] = x], x.count = 0, x.got = 0, VisitInv(x, listed),
         x.pc \in {"check", "done", "rotate"}, WithToken(x) => token[c] \in TokenStates,
         UNCHANGED <<token, globalExplicitConsumerOffset, nextExplicitConsumerId>>,
         UNCHANGED <<listed, producerCount, unclaimed, excess, behind, enqueuing, proxyCount>>,
         dispatched' \in Nat
  PROVE  DispatchInv'
<1>1. x \notin ScanStates /\ AmountOf(x) = 0 /\ AmountOf(consumer[c]) = 0
  BY States DEF Visits, AmountOf
<1>2. ConsumerInv(x, listed)
  BY <1>1 DEF ConsumerInv
<1> QED BY <1>1, <1>2, QuietStep, TokensUnchanged

LEMMA TryDequeueStep ==
  ASSUME DispatchInv, NEW c \in Dequeuers, Dispatch!TryDequeue(c)
  PROVE  DispatchInv'
<1> DEFINE x == [pc |-> "scan", ptr |-> listed, best |-> 0, bestSize |-> 0, nonEmpty |-> 0,
                 first |-> listed, empty |-> {}]
<1>1. /\ consumer[c].pc = "idle" /\ consumer' = [consumer EXCEPT ![c] = x] /\ dispatched' = dispatched + 1
      /\ UNCHANGED <<token, globalExplicitConsumerOffset, nextExplicitConsumerId>>
      /\ UNCHANGED <<listed, producerCount, unclaimed, excess, behind, enqueuing, proxyCount>>
  BY DEF Dispatch!TryDequeue, Dispatch!Call, Dispatch!At, Dispatch!Become, Dispatch!None, Dispatch!tokenVars,
         Dispatch!listVars, Dispatch!elementVars
<1>2. listed \in Nat /\ dispatched \in Nat /\ ScanLimit \in Nat
  BY DEF DispatchInv, DispatchTypes, Asking
<1>3. x \in ScanStates /\ ScanInv(x, listed)
  BY <1>2 DEF ScanStates, ScanInv
<1>4. x.pc = "scan"
  OBVIOUS
<1> HIDE DEF x
<1>5. x \notin VisitStates /\ ConsumerInv(x, listed) /\ AmountOf(x) = 0 /\ AmountOf(consumer[c]) = 0
  BY <1>1, <1>3, <1>4, States DEF ConsumerInv, AmountOf
<1>6. ~WithToken(x) /\ dispatched' \in Nat /\ TokensKept /\ x.pc # "settle" /\ consumer[c].pc # "settle"
  BY <1>1, <1>2, <1>4, <1>5, TokensUnchanged DEF WithToken
<1>7. x \in {Dispatch!Idle} \cup ScanStates \cup VisitStates
  BY <1>3
<1> QED BY <1>1, <1>5, <1>6, <1>7, QuietStep

(* a call that knows which producers to visit *)
LEMMA VisitBegins ==
  ASSUME DispatchInv, NEW c \in Dequeuers, NEW x,
         Dispatch!Call(c, x), UNCHANGED Dispatch!tokenVars,
         x \in VisitStates, x.count = 0, x.got = 0, VisitInv(x, listed), x.pc \in {"check", "done", "rotate"},
         WithToken(x) => token[c] \in TokenStates
  PROVE  DispatchInv'
<1>1. /\ consumer[c].pc = "idle" /\ consumer' = [consumer EXCEPT ![c] = x] /\ dispatched' = dispatched + 1
      /\ UNCHANGED <<token, globalExplicitConsumerOffset, nextExplicitConsumerId>>
      /\ UNCHANGED <<listed, producerCount, unclaimed, excess, behind, enqueuing, proxyCount>>
  BY DEF Dispatch!Call, Dispatch!At, Dispatch!Become, Dispatch!tokenVars, Dispatch!listVars, Dispatch!elementVars
<1>2. dispatched' \in Nat
  BY <1>1 DEF DispatchInv, DispatchTypes
<1> QED BY <1>1, <1>2, CallBegins

LEMMA OneMember ==
  ASSUME NEW p \in Nat
  PROVE  <<p>> \in Seq(Nat) /\ Members(<<p>>) = {p} /\ <<p>> # <<>> /\ Len(<<p>>) = 1
         /\ <<>> \in Seq(Nat) /\ Members(<<>>) = {}
BY DEF Members

LEMMA TryDequeueAllStep ==
  ASSUME DispatchInv, NEW c \in Dequeuers, NEW most \in Nat \ {0}, Dispatch!TryDequeueAll(c, most)
  PROVE  DispatchInv'
<1>1. PICK x : x = Dispatch!Visiting("all", Dispatch!Downwards(listed, 1), most)
  OBVIOUS
<1>2. Dispatch!Call(c, x) /\ UNCHANGED Dispatch!tokenVars /\ listed \in Nat
  BY <1>1 DEF Dispatch!TryDequeueAll, DispatchInv, DispatchTypes
<1>3. PICK walk \in Seq(Nat) : walk = Dispatch!Downwards(listed, 1) /\ Members(walk) = 1..listed
  BY <1>2, DownwardsMeets
<1>4. /\ x \in VisitStates /\ x.pc = (IF walk = <<>> THEN "done" ELSE "check") /\ x.stage = "all"
      /\ x.walk = walk /\ x.tail = listed /\ x.asked = 0 /\ x.got = 0 /\ x.count = 0
      /\ x.first = listed /\ x.empty = {}
  BY <1>1, <1>2, <1>3, VisitingState
<1>5. walk = <<>> => listed = 0
  <2>1. walk = <<>> => Members(walk) = {}
    BY DEF Members
  <2>2. listed # 0 => 1 \in 1..listed
    BY <1>2
  <2> QED BY <1>3, <2>1, <2>2
<1>6. CASE walk = <<>>
  <2>1. VisitInv(x, listed)
    BY <1>2, <1>3, <1>4, <1>5, <1>6 DEF VisitInv, Visits
  <2> QED BY <1>2, <1>4, <1>6, <2>1, VisitBegins DEF WithToken
<1>7. CASE walk # <<>>
  <2>1. VisitInv(x, listed)
    BY <1>2, <1>3, <1>4, <1>7 DEF VisitInv, Visits
  <2> QED BY <1>2, <1>4, <1>7, <2>1, VisitBegins DEF WithToken
<1> QED BY <1>6, <1>7

LEMMA TryDequeueFromStep ==
  ASSUME DispatchInv, NEW c \in Dequeuers, NEW p \in 1..MaxProducers, NEW most \in Nat \ {0},
         Dispatch!TryDequeueFrom(c, p, most)
  PROVE  DispatchInv'
<1>1. PICK x : x = Dispatch!Visiting("from", <<p>>, most)
  OBVIOUS
<1>2. Dispatch!Call(c, x) /\ UNCHANGED Dispatch!tokenVars /\ listed \in Nat /\ p <= listed
  BY <1>1 DEF Dispatch!TryDequeueFrom, DispatchInv, DispatchTypes
<1>3. p \in 1..listed /\ <<p>> \in Seq(Nat) /\ Members(<<p>>) = {p} /\ <<p>> # <<>>
  BY <1>2, OneMember DEF DispatchInv, DispatchTypes, Asking
<1>4. /\ x \in VisitStates /\ x.pc = "check" /\ x.stage = "from"
      /\ x.walk = <<p>> /\ x.tail = listed /\ x.asked = 0 /\ x.got = 0 /\ x.count = 0
      /\ x.first = listed /\ x.empty = {}
  <2>1. PICK walk \in Seq(Nat) : walk = <<p>>
    BY <1>3
  <2>2. x = Dispatch!Visiting("from", walk, most)
    BY <1>1, <2>1
  <2>3. /\ x \in VisitStates /\ x.pc = (IF walk = <<>> THEN "done" ELSE "check") /\ x.stage = "from"
        /\ x.walk = walk /\ x.tail = listed /\ x.asked = 0 /\ x.got = 0 /\ x.count = 0
        /\ x.first = listed /\ x.empty = {}
    BY <1>2, <2>2, VisitingState
  <2> QED BY <1>3, <2>1, <2>3
<1>5. VisitInv(x, listed)
  BY <1>2, <1>3, <1>4 DEF VisitInv, Visits
<1> QED BY <1>2, <1>4, <1>5, VisitBegins DEF WithToken

LEMMA TryDequeueTokenStep ==
  ASSUME DispatchInv, NEW c \in Dequeuers, NEW most \in Nat \ {0}, NEW single \in BOOLEAN,
         Dispatch!TryDequeueToken(c, most, single)
  PROVE  DispatchInv'
<1> DEFINE k == token[c]
<1>1. k \in TokenStates /\ TokenInv(k, listed) /\ listed \in Nat /\ UNCHANGED Dispatch!tokenVars
  BY DEF Dispatch!TryDequeueToken, DispatchInv, DispatchTypes, PlacesInv
<1>2. k.desired \in Nat /\ k.current \in Nat /\ (k.desired # 0 => k.current \in 1..listed)
  BY <1>1 DEF TokenInv, TokenStates
<1>3. CASE k.desired = Dispatch!None \/ k.lastKnown # globalExplicitConsumerOffset
  <2>1. PICK y : y = Dispatch!Visiting("current", <<>>, most)
    OBVIOUS
  <2>2. /\ y \in VisitStates /\ y.stage = "current"
        /\ y.walk = <<>> /\ y.tail = listed /\ y.asked = 0 /\ y.got = 0 /\ y.count = 0
        /\ y.first = listed /\ y.empty = {}
    <3>1. PICK walk : walk = <<>>
      OBVIOUS
    <3>2. walk \in Seq(Nat) /\ y = Dispatch!Visiting("current", walk, most)
      BY <2>1, <3>1
    <3> HIDE DEF k
    <3>3. /\ y \in VisitStates /\ y.stage = "current" /\ y.walk = walk /\ y.tail = listed
          /\ y.asked = 0 /\ y.got = 0 /\ y.count = 0 /\ y.first = listed /\ y.empty = {}
      BY <1>1, <3>2, VisitingState
    <3> QED BY <3>1, <3>3
  <2>3. PICK x : x = [y EXCEPT !.pc = "rotate", !.single = single]
    OBVIOUS
  <2>4. Dispatch!Call(c, x)
    BY <1>3, <2>1, <2>3 DEF Dispatch!TryDequeueToken
  <2>5. x \in VisitStates /\ x.pc = "rotate"
    BY <2>2, <2>3 DEF VisitStates
  <2>6. /\ x.stage = "current" /\ x.walk = <<>> /\ x.tail = listed /\ x.asked = 0 /\ x.got = 0 /\ x.count = 0
        /\ x.first = listed /\ x.empty = {}
    BY <2>2, <2>3 DEF VisitStates
  <2>7. VisitInv(x, listed)
    <3>1. Members(<<>>) = {} /\ Len(<<>>) = 0
      BY DEF Members
    <3> HIDE DEF k
    <3> QED BY <1>1, <2>5, <2>6, <3>1 DEF VisitInv, Visits
  <2> QED BY <1>1, <2>4, <2>5, <2>6, <2>7, VisitBegins
<1>4. CASE ~(k.desired = Dispatch!None \/ k.lastKnown # globalExplicitConsumerOffset)
  <2>1. PICK y : y = Dispatch!Visiting("current", <<k.current>>, most)
    OBVIOUS
  <2>2. k.current \in 1..listed /\ <<k.current>> \in Seq(Nat) /\ <<k.current>> # <<>>
        /\ Members(<<k.current>>) = {k.current} /\ Len(<<k.current>>) = 1
    BY <1>2, <1>4, OneMember DEF Dispatch!None
  <2>3. /\ y \in VisitStates /\ y.stage = "current" /\ y.pc = "check"
        /\ y.walk = <<k.current>> /\ y.tail = listed /\ y.asked = 0 /\ y.got = 0 /\ y.count = 0
        /\ y.first = listed /\ y.empty = {}
    <3>1. PICK walk \in Seq(Nat) : walk = <<k.current>>
      BY <2>2
    <3>2. y = Dispatch!Visiting("current", walk, most)
      BY <2>1, <3>1
    <3> HIDE DEF k
    <3>3. /\ y \in VisitStates /\ y.stage = "current" /\ y.pc = (IF walk = <<>> THEN "done" ELSE "check")
          /\ y.walk = walk /\ y.tail = listed /\ y.asked = 0 /\ y.got = 0 /\ y.count = 0
          /\ y.first = listed /\ y.empty = {}
      BY <1>1, <3>2, VisitingState
    <3> QED BY <2>2, <3>1, <3>3
  <2>4. PICK x : x = [y EXCEPT !.single = single]
    OBVIOUS
  <2>5. Dispatch!Call(c, x)
    BY <1>4, <2>1, <2>4 DEF Dispatch!TryDequeueToken
  <2>6. x \in VisitStates /\ x.pc = "check"
    BY <2>3, <2>4 DEF VisitStates
  <2>7. /\ x.stage = "current" /\ x.walk = <<k.current>> /\ x.tail = listed /\ x.asked = 0 /\ x.got = 0
        /\ x.count = 0 /\ x.first = listed /\ x.empty = {}
    BY <2>3, <2>4 DEF VisitStates
  <2>8. VisitInv(x, listed)
    BY <1>1, <2>2, <2>6, <2>7 DEF VisitInv, Visits
  <2> QED BY <1>1, <2>5, <2>6, <2>7, <2>8, VisitBegins
<1> QED BY <1>3, <1>4

LEMMA CreateTokenStep ==
  ASSUME DispatchInv, NEW c \in Dequeuers, Dispatch!CreateToken(c)
  PROVE  DispatchInv'
<1> DEFINE n == [initialOffset |-> nextExplicitConsumerId, lastKnown |-> CountMod - 1, items |-> 0,
                 current |-> 0, desired |-> 0, counts |-> {}]
<1>1. /\ token' = [token EXCEPT ![c] = n] /\ nextExplicitConsumerId' = nextExplicitConsumerId + 1
      /\ UNCHANGED <<consumer, dispatched, globalExplicitConsumerOffset>> /\ consumer[c].pc = "idle"
      /\ UNCHANGED <<listed, producerCount, unclaimed, excess, behind, enqueuing, proxyCount>>
  BY DEF Dispatch!CreateToken, Dispatch!At, Dispatch!None, Dispatch!listVars, Dispatch!elementVars
<1>2. n \in TokenStates /\ n.desired = 0
  BY DEF TokenStates, DispatchInv, DispatchTypes, Asking
<1> HIDE DEF n
<1>3. TokensKept
  BY <1>1, <1>2 DEF TokensKept, DispatchInv, DispatchTypes, PlacesInv, TokenInv
<1>4. consumer' = [consumer EXCEPT ![c] = consumer[c]] /\ dispatched' \in Nat
  BY <1>1 DEF DispatchInv, DispatchTypes
<1>5. /\ ConsumerInv(consumer[c], listed) /\ (WithToken(consumer[c]) => token[c] \in TokenStates)
      /\ consumer[c] \in {Dispatch!Idle} \cup ScanStates \cup VisitStates
  BY DEF DispatchInv, DispatchTypes, PlacesInv
<1>6. WithToken(consumer[c]) => token'[c] \in TokenStates
  BY <1>3, <1>5 DEF TokensKept
<1> QED BY <1>1, <1>3, <1>4, <1>5, <1>6, QuietStep

-----------------------------------------------------------------------------
(* The scan for the best of the first producers that are not empty, and the rotation of a token *)
LEMMA ScanStep ==
  ASSUME DispatchInv, NEW c \in Dequeuers, Dispatch!Scan(c)
  PROVE  DispatchInv'
<1> DEFINE d == consumer[c]
           n == unclaimed[d.ptr] + behind[d.ptr]
           y == [d EXCEPT !.ptr = d.ptr - 1]
           x == IF n = 0 THEN [y EXCEPT !.empty = @ \cup {d.ptr}]
                ELSE IF n > d.bestSize
                THEN [y EXCEPT !.nonEmpty = @ + 1, !.best = d.ptr, !.bestSize = n]
                ELSE [y EXCEPT !.nonEmpty = @ + 1]
<1>1. d.pc = "scan" /\ d.ptr # 0 /\ d.nonEmpty < ScanLimit /\ consumer' = [consumer EXCEPT ![c] = x]
  BY DEF Dispatch!Scan, Dispatch!At, Dispatch!None, Dispatch!Become
<1>2. /\ UNCHANGED <<token, globalExplicitConsumerOffset, nextExplicitConsumerId>>
      /\ UNCHANGED <<listed, producerCount, unclaimed, excess, behind, enqueuing, proxyCount>>
      /\ dispatched' \in Nat
  BY DEF Dispatch!Scan, Dispatch!tokenVars, Dispatch!listVars, Dispatch!elementVars, DispatchInv, DispatchTypes
<1>3. d \in ScanStates /\ ScanInv(d, listed)
  BY <1>1, States DEF DispatchInv, DispatchTypes, PlacesInv, ConsumerInv
<1>4. /\ d.ptr \in Nat /\ d.best \in Nat /\ d.bestSize \in Nat /\ d.nonEmpty \in Nat /\ d.first \in Nat
      /\ d.empty \in SUBSET Nat /\ d.ptr <= d.first /\ d.first <= listed /\ d.nonEmpty <= ScanLimit
      /\ listed \in Nat /\ listed <= MaxProducers /\ ScanLimit \in Nat /\ MaxProducers \in Nat
  BY <1>3 DEF ScanStates, ScanInv, DispatchInv, DispatchTypes, Asking
<1>5. d.ptr \in 1..MaxProducers /\ d.ptr \in 1..listed /\ d.ptr - 1 \in Nat
  BY <1>1, <1>4
<1>6. n \in Nat
  BY <1>5 DEF DispatchInv, DispatchTypes
<1>7. y \in ScanStates
  BY <1>3, <1>5 DEF ScanStates
<1>7a. /\ y.ptr = d.ptr - 1 /\ y.nonEmpty = d.nonEmpty /\ y.best = d.best /\ y.bestSize = d.bestSize
      /\ y.first = d.first /\ y.empty = d.empty
  BY <1>3 DEF ScanStates
<1> HIDE DEF y, n, d
<1>8. /\ x \in ScanStates /\ x.ptr = d.ptr - 1 /\ x.first = d.first
      /\ x.empty = (IF n = 0 THEN d.empty \cup {d.ptr} ELSE d.empty)
      /\ x.nonEmpty = (IF n = 0 THEN d.nonEmpty ELSE d.nonEmpty + 1)
      /\ x.best = (IF n > d.bestSize THEN d.ptr ELSE d.best)
      /\ x.bestSize = (IF n > d.bestSize THEN n ELSE d.bestSize)
  <2>1. PICK p \in Nat, e \in SUBSET Nat, m \in Nat : p = d.ptr /\ e = d.empty \cup {p} /\ m = d.nonEmpty + 1
    <3>1. d.empty \cup {d.ptr} \in SUBSET Nat /\ d.nonEmpty + 1 \in Nat
      BY <1>4
    <3> QED BY <1>4, <3>1
  <2>2. CASE n = 0
    <3>1. x = [y EXCEPT !.empty = e]
      BY <1>7a, <2>1, <2>2
    <3>2. x \in ScanStates
      BY <1>7, <3>1 DEF ScanStates
    <3> HIDE DEF x
    <3>3. /\ x.ptr = y.ptr /\ x.first = y.first /\ x.empty = e /\ x.nonEmpty = y.nonEmpty
          /\ x.best = y.best /\ x.bestSize = y.bestSize
      BY <1>7, <3>1 DEF ScanStates
    <3> QED BY <1>4, <1>7a, <2>1, <2>2, <3>2, <3>3
  <2>3. CASE n # 0 /\ n > d.bestSize
    <3>1. x = [y EXCEPT !.nonEmpty = m, !.best = p, !.bestSize = n]
      BY <1>7a, <2>1, <2>3
    <3>2. x \in ScanStates
      BY <1>6, <1>7, <3>1 DEF ScanStates
    <3> HIDE DEF x
    <3>3. /\ x.ptr = y.ptr /\ x.first = y.first /\ x.empty = y.empty /\ x.nonEmpty = m
          /\ x.best = p /\ x.bestSize = n
      BY <1>7, <3>1 DEF ScanStates
    <3> QED BY <1>7a, <2>1, <2>3, <3>2, <3>3
  <2>4. CASE n # 0 /\ ~(n > d.bestSize)
    <3>1. x = [y EXCEPT !.nonEmpty = m]
      BY <1>7a, <2>1, <2>4
    <3>2. x \in ScanStates
      BY <1>7, <3>1 DEF ScanStates
    <3> HIDE DEF x
    <3>3. /\ x.ptr = y.ptr /\ x.first = y.first /\ x.empty = y.empty /\ x.nonEmpty = m
          /\ x.best = y.best /\ x.bestSize = y.bestSize
      BY <1>7, <3>1 DEF ScanStates
    <3> QED BY <1>7a, <2>1, <2>4, <3>2, <3>3
  <2> QED BY <2>2, <2>3, <2>4
<1> HIDE DEF x
<1>10. ScanInv(x, listed)
  BY <1>1, <1>3, <1>4, <1>5, <1>6, <1>8 DEF ScanInv
<1>11. x.pc = "scan"
  BY <1>8 DEF ScanStates
<1>12. x \notin VisitStates /\ ConsumerInv(x, listed) /\ AmountOf(x) = 0 /\ AmountOf(d) = 0
  BY <1>1, <1>8, <1>10, <1>11, States DEF ConsumerInv, AmountOf
<1>13. ~WithToken(x) /\ TokensKept /\ x.pc # "settle" /\ d.pc # "settle"
  BY <1>1, <1>2, <1>11, <1>12, TokensUnchanged DEF WithToken
<1>14. x \in {Dispatch!Idle} \cup ScanStates \cup VisitStates
  BY <1>8
<1> QED BY <1>1, <1>2, <1>12, <1>13, <1>14, QuietStep DEF d

LEMMA ScannedStep ==
  ASSUME DispatchInv, NEW c \in Dequeuers, Dispatch!Scanned(c)
  PROVE  DispatchInv'
<1> DEFINE d == consumer[c]
<1>1. PICK walk : walk = IF d.nonEmpty = 0 THEN <<>> ELSE <<d.best>>
  OBVIOUS
<1>2. PICK y : y = Dispatch!Visiting("best", walk, 1)
  OBVIOUS
<1>3. PICK x : x = [y EXCEPT !.first = d.first, !.empty = d.empty]
  OBVIOUS
<1>4. d.pc = "scan" /\ (d.ptr = 0 \/ d.nonEmpty = ScanLimit) /\ consumer' = [consumer EXCEPT ![c] = x]
  BY <1>1, <1>2, <1>3 DEF Dispatch!Scanned, Dispatch!At, Dispatch!None, Dispatch!Become
<1>5. /\ UNCHANGED <<token, globalExplicitConsumerOffset, nextExplicitConsumerId>>
      /\ UNCHANGED <<listed, producerCount, unclaimed, excess, behind, enqueuing, proxyCount>>
      /\ dispatched' \in Nat
  BY DEF Dispatch!Scanned, Dispatch!tokenVars, Dispatch!listVars, Dispatch!elementVars, DispatchInv, DispatchTypes
<1>6. d \in ScanStates /\ ScanInv(d, listed)
  BY <1>4, States DEF DispatchInv, DispatchTypes, PlacesInv, ConsumerInv
<1>7. /\ d.ptr \in Nat /\ d.nonEmpty \in Nat /\ d.first \in Nat /\ d.empty \in SUBSET Nat
      /\ d.first <= listed /\ listed \in Nat /\ ScanLimit \in Nat \ {0}
      /\ IF d.nonEmpty = 0 THEN (d.ptr + 1)..d.first \subseteq d.empty ELSE d.best \in 1..listed
  BY <1>6 DEF ScanStates, ScanInv, DispatchInv, DispatchTypes, Asking
<1>8. /\ walk \in Seq(Nat) /\ Members(walk) \subseteq 1..listed /\ Len(walk) <= 1
      /\ (walk = <<>>) = (d.nonEmpty = 0)
  <2>1. CASE d.nonEmpty = 0
    <3>1. walk = <<>> /\ Members(<<>>) = {} /\ Len(<<>>) = 0
      BY <1>1, <2>1 DEF Members
    <3> QED BY <2>1, <3>1
  <2>2. CASE d.nonEmpty # 0
    <3>1. d.best \in 1..listed /\ d.best \in Nat /\ walk = <<d.best>>
      BY <1>1, <1>7, <2>2
    <3> QED BY <2>2, <3>1, OneMember
  <2> QED BY <2>1, <2>2
<1>9. /\ y \in VisitStates /\ y.pc = (IF walk = <<>> THEN "done" ELSE "check") /\ y.stage = "best"
      /\ y.walk = walk /\ y.tail = listed /\ y.asked = 0 /\ y.got = 0 /\ y.count = 0
  <2>1. 1 \in Nat \ {0}
    OBVIOUS
  <2> QED BY <1>2, <1>7, <1>8, <2>1, VisitingState
<1> HIDE DEF d
<1>10. x \in VisitStates /\ x.pc = y.pc
  BY <1>3, <1>7, <1>9 DEF VisitStates
<1>11. /\ x.stage = "best" /\ x.walk = walk /\ x.tail = listed /\ x.asked = 0 /\ x.got = 0 /\ x.count = 0
       /\ x.first = d.first /\ x.empty = d.empty
  BY <1>3, <1>9 DEF VisitStates
<1>12. d.nonEmpty = 0 => 1..d.first \subseteq d.empty
  BY <1>4, <1>7
<1>13. VisitInv(x, listed)
  <2>1. CASE walk = <<>>
    BY <1>7, <1>8, <1>9, <1>10, <1>11, <1>12, <2>1 DEF VisitInv, Visits
  <2>2. CASE walk # <<>>
    BY <1>7, <1>8, <1>9, <1>10, <1>11, <2>2 DEF VisitInv, Visits
  <2> QED BY <2>1, <2>2
<1> QED BY <1>4, <1>5, <1>9, <1>10, <1>11, <1>13, CallBegins DEF WithToken, d

LEMMA RotateStep ==
  ASSUME DispatchInv, NEW c \in Dequeuers, Dispatch!Rotate(c)
  PROVE  DispatchInv'
<1> DEFINE d == consumer[c]
           k == token[c]
<1>1. d.pc = "rotate" /\ d \in VisitStates /\ d \notin ScanStates /\ VisitInv(d, listed)
  BY States DEF Dispatch!Rotate, Dispatch!At, DispatchInv, DispatchTypes, PlacesInv, ConsumerInv
<1>2. /\ d.stage = "current" /\ d.count = 0 /\ d.got = 0 /\ d.walk = <<>> /\ d.asked \in Nat
      /\ d.first \in Nat /\ d.tail \in Nat /\ d.first <= listed /\ d.tail <= listed /\ listed \in Nat
  BY <1>1 DEF VisitStates, VisitInv, Visits, DispatchInv, DispatchTypes
<1>3. k \in TokenStates /\ TokenInv(k, listed)
  BY <1>1, <1>2 DEF DispatchInv, PlacesInv, WithToken
<1>4. /\ UNCHANGED <<globalExplicitConsumerOffset, nextExplicitConsumerId>>
      /\ UNCHANGED <<listed, producerCount, unclaimed, excess, behind, enqueuing, proxyCount>>
      /\ dispatched' \in Nat
  BY DEF Dispatch!Rotate, Dispatch!listVars, Dispatch!elementVars, DispatchInv, DispatchTypes
<1>5. CASE listed = 0
  <2>1. PICK x : x = [d EXCEPT !.pc = "done"]
    OBVIOUS
  <2>2. consumer' = [consumer EXCEPT ![c] = x] /\ UNCHANGED token
    BY <1>5, <2>1 DEF Dispatch!Rotate, Dispatch!Become
  <2>3. x \in VisitStates /\ x.pc = "done"
    BY <1>1, <2>1 DEF VisitStates
  <2>4. /\ x.stage = "current" /\ x.count = 0 /\ x.got = 0 /\ x.walk = <<>> /\ x.asked = d.asked
        /\ x.first = d.first /\ x.tail = d.tail
    BY <1>1, <1>2, <2>1 DEF VisitStates
  <2>5. Members(<<>>) = {} /\ Len(<<>>) = 0
    BY DEF Members
  <2> HIDE DEF d
  <2>6. 1..x.first = {}
    BY <1>2, <1>5, <2>4
  <2>7. VisitInv(x, listed)
    BY <1>2, <1>5, <2>3, <2>4, <2>5, <2>6 DEF VisitInv, Visits
  <2>8. x \notin ScanStates /\ AmountOf(x) = 0 /\ AmountOf(d) = 0 /\ ConsumerInv(x, listed)
    BY <1>1, <1>2, <2>3, <2>4, <2>7, States DEF ConsumerInv, AmountOf
  <2>9. TokensKept /\ token'[c] \in TokenStates
    BY <1>3, <1>4, <2>2, TokensUnchanged
  <2> QED BY <1>1, <1>4, <2>2, <2>3, <2>8, <2>9, QuietStep DEF d
<1>6. CASE listed # 0
  <2>1. PICK to \in 1..listed :
          /\ token' = [token EXCEPT ![c] =
                          [k EXCEPT !.lastKnown = globalExplicitConsumerOffset, !.current = to, !.desired = to,
                                    !.items = 0, !.counts = @ \cup {listed, producerCount}]]
          /\ consumer' = [consumer EXCEPT ![c] = [d EXCEPT !.pc = "check", !.walk = <<to>>]]
    <3> DEFINE start == IF k.desired # Dispatch!None THEN k.desired
                        ELSE Dispatch!Steps(listed, producerCount - 1 - (k.initialOffset % producerCount), listed)
               goal == Dispatch!Steps(start, Dispatch!Delta(k), listed)
    <3>1. listed \in Nat \ {0} /\ producerCount \in Nat \ {0} /\ CountMod \in Nat \ {0}
      BY <1>2, <1>6 DEF DispatchInv, DispatchTypes, Asking
    <3>2. ASSUME NEW p \in Int, NEW i \in Int PROVE Dispatch!Steps(p, i, listed) \in 1..listed
      <4>1. (p - 1 - i) % listed \in 0..(listed - 1)
        BY <3>1, Remainder
      <4> QED BY <3>1, <4>1 DEF Dispatch!Steps
    <3>3. Dispatch!Delta(k) \in Int
      <4>1. PICK m \in Int : m = Dispatch!Missed(k)
        BY <1>3, <3>1 DEF Dispatch!Missed, TokenStates, DispatchInv, DispatchTypes
      <4>2. m % producerCount \in Int
        BY <3>1, Remainder
      <4> QED BY <4>1, <4>2 DEF Dispatch!Delta
    <3>4. producerCount - 1 - (k.initialOffset % producerCount) \in Int
      BY <1>3, <3>1 DEF TokenStates
    <3>5. k.desired \in Int
      BY <1>3 DEF TokenStates
    <3>6. start \in Int
      BY <3>1, <3>2, <3>4, <3>5
    <3> HIDE DEF start
    <3>7. goal \in 1..listed
      BY <3>2, <3>3, <3>6
    <3> QED BY <1>6, <3>7 DEF Dispatch!Rotate, Dispatch!Become, start
  <2>2. PICK x : x = [d EXCEPT !.pc = "check", !.walk = <<to>>]
    OBVIOUS
  <2>3. PICK t : t = [k EXCEPT !.lastKnown = globalExplicitConsumerOffset, !.current = to, !.desired = to,
                               !.items = 0, !.counts = @ \cup {listed, producerCount}]
    OBVIOUS
  <2>4. to \in Nat /\ <<to>> \in Seq(Nat) /\ Members(<<to>>) = {to} /\ <<to>> # <<>> /\ Len(<<to>>) = 1
    BY <1>2, OneMember
  <2>5. x \in VisitStates /\ x.pc = "check"
    BY <1>1, <2>2, <2>4 DEF VisitStates, Visits
  <2>6. /\ x.stage = "current" /\ x.count = 0 /\ x.got = 0 /\ x.walk = <<to>> /\ x.asked = d.asked
        /\ x.first = d.first /\ x.tail = d.tail
    BY <1>1, <1>2, <2>2 DEF VisitStates
  <2>7. t \in TokenStates /\ t.current = to /\ t.desired = to
    <3>1. PICK m \in SUBSET Nat : m = k.counts \cup {listed, producerCount}
      BY <1>2, <1>3 DEF TokenStates, DispatchInv, DispatchTypes
    <3>2. globalExplicitConsumerOffset \in Int
      BY DEF DispatchInv, DispatchTypes
    <3> HIDE DEF k
    <3>3. t = [k EXCEPT !.lastKnown = globalExplicitConsumerOffset, !.current = to, !.desired = to,
                        !.items = 0, !.counts = m]
      BY <2>3, <3>1
    <3>4. t \in TokenStates
      BY <1>3, <2>4, <3>2, <3>3 DEF TokenStates
    <3>5. t.current = to /\ t.desired = to
      BY <1>3, <3>3 DEF TokenStates
    <3> QED BY <3>4, <3>5
  <2>8. TokenInv(t, listed)
    BY <2>7 DEF TokenInv
  <2>9. TokensKept /\ token'[c] \in TokenStates
    BY <1>4, <2>1, <2>3, <2>7, <2>8 DEF TokensKept, DispatchInv, DispatchTypes, PlacesInv
  <2> HIDE DEF d
  <2>10. VisitInv(x, listed)
    BY <1>2, <2>4, <2>5, <2>6 DEF VisitInv, Visits
  <2>11. x \notin ScanStates /\ AmountOf(x) = 0 /\ AmountOf(d) = 0 /\ ConsumerInv(x, listed)
    BY <1>1, <1>2, <2>5, <2>6, <2>10, States DEF ConsumerInv, AmountOf, Visits
  <2> QED BY <1>1, <1>4, <2>1, <2>2, <2>5, <2>9, <2>11, QuietStep DEF d
<1> QED BY <1>5, <1>6

-----------------------------------------------------------------------------
(* What is claimed of a producer, and the count of the proxy *)
LEMMA CheckStep ==
  ASSUME DispatchInv, NEW c \in Dequeuers, Dispatch!Check(c)
  PROVE  DispatchInv'
<1> DEFINE d == consumer[c]
           p == Head(d.walk)
           seen == Dispatch!Min({d.max - d.count, unclaimed[p] - excess[p]})
<1>1. /\ d.pc = "check" /\ UNCHANGED <<listed, producerCount, unclaimed, excess, behind, enqueuing, proxyCount>>
      /\ dispatched' \in Nat
      /\ IF seen > 0 THEN consumer' = [consumer EXCEPT ![c] = [d EXCEPT !.pc = "claim", !.asked = seen]]
                          /\ UNCHANGED <<token, globalExplicitConsumerOffset, nextExplicitConsumerId>>
         ELSE consumer' = [consumer EXCEPT ![c] = Dispatch!Visited(c, 0)] /\ Dispatch!TokenVisited(c, 0)
  BY DEF Dispatch!Check, Dispatch!At, Dispatch!Become, Dispatch!tokenVars, Dispatch!listVars, Dispatch!elementVars,
         DispatchInv, DispatchTypes
<1>2. d \in VisitStates /\ VisitInv(d, listed) /\ d \notin ScanStates /\ (WithToken(d) => token[c] \in TokenStates)
  BY <1>1, States DEF Visits, DispatchInv, DispatchTypes, PlacesInv, ConsumerInv
<1>3. /\ d.walk \in Seq(Nat) /\ d.walk # <<>> /\ Members(d.walk) \subseteq 1..listed
      /\ d.max \in Nat /\ d.count \in Nat /\ d.got = 0
  BY <1>1, <1>2 DEF VisitStates, VisitInv, Visits
<1>4. p \in 1..MaxProducers
  <2>1. p \in 1..listed
    BY <1>3, MembersSplit
  <2> HIDE DEF p
  <2> QED BY <2>1 DEF DispatchInv, DispatchTypes, Asking
<1>5. seen \in Int
  <2>1. PICK a \in Int, b \in Int : a = d.max - d.count /\ b = unclaimed[p] - excess[p]
    <3>1. unclaimed[p] \in Nat /\ excess[p] \in Nat
      BY <1>4 DEF DispatchInv, DispatchTypes
    <3>2. d.max - d.count \in Int /\ unclaimed[p] - excess[p] \in Int
      BY <1>3, <3>1
    <3> QED BY <3>2
  <2>2. seen = Dispatch!Min({a, b})
    BY <2>1
  <2> HIDE DEF seen
  <2> QED BY <2>2, SmallSets
<1> HIDE DEF seen
<1>6. CASE seen > 0
  <2>1. PICK x : x = [d EXCEPT !.pc = "claim", !.asked = seen]
    OBVIOUS
  <2>2. x \in VisitStates /\ x.pc = "claim" /\ x.asked = seen
    <3>1. seen \in Nat
      BY <1>5, <1>6
    <3> HIDE DEF d
    <3> QED BY <1>2, <2>1, <3>1 DEF VisitStates, Visits
  <2>3. /\ x.stage = d.stage /\ x.walk = d.walk /\ x.tail = d.tail /\ x.got = d.got /\ x.count = d.count
        /\ x.first = d.first /\ x.empty = d.empty
    BY <1>2, <2>1 DEF VisitStates
  <2>4. consumer' = [consumer EXCEPT ![c] = x] /\ TokensKept
    BY <1>1, <1>6, <2>1, TokensUnchanged
  <2> HIDE DEF d
  <2>5. VisitInv(x, listed)
    BY <1>1, <1>2, <1>3, <1>5, <1>6, <2>2, <2>3 DEF VisitInv, Visits
  <2>6. x \notin ScanStates /\ ConsumerInv(x, listed) /\ AmountOf(x) = AmountOf(d)
        /\ (WithToken(x) => token'[c] \in TokenStates)
    BY <1>1, <1>2, <2>2, <2>3, <2>4, <2>5, States DEF ConsumerInv, AmountOf, Visits, WithToken, TokensKept
  <2> QED BY <1>1, <2>2, <2>4, <2>6, QuietStep DEF d
<1>7. CASE ~(seen > 0)
  <2>1. PICK x : x = Dispatch!Visited(c, 0)
    OBVIOUS
  <2>2. d.pc \in Visits /\ 0 \in Nat
    BY <1>1 DEF Visits
  <2>3. /\ x \in VisitStates /\ ConsumerInv(x, listed) /\ x.pc # "settle"
        /\ AmountOf(x) = d.count + 0 /\ (WithToken(x) => WithToken(d))
    BY <2>1, <2>2, VisitEnds
  <2>4. TokensKept
    BY <1>1, <1>7, <2>2, TokenMoves
  <2>5. AmountOf(d) = d.count + 0
    BY <1>1, <1>3 DEF AmountOf
  <2>6. consumer' = [consumer EXCEPT ![c] = x]
    BY <1>1, <1>7, <2>1
  <2>7. WithToken(x) => token'[c] \in TokenStates
    BY <1>2, <2>3, <2>4 DEF TokensKept
  <2> QED BY <1>1, <2>3, <2>4, <2>5, <2>6, <2>7, QuietStep
<1> QED BY <1>6, <1>7

(* the sums over the consumers when one of them has another claim *)
LEMMA ClaimsMove ==
  ASSUME DispatchInv, NEW c \in Dequeuers, NEW x,
         \A e \in Dequeuers : consumer'[e] = IF e = c THEN x ELSE consumer[e],
         NEW p \in 1..MaxProducers, \A q \in 1..MaxProducers : q # p => ~Settling(x, q) /\ ~Settling(consumer[c], q),
         ClaimOf(x, p) \in Nat, ExcessOf(x, p) \in Nat,
         behind' = [behind EXCEPT ![p] = @ - ClaimOf(consumer[c], p) + ClaimOf(x, p)],
         excess' = [excess EXCEPT ![p] = @ - ExcessOf(consumer[c], p) + ExcessOf(x, p)],
         UNCHANGED <<MaxProducers>>
  PROVE  behind' \in [1..MaxProducers -> Nat] /\ excess' \in [1..MaxProducers -> Nat] /\ ClaimsInv'
<1>1. /\ IsFiniteSet(Dequeuers) /\ MaxProducers \in Nat
      /\ behind \in [1..MaxProducers -> Nat] /\ excess \in [1..MaxProducers -> Nat] /\ ClaimsInv
  BY DEF DispatchInv, DispatchTypes, Asking
<1>2. \A e \in Dequeuers, q \in 1..MaxProducers :
        ClaimOf(consumer[e], q) \in Nat /\ ExcessOf(consumer[e], q) \in Nat
  <2> SUFFICES ASSUME NEW e \in Dequeuers, NEW q \in 1..MaxProducers
               PROVE  ClaimOf(consumer[e], q) \in Nat /\ ExcessOf(consumer[e], q) \in Nat
    OBVIOUS
  <2>1. CASE consumer[e].pc = "settle"
    <3>1. consumer[e] \in VisitStates /\ VisitInv(consumer[e], listed)
      BY <2>1, States DEF Visits, DispatchInv, DispatchTypes, PlacesInv, ConsumerInv
    <3>2. consumer[e].got \in Nat /\ consumer[e].asked \in Nat /\ consumer[e].got <= consumer[e].asked
      BY <3>1 DEF VisitStates, VisitInv
    <3> QED BY <3>2 DEF ClaimOf, ExcessOf
  <2>2. CASE consumer[e].pc # "settle"
    BY <2>2 DEF ClaimOf, ExcessOf, Settling
  <2> QED BY <2>1, <2>2
<1>3. \A q \in 1..MaxProducers : ClaimedAt(q) \in [Dequeuers -> Nat] /\ ExcessAt(q) \in [Dequeuers -> Nat]
  BY <1>2 DEF ClaimedAt, ExcessAt
<1>4. ASSUME NEW q \in 1..MaxProducers, q # p
      PROVE  /\ ClaimedAt(q)' = ClaimedAt(q) /\ ExcessAt(q)' = ExcessAt(q)
             /\ behind'[q] = behind[q] /\ excess'[q] = excess[q]
  BY <1>1, <1>4 DEF ClaimedAt, ExcessAt, ClaimOf, ExcessOf
<1>5. PICK f : f = ClaimedAt(p)'
  OBVIOUS
<1>6. PICK g : g = ExcessAt(p)'
  OBVIOUS
<1>7. /\ f \in [Dequeuers -> Nat] /\ f[c] = ClaimOf(x, p) /\ f = [ClaimedAt(p) EXCEPT ![c] = f[c]]
      /\ ClaimedAt(p)[c] = ClaimOf(consumer[c], p)
  BY <1>2, <1>5 DEF ClaimedAt
<1>8. /\ g \in [Dequeuers -> Nat] /\ g[c] = ExcessOf(x, p) /\ g = [ExcessAt(p) EXCEPT ![c] = g[c]]
      /\ ExcessAt(p)[c] = ExcessOf(consumer[c], p)
  BY <1>2, <1>6 DEF ExcessAt
<1>9. /\ Total(Dequeuers, f) \in Nat /\ Total(Dequeuers, g) \in Nat
      /\ Total(Dequeuers, f) = behind[p] - ClaimOf(consumer[c], p) + ClaimOf(x, p)
      /\ Total(Dequeuers, g) = excess[p] - ExcessOf(consumer[c], p) + ExcessOf(x, p)
  <2>1. behind[p] = Total(Dequeuers, ClaimedAt(p)) /\ excess[p] = Total(Dequeuers, ExcessAt(p))
    BY <1>1 DEF ClaimsInv
  <2>2. PICK a \in [Dequeuers -> Nat] : a = ClaimedAt(p)
    BY <1>3
  <2>3. PICK b \in [Dequeuers -> Nat] : b = ExcessAt(p)
    BY <1>3
  <2>4. Total(Dequeuers, f) \in Nat /\ Total(Dequeuers, f) = Total(Dequeuers, a) - a[c] + f[c]
    <3>1. f \in [Dequeuers -> Nat] /\ f = [a EXCEPT ![c] = f[c]] /\ IsFiniteSet(Dequeuers)
      BY <1>1, <1>7, <2>2
    <3> QED BY <3>1, TotalsCompare
  <2>5. Total(Dequeuers, g) \in Nat /\ Total(Dequeuers, g) = Total(Dequeuers, b) - b[c] + g[c]
    <3>1. g \in [Dequeuers -> Nat] /\ g = [b EXCEPT ![c] = g[c]] /\ IsFiniteSet(Dequeuers)
      BY <1>1, <1>8, <2>3
    <3> QED BY <3>1, TotalsCompare
  <2> QED BY <1>7, <1>8, <2>1, <2>2, <2>3, <2>4, <2>5
<1>10. behind'[p] = Total(Dequeuers, f) /\ excess'[p] = Total(Dequeuers, g)
  BY <1>1, <1>9
<1>11. behind' \in [1..MaxProducers -> Nat] /\ excess' \in [1..MaxProducers -> Nat]
  BY <1>1, <1>9, <1>10
<1>12. \A q \in 1..MaxProducers : behind'[q] = Total(Dequeuers, ClaimedAt(q)') /\ excess'[q] = Total(Dequeuers, ExcessAt(q)')
  BY <1>1, <1>4, <1>5, <1>6, <1>10 DEF ClaimsInv
<1> QED BY <1>11, <1>12 DEF ClaimsInv

LEMMA Rebalanced ==
  ASSUME NEW m \in Nat \ {0}, NEW a \in Int, NEW b \in Int, Differs(a, b, m), NEW x \in Int
  PROVE  (a + x) % m \in 0..(m - 1) /\ Differs((a + x) % m, b + x, m)
<1>1. PICK y \in Int : y = a + x
  OBVIOUS
<1>2. PICK k \in Int : a = b + k * m
  BY DEF Differs
<1>3. PICK q \in Int : y % m = y + q * m /\ y % m \in 0..(m - 1)
  <2>1. y % m \in 0..(m - 1) /\ \E q \in Int : y % m = y + q * m
    BY Remainder
  <2> QED BY <2>1
<1>4. (k + q) * m = k * m + q * m /\ k * m \in Int /\ q * m \in Int /\ k + q \in Int
  OBVIOUS
<1>5. y % m = b + x + (k + q) * m
  BY <1>1, <1>2, <1>3, <1>4
<1> QED BY <1>1, <1>3, <1>4, <1>5 DEF Differs

LEMMA WithinModulus ==
  ASSUME NEW m \in Nat \ {0}, NEW a \in 0..(m - 1), NEW b \in Int, Differs(a, b, m)
  PROVE  a = b % m
<1>1. PICK k \in Int : a = b + k * m
  BY DEF Differs
<1>2. PICK r \in 0..(m - 1) : r = b % m /\ \E q \in Int : b % m = b + q * m
  <2>1. b % m \in 0..(m - 1) /\ \E q \in Int : b % m = b + q * m
    BY Remainder
  <2> QED BY <2>1
<1>3. PICK q \in Int : r = b + q * m
  BY <1>2
<1>4. (k - q) * m = k * m - q * m /\ k * m \in Int /\ q * m \in Int /\ k - q \in Int
  OBVIOUS
<1>5. a - r = (k - q) * m
  BY <1>1, <1>3, <1>4
<1> QED BY <1>2, <1>4, <1>5, OneRemainder

LEMMA TotalsTypes ==
  ASSUME DispatchInv
  PROVE  /\ Uncounted \in [1..MaxProducers -> Int] /\ Amounts \in [Dequeuers -> Nat]
         /\ Total(1..MaxProducers, Uncounted) \in Int /\ Total(Dequeuers, Amounts) \in Int
         /\ IsFiniteSet(1..MaxProducers) /\ IsFiniteSet(Dequeuers)
<1>1. IsFiniteSet(1..MaxProducers) /\ IsFiniteSet(Dequeuers)
  BY FS_Interval DEF DispatchInv, DispatchTypes, Asking
<1>2. Uncounted \in [1..MaxProducers -> Int]
  BY DEF Uncounted, DispatchInv, DispatchTypes
<1>3. Amounts \in [Dequeuers -> Nat]
  BY States DEF Amounts, DispatchInv, DispatchTypes
<1>4. Total(1..MaxProducers, Uncounted) \in Int
  BY <1>1, <1>2, TotalsOfNumbers
<1>5. Total(Dequeuers, Amounts) \in Nat
  BY <1>1, <1>3, TotalsCompare
<1> QED BY <1>1, <1>2, <1>3, <1>4, <1>5

LEMMA AmountsMove ==
  ASSUME DispatchInv, NEW c \in Dequeuers, NEW x, AmountOf(x) \in Nat,
         \A e \in Dequeuers : consumer'[e] = IF e = c THEN x ELSE consumer[e]
  PROVE  Total(Dequeuers, Amounts') = Total(Dequeuers, Amounts) - AmountOf(consumer[c]) + AmountOf(x)
<1>1. PICK a \in [Dequeuers -> Nat] : a = Amounts /\ a[c] = AmountOf(consumer[c])
  BY TotalsTypes DEF Amounts
<1>2. PICK f : f = Amounts'
  OBVIOUS
<1>3. f \in [Dequeuers -> Nat] /\ f[c] = AmountOf(x) /\ f = [a EXCEPT ![c] = f[c]]
  BY <1>1, <1>2 DEF Amounts
<1>4. IsFiniteSet(Dequeuers)
  BY TotalsTypes
<1>5. Total(Dequeuers, f) = Total(Dequeuers, a) - a[c] + f[c]
  BY <1>3, <1>4, TotalsCompare
<1> QED BY <1>1, <1>2, <1>3, <1>5

LEMMA UncountedMoves ==
  ASSUME DispatchInv, NEW p \in 1..MaxProducers, NEW n \in Int, Uncounted' = [Uncounted EXCEPT ![p] = n]
  PROVE  Total(1..MaxProducers, Uncounted') = Total(1..MaxProducers, Uncounted) - Uncounted[p] + n
<1>1. PICK S : S = 1..MaxProducers
  OBVIOUS
<1>2. PICK a \in [S -> Int] : a = Uncounted
  BY <1>1, TotalsTypes
<1>3. PICK f \in [S -> Int] : f = Uncounted' /\ f[p] = n /\ f = [a EXCEPT ![p] = f[p]]
  BY <1>1, <1>2
<1>4. IsFiniteSet(S) /\ p \in S
  BY <1>1, TotalsTypes
<1>5. PICK i : i = p
  OBVIOUS
<1>6. i \in S /\ IsFiniteSet(S) /\ f = [a EXCEPT ![i] = f[i]]
  BY <1>3, <1>4, <1>5
<1>7. Total(S, f) = Total(S, a) - a[i] + f[i]
  BY <1>6, TotalsOfNumbers
<1> QED BY <1>1, <1>2, <1>3, <1>5, <1>7

(* the count is right again when it has moved as the totals have *)
LEMMA CountMoves ==
  ASSUME DispatchInv, NEW u \in Int, u = Total(1..MaxProducers, Uncounted'),
         NEW v \in Int, v = Total(Dequeuers, Amounts'),
         NEW x \in Int, u + v = Total(1..MaxProducers, Uncounted) + Total(Dequeuers, Amounts) + x,
         proxyCount' = (proxyCount + x) % CountMod \/ (x = 0 /\ proxyCount' = proxyCount)
  PROVE  proxyCount' \in 0..(CountMod - 1) /\ CountInv'
<1>1. CountMod \in Nat \ {0} /\ proxyCount \in Int /\ proxyCount \in 0..(CountMod - 1)
  BY DEF DispatchInv, DispatchTypes, Asking
<1>2. PICK b \in Int : b = Total(1..MaxProducers, Uncounted) + Total(Dequeuers, Amounts)
  BY TotalsTypes
<1>3. Differs(proxyCount, b, CountMod)
  BY <1>2 DEF DispatchInv, CountInv
<1>4. proxyCount' \in 0..(CountMod - 1) /\ Differs(proxyCount', u + v, CountMod)
  <2>1. u + v = b + x
    BY <1>2
  <2>2. CASE proxyCount' = (proxyCount + x) % CountMod
    BY <1>1, <1>3, <2>1, <2>2, Rebalanced
  <2>3. CASE x = 0 /\ proxyCount' = proxyCount
    BY <1>1, <1>3, <2>1, <2>3
  <2> QED BY <2>2, <2>3
<1> QED BY <1>4 DEF CountInv

LEMMA ClaimStep ==
  ASSUME DispatchInv, NEW c \in Dequeuers, Dispatch!Claim(c)
  PROVE  DispatchInv'
<1> DEFINE d == consumer[c]
           p == Head(d.walk)
           taken == Dispatch!Max({0, Dispatch!Min({d.asked, unclaimed[p] - excess[p]})})
<1>1. /\ d.pc = "claim" /\ UNCHANGED <<listed, producerCount, enqueuing, proxyCount, dispatched>>
      /\ UNCHANGED <<token, globalExplicitConsumerOffset, nextExplicitConsumerId>>
      /\ unclaimed' = [unclaimed EXCEPT ![p] = @ - taken] /\ behind' = [behind EXCEPT ![p] = @ + taken]
      /\ excess' = [excess EXCEPT ![p] = @ + d.asked - taken]
      /\ consumer' = [consumer EXCEPT ![c] = [d EXCEPT !.pc = "settle", !.got = taken]]
  BY DEF Dispatch!Claim, Dispatch!At, Dispatch!Become, Dispatch!tokenVars, Dispatch!listVars
<1>2. d \in VisitStates /\ VisitInv(d, listed) /\ d \notin ScanStates /\ (WithToken(d) => token[c] \in TokenStates)
  BY <1>1, States DEF Visits, DispatchInv, DispatchTypes, PlacesInv, ConsumerInv
<1>3. /\ d.walk \in Seq(Nat) /\ d.walk # <<>> /\ Members(d.walk) \subseteq 1..listed
      /\ d.asked \in Nat /\ d.count \in Nat /\ d.got = 0
  BY <1>1, <1>2 DEF VisitStates, VisitInv, Visits
<1>4. p \in 1..MaxProducers
  <2>1. p \in 1..listed
    BY <1>3, MembersSplit
  <2> HIDE DEF p
  <2> QED BY <2>1 DEF DispatchInv, DispatchTypes, Asking
<1>5. unclaimed[p] \in Nat /\ excess[p] \in Nat /\ enqueuing[p] \in Nat
  BY <1>4 DEF DispatchInv, DispatchTypes
<1>6. taken \in Nat /\ taken <= d.asked /\ taken <= unclaimed[p]
  <2>1. PICK a \in Int : a = unclaimed[p] - excess[p]
    BY <1>5
  <2>2. PICK b \in Int : b = Dispatch!Min({d.asked, a}) /\ b = IF d.asked <= a THEN d.asked ELSE a
    <3>1. PICK n \in Int : n = d.asked
      BY <1>3
    <3>2. Dispatch!Min({n, a}) = IF n <= a THEN n ELSE a
      BY SmallSets
    <3> QED BY <3>1, <3>2
  <2>3. taken = Dispatch!Max({0, b})
    BY <2>1, <2>2
  <2> HIDE DEF taken, p, d
  <2>4. taken = IF 0 >= b THEN 0 ELSE b
    <3>1. 0 \in Int /\ b \in Int
      OBVIOUS
    <3>2. Dispatch!Max({0, b}) = IF 0 >= b THEN 0 ELSE b
      BY <3>1, SmallSets
    <3> QED BY <2>3, <3>2
  <2> QED BY <1>3, <1>5, <2>1, <2>2, <2>4
<1> HIDE DEF taken, p
<1>7. PICK x : x = [d EXCEPT !.pc = "settle", !.got = taken]
  OBVIOUS
<1> HIDE DEF d
<1>8. x \in VisitStates /\ x.pc = "settle" /\ x.got = taken
  BY <1>2, <1>6, <1>7 DEF VisitStates, Visits
<1>9. /\ x.stage = d.stage /\ x.walk = d.walk /\ x.tail = d.tail /\ x.asked = d.asked /\ x.count = d.count
      /\ x.first = d.first /\ x.empty = d.empty
  BY <1>2, <1>7 DEF VisitStates
<1>10. VisitInv(x, listed)
  BY <1>1, <1>2, <1>3, <1>6, <1>8, <1>9 DEF VisitInv, Visits
<1>11. x \notin ScanStates /\ ConsumerInv(x, listed) /\ (WithToken(x) => token[c] \in TokenStates)
  BY <1>2, <1>8, <1>9, <1>10, States DEF ConsumerInv, Visits, WithToken
<1>12. AmountOf(d) = d.count /\ AmountOf(x) = d.count + taken /\ AmountOf(x) \in Nat
  BY <1>1, <1>3, <1>6, <1>8, <1>9 DEF AmountOf
<1>13. x \in {Dispatch!Idle} \cup ScanStates \cup VisitStates /\ TokensKept
  BY <1>1, <1>8, TokensUnchanged
<1>14. /\ consumer' \in [Dequeuers -> {Dispatch!Idle} \cup ScanStates \cup VisitStates] /\ PlacesInv'
       /\ \A e \in Dequeuers : consumer'[e] = IF e = c THEN x ELSE consumer[e]
  BY <1>1, <1>7, <1>11, <1>13, ConsumerMoves DEF d
<1>15. /\ ClaimOf(d, p) = 0 /\ ExcessOf(d, p) = 0 /\ ClaimOf(x, p) = taken /\ ExcessOf(x, p) = d.asked - taken
       /\ \A q : ~Settling(d, q) /\ (q # p => ~Settling(x, q))
  BY <1>1, <1>8, <1>9 DEF ClaimOf, ExcessOf, Settling, p
<1>16. behind' \in [1..MaxProducers -> Nat] /\ excess' \in [1..MaxProducers -> Nat] /\ ClaimsInv'
  <2>1. ClaimOf(x, p) \in Nat /\ ExcessOf(x, p) \in Nat
    BY <1>3, <1>6, <1>15
  <2>2. /\ behind' = [behind EXCEPT ![p] = behind[p] - ClaimOf(d, p) + ClaimOf(x, p)]
        /\ excess' = [excess EXCEPT ![p] = excess[p] - ExcessOf(d, p) + ExcessOf(x, p)]
    <3>1. behind[p] \in Nat
      BY <1>4 DEF DispatchInv, DispatchTypes
    <3>2. /\ behind[p] + taken = behind[p] - ClaimOf(d, p) + ClaimOf(x, p)
          /\ excess[p] + d.asked - taken = excess[p] - ExcessOf(d, p) + ExcessOf(x, p)
      BY <1>3, <1>5, <1>6, <1>15, <3>1
    <3> QED BY <1>1, <3>2
  <2>3. UNCHANGED MaxProducers
    OBVIOUS
  <2> QED BY <1>4, <1>14, <1>15, <2>1, <2>2, <2>3, ClaimsMove DEF d
<1>17. unclaimed' \in [1..MaxProducers -> Nat]
  BY <1>1, <1>4, <1>5, <1>6 DEF DispatchInv, DispatchTypes
<1>18. proxyCount' \in 0..(CountMod - 1) /\ CountInv'
  <2>1. Uncounted[p] = unclaimed[p] - enqueuing[p] /\ Uncounted[p] \in Int
    BY <1>4, <1>5 DEF Uncounted
  <2>2. PICK n \in Int : n = Uncounted[p] - taken
    BY <1>6, <2>1
  <2>3. Uncounted' = [Uncounted EXCEPT ![p] = n]
    <3>1. \A q \in 1..MaxProducers : unclaimed'[q] - enqueuing'[q]
                                       = IF q = p THEN n ELSE unclaimed[q] - enqueuing[q]
      BY <1>1, <1>4, <1>5, <1>6, <2>1, <2>2 DEF DispatchInv, DispatchTypes
    <3> QED BY <1>4, <3>1 DEF Uncounted
  <2>4. PICK u \in Int, u0 \in Int :
          u = Total(1..MaxProducers, Uncounted') /\ u0 = Total(1..MaxProducers, Uncounted) /\ u = u0 - taken
    <3>1. Total(1..MaxProducers, Uncounted') = Total(1..MaxProducers, Uncounted) - Uncounted[p] + n
      BY <1>4, <2>3, UncountedMoves
    <3>2. PICK u0 \in Int : u0 = Total(1..MaxProducers, Uncounted)
      BY TotalsTypes
    <3>3. u0 - Uncounted[p] + n = u0 - taken /\ u0 - taken \in Int
      BY <1>6, <2>1, <2>2
    <3> QED BY <3>1, <3>2, <3>3
  <2>5. PICK v \in Int, v0 \in Int :
          v = Total(Dequeuers, Amounts') /\ v0 = Total(Dequeuers, Amounts) /\ v = v0 + taken
    <3>1. Total(Dequeuers, Amounts') = Total(Dequeuers, Amounts) - AmountOf(d) + AmountOf(x)
      BY <1>12, <1>14, AmountsMove DEF d
    <3>2. PICK v0 \in Int : v0 = Total(Dequeuers, Amounts)
      BY TotalsTypes
    <3>3. v0 - AmountOf(d) + AmountOf(x) = v0 + taken /\ v0 + taken \in Int
      BY <1>3, <1>6, <1>12
    <3> QED BY <3>1, <3>2, <3>3
  <2>6. u + v = u0 + v0 + 0
    BY <1>6, <2>4, <2>5
  <2> QED BY <1>1, <2>4, <2>5, <2>6, CountMoves
<1>19. DispatchTypes'
  BY <1>1, <1>13, <1>14, <1>16, <1>17, <1>18 DEF DispatchInv, DispatchTypes, Asking, TokensKept
<1> QED BY <1>14, <1>16, <1>18, <1>19 DEF DispatchInv


(* the total of the amounts when one consumer has another *)
LEMMA AmountsTotal ==
  ASSUME DispatchInv, NEW c \in Dequeuers, NEW x, NEW n \in Int, AmountOf(x) = AmountOf(consumer[c]) + n,
         AmountOf(consumer[c]) \in Nat, AmountOf(x) \in Nat,
         \A e \in Dequeuers : consumer'[e] = IF e = c THEN x ELSE consumer[e]
  PROVE  \E v \in Int, v0 \in Int :
           v = Total(Dequeuers, Amounts') /\ v0 = Total(Dequeuers, Amounts) /\ v = v0 + n
<1>1. Total(Dequeuers, Amounts') = Total(Dequeuers, Amounts) - AmountOf(consumer[c]) + AmountOf(x)
  BY AmountsMove
<1>2. PICK v0 \in Int : v0 = Total(Dequeuers, Amounts)
  BY TotalsTypes
<1>3. v0 - AmountOf(consumer[c]) + AmountOf(x) = v0 + n /\ v0 + n \in Int
  BY <1>2
<1> QED BY <1>1, <1>2, <1>3

LEMMA SettleStep ==
  ASSUME DispatchInv, NEW c \in Dequeuers, Dispatch!Settle(c)
  PROVE  DispatchInv'
<1> DEFINE d == consumer[c]
           p == Head(d.walk)
           taken == d.got
<1>1. PICK x : x = Dispatch!Visited(c, taken)
  OBVIOUS
<1>2. /\ d.pc = "settle" /\ UNCHANGED <<listed, producerCount, unclaimed, enqueuing, proxyCount, dispatched>>
      /\ Dispatch!TokenVisited(c, taken) /\ consumer' = [consumer EXCEPT ![c] = x]
      /\ behind' = [behind EXCEPT ![p] = @ - taken]
      /\ excess' = [excess EXCEPT ![p] = @ - (d.asked - taken)]
  BY <1>1 DEF Dispatch!Settle, Dispatch!At, Dispatch!Become, Dispatch!listVars
<1>3. d \in VisitStates /\ VisitInv(d, listed) /\ d \notin ScanStates /\ (WithToken(d) => token[c] \in TokenStates)
  BY <1>2, States DEF Visits, DispatchInv, DispatchTypes, PlacesInv, ConsumerInv
<1>4. /\ d.walk \in Seq(Nat) /\ d.walk # <<>> /\ Members(d.walk) \subseteq 1..listed
      /\ d.asked \in Nat /\ d.count \in Nat /\ taken \in Nat /\ taken <= d.asked /\ d.pc \in Visits
  BY <1>2, <1>3 DEF VisitStates, VisitInv, Visits
<1>5. p \in 1..MaxProducers
  <2>1. p \in 1..listed
    BY <1>4, MembersSplit
  <2> HIDE DEF p
  <2> QED BY <2>1 DEF DispatchInv, DispatchTypes, Asking
<1>6. behind[p] \in Nat /\ excess[p] \in Nat
  BY <1>5 DEF DispatchInv, DispatchTypes
<1>7. /\ x \in VisitStates /\ ConsumerInv(x, listed) /\ x.pc # "settle"
      /\ AmountOf(x) = d.count + taken /\ (WithToken(x) => WithToken(d))
  BY <1>1, <1>4, VisitEnds
<1>8. TokensKept
  BY <1>2, <1>4, TokenMoves
<1>9. WithToken(x) => token'[c] \in TokenStates
  BY <1>3, <1>7, <1>8 DEF TokensKept
<1>10. x \in {Dispatch!Idle} \cup ScanStates \cup VisitStates /\ UNCHANGED listed
  BY <1>2, <1>7
<1>11. /\ consumer' \in [Dequeuers -> {Dispatch!Idle} \cup ScanStates \cup VisitStates] /\ PlacesInv'
       /\ \A e \in Dequeuers : consumer'[e] = IF e = c THEN x ELSE consumer[e]
  BY <1>2, <1>7, <1>8, <1>9, <1>10, ConsumerMoves
<1>12. AmountOf(d) = d.count + taken /\ AmountOf(d) \in Nat
  BY <1>2, <1>4 DEF AmountOf
<1>13. /\ ClaimOf(x, p) = 0 /\ ExcessOf(x, p) = 0 /\ ClaimOf(d, p) = taken /\ ExcessOf(d, p) = d.asked - taken
       /\ \A q : ~Settling(x, q) /\ (q # p => ~Settling(d, q))
  BY <1>2, <1>7 DEF ClaimOf, ExcessOf, Settling
<1> HIDE DEF d, p, taken
<1>14. behind' \in [1..MaxProducers -> Nat] /\ excess' \in [1..MaxProducers -> Nat] /\ ClaimsInv'
  <2>1. ClaimOf(x, p) \in Nat /\ ExcessOf(x, p) \in Nat
    BY <1>13
  <2>2. /\ behind' = [behind EXCEPT ![p] = behind[p] - ClaimOf(d, p) + ClaimOf(x, p)]
        /\ excess' = [excess EXCEPT ![p] = excess[p] - ExcessOf(d, p) + ExcessOf(x, p)]
    <3>1. /\ behind[p] - taken = behind[p] - ClaimOf(d, p) + ClaimOf(x, p)
          /\ excess[p] - (d.asked - taken) = excess[p] - ExcessOf(d, p) + ExcessOf(x, p)
      BY <1>4, <1>6, <1>13
    <3> QED BY <1>2, <3>1
  <2>3. UNCHANGED MaxProducers
    OBVIOUS
  <2> QED BY <1>5, <1>11, <1>13, <2>1, <2>2, <2>3, ClaimsMove DEF d
<1>15. Uncounted' = Uncounted
  BY <1>2 DEF Uncounted
<1>16. proxyCount' \in 0..(CountMod - 1) /\ CountInv'
  <2>1. PICK u \in Int : u = Total(1..MaxProducers, Uncounted') /\ u = Total(1..MaxProducers, Uncounted)
    BY <1>15, TotalsTypes
  <2>2. AmountOf(x) = AmountOf(d) + 0 /\ AmountOf(x) \in Nat
    BY <1>7, <1>12
  <2>3. PICK v \in Int, v0 \in Int :
          v = Total(Dequeuers, Amounts') /\ v0 = Total(Dequeuers, Amounts) /\ v = v0 + 0
    BY <1>11, <1>12, <2>2, AmountsTotal DEF d
  <2>4. u + v = u + v0 + 0
    BY <2>3
  <2> QED BY <1>2, <2>1, <2>3, <2>4, CountMoves
<1>17. DispatchTypes'
  BY <1>2, <1>8, <1>11, <1>14, <1>16 DEF DispatchInv, DispatchTypes, Asking, TokensKept
<1> QED BY <1>11, <1>14, <1>16, <1>17 DEF DispatchInv

LEMMA CountDequeuedStep ==
  ASSUME DispatchInv, NEW c \in Dequeuers, Dispatch!CountDequeued(c)
  PROVE  DispatchInv'
<1> DEFINE d == consumer[c]
           x == Dispatch!Idle
<1>1. /\ d.pc = "done" /\ UNCHANGED <<listed, producerCount, unclaimed, excess, behind, enqueuing, dispatched>>
      /\ UNCHANGED <<token, globalExplicitConsumerOffset, nextExplicitConsumerId>>
      /\ consumer' = [consumer EXCEPT ![c] = x] /\ proxyCount' = (proxyCount - d.count) % CountMod
  BY DEF Dispatch!CountDequeued, Dispatch!At, Dispatch!Become, Dispatch!listVars, Dispatch!elementVars,
         Dispatch!tokenVars
<1>2. d \in VisitStates /\ VisitInv(d, listed)
  BY <1>1, States DEF Visits, DispatchInv, DispatchTypes, PlacesInv, ConsumerInv
<1>3. d.count \in Nat /\ d.got = 0
  BY <1>1, <1>2 DEF VisitStates, VisitInv
<1>4. AmountOf(d) = d.count /\ AmountOf(x) = 0
  BY <1>1, <1>3 DEF AmountOf, Dispatch!Idle
<1>5. x \notin VisitStates /\ x \notin ScanStates /\ x.pc # "settle" /\ TokensKept
  BY <1>1, States, TokensUnchanged
<1>6. ConsumerInv(x, listed) /\ ~WithToken(x) /\ x \in {Dispatch!Idle} \cup ScanStates \cup VisitStates
  BY <1>5 DEF ConsumerInv, WithToken
<1>7. /\ consumer' \in [Dequeuers -> {Dispatch!Idle} \cup ScanStates \cup VisitStates] /\ PlacesInv'
      /\ \A e \in Dequeuers : consumer'[e] = IF e = c THEN x ELSE consumer[e]
  BY <1>1, <1>5, <1>6, ConsumerMoves
<1> HIDE DEF x
<1>8. \A q : ClaimedAt(q)' = ClaimedAt(q) /\ ExcessAt(q)' = ExcessAt(q)
  BY <1>1, <1>5, <1>7 DEF ClaimedAt, ExcessAt, ClaimOf, ExcessOf, Settling
<1>9. ClaimsInv'
  BY <1>1, <1>8 DEF DispatchInv, ClaimsInv
<1>10. proxyCount' \in 0..(CountMod - 1) /\ CountInv'
  <2>1. PICK u \in Int : u = Total(1..MaxProducers, Uncounted') /\ u = Total(1..MaxProducers, Uncounted)
    <3>1. Uncounted' = Uncounted
      BY <1>1 DEF Uncounted
    <3> QED BY <3>1, TotalsTypes
  <2>2. PICK n \in Int : n = 0 - d.count
    BY <1>3
  <2>3. AmountOf(x) = AmountOf(d) + n /\ AmountOf(x) \in Nat /\ AmountOf(d) \in Nat
    BY <1>3, <1>4, <2>2
  <2>4. PICK v \in Int, v0 \in Int :
          v = Total(Dequeuers, Amounts') /\ v0 = Total(Dequeuers, Amounts) /\ v = v0 + n
    BY <1>7, <2>3, AmountsTotal
  <2>5. u + v = u + v0 + n
    BY <2>4
  <2>6. proxyCount - d.count = proxyCount + n
    BY <1>3, <2>2 DEF DispatchInv, DispatchTypes, Asking
  <2> QED BY <1>1, <2>1, <2>4, <2>5, <2>6, CountMoves
<1>11. DispatchTypes'
  BY <1>1, <1>5, <1>7, <1>10 DEF DispatchInv, DispatchTypes, Asking, TokensKept
<1> QED BY <1>7, <1>9, <1>10, <1>11 DEF DispatchInv

-----------------------------------------------------------------------------
(* The producers *)
LEMMA EnqueueStep ==
  ASSUME DispatchInv, NEW p \in 1..MaxProducers, NEW n \in Nat, Dispatch!Enqueue(p, n)
  PROVE  DispatchInv'
<1>1. /\ enqueuing[p] = 0 /\ unclaimed' = [unclaimed EXCEPT ![p] = @ + n] /\ enqueuing' = [enqueuing EXCEPT ![p] = n]
      /\ UNCHANGED <<listed, producerCount, excess, behind, proxyCount, consumer, dispatched>>
      /\ UNCHANGED <<token, globalExplicitConsumerOffset, nextExplicitConsumerId>>
  BY DEF Dispatch!Enqueue, Dispatch!listVars, Dispatch!tokenVars
<1>2. unclaimed \in [1..MaxProducers -> Nat] /\ enqueuing \in [1..MaxProducers -> Nat]
  BY DEF DispatchInv, DispatchTypes
<1>3. unclaimed' \in [1..MaxProducers -> Nat] /\ enqueuing' \in [1..MaxProducers -> Nat]
  BY <1>1, <1>2
<1>4. \A q \in 1..MaxProducers : unclaimed'[q] - enqueuing'[q] = unclaimed[q] - enqueuing[q]
  BY <1>1, <1>2
<1>5. Uncounted' = Uncounted
  BY <1>4 DEF Uncounted
<1>6. Amounts' = Amounts /\ \A q : ClaimedAt(q)' = ClaimedAt(q) /\ ExcessAt(q)' = ExcessAt(q)
  BY <1>1 DEF Amounts, ClaimedAt, ExcessAt
<1>7. ClaimsInv' /\ CountInv'
  BY <1>1, <1>5, <1>6 DEF DispatchInv, ClaimsInv, CountInv
<1>8. DispatchTypes' /\ PlacesInv'
  BY <1>1, <1>3 DEF DispatchInv, DispatchTypes, Asking, PlacesInv
<1> QED BY <1>7, <1>8 DEF DispatchInv

LEMMA CountEnqueuedStep ==
  ASSUME DispatchInv, NEW p \in 1..MaxProducers, Dispatch!CountEnqueued(p)
  PROVE  DispatchInv'
<1>1. /\ enqueuing' = [enqueuing EXCEPT ![p] = 0] /\ proxyCount' = (proxyCount + enqueuing[p]) % CountMod
      /\ UNCHANGED <<listed, producerCount, unclaimed, excess, behind, consumer, dispatched>>
      /\ UNCHANGED <<token, globalExplicitConsumerOffset, nextExplicitConsumerId>>
  BY DEF Dispatch!CountEnqueued, Dispatch!listVars, Dispatch!tokenVars
<1>2. unclaimed \in [1..MaxProducers -> Nat] /\ enqueuing \in [1..MaxProducers -> Nat]
  BY DEF DispatchInv, DispatchTypes
<1>3. enqueuing' \in [1..MaxProducers -> Nat] /\ unclaimed[p] \in Nat /\ enqueuing[p] \in Nat
  BY <1>1, <1>2
<1>4. Uncounted[p] = unclaimed[p] - enqueuing[p]
  BY DEF Uncounted
<1>5. Uncounted' = [Uncounted EXCEPT ![p] = unclaimed[p]]
  <2>1. \A q \in 1..MaxProducers : unclaimed'[q] - enqueuing'[q]
                                     = IF q = p THEN unclaimed[p] ELSE unclaimed[q] - enqueuing[q]
    BY <1>1, <1>2
  <2> QED BY <2>1 DEF Uncounted
<1>6. Amounts' = Amounts /\ \A q : ClaimedAt(q)' = ClaimedAt(q) /\ ExcessAt(q)' = ExcessAt(q)
  BY <1>1 DEF Amounts, ClaimedAt, ExcessAt
<1>7. PICK u \in Int, u0 \in Int :
        u = Total(1..MaxProducers, Uncounted') /\ u0 = Total(1..MaxProducers, Uncounted) /\ u = u0 + enqueuing[p]
  <2>1. PICK n \in Int : n = unclaimed[p]
    BY <1>3
  <2>2. Total(1..MaxProducers, Uncounted') = Total(1..MaxProducers, Uncounted) - Uncounted[p] + n
    BY <1>5, <2>1, UncountedMoves
  <2>3. PICK u0 \in Int : u0 = Total(1..MaxProducers, Uncounted)
    BY TotalsTypes
  <2>4. u0 - Uncounted[p] + n = u0 + enqueuing[p] /\ u0 + enqueuing[p] \in Int
    BY <1>3, <1>4, <2>1
  <2> QED BY <2>2, <2>3, <2>4
<1>8. PICK v \in Int : v = Total(Dequeuers, Amounts') /\ v = Total(Dequeuers, Amounts)
  BY <1>6, TotalsTypes
<1>9. proxyCount' \in 0..(CountMod - 1) /\ CountInv'
  <2>1. PICK x \in Int : x = enqueuing[p]
    BY <1>3
  <2>2. u + v = u0 + v + x /\ proxyCount' = (proxyCount + x) % CountMod
    BY <1>1, <1>7, <2>1
  <2> QED BY <1>7, <1>8, <2>2, CountMoves
<1>10. ClaimsInv'
  BY <1>1, <1>6 DEF DispatchInv, ClaimsInv
<1>11. DispatchTypes' /\ PlacesInv'
  BY <1>1, <1>3, <1>9 DEF DispatchInv, DispatchTypes, Asking, PlacesInv
<1> QED BY <1>9, <1>10, <1>11 DEF DispatchInv

LEMMA ProducerListStep ==
  ASSUME DispatchInv, Dispatch!CountProducer \/ Dispatch!LinkProducer
  PROVE  DispatchInv'
<1>1. /\ UNCHANGED <<unclaimed, excess, behind, enqueuing, proxyCount, consumer, dispatched>>
      /\ UNCHANGED <<token, globalExplicitConsumerOffset, nextExplicitConsumerId>>
  BY DEF Dispatch!CountProducer, Dispatch!LinkProducer, Dispatch!elementVars, Dispatch!tokenVars
<1>2. listed \in Nat /\ producerCount \in Nat /\ MaxProducers \in Nat /\ listed <= producerCount
      /\ producerCount <= MaxProducers
  BY DEF DispatchInv, DispatchTypes, Asking
<1>3. /\ listed' \in Nat /\ listed <= listed' /\ producerCount' \in Nat
      /\ listed' <= producerCount' /\ producerCount' <= MaxProducers
  BY <1>2 DEF Dispatch!CountProducer, Dispatch!LinkProducer
<1>4. PlacesInv'
  <2> SUFFICES ASSUME NEW c \in Dequeuers
               PROVE  /\ ConsumerInv(consumer[c], listed') /\ TokenInv(token[c], listed')
                      /\ WithToken(consumer[c]) => token[c] \in TokenStates
    BY <1>1 DEF PlacesInv
  <2>1. /\ consumer[c] \in {Dispatch!Idle} \cup ScanStates \cup VisitStates
        /\ ConsumerInv(consumer[c], listed) /\ TokenInv(token[c], listed)
        /\ WithToken(consumer[c]) => token[c] \in TokenStates
    BY DEF DispatchInv, DispatchTypes, PlacesInv
  <2>2. ConsumerInv(consumer[c], listed')
    BY <1>2, <1>3, <2>1, MoreListed
  <2>3. TokenInv(token[c], listed')
    <3>1. 1..listed \subseteq 1..listed'
      BY <1>2, <1>3
    <3> QED BY <2>1, <3>1 DEF TokenInv
  <2> QED BY <2>1, <2>2, <2>3
<1>5. /\ Amounts' = Amounts /\ Uncounted' = Uncounted
      /\ \A q : ClaimedAt(q)' = ClaimedAt(q) /\ ExcessAt(q)' = ExcessAt(q)
  BY <1>1 DEF Amounts, Uncounted, ClaimedAt, ExcessAt
<1>6. ClaimsInv' /\ CountInv'
  BY <1>1, <1>5 DEF DispatchInv, ClaimsInv, CountInv
<1>7. DispatchTypes'
  BY <1>1, <1>3 DEF DispatchInv, DispatchTypes, Asking
<1> QED BY <1>4, <1>6, <1>7 DEF DispatchInv

LEMMA DispatchInductive ==
  ASSUME Asking
  PROVE  Dispatch!Spec => []DispatchInv
<1>1. Dispatch!Init => DispatchInv
  <2> SUFFICES ASSUME Dispatch!Init PROVE DispatchInv
    OBVIOUS
  <2> USE DEF Dispatch!Init, Dispatch!Producers
  <2>1. \A c \in Dequeuers : consumer[c] = Dispatch!Idle /\ token[c] = Dispatch!NoToken
    OBVIOUS
  <2>2. DispatchTypes
    BY DEF DispatchTypes, Asking
  <2>3. Dispatch!NoToken \notin TokenStates
    BY DEF Dispatch!NoToken, TokenStates
  <2>4. Dispatch!Idle \notin ScanStates /\ Dispatch!Idle \notin VisitStates /\ Dispatch!Idle.pc = "idle"
    BY States
  <2>5. PlacesInv
    BY <2>1, <2>3, <2>4 DEF PlacesInv, ConsumerInv, TokenInv, WithToken
  <2>6. IsFiniteSet(Dequeuers) /\ IsFiniteSet(1..MaxProducers)
    BY FS_Interval DEF Asking
  <2>7. ClaimsInv
    <3> SUFFICES ASSUME NEW p \in 1..MaxProducers
                 PROVE  behind[p] = Total(Dequeuers, ClaimedAt(p)) /\ excess[p] = Total(Dequeuers, ExcessAt(p))
      BY DEF ClaimsInv
    <3>1. behind[p] = 0 /\ excess[p] = 0
      OBVIOUS
    <3>2. PICK f : f = ClaimedAt(p)
      OBVIOUS
    <3>3. PICK g : g = ExcessAt(p)
      OBVIOUS
    <3>2a. f \in [Dequeuers -> Nat] /\ \A c \in Dequeuers : f[c] = 0
      BY <2>1, <2>4, <3>2 DEF ClaimedAt, ClaimOf, Settling
    <3>3a. g \in [Dequeuers -> Nat] /\ \A c \in Dequeuers : g[c] = 0
      BY <2>1, <2>4, <3>3 DEF ExcessAt, ExcessOf, Settling
    <3>4. Total(Dequeuers, f) = 0 /\ Total(Dequeuers, g) = 0
      BY <2>6, <3>2a, <3>3a, TotalsCompare
    <3> QED BY <3>1, <3>2, <3>3, <3>4
  <2>8. CountInv
    <3>1. PICK f : f = Amounts
      OBVIOUS
    <3>2. PICK g : g = Uncounted
      OBVIOUS
    <3>3. Total(Dequeuers, f) = 0
      <4>1. f \in [Dequeuers -> Nat] /\ \A c \in Dequeuers : f[c] = 0
        BY <2>1, <2>4, <3>1 DEF Amounts, AmountOf
      <4> QED BY <2>6, <4>1, TotalsCompare
    <3>4. Total(1..MaxProducers, g) = 0
      <4>1. \A p \in 1..MaxProducers : unclaimed[p] - enqueuing[p] = 0
        OBVIOUS
      <4>2. g \in [1..MaxProducers -> Int] /\ \A p \in 1..MaxProducers : g[p] = 0
        BY <3>2, <4>1 DEF Uncounted
      <4> QED BY <2>6, <4>2, TotalsOfNumbers
    <3>5. proxyCount = 0 + 0 + 0 * CountMod
      BY DEF Asking
    <3> QED BY <3>1, <3>2, <3>3, <3>4, <3>5 DEF CountInv, Differs
  <2> QED BY <2>2, <2>5, <2>7, <2>8 DEF DispatchInv
<1>2. DispatchInv /\ [Dispatch!Next]_(Dispatch!vars) => DispatchInv'
  <2> SUFFICES ASSUME DispatchInv, [Dispatch!Next]_(Dispatch!vars) PROVE DispatchInv'
    OBVIOUS
  <2>1. CASE UNCHANGED Dispatch!vars
    <3>1. UNCHANGED <<listed, producerCount, unclaimed, excess, behind, enqueuing, proxyCount, consumer, dispatched, token,
                      globalExplicitConsumerOffset, nextExplicitConsumerId>>
      BY <2>1 DEF Dispatch!vars, Dispatch!listVars, Dispatch!elementVars, Dispatch!tokenVars
    <3> QED BY <3>1 DEF DispatchInv, DispatchTypes, Asking, PlacesInv, ClaimsInv, CountInv, ClaimedAt, ExcessAt,
                        Amounts, Uncounted
  <2>2. \A n \in Batches : n \in Nat \ {0}
    BY DEF DispatchInv, DispatchTypes, Asking
  <2>3. CASE Dispatch!Produce
    BY <2>2, <2>3, ProducerListStep, CountEnqueuedStep, EnqueueStep DEF Dispatch!Produce, Dispatch!Producers
  <2>4. ASSUME NEW c \in Dequeuers, Dispatch!Calls(c) PROVE DispatchInv'
    <3>1. 1 \in Nat \ {0} /\ TRUE \in BOOLEAN /\ FALSE \in BOOLEAN
      OBVIOUS
    <3>2. CASE Dispatch!TryDequeue(c) \/ Dispatch!TryDequeueAll(c, 1) \/ Dispatch!CreateToken(c)
      BY <3>1, <3>2, TryDequeueStep, TryDequeueAllStep, CreateTokenStep
    <3>3. CASE Dispatch!TryDequeueToken(c, 1, TRUE)
      BY <3>1, <3>3, TryDequeueTokenStep
    <3>4. ASSUME NEW most \in Batches, Dispatch!TryDequeueAll(c, most) \/ Dispatch!TryDequeueToken(c, most, FALSE)
          PROVE  DispatchInv'
      BY <2>2, <3>1, <3>4, TryDequeueAllStep, TryDequeueTokenStep
    <3>5. ASSUME NEW p \in 1..MaxProducers, NEW most \in Batches, Dispatch!TryDequeueFrom(c, p, most)
          PROVE  DispatchInv'
      BY <2>2, <3>5, TryDequeueFromStep
    <3> QED BY <2>4, <3>2, <3>3, <3>4, <3>5 DEF Dispatch!Calls, Dispatch!Producers
  <2>5. ASSUME NEW c \in Dequeuers, Dispatch!Step(c) PROVE DispatchInv'
    BY <2>5, ScanStep, ScannedStep, RotateStep, CheckStep, ClaimStep, SettleStep, CountDequeuedStep DEF Dispatch!Step
  <2> QED BY <2>1, <2>3, <2>4, <2>5 DEF Dispatch!Next, Dispatch!Finished
<1> QED BY <1>1, <1>2, PTL DEF Dispatch!Spec

(* A dequeue from the whole queue (try_dequeue, try_dequeue_non_interleaved, try_dequeue_bulk, with a
   token or without) comes back with nothing only when every producer that was in the list when it
   began seemed empty when it was visited; and the count of XConcurrentQueueProxy is the number of the
   elements, but for what the calls under way have still to add or to take off, for any number of
   consumers and of producers, also when the count has wrapped. *)
THEOREM AlwaysReportsTruly ==
  ASSUME Asking
  PROVE  Dispatch!Spec => []ReportsTruly
<1>1. DispatchInv => Dispatch!AllSeenEmpty
  <2> SUFFICES ASSUME DispatchInv, NEW c \in Dequeuers, consumer[c].pc = "done",
                      consumer[c].count = 0, consumer[c].stage # "from"
               PROVE  1..consumer[c].first \subseteq consumer[c].empty
    BY DEF Dispatch!AllSeenEmpty, Dispatch!At
  <2>1. VisitInv(consumer[c], listed)
    BY States DEF DispatchInv, DispatchTypes, PlacesInv, ConsumerInv
  <2> QED BY <2>1 DEF VisitInv
<1>2. DispatchInv => Dispatch!CountBalances
  <2> SUFFICES ASSUME DispatchInv PROVE Dispatch!CountBalances
    OBVIOUS
  <2> DEFINE P == 1..MaxProducers
             Left(p) == unclaimed[p] - enqueuing[p]
             Carried(c) == IF Dispatch!At(c, "idle") \/ Dispatch!At(c, "scan") THEN 0
                           ELSE consumer[c].count + consumer[c].got
             producers == Dispatch!MapThenSumSet(Left, P)
             consumers == Dispatch!MapThenSumSet(Carried, Dequeuers)
  <2>1. producers = Total(P, Uncounted)
    <3> DEFINE Iter(g) == [s \in SUBSET P |-> IF s = {} THEN 0 ELSE Left(First(s)) + g[s \ {First(s)}]]
               f == CHOOSE g : g = Iter(g)
    <3>1. producers = f[P]
      BY DEF Dispatch!MapThenSumSet, Dispatch!MapThenFoldSet, First
    <3>2. ASSUME NEW s \in SUBSET P, s # {} PROVE Uncounted[First(s)] = Left(First(s))
      BY <3>2 DEF First, Uncounted
    <3>3. Uncounted \in [P -> Int] /\ IsFiniteSet(P)
      BY TotalsTypes
    <3> HIDE DEF P, Left
    <3>4. PICK sum \in [SUBSET P -> Int] : Sums(P, Uncounted, sum)
      <4>1. Int \in SUBSET Int /\ 0 \in Int /\ \A m, n \in Int : m + n \in Int
        OBVIOUS
      <4> QED BY <3>3, <4>1, SumsExistIn
    <3>5. sum = Iter(sum)
      BY <3>2, <3>4 DEF Sums
    <3>6. f = Iter(f)
      BY <3>5
    <3> HIDE DEF f
    <3>7. \A s \in SUBSET P : f[s] = Iter(f)[s]
      BY <3>6
    <3>8. Sums(P, Uncounted, f)
      BY <3>2, <3>7 DEF Sums
    <3> QED BY <3>1, <3>3, <3>8, SumOfNumbersIsTotal
  <2>2. consumers = Total(Dequeuers, Amounts)
    <3> DEFINE Iter(g) == [s \in SUBSET Dequeuers |->
                             IF s = {} THEN 0 ELSE Carried(First(s)) + g[s \ {First(s)}]]
               f == CHOOSE g : g = Iter(g)
    <3>1. consumers = f[Dequeuers]
      BY DEF Dispatch!MapThenSumSet, Dispatch!MapThenFoldSet, First
    <3>2. ASSUME NEW s \in SUBSET Dequeuers, s # {} PROVE Amounts[First(s)] = Carried(First(s))
      BY <3>2 DEF First, Amounts, AmountOf, Dispatch!At
    <3>3. Amounts \in [Dequeuers -> Nat] /\ IsFiniteSet(Dequeuers)
      BY TotalsTypes
    <3> HIDE DEF Carried
    <3>4. PICK sum \in [SUBSET Dequeuers -> Nat] : Sums(Dequeuers, Amounts, sum)
      BY <3>3, SumsExist
    <3>5. sum = Iter(sum)
      BY <3>2, <3>4 DEF Sums
    <3>6. f = Iter(f)
      BY <3>5
    <3> HIDE DEF f
    <3>7. \A s \in SUBSET Dequeuers : f[s] = Iter(f)[s]
      BY <3>6
    <3>8. Sums(Dequeuers, Amounts, f)
      BY <3>2, <3>7 DEF Sums
    <3> QED BY <3>1, <3>3, <3>8, SumIsTotal
  <2>3. PICK t \in Int : t = Total(P, Uncounted) + Total(Dequeuers, Amounts)
    BY TotalsTypes
  <2>4. proxyCount = t % CountMod
    <3>1. proxyCount \in 0..(CountMod - 1) /\ Differs(proxyCount, t, CountMod) /\ CountMod \in Nat \ {0}
      BY <2>3 DEF DispatchInv, DispatchTypes, CountInv, Asking
    <3> QED BY <3>1, WithinModulus
  <2> HIDE DEF producers, consumers
  <2>5. proxyCount = (producers + consumers) % CountMod
    BY <2>1, <2>2, <2>3, <2>4
  <2> QED BY <2>5 DEF Dispatch!CountBalances, producers, consumers, Dispatch!Producers
<1> QED BY <1>1, <1>2, DispatchInductive, PTL DEF ReportsTruly, Dispatch!ReportsTruly

-----------------------------------------------------------------------------
(* How tokens are spread over the producers. A call rotates at most once: before it does, it is in
   the stage "current", so that the offset is never more than the calls that have left that stage. *)
MayRotate(d) == d.pc \in {"rotate"} \cup Visits /\ d.stage = "current"
Rotation(d) == IF MayRotate(d) THEN 1 ELSE 0
Rotations == [c \in Dequeuers |-> Rotation(consumer[c])]

RotationInv ==
  /\ globalExplicitConsumerOffset + Total(Dequeuers, Rotations) <= dispatched
  /\ dispatched <= MaxDispatched /\ MaxDispatched \in Nat /\ MaxDispatched < CountMod

(* where a token is that has known n producers only, when rotation r is the last it knows *)
PlaceAfter(offset, r, n) == (((offset % n) - (r + 1)) % n) + 1

PlaceInv(k, offset) ==
  /\ (k.desired = 0) = (k.counts = {})
  /\ IF k.desired = 0 THEN k.lastKnown = CountMod - 1 ELSE k.lastKnown \in 0..offset
  /\ \A n \in Nat \ {0} : k.counts = {n} => k.desired = PlaceAfter(k.initialOffset, k.lastKnown, n)

SpreadInv ==
  \A c \in Dequeuers : token[c] \in TokenStates => PlaceInv(token[c], globalExplicitConsumerOffset)

(* q steps down the list after p: as many steps as both together *)
LEMMA StepsAdd ==
  ASSUME NEW n \in Nat \ {0}, NEW a \in Int, NEW p \in Int, NEW q \in Int
  PROVE  (((a - p) % n) - q) % n = (a - (p + q)) % n
<1>1. PICK b \in Int : b = a - p
  OBVIOUS
<1>2. PICK r \in Int : r = b % n
  BY Remainder
<1>3. PICK m \in Int : r = b + m * n
  <2>1. \E m \in Int : b % n = b + m * n
    BY Remainder
  <2> QED BY <1>2, <2>1
<1>4. PICK x \in Int : x = r - q
  OBVIOUS
<1>5. PICK y \in Int : y = a - (p + q)
  OBVIOUS
<1>6. x = y + m * n
  <2>1. m * n \in Int
    OBVIOUS
  <2> QED BY <1>1, <1>3, <1>4, <1>5, <2>1
<1>7. x % n = y % n
  BY <1>6, Congruent
<1> QED BY <1>1, <1>2, <1>4, <1>5, <1>7

(* m steps down a list of n end where they do without the whole rounds *)
LEMMA WholeRounds ==
  ASSUME NEW n \in Nat \ {0}, NEW p \in Int, NEW m \in Int
  PROVE  Dispatch!Steps(p, m % n, n) = Dispatch!Steps(p, m, n)
<1>1. PICK r \in Int : r = m % n
  BY Remainder
<1>2. PICK q \in Int : r = m + q * n
  BY <1>1, Remainder
<1>3. PICK x \in Int : x = p - 1 - r
  OBVIOUS
<1>4. PICK y \in Int : y = p - 1 - m
  OBVIOUS
<1>5. PICK z \in Int : z = 0 - q
  OBVIOUS
<1>6. x = y + z * n
  <2>1. q * n \in Int /\ z * n = 0 - (q * n)
    BY <1>5
  <2> QED BY <1>2, <1>3, <1>4, <2>1
<1>7. x % n = y % n
  BY <1>6, Congruent
<1> QED BY <1>1, <1>3, <1>4, <1>7 DEF Dispatch!Steps

LEMMA SmallRemainder ==
  ASSUME NEW m \in Nat \ {0}, NEW a \in 0..(m - 1)
  PROVE  a % m = a
<1>1. Differs(a, a, m)
  <2>1. a = a + 0 * m
    OBVIOUS
  <2> QED BY <2>1 DEF Differs
<1> QED BY <1>1, WithinModulus

LEMMA RotationStep ==
  ASSUME DispatchInv, RotationInv, NEW c \in Dequeuers, NEW x,
         \A e \in Dequeuers : consumer'[e] = IF e = c THEN x ELSE consumer[e],
         globalExplicitConsumerOffset' \in Nat, dispatched' \in Nat, dispatched' <= MaxDispatched,
         globalExplicitConsumerOffset' + Rotation(x) + dispatched
           <= globalExplicitConsumerOffset + Rotation(consumer[c]) + dispatched'
  PROVE  RotationInv'
<1>1. PICK a : a = Rotations
  OBVIOUS
<1>2. PICK f : f = Rotations'
  OBVIOUS
<1>3. a \in [Dequeuers -> Nat] /\ a[c] = Rotation(consumer[c])
  BY <1>1 DEF Rotations, Rotation
<1>4. f \in [Dequeuers -> Nat] /\ f[c] = Rotation(x) /\ f = [a EXCEPT ![c] = f[c]]
  BY <1>1, <1>2 DEF Rotations, Rotation
<1>5. IsFiniteSet(Dequeuers)
  BY DEF DispatchInv, DispatchTypes, Asking
<1>6. /\ Total(Dequeuers, f) \in Nat /\ Total(Dequeuers, a) \in Nat
      /\ Total(Dequeuers, f) = Total(Dequeuers, a) - a[c] + f[c]
  BY <1>3, <1>4, <1>5, TotalsCompare
<1>7. a[c] \in Nat /\ f[c] \in Nat
  BY <1>3, <1>4
<1>8. globalExplicitConsumerOffset \in Nat /\ dispatched \in Nat
  BY DEF DispatchInv, DispatchTypes
<1>9. globalExplicitConsumerOffset' + Total(Dequeuers, f) <= dispatched'
  BY <1>1, <1>3, <1>4, <1>6, <1>7, <1>8 DEF RotationInv
<1> QED BY <1>2, <1>9 DEF RotationInv

(* the offset, and how many calls it may still grow by *)
LEMMA OffsetsBelow ==
  ASSUME DispatchInv, RotationInv, NEW c \in Dequeuers
  PROVE  globalExplicitConsumerOffset + Rotation(consumer[c]) <= MaxDispatched
<1>1. PICK a : a = Rotations
  OBVIOUS
<1>2. a \in [Dequeuers -> Nat] /\ a[c] = Rotation(consumer[c]) /\ a[c] \in Nat
  BY <1>1 DEF Rotations, Rotation
<1>3. PICK f : f = [a EXCEPT ![c] = 0]
  OBVIOUS
<1>4. f \in [Dequeuers -> Nat] /\ f[c] = 0 /\ f = [a EXCEPT ![c] = f[c]]
  BY <1>2, <1>3
<1>5. IsFiniteSet(Dequeuers)
  BY DEF DispatchInv, DispatchTypes, Asking
<1>6. /\ Total(Dequeuers, f) \in Nat /\ Total(Dequeuers, a) \in Nat
      /\ Total(Dequeuers, f) = Total(Dequeuers, a) - a[c] + f[c]
  BY <1>2, <1>4, <1>5, TotalsCompare
<1>7. globalExplicitConsumerOffset \in Nat /\ dispatched \in Nat
  BY DEF DispatchInv, DispatchTypes
<1>8. a[c] <= Total(Dequeuers, a)
  BY <1>2, <1>4, <1>6
<1> QED BY <1>1, <1>2, <1>6, <1>7, <1>8 DEF RotationInv

(* a token keeps its place while the offset grows *)
LEMMA PlacesKept ==
  ASSUME DispatchInv, SpreadInv, globalExplicitConsumerOffset' \in Nat,
         globalExplicitConsumerOffset <= globalExplicitConsumerOffset', UNCHANGED CountMod,
         \A e \in Dequeuers : token'[e] \in TokenStates =>
           \/ /\ token[e] \in TokenStates /\ token'[e].desired = token[e].desired
              /\ token'[e].lastKnown = token[e].lastKnown /\ token'[e].counts = token[e].counts
              /\ token'[e].initialOffset = token[e].initialOffset
           \/ PlaceInv(token'[e], globalExplicitConsumerOffset')
  PROVE  SpreadInv'
<1> SUFFICES ASSUME NEW e \in Dequeuers, token'[e] \in TokenStates
             PROVE  PlaceInv(token'[e], globalExplicitConsumerOffset')
  BY DEF SpreadInv, PlaceInv
<1>1. CASE PlaceInv(token'[e], globalExplicitConsumerOffset')
  BY <1>1
<1>2. CASE /\ token[e] \in TokenStates /\ token'[e].desired = token[e].desired
           /\ token'[e].lastKnown = token[e].lastKnown /\ token'[e].counts = token[e].counts
           /\ token'[e].initialOffset = token[e].initialOffset
  <2>1. PlaceInv(token[e], globalExplicitConsumerOffset)
    BY <1>2 DEF SpreadInv
  <2>2. globalExplicitConsumerOffset \in Nat /\ token[e].lastKnown \in Int
    BY <1>2 DEF DispatchInv, DispatchTypes, TokenStates
  <2>3. 0..globalExplicitConsumerOffset \subseteq 0..globalExplicitConsumerOffset'
    BY <2>2
  <2> QED BY <1>2, <2>1, <2>3 DEF PlaceInv
<1> QED BY <1>1, <1>2

LEMMA CallKeeps ==
  ASSUME DispatchInv, RotationInv, SpreadInv, NEW c \in Dequeuers, NEW x,
         Dispatch!Call(c, x), UNCHANGED Dispatch!tokenVars
  PROVE  RotationInv' /\ SpreadInv'
<1>1. /\ consumer[c].pc = "idle" /\ consumer' = [consumer EXCEPT ![c] = x] /\ dispatched < MaxDispatched
      /\ dispatched' = dispatched + 1
      /\ UNCHANGED <<token, globalExplicitConsumerOffset>>
  BY DEF Dispatch!Call, Dispatch!At, Dispatch!Become, Dispatch!tokenVars
<1>2. Rotation(consumer[c]) = 0 /\ Rotation(x) \in Nat /\ Rotation(x) <= 1
  BY <1>1 DEF Rotation, MayRotate, Visits
<1>3. dispatched \in Nat /\ globalExplicitConsumerOffset \in Nat /\ MaxDispatched \in Nat
  BY DEF DispatchInv, DispatchTypes, RotationInv
<1>4. \A e \in Dequeuers : consumer'[e] = IF e = c THEN x ELSE consumer[e]
  BY <1>1 DEF DispatchInv, DispatchTypes
<1>5. /\ globalExplicitConsumerOffset' \in Nat /\ dispatched' \in Nat /\ dispatched' <= MaxDispatched
      /\ globalExplicitConsumerOffset' + Rotation(x) + dispatched
           <= globalExplicitConsumerOffset + Rotation(consumer[c]) + dispatched'
  BY <1>1, <1>2, <1>3
<1>6. RotationInv'
  BY <1>4, <1>5, RotationStep
<1>7. SpreadInv'
  BY <1>1 DEF SpreadInv, PlaceInv
<1> QED BY <1>6, <1>7

(* a step of a call that leaves the tokens and the offset alone *)
LEMMA StepKeeps ==
  ASSUME DispatchInv, RotationInv, SpreadInv, NEW c \in Dequeuers, NEW x,
         consumer' = [consumer EXCEPT ![c] = x], Rotation(x) <= Rotation(consumer[c]),
         UNCHANGED <<token, globalExplicitConsumerOffset, dispatched>>
  PROVE  RotationInv' /\ SpreadInv'
<1>1. \A e \in Dequeuers : consumer'[e] = IF e = c THEN x ELSE consumer[e]
  BY DEF DispatchInv, DispatchTypes
<1>2. dispatched \in Nat /\ globalExplicitConsumerOffset \in Nat /\ MaxDispatched \in Nat /\ dispatched <= MaxDispatched
  BY DEF DispatchInv, DispatchTypes, RotationInv
<1>3. Rotation(x) \in Nat /\ Rotation(consumer[c]) \in Nat
  BY DEF Rotation
<1>4. /\ globalExplicitConsumerOffset' \in Nat /\ dispatched' \in Nat /\ dispatched' <= MaxDispatched
      /\ globalExplicitConsumerOffset' + Rotation(x) + dispatched
           <= globalExplicitConsumerOffset + Rotation(consumer[c]) + dispatched'
  BY <1>2, <1>3
<1>5. RotationInv'
  BY <1>1, <1>4, RotationStep
<1>6. SpreadInv'
  BY DEF SpreadInv, PlaceInv
<1> QED BY <1>5, <1>6

(* a producer has been visited: only the first of a call with a token rotates *)
LEMMA VisitKeeps ==
  ASSUME DispatchInv, RotationInv, SpreadInv, NEW c \in Dequeuers, consumer[c].pc \in Visits, NEW taken \in Nat,
         consumer' = [consumer EXCEPT ![c] = Dispatch!Visited(c, taken)], Dispatch!TokenVisited(c, taken),
         UNCHANGED dispatched
  PROVE  RotationInv' /\ SpreadInv'
<1> DEFINE d == consumer[c]
           k == token[c]
<1>1. PICK x : x = Dispatch!Visited(c, taken)
  OBVIOUS
<1>2. Rotation(x) = 0
  BY <1>1, VisitEnds DEF Rotation, MayRotate
<1>3. \A e \in Dequeuers : consumer'[e] = IF e = c THEN x ELSE consumer[e]
  BY <1>1 DEF DispatchInv, DispatchTypes
<1>4. /\ dispatched \in Nat /\ globalExplicitConsumerOffset \in Nat /\ MaxDispatched \in Nat
      /\ dispatched <= MaxDispatched /\ MaxDispatched < CountMod /\ CountMod \in Nat \ {0}
      /\ globalExplicitConsumerOffset + Rotation(d) <= MaxDispatched
  BY OffsetsBelow DEF DispatchInv, DispatchTypes, RotationInv, Asking
<1>5. globalExplicitConsumerOffset' \in Nat
      /\ globalExplicitConsumerOffset <= globalExplicitConsumerOffset'
      /\ globalExplicitConsumerOffset' <= globalExplicitConsumerOffset + Rotation(d)
  <2>1. CASE d.stage = "current"
    <3>1. Rotation(d) = 1
      BY <2>1 DEF Rotation, MayRotate
    <3>2. globalExplicitConsumerOffset + 1 \in 0..(CountMod - 1)
      BY <1>4, <3>1
    <3>3. (globalExplicitConsumerOffset + 1) % CountMod = globalExplicitConsumerOffset + 1
      <4>1. PICK n \in 0..(CountMod - 1) : n = globalExplicitConsumerOffset + 1
        BY <3>2
      <4>2. n % CountMod = n
        BY <1>4, SmallRemainder
      <4> QED BY <4>1, <4>2
    <3>4. globalExplicitConsumerOffset' \in {globalExplicitConsumerOffset, globalExplicitConsumerOffset + 1}
      BY <3>3 DEF Dispatch!TokenVisited
    <3> HIDE DEF d
    <3> QED BY <1>4, <3>1, <3>4
  <2>2. CASE d.stage # "current"
    <3>1. globalExplicitConsumerOffset' = globalExplicitConsumerOffset /\ Rotation(d) = 0
      BY <2>2 DEF Rotation, MayRotate, Dispatch!TokenVisited
    <3> QED BY <1>4, <3>1
  <2> QED BY <2>1, <2>2
<1>6. RotationInv'
  <2>1. Rotation(d) \in Nat
    BY DEF Rotation
  <2>2. globalExplicitConsumerOffset' + Rotation(x) + dispatched
          <= globalExplicitConsumerOffset + Rotation(d) + dispatched'
    BY <1>2, <1>4, <1>5, <2>1
  <2> QED BY <1>3, <1>4, <1>5, <2>2, RotationStep
<1>7. SpreadInv'
  <2>2. \/ token' = token
        \/ d.stage = "current" /\ token' = [token EXCEPT ![c] = [k EXCEPT !.items = k.items + taken]]
        \/ d.stage = "round" /\ token' = [token EXCEPT ![c] = [k EXCEPT !.current = Head(d.walk), !.items = taken]]
    BY DEF Dispatch!TokenVisited, DispatchInv, DispatchTypes
  <2>3. d.stage \in {"current", "round"} => k \in TokenStates
    BY States DEF DispatchInv, DispatchTypes, PlacesInv, WithToken
  <2>4. ASSUME NEW e \in Dequeuers, token'[e] \in TokenStates
        PROVE  /\ token[e] \in TokenStates /\ token'[e].desired = token[e].desired
               /\ token'[e].lastKnown = token[e].lastKnown /\ token'[e].counts = token[e].counts
               /\ token'[e].initialOffset = token[e].initialOffset
    <3>1. CASE e # c \/ token' = token
      BY <2>2, <2>4, <3>1 DEF DispatchInv, DispatchTypes
    <3>2. CASE e = c /\ token' # token
      <4>1. k \in TokenStates
        BY <2>2, <2>3, <3>2
      <4>2. PICK i, j : \/ token'[c] = [k EXCEPT !.items = i]
                        \/ token'[c] = [k EXCEPT !.current = j, !.items = i]
        BY <2>2, <3>2 DEF DispatchInv, DispatchTypes
      <4> HIDE DEF k
      <4>3. token'[c].desired = k.desired /\ token'[c].lastKnown = k.lastKnown /\ token'[c].counts = k.counts
            /\ token'[c].initialOffset = k.initialOffset
        BY <4>1, <4>2 DEF TokenStates
      <4> QED BY <3>2, <4>1, <4>3 DEF k
    <3> QED BY <3>1, <3>2
  <2>5. UNCHANGED CountMod
    OBVIOUS
  <2> QED BY <1>5, <2>4, <2>5, PlacesKept
<1> QED BY <1>6, <1>7

LEMMA CreateTokenKeeps ==
  ASSUME DispatchInv, RotationInv, SpreadInv, NEW c \in Dequeuers, Dispatch!CreateToken(c)
  PROVE  RotationInv' /\ SpreadInv'
<1> DEFINE n == [initialOffset |-> nextExplicitConsumerId, lastKnown |-> CountMod - 1, items |-> 0,
                 current |-> 0, desired |-> 0, counts |-> {}]
<1>1. /\ token' = [token EXCEPT ![c] = n]
      /\ UNCHANGED <<consumer, dispatched, globalExplicitConsumerOffset>>
  BY DEF Dispatch!CreateToken, Dispatch!None
<1>2. RotationInv'
  BY <1>1 DEF RotationInv, Rotations
<1>3. PlaceInv(n, globalExplicitConsumerOffset)
  BY DEF PlaceInv
<1> HIDE DEF n
<1>4. SpreadInv'
  <2> SUFFICES ASSUME NEW e \in Dequeuers, token'[e] \in TokenStates
               PROVE  PlaceInv(token'[e], globalExplicitConsumerOffset)
    BY <1>1 DEF SpreadInv, PlaceInv
  <2> QED BY <1>1, <1>3 DEF SpreadInv, DispatchInv, DispatchTypes
<1> QED BY <1>2, <1>4

LEMMA RotateKeeps ==
  ASSUME DispatchInv, RotationInv, SpreadInv, NEW c \in Dequeuers, Dispatch!Rotate(c)
  PROVE  RotationInv' /\ SpreadInv'
<1> DEFINE d == consumer[c]
           k == token[c]
           g == globalExplicitConsumerOffset
<1>1. d.pc = "rotate" /\ d \in VisitStates /\ VisitInv(d, listed) /\ UNCHANGED <<g, dispatched>>
  BY States DEF Dispatch!Rotate, Dispatch!At, DispatchInv, DispatchTypes, PlacesInv, ConsumerInv
<1>2. d.stage = "current"
  BY <1>1 DEF VisitInv
<1>3. k \in TokenStates /\ PlaceInv(k, g)
  BY <1>1, <1>2 DEF DispatchInv, PlacesInv, WithToken, SpreadInv
<1>4. Rotation(d) = 1
  BY <1>1, <1>2 DEF Rotation, MayRotate
<1>5. /\ g \in Nat /\ MaxDispatched \in Nat /\ CountMod \in Nat \ {0} /\ MaxDispatched < CountMod
      /\ g + 1 <= MaxDispatched /\ dispatched \in Nat /\ dispatched <= MaxDispatched
      /\ listed \in Nat /\ producerCount \in Nat /\ listed <= producerCount
  BY <1>4, OffsetsBelow DEF DispatchInv, DispatchTypes, RotationInv, Asking
<1>6. PICK x : consumer' = [consumer EXCEPT ![c] = x]
  BY DEF Dispatch!Rotate, Dispatch!Become
<1>7. RotationInv'
  <2>1. \A e \in Dequeuers : consumer'[e] = IF e = c THEN x ELSE consumer[e]
    BY <1>6 DEF DispatchInv, DispatchTypes
  <2>2. Rotation(x) \in Nat /\ Rotation(x) <= 1
    BY DEF Rotation
  <2>3. g' + Rotation(x) + dispatched <= g + Rotation(d) + dispatched'
    <3> HIDE DEF d, g
    <3> QED BY <1>1, <1>4, <1>5, <2>2 DEF g
  <2> QED BY <1>1, <1>5, <2>1, <2>3, RotationStep
<1>8. CASE listed = 0
  <2>1. UNCHANGED token
    BY <1>8 DEF Dispatch!Rotate
  <2> QED BY <1>1, <1>7, <2>1 DEF SpreadInv, PlaceInv
<1>9. CASE listed # 0
  <2> DEFINE start == IF k.desired # 0 THEN k.desired
                      ELSE Dispatch!Steps(listed, producerCount - 1 - (k.initialOffset % producerCount), listed)
             to == Dispatch!Steps(start, Dispatch!Delta(k), listed)
             t == [k EXCEPT !.lastKnown = g, !.current = to, !.desired = to, !.items = 0,
                            !.counts = @ \cup {listed, producerCount}]
  <2>1. token' = [token EXCEPT ![c] = t]
    BY <1>9 DEF Dispatch!Rotate, Dispatch!None
  <2>2. /\ k.initialOffset \in Nat /\ k.lastKnown \in Int /\ k.desired \in Nat /\ k.counts \in SUBSET Nat
    BY <1>3 DEF TokenStates
  <2>3. Dispatch!Missed(k) = IF k.desired = 0 THEN g + 1 ELSE g - k.lastKnown
    <3>1. PICK y \in Int : y = g - k.lastKnown /\ Dispatch!Missed(k) = y % CountMod
      BY <1>5, <2>2 DEF Dispatch!Missed
    <3> HIDE DEF k, g
    <3>2. CASE k.desired = 0
      <4>1. k.lastKnown = CountMod - 1
        BY <1>3, <3>2 DEF PlaceInv
      <4>2. PICK z \in 0..(CountMod - 1) : z = g + 1
        BY <1>5
      <4>3. y = z + (-1) * CountMod
        BY <1>5, <2>2, <3>1, <4>1, <4>2
      <4>4. Differs(z, y, CountMod)
        <5>1. z = y + 1 * CountMod /\ 1 \in Int
          BY <1>5, <4>3
        <5> QED BY <5>1 DEF Differs
      <4>5. z = y % CountMod
        BY <1>5, <4>4, WithinModulus
      <4> QED BY <3>1, <3>2, <4>2, <4>5
    <3>3. CASE k.desired # 0
      <4>1. k.lastKnown \in 0..g
        BY <1>3, <3>3 DEF PlaceInv
      <4>2. y \in 0..(CountMod - 1)
        BY <1>5, <3>1, <4>1
      <4>3. y % CountMod = y
        BY <1>5, <4>2, SmallRemainder
      <4> QED BY <3>1, <3>3, <4>3
    <3> QED BY <3>2, <3>3
  <2>4. listed \in Nat \ {0} /\ producerCount \in Nat \ {0}
    BY <1>5, <1>9
  <2>5. ASSUME NEW p \in Int, NEW i \in Int PROVE Dispatch!Steps(p, i, listed) \in 1..listed
    <3>1. (p - 1 - i) % listed \in 0..(listed - 1)
      BY <2>4, Remainder
    <3> QED BY <2>4, <3>1 DEF Dispatch!Steps
  <2>6. start \in Nat /\ Dispatch!Delta(k) \in Int
    <3>1. producerCount - 1 - (k.initialOffset % producerCount) \in Int
      BY <2>2, <2>4
    <3> HIDE DEF k, g
    <3>2. Dispatch!Delta(k) \in Int
      <4>1. PICK m \in Int : m = Dispatch!Missed(k)
        BY <1>5, <2>2, <2>3
      <4>2. m % producerCount \in Int
        BY <2>4, Remainder
      <4> QED BY <4>1, <4>2 DEF Dispatch!Delta
    <3> QED BY <2>2, <2>4, <2>5, <3>1, <3>2
  <2>7. to \in 1..listed /\ to \in Nat
    <3>1. PICK i \in Int : i = Dispatch!Delta(k)
      BY <2>6
    <3>2. PICK p \in Int : p = start
      BY <2>6
    <3>3. to = Dispatch!Steps(p, i, listed)
      BY <3>1, <3>2
    <3> HIDE DEF to
    <3>4. to \in 1..listed
      BY <2>5, <3>3
    <3> QED BY <2>4, <3>4
  <2>8. to = PlaceAfter(k.initialOffset, g, listed) \/ producerCount # listed \/ k.counts \notin {{}, {listed}}
    <3> SUFFICES ASSUME producerCount = listed, k.counts \in {{}, {listed}}
                 PROVE  to = PlaceAfter(k.initialOffset, g, listed)
      OBVIOUS
    <3>1. PICK n \in Nat \ {0} : n = listed
      BY <2>4
    <3>2. PICK a \in Int : a = k.initialOffset % n
      BY <2>2, <3>1
    <3> HIDE DEF to, k, g
    <3>0. to = Dispatch!Steps(start, Dispatch!Missed(k), n)
      <4>1. PICK m \in Int : m = Dispatch!Missed(k)
        BY <1>5, <2>2, <2>3
      <4>2. PICK p \in Int : p = start
        BY <2>6
      <4>3. Dispatch!Delta(k) = m \/ Dispatch!Delta(k) = m % n
        BY <3>1, <4>1 DEF Dispatch!Delta
      <4>4. Dispatch!Steps(p, m % n, n) = Dispatch!Steps(p, m, n)
        BY WholeRounds
      <4>5. to = Dispatch!Steps(p, Dispatch!Delta(k), n)
        BY <3>1, <4>2 DEF to
      <4> HIDE DEF start
      <4> QED BY <4>1, <4>2, <4>3, <4>4, <4>5
    <3>3. CASE k.desired = 0
      <4>1. to = Dispatch!Steps(Dispatch!Steps(n, n - 1 - a, n), g + 1, n)
        BY <2>3, <3>0, <3>1, <3>2, <3>3 DEF start
      <4>2. a \in 0..(n - 1)
        BY <2>2, <3>2, Remainder
      <4>3. n - 1 - (n - 1 - a) = a
        BY <4>2
      <4>4. a % n = a
        BY <4>2, SmallRemainder
      <4>5. Dispatch!Steps(n, n - 1 - a, n) = a + 1
        BY <4>3, <4>4 DEF Dispatch!Steps
      <4>6. a + 1 - 1 - (g + 1) = a - (g + 1)
        BY <1>5, <4>2
      <4>7. to = ((a - (g + 1)) % n) + 1
        BY <4>1, <4>5, <4>6 DEF Dispatch!Steps
      <4> QED BY <3>1, <3>2, <4>7 DEF PlaceAfter
    <3>4. CASE k.desired # 0
      <4>1. k.counts = {n}
        BY <1>3, <3>1, <3>4 DEF PlaceInv
      <4>2. k.desired = PlaceAfter(k.initialOffset, k.lastKnown, n)
        BY <1>3, <4>1 DEF PlaceInv
      <4>3. PICK p \in Int, q \in Int : p = k.lastKnown + 1 /\ q = g - k.lastKnown /\ p + q = g + 1
        BY <1>5, <2>2
      <4>4. to = Dispatch!Steps(k.desired, q, n)
        BY <2>3, <3>0, <3>1, <3>4, <4>3 DEF start
      <4>5. PICK r \in Int : r = (a - p) % n /\ k.desired = r + 1
        <5>1. (a - p) % n \in 0..(n - 1)
          <6>1. PICK y \in Int : y = a - p
            OBVIOUS
          <6> QED BY <6>1, Remainder
        <5> QED BY <3>2, <4>2, <4>3, <5>1 DEF PlaceAfter
      <4>6. k.desired - 1 - q = r - q
        BY <4>5
      <4>7. to = ((r - q) % n) + 1
        BY <4>4, <4>6 DEF Dispatch!Steps
      <4>8. (r - q) % n = (a - (p + q)) % n
        BY <4>5, StepsAdd
      <4> QED BY <3>1, <3>2, <4>3, <4>7, <4>8 DEF PlaceAfter
    <3> QED BY <3>3, <3>4
  <2> HIDE DEF to
  <2>9. t.desired = to /\ t.lastKnown = g /\ t.counts = k.counts \cup {listed, producerCount}
        /\ t.initialOffset = k.initialOffset
    <3> HIDE DEF k, g
    <3> QED BY <1>3 DEF TokenStates
  <2> HIDE DEF t
  <2>10. PlaceInv(t, g)
    <3> HIDE DEF k, g
    <3>1. t.desired # 0 /\ t.counts # {}
      BY <2>4, <2>7, <2>9
    <3>2. t.lastKnown \in 0..g
      BY <1>5, <2>9
    <3>3. ASSUME NEW n \in Nat \ {0}, t.counts = {n} PROVE t.desired = PlaceAfter(t.initialOffset, t.lastKnown, n)
      <4>1. listed = n /\ producerCount = n /\ k.counts \in {{}, {n}}
        BY <2>9, <3>3
      <4> QED BY <2>8, <2>9, <4>1
    <3> QED BY <3>1, <3>2, <3>3 DEF PlaceInv
  <2>11. SpreadInv'
    <3> SUFFICES ASSUME NEW e \in Dequeuers, token'[e] \in TokenStates
                 PROVE  PlaceInv(token'[e], g)
      BY <1>1 DEF SpreadInv, PlaceInv
    <3> QED BY <2>1, <2>10 DEF SpreadInv, DispatchInv, DispatchTypes
  <2> QED BY <1>7, <2>11
<1> QED BY <1>8, <1>9

(* every step of a consumer *)
LEMMA ConsumerKeeps ==
  ASSUME DispatchInv, RotationInv, SpreadInv, NEW c \in Dequeuers, Dispatch!Calls(c) \/ Dispatch!Step(c)
  PROVE  RotationInv' /\ SpreadInv'
<1> DEFINE d == consumer[c]
<1>1. CASE \E x : Dispatch!Call(c, x) /\ UNCHANGED Dispatch!tokenVars
  BY <1>1, CallKeeps
<1>2. CASE Dispatch!TryDequeue(c)
  <2>1. PICK x : Dispatch!Call(c, x) /\ UNCHANGED Dispatch!tokenVars
    BY <1>2 DEF Dispatch!TryDequeue
  <2> QED BY <1>1, <2>1
<1>3. ASSUME NEW most, Dispatch!TryDequeueAll(c, most) PROVE RotationInv' /\ SpreadInv'
  <2>1. PICK x : Dispatch!Call(c, x) /\ UNCHANGED Dispatch!tokenVars
    BY <1>3 DEF Dispatch!TryDequeueAll
  <2> QED BY <1>1, <2>1
<1>4. ASSUME NEW p, NEW most, Dispatch!TryDequeueFrom(c, p, most) PROVE RotationInv' /\ SpreadInv'
  <2>1. PICK x : Dispatch!Call(c, x) /\ UNCHANGED Dispatch!tokenVars
    BY <1>4 DEF Dispatch!TryDequeueFrom
  <2> QED BY <1>1, <2>1
<1>5. ASSUME NEW most, NEW single, Dispatch!TryDequeueToken(c, most, single) PROVE RotationInv' /\ SpreadInv'
  <2>1. PICK x : Dispatch!Call(c, x) /\ UNCHANGED Dispatch!tokenVars
    BY <1>5 DEF Dispatch!TryDequeueToken
  <2> QED BY <1>1, <2>1
<1>6. CASE Dispatch!CreateToken(c)
  BY <1>6, CreateTokenKeeps
<1>7. CASE Dispatch!Scan(c)
  <2>1. PICK x : consumer' = [consumer EXCEPT ![c] = x]
    BY <1>7 DEF Dispatch!Scan, Dispatch!Become
  <2>2. UNCHANGED <<token, globalExplicitConsumerOffset, dispatched>>
    BY <1>7 DEF Dispatch!Scan, Dispatch!tokenVars
  <2>3. DispatchInv'
    BY <1>7, ScanStep
  <2>4. d \in ScanStates
    BY <1>7, States DEF Dispatch!Scan, Dispatch!At, DispatchInv, DispatchTypes
  <2>5. x.pc = "scan"
    <3> DEFINE n == unclaimed[d.ptr] + behind[d.ptr]
               y == [d EXCEPT !.ptr = @ - 1]
    <3>1. \/ x = [y EXCEPT !.empty = @ \cup {d.ptr}]
          \/ x = [y EXCEPT !.nonEmpty = @ + 1, !.best = d.ptr, !.bestSize = n]
          \/ x = [y EXCEPT !.nonEmpty = @ + 1]
      BY <1>7, <2>1 DEF Dispatch!Scan, Dispatch!Become, DispatchInv, DispatchTypes
    <3> QED BY <2>4, <3>1 DEF ScanStates
  <2>6. Rotation(x) <= Rotation(d)
    BY <2>5 DEF Rotation, MayRotate, Visits
  <2> QED BY <2>1, <2>2, <2>6, StepKeeps
<1>8. CASE Dispatch!Scanned(c)
  <2> DEFINE walk == IF d.nonEmpty = 0 THEN <<>> ELSE <<d.best>>
  <2>1. PICK x : /\ x = [Dispatch!Visiting("best", walk, 1) EXCEPT !.first = d.first, !.empty = d.empty]
                 /\ consumer' = [consumer EXCEPT ![c] = x]
    BY <1>8 DEF Dispatch!Scanned, Dispatch!Become
  <2>2. UNCHANGED <<token, globalExplicitConsumerOffset, dispatched>>
    BY <1>8 DEF Dispatch!Scanned, Dispatch!tokenVars
  <2>3. x.stage = "best"
    BY <2>1 DEF Dispatch!Visiting
  <2>4. Rotation(x) <= Rotation(d)
    BY <2>3 DEF Rotation, MayRotate
  <2> QED BY <2>1, <2>2, <2>4, StepKeeps
<1>9. CASE Dispatch!Rotate(c)
  BY <1>9, RotateKeeps
<1>10. CASE Dispatch!Check(c)
  <2> DEFINE p == Head(d.walk)
             seen == Dispatch!Min({d.max - d.count, unclaimed[p] - excess[p]})
  <2>1. /\ d.pc = "check" /\ UNCHANGED dispatched
        /\ IF seen > 0 THEN consumer' = [consumer EXCEPT ![c] = [d EXCEPT !.pc = "claim", !.asked = seen]]
                            /\ UNCHANGED <<token, globalExplicitConsumerOffset>>
           ELSE consumer' = [consumer EXCEPT ![c] = Dispatch!Visited(c, 0)] /\ Dispatch!TokenVisited(c, 0)
    BY <1>10 DEF Dispatch!Check, Dispatch!At, Dispatch!Become, Dispatch!tokenVars
  <2>2. d.pc \in Visits /\ d \in VisitStates
    BY <2>1, States DEF Visits, DispatchInv, DispatchTypes
  <2> HIDE DEF seen
  <2>3. CASE seen > 0
    <3>1. PICK x : x = [d EXCEPT !.pc = "claim", !.asked = seen]
      OBVIOUS
    <3>2. x.stage = d.stage
      BY <2>2, <3>1 DEF VisitStates
    <3>3. Rotation(x) <= Rotation(d)
      BY <2>2, <3>2 DEF Rotation, MayRotate
    <3> QED BY <2>1, <2>3, <3>1, <3>3, StepKeeps
  <2>4. CASE ~(seen > 0)
    BY <2>1, <2>2, <2>4, VisitKeeps
  <2> QED BY <2>3, <2>4
<1>11. CASE Dispatch!Claim(c)
  <2>1. PICK taken : /\ d.pc = "claim" /\ UNCHANGED <<token, globalExplicitConsumerOffset, dispatched>>
                     /\ consumer' = [consumer EXCEPT ![c] = [d EXCEPT !.pc = "settle", !.got = taken]]
    BY <1>11 DEF Dispatch!Claim, Dispatch!At, Dispatch!Become, Dispatch!tokenVars
  <2>2. d.pc \in Visits /\ d \in VisitStates
    BY <2>1, States DEF Visits, DispatchInv, DispatchTypes
  <2>3. PICK x : x = [d EXCEPT !.pc = "settle", !.got = taken]
    OBVIOUS
  <2>4. x.stage = d.stage
    BY <2>2, <2>3 DEF VisitStates
  <2>5. Rotation(x) <= Rotation(d)
    BY <2>2, <2>4 DEF Rotation, MayRotate
  <2> QED BY <2>1, <2>3, <2>5, StepKeeps
<1>12. CASE Dispatch!Settle(c)
  <2>1. /\ d.pc = "settle" /\ UNCHANGED dispatched /\ Dispatch!TokenVisited(c, d.got)
        /\ consumer' = [consumer EXCEPT ![c] = Dispatch!Visited(c, d.got)]
    BY <1>12 DEF Dispatch!Settle, Dispatch!At, Dispatch!Become
  <2>2. d.pc \in Visits /\ d \in VisitStates
    BY <2>1, States DEF Visits, DispatchInv, DispatchTypes
  <2>3. d.got \in Nat
    BY <2>2 DEF VisitStates
  <2> QED BY <2>1, <2>2, <2>3, VisitKeeps
<1>13. CASE Dispatch!CountDequeued(c)
  <2>1. /\ UNCHANGED <<token, globalExplicitConsumerOffset, dispatched>>
        /\ consumer' = [consumer EXCEPT ![c] = Dispatch!Idle]
    BY <1>13 DEF Dispatch!CountDequeued, Dispatch!Become, Dispatch!tokenVars
  <2>2. Rotation(Dispatch!Idle) <= Rotation(d)
    BY DEF Dispatch!Idle, Rotation, MayRotate, Visits
  <2> QED BY <2>1, <2>2, StepKeeps
<1> QED BY <1>2, <1>3, <1>4, <1>5, <1>6, <1>7, <1>8, <1>9, <1>10, <1>11, <1>12, <1>13
        DEF Dispatch!Calls, Dispatch!Step

(* Dequeuers that know of the same rotations and of n producers only, no more and no fewer, are with the
   same producer exactly when their offsets are the same modulo n (update_current_producer_after_rotation),
   for any number of consumers and of producers and however many rotations each of them has missed, while
   there are fewer calls than the offset has values: it does not wrap. *)
THEOREM AlwaysSpreadOut ==
  ASSUME Asking, MaxDispatched \in Nat, MaxDispatched < CountMod
  PROVE  Dispatch!Spec => []SpreadOut
<1>1. Dispatch!Init => RotationInv /\ SpreadInv
  <2> SUFFICES ASSUME Dispatch!Init PROVE RotationInv /\ SpreadInv
    OBVIOUS
  <2>1. /\ \A c \in Dequeuers : consumer[c] = Dispatch!Idle /\ token[c] = Dispatch!NoToken
        /\ globalExplicitConsumerOffset = 0 /\ dispatched = 0
    BY DEF Dispatch!Init
  <2>2. Dispatch!NoToken \notin TokenStates
    BY DEF Dispatch!NoToken, TokenStates
  <2>3. PICK f : f = Rotations
    OBVIOUS
  <2>4. f \in [Dequeuers -> Nat] /\ \A c \in Dequeuers : f[c] = 0
    BY <2>1, <2>3 DEF Rotations, Rotation, MayRotate, Visits, Dispatch!Idle
  <2>5. Total(Dequeuers, f) = 0
    BY <2>4, TotalsCompare DEF Asking
  <2> QED BY <2>1, <2>2, <2>3, <2>5 DEF RotationInv, SpreadInv
<1>2. DispatchInv /\ RotationInv /\ SpreadInv /\ [Dispatch!Next]_(Dispatch!vars) => RotationInv' /\ SpreadInv'
  <2> SUFFICES ASSUME DispatchInv, RotationInv, SpreadInv, [Dispatch!Next]_(Dispatch!vars)
               PROVE  RotationInv' /\ SpreadInv'
    OBVIOUS
  <2>1. CASE UNCHANGED <<token, globalExplicitConsumerOffset, consumer, dispatched>>
    BY <2>1 DEF RotationInv, Rotations, SpreadInv, PlaceInv
  <2>2. CASE UNCHANGED Dispatch!vars
    BY <2>1, <2>2 DEF Dispatch!vars, Dispatch!tokenVars
  <2>3. CASE Dispatch!Produce
    BY <2>1, <2>3 DEF Dispatch!Produce, Dispatch!CountProducer, Dispatch!LinkProducer, Dispatch!CountEnqueued,
                      Dispatch!Enqueue, Dispatch!tokenVars
  <2>4. ASSUME NEW c \in Dequeuers, Dispatch!Calls(c) \/ Dispatch!Step(c) PROVE RotationInv' /\ SpreadInv'
    BY <2>4, ConsumerKeeps
  <2> QED BY <2>2, <2>3, <2>4 DEF Dispatch!Next, Dispatch!Finished
<1>3. DispatchInv /\ SpreadInv => SpreadOut
  <2> SUFFICES ASSUME DispatchInv, SpreadInv, NEW c \in Dequeuers, NEW e \in Dequeuers, NEW n \in 1..MaxProducers,
                      token[c] # Dispatch!NoToken, token[e] # Dispatch!NoToken,
                      token[c].counts = {n}, token[e].counts = {n}, token[c].lastKnown = token[e].lastKnown
               PROVE  token[c].desired = token[e].desired
                        <=> token[c].initialOffset % n = token[e].initialOffset % n
    BY DEF SpreadOut, Dispatch!SpreadOut, Dispatch!Producers
  <2>1. n \in Nat \ {0}
    BY DEF DispatchInv, DispatchTypes, Asking
  <2>2. token[c] \in TokenStates /\ token[e] \in TokenStates
    BY DEF DispatchInv, DispatchTypes
  <2>3. PICK r \in Int : r = token[c].lastKnown + 1
    BY <2>2 DEF TokenStates
  <2>4. PICK a \in 0..(n - 1) : a = token[c].initialOffset % n
    <3>1. PICK i \in Int : i = token[c].initialOffset
      BY <2>2 DEF TokenStates
    <3>2. i % n \in 0..(n - 1)
      BY <2>1, Remainder
    <3> QED BY <3>1, <3>2
  <2>5. PICK b \in 0..(n - 1) : b = token[e].initialOffset % n
    <3>1. PICK i \in Int : i = token[e].initialOffset
      BY <2>2 DEF TokenStates
    <3>2. i % n \in 0..(n - 1)
      BY <2>1, Remainder
    <3> QED BY <3>1, <3>2
  <2>6. PICK x \in Int, y \in Int : x = a - r /\ y = b - r
    OBVIOUS
  <2>7. token[c].desired = (x % n) + 1 /\ token[e].desired = (y % n) + 1
    BY <2>1, <2>2, <2>3, <2>4, <2>5, <2>6 DEF SpreadInv, PlaceInv, PlaceAfter
  <2>8. x % n \in Int /\ y % n \in Int
    BY <2>1, Remainder
  <2>9. x % n = y % n => a = b
    <3> SUFFICES ASSUME x % n = y % n PROVE a = b
      OBVIOUS
    <3>1. PICK k \in Int : x = y + k * n
      BY <2>1, Congruent
    <3>2. k * n \in Int
      BY <2>1
    <3>3. a - b = k * n
      BY <2>6, <3>1, <3>2
    <3> QED BY <2>1, <3>3, OneRemainder
  <2>10. a = b => x = y
    BY <2>6
  <2> QED BY <2>4, <2>5, <2>7, <2>8, <2>9, <2>10
<1> QED BY <1>1, <1>2, <1>3, DispatchInductive, PTL DEF Dispatch!Spec
=============================================================================
