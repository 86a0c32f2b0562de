--------------------------- MODULE XObjectProofs ---------------------------
(***************************************************************************)
(* Theorems about the signals and slots of objects for every value of the  *)
(* constants: any number of threads and objects, whatever mutexes the      *)
(* objects share.                                                          *)
(***************************************************************************)
EXTENDS XObject, Totals, SequenceTheorems

Pool == Mutexes \cup {0}
Named == Objects \cup {Null}

(* What the locks rest on: a call names objects, ... *)
CallsNamed ==
  /\ lockOf \in [Objects -> Mutexes] /\ alive \subseteq Objects
  /\ pc \in [Threads -> {"idle", "lock", "lock2", "add"}]
  /\ call = [t \in Threads |-> call[t]]
  /\ \A t \in Threads : pc[t] # "idle" =>
       /\ call[t].sender \in Named
       /\ call[t].op # "emit" => call[t].receiver \in Named

(* ... and a thread holds its first mutex while it waits for the second, *)
(* all of them between its search and the new connection, else none.      *)
Holding(t) ==
  CASE pc[t] = "lock2" -> {FirstOf(t)}
    [] pc[t] = "add" -> Needs(t)
    [] OTHER -> {}

OwnersHold ==
  /\ owner \in [Pool -> Threads \cup {NoOne}]
  /\ \A m \in Pool, t \in Threads : owner[m] = t <=> m \in Holding(t)

LockInv == CallsNamed /\ OwnersHold

-----------------------------------------------------------------------------
(* A set of two numbers has a least one. *)
LEMMA LeastOfTwo ==
  ASSUME NEW a \in Nat, NEW b \in Nat, NEW S, S = {a, b} \/ S = {a}
  PROVE  \E m \in S : \A n \in S : m <= n
<1>1. CASE a <= b
  <2>1. a \in S /\ \A n \in S : a <= n
    BY <1>1
  <2> QED BY <2>1
<1>2. CASE ~(a <= b)
  <2>1. CASE S = {a, b}
    <3>1. b \in S /\ \A n \in S : b <= n
      BY <1>2, <2>1
    <3> QED BY <3>1
  <2>2. CASE S = {a}
    <3>1. a \in S /\ \A n \in S : a <= n
      BY <2>2
    <3> QED BY <3>1
  <2> QED BY <2>1, <2>2
<1> QED BY <1>1, <1>2

(* FirstOf is the smallest mutex of a call. *)
LEMMA FirstIsLeast ==
  ASSUME CallsNamed, NEW t \in Threads, pc[t] # "idle"
  PROVE  /\ Needs(t) \subseteq Pool
         /\ FirstOf(t) \in Needs(t) /\ \A n \in Needs(t) : FirstOf(t) <= n
<1>1. \A o \in Named : MutexOf(o) \in Pool
  BY ObjectAssumption DEF CallsNamed, Named, Pool, MutexOf
<1>2. Pool \subseteq Nat
  BY ObjectAssumption DEF Pool
<1>3. Needs(t) \subseteq Pool
  BY <1>1 DEF Needs, CallsNamed
<1>4. \E m \in Needs(t) : \A n \in Needs(t) : m <= n
  <2>1. MutexOf(call[t].sender) \in Nat
    BY <1>1, <1>2 DEF CallsNamed
  <2>2. CASE call[t].op = "emit"
    <3>1. Needs(t) = {MutexOf(call[t].sender)}
      BY <2>2 DEF Needs
    <3> QED BY <2>1, <3>1, LeastOfTwo
  <2>3. CASE call[t].op # "emit"
    <3>1. Needs(t) = {MutexOf(call[t].sender), MutexOf(call[t].receiver)}
      BY <2>3 DEF Needs
    <3>2. MutexOf(call[t].receiver) \in Nat
      BY <1>1, <1>2, <2>3 DEF CallsNamed
    <3> QED BY <2>1, <3>1, <3>2, LeastOfTwo
  <2> QED BY <2>2, <2>3
<1> QED BY <1>3, <1>4 DEF FirstOf

(* Among the threads that want a second mutex there is one whose first is  *)
(* the largest: the sets of mutexes from there up have a smallest one.     *)
LEMMA LargestFirst ==
  ASSUME LockInv, \E t \in Threads : pc[t] = "lock2"
  PROVE  \E t \in Threads : /\ pc[t] = "lock2"
                            /\ \A u \in Threads : pc[u] = "lock2" => FirstOf(u) <= FirstOf(t)
<1> DEFINE From(t) == {m \in Pool : FirstOf(t) <= m}
           Waiting == {t \in Threads : pc[t] = "lock2"}
           Froms == {From(t) : t \in Waiting}
<1>1. IsFiniteSet(Pool)
  BY ObjectAssumption, FS_AddElement DEF Pool
<1>2. IsWellFoundedOn(StrictSubsetOrdering(Pool), SUBSET Pool)
  BY <1>1, FS_FiniteSubsetsOfFinite, FS_StrictSubsetOrderingWellFounded
<1>3. Froms \subseteq SUBSET Pool /\ Froms # {}
  OBVIOUS
<1>4. \E x \in Froms : \A y \in Froms : ~(<<y, x>> \in StrictSubsetOrdering(Pool))
  <2> HIDE DEF Froms
  <2> QED BY <1>2, <1>3, WFMin
<1>5. PICK t \in Waiting :
        \A y \in Froms : ~(<<y, From(t)>> \in StrictSubsetOrdering(Pool))
  BY <1>4
<1>6. ASSUME NEW u \in Waiting
      PROVE  FirstOf(u) <= FirstOf(t)
  <2>1. Pool \subseteq Nat
    BY ObjectAssumption DEF Pool
  <2> DEFINE f == FirstOf(t)
             g == FirstOf(u)
  <2>2. f \in Pool /\ g \in Pool /\ f \in Nat /\ g \in Nat
    BY <2>1, FirstIsLeast DEF LockInv
  <2> SUFFICES ASSUME f < g PROVE FALSE
    <3> HIDE DEF f, g
    <3>1. g <= f \/ f < g
      BY <2>2
    <3> QED BY <3>1 DEF f, g
  <2>3. From(u) \subseteq From(t) /\ f \in From(t) /\ f \notin From(u)
    <3>1. \A m \in Pool : g <= m => f <= m
      <4> HIDE DEF f, g
      <4> QED BY <2>1, <2>2
    <3>2. f <= f /\ ~(g <= f)
      <4> HIDE DEF f, g
      <4> QED BY <2>2
    <3> QED BY <2>2, <3>1, <3>2
  <2>4. <<From(u), From(t)>> \in StrictSubsetOrdering(Pool)
    <3>1. From(u) \in SUBSET Pool /\ From(t) \in SUBSET Pool /\ From(u) # From(t)
      BY <2>3
    <3> HIDE DEF From
    <3> QED BY <2>3, <3>1 DEF StrictSubsetOrdering
  <2> QED BY <1>5, <2>4
<1> QED BY <1>5, <1>6

(* A mutex that a thread holds is one that its call needs. *)
LEMMA HeldIsNeeded ==
  ASSUME LockInv, NEW t \in Threads
  PROVE  Holding(t) \subseteq Needs(t) /\ Holding(t) \subseteq Pool
<1>1. CASE pc[t] = "idle"
  BY <1>1 DEF Holding
<1>2. CASE pc[t] # "idle"
  BY <1>2, FirstIsLeast DEF LockInv, Holding
<1> QED BY <1>1, <1>2

(* The lock order makes progress: a thread that makes its connection needs *)
(* no further mutex, and without one the largest first mutex waits for a   *)
(* free one.                                                               *)
LEMMA InvProceeds ==
  ASSUME LockInv
  PROVE  SomeLockProceeds
<1> SUFFICES ASSUME \E t \in Threads : pc[t] = "lock2",
                    \A t \in Threads : pc[t] # "add"
             PROVE  \E t \in Threads :
                      pc[t] = "lock2" /\ \A m \in Needs(t) : owner[m] \in {t, NoOne}
  BY DEF SomeLockProceeds
<1>1. PICK t \in Threads : /\ pc[t] = "lock2"
                           /\ \A u \in Threads : pc[u] = "lock2" => FirstOf(u) <= FirstOf(t)
  BY LargestFirst
<1>2. ASSUME NEW m \in Needs(t), owner[m] # NoOne
      PROVE  owner[m] = t
  <2>1. m \in Pool /\ FirstOf(t) \in Pool /\ FirstOf(t) <= m /\ Pool \subseteq Nat
    BY <1>1, FirstIsLeast, ObjectAssumption DEF LockInv, Pool
  <2>2. owner[m] \in Threads /\ pc[owner[m]] = "lock2" /\ m = FirstOf(owner[m])
    BY <1>2, <2>1 DEF LockInv, OwnersHold, Holding
  <2>3. m <= FirstOf(t)
    BY <1>1, <2>2
  <2>4. m = FirstOf(t)
    <3> DEFINE f == FirstOf(t)
    <3>1. f <= m /\ m <= f /\ f \in Nat /\ m \in Nat
      BY <2>1, <2>3
    <3> HIDE DEF f
    <3>2. f = m
      BY <3>1
    <3> QED BY <3>2 DEF f
  <2> QED BY <1>1, <2>1, <2>4 DEF LockInv, OwnersHold, Holding
<1> QED BY <1>1, <1>2

-----------------------------------------------------------------------------
(* What a call needs is settled when it begins. *)
LEMMA NeedsStay ==
  ASSUME NEW t \in Threads, lockOf' = lockOf, call'[t] = call[t]
  PROVE  /\ Needs(t)' = Needs(t) /\ FirstOf(t)' = FirstOf(t)
         /\ pc'[t] = pc[t] => Holding(t)' = Holding(t)
<1>1. \A o : MutexOf(o)' = MutexOf(o)
  BY DEF MutexOf
<1>2. Needs(t)' = Needs(t)
  BY <1>1 DEF Needs
<1>3. FirstOf(t)' = FirstOf(t)
  BY <1>2 DEF FirstOf
<1> QED BY <1>2, <1>3 DEF Holding

LEMMA BeginKeeps ==
  ASSUME LockInv, NEW t \in Threads, NEW c, Begin(t, c),
         c.sender \in Named, c.op # "emit" => c.receiver \in Named
  PROVE  LockInv'
<1>1. /\ pc[t] = "idle" /\ lockOf' = lockOf /\ alive' = alive /\ owner' = owner
      /\ pc' = [pc EXCEPT ![t] = "lock"] /\ call' = [call EXCEPT ![t] = c]
  BY DEF Begin, MayCall
<1>2. CallsNamed'
  BY <1>1 DEF LockInv, CallsNamed
<1>3. \A u \in Threads : u # t => Holding(u)' = Holding(u)
  BY <1>1, NeedsStay DEF LockInv, CallsNamed
<1>4. Holding(t) = {} /\ Holding(t)' = {}
  BY <1>1 DEF Holding, LockInv, CallsNamed
<1>5. OwnersHold'
  BY <1>1, <1>3, <1>4 DEF LockInv, OwnersHold
<1> QED BY <1>2, <1>5 DEF LockInv

LEMMA LockFirstKeeps ==
  ASSUME LockInv, NEW t \in Threads, LockFirst(t)
  PROVE  LockInv'
<1>1. /\ pc[t] = "lock" /\ lockOf' = lockOf /\ alive' = alive /\ call' = call
      /\ owner[FirstOf(t)] = NoOne
      /\ owner' = [owner EXCEPT ![FirstOf(t)] = t]
      /\ pc' = [pc EXCEPT ![t] = "lock2"]
  BY DEF LockFirst
<1>2. FirstOf(t) \in Pool
  BY <1>1, FirstIsLeast DEF LockInv
<1>3. CallsNamed'
  BY <1>1 DEF LockInv, CallsNamed
<1>4. \A u \in Threads : u # t => Holding(u)' = Holding(u)
  BY <1>1, NeedsStay DEF LockInv, CallsNamed
<1>5. Holding(t) = {} /\ Holding(t)' = {FirstOf(t)}
  <2>1. FirstOf(t)' = FirstOf(t) /\ pc'[t] = "lock2"
    BY <1>1, NeedsStay DEF LockInv, CallsNamed
  <2> QED BY <1>1, <2>1 DEF Holding
<1>6. owner' \in [Pool -> Threads \cup {NoOne}]
  BY <1>1, <1>2 DEF LockInv, OwnersHold
<1>7. ASSUME NEW m \in Pool, NEW u \in Threads
      PROVE  owner'[m] = u <=> m \in Holding(u)'
  <2>1. owner[m] = u <=> m \in Holding(u)
    BY DEF LockInv, OwnersHold
  <2>2. owner'[m] = IF m = FirstOf(t) THEN t ELSE owner[m]
    BY <1>1 DEF LockInv, OwnersHold
  <2>3. CASE u = t
    BY <1>5, <2>1, <2>2, <2>3
  <2>4. CASE u # t
    BY <1>1, <1>4, <2>1, <2>2, <2>4, ObjectAssumption
  <2> QED BY <2>3, <2>4
<1> QED BY <1>3, <1>6, <1>7 DEF LockInv, OwnersHold

(* What a call needs is free or its own when it is granted, and its own *)
(* between the search and the new connection.                           *)
LEMMA AllOwn ==
  ASSUME LockInv, NEW t \in Threads, Granted(t) \/ pc[t] = "add"
  PROVE  pc[t] # "idle" /\ \A m \in Needs(t) : owner[m] \in {t, NoOne}
<1>1. CASE Granted(t)
  BY <1>1 DEF Granted
<1>2. CASE pc[t] = "add"
  BY <1>2, FirstIsLeast DEF LockInv, OwnersHold, Holding
<1> QED BY <1>1, <1>2

(* Such a call holds all it needs or gives it back, and takes nothing from *)
(* the others.                                                             *)
LEMMA GrantedKeeps ==
  ASSUME LockInv, NEW t \in Threads, Granted(t) \/ pc[t] = "add",
         lockOf' = lockOf, alive' = alive,
         \/ Release(t)
         \/ owner' = Held(t) /\ pc' = [pc EXCEPT ![t] = "add"] /\ UNCHANGED call
  PROVE  LockInv'
<1>1. pc[t] # "idle" /\ \A m \in Needs(t) : owner[m] \in {t, NoOne}
  BY AllOwn
<1>2. CallsNamed'
  BY <1>1 DEF LockInv, CallsNamed, Release
<1>3. \A u \in Threads : u # t => Holding(u)' = Holding(u)
  BY NeedsStay DEF LockInv, CallsNamed, Release
<1>4. Needs(t) \subseteq Pool /\ Holding(t) \subseteq Needs(t)
  BY <1>1, FirstIsLeast, HeldIsNeeded DEF LockInv
<1>5. PICK x \in {t, NoOne} :
        /\ owner' = [m \in Pool |-> IF m \in Needs(t) THEN x ELSE owner[m]]
        /\ Holding(t)' = IF x = t THEN Needs(t) ELSE {}
  <2>1. DOMAIN owner = Pool
    BY DEF LockInv, OwnersHold
  <2>2. CASE Release(t)
    <3>1. owner' = [m \in Pool |-> IF m \in Needs(t) THEN NoOne ELSE owner[m]]
      BY <2>1, <2>2 DEF Release
    <3>2. Holding(t)' = {}
      BY <2>2 DEF Release, Holding, LockInv, CallsNamed
    <3> QED BY <3>1, <3>2, ObjectAssumption
  <2>3. CASE owner' = Held(t) /\ pc' = [pc EXCEPT ![t] = "add"] /\ UNCHANGED call
    <3>1. owner' = [m \in Pool |-> IF m \in Needs(t) THEN t ELSE owner[m]]
      BY <2>1, <2>3 DEF Held
    <3>2. Needs(t)' = Needs(t)
      BY <2>3, NeedsStay
    <3>3. Holding(t)' = Needs(t)
      BY <2>3, <3>2 DEF Holding, LockInv, CallsNamed
    <3> QED BY <3>1, <3>3
  <2> QED BY <2>2, <2>3
<1>6. ASSUME NEW m \in Pool, NEW u \in Threads
      PROVE  owner'[m] = u <=> m \in Holding(u)'
  <2>1. owner[m] = u <=> m \in Holding(u)
    BY DEF LockInv, OwnersHold
  <2>2. NoOne # u
    BY ObjectAssumption
  <2>3. CASE u = t
    BY <1>4, <1>5, <2>1, <2>2, <2>3
  <2>4. CASE u # t
    BY <1>1, <1>3, <1>5, <2>1, <2>2, <2>4
  <2> QED BY <2>3, <2>4
<1>7. owner' \in [Pool -> Threads \cup {NoOne}]
  BY <1>5 DEF LockInv, OwnersHold
<1> QED BY <1>2, <1>6, <1>7 DEF LockInv, OwnersHold

(* Whatever leaves the locks alone keeps the invariant. *)
LEMMA RestKeeps ==
  ASSUME LockInv, UNCHANGED locks, lockOf' = lockOf, alive' \subseteq alive
  PROVE  LockInv'
<1>1. owner' = owner /\ pc' = pc /\ call' = call
  BY DEF locks
<1>2. \A u \in Threads : Holding(u)' = Holding(u)
  BY <1>1, NeedsStay
<1>3. CallsNamed'
  BY <1>1 DEF LockInv, CallsNamed
<1>4. OwnersHold'
  BY <1>1, <1>2 DEF LockInv, OwnersHold
<1> QED BY <1>3, <1>4 DEF LockInv

LEMMA LockInvNext ==
  ASSUME LockInv, [Next]_vars
  PROVE  LockInv'
<1>1. CASE UNCHANGED vars
  BY <1>1, RestKeeps DEF vars
<1>2. CASE Quiescent /\ UNCHANGED vars
  BY <1>2, RestKeeps DEF vars
<1>3. ASSUME NEW t \in Threads, CallStep(t) PROVE LockInv'
  <2>1. alive \subseteq Objects
    BY DEF LockInv, CallsNamed
  <2>2. CASE ConnectCall(t)
    <3>1. PICK s \in alive, r \in alive, g \in Signals, f \in Slots \cup {Lambda},
               unique \in BOOLEAN :
            Begin(t, [op |-> "connect", sender |-> s, signal |-> g, receiver |-> r,
                      slot |-> f, unique |-> unique])
      BY <2>2 DEF ConnectCall
    <3> QED BY <2>1, <3>1, BeginKeeps DEF Named
  <2>3. CASE DisconnectCall(t)
    <3>1. PICK s \in alive, a \in DisconnectArgs :
            Begin(t, [op |-> "disconnect", sender |-> s, signal |-> a[1],
                      receiver |-> a[2], slot |-> a[3]])
      BY <2>3 DEF DisconnectCall
    <3>2. a[2] \in Named
      BY <2>1 DEF DisconnectArgs, Named
    <3> QED BY <2>1, <3>1, <3>2, BeginKeeps DEF Named
  <2>4. CASE EmitCall(t)
    <3>1. PICK s \in alive, g \in Signals :
            Begin(t, [op |-> "emit", sender |-> s, signal |-> g])
      BY <2>4 DEF EmitCall
    <3> QED BY <2>1, <3>1, BeginKeeps DEF Named
  <2>5. CASE BlockSignals(t)
    BY <2>5, RestKeeps DEF BlockSignals
  <2>6. CASE Destroy(t)
    BY <2>6, RestKeeps DEF Destroy
  <2> QED BY <1>3, <2>2, <2>3, <2>4, <2>5, <2>6 DEF CallStep
<1>4. ASSUME NEW t \in Threads, RunStep(t) PROVE LockInv'
  <2>1. CASE LockFirst(t)
    BY <2>1, LockFirstKeeps
  <2>2. CASE Connect(t)
    BY <2>2, GrantedKeeps DEF Connect
  <2>3. CASE Disconnect(t)
    BY <2>3, GrantedKeeps DEF Disconnect
  <2>4. CASE EmitCopy(t)
    BY <2>4, GrantedKeeps DEF EmitCopy
  <2>5. CASE EmitEnd(t)
    BY <2>5, RestKeeps DEF EmitEnd
  <2>6. CASE EmitSkip(t)
    BY <2>6, RestKeeps DEF EmitSkip
  <2>7. CASE SlotCall(t)
    BY <2>7, RestKeeps DEF SlotCall
  <2>8. CASE SlotReturn(t)
    BY <2>8, RestKeeps DEF SlotReturn
  <2>9. CASE ConnectSearch(t)
    BY <2>9, GrantedKeeps DEF ConnectSearch
  <2> QED BY <1>4, <2>1, <2>2, <2>3, <2>4, <2>5, <2>6, <2>7, <2>8, <2>9 DEF RunStep
<1> QED BY <1>1, <1>2, <1>3, <1>4 DEF Next

LEMMA LockInvInit ==
  ASSUME Init
  PROVE  LockInv
<1>1. CallsNamed
  BY DEF Init, CallsNamed
<1>2. OwnersHold
  BY ObjectAssumption DEF Init, OwnersHold, Holding, Pool
<1> QED BY <1>1, <1>2 DEF LockInv

(* XOrderedMutexLocker orders the mutexes of sender and receiver: however  *)
(* many threads connect and disconnect, in whatever direction, some thread *)
(* that waits for its second mutex can have it.                            *)
THEOREM LocksNeverEmbrace == Spec => []SomeLockProceeds
<1>1. Init => LockInv
  BY LockInvInit
<1>2. LockInv /\ [Next]_vars => LockInv'
  BY LockInvNext
<1>3. LockInv => SomeLockProceeds
  BY InvProceeds
<1> QED BY <1>1, <1>2, <1>3, PTL DEF Spec

-----------------------------------------------------------------------------
(* What a disconnect leaves of one list *)

Connections == [receiver : Objects, slot : Slots \cup {Lambda}, unique : BOOLEAN]

(* What the loop of Kept has after i connections. *)
Walks(c, g, list, walk, n) ==
  /\ walk[0] = <<>>
  /\ \A i \in 1 .. n :
       walk[i] = IF Dropped(c, g, list[i]) THEN walk[i - 1] ELSE Append(walk[i - 1], list[i])

LEMMA WalkExists ==
  ASSUME NEW c, NEW g, NEW list \in Seq(Connections)
  PROVE  \E walk \in [0 .. Len(list) -> Seq(Connections)] : Walks(c, g, list, walk, Len(list))
<1> DEFINE T == {n \in Nat : n <= Len(list) =>
                   \E walk \in [0 .. n -> Seq(Connections)] : Walks(c, g, list, walk, n)}
<1>1. Len(list) \in Nat /\ \A i \in 1 .. Len(list) : list[i] \in Connections
  BY LenProperties, ElementOfSeq
<1>2. 0 \in T
  <2> DEFINE w == [i \in 0 .. 0 |-> <<>>]
  <2>1. w \in [0 .. 0 -> Seq(Connections)] /\ w[0] = <<>>
    BY EmptySeq
  <2> HIDE DEF w
  <2>2. Walks(c, g, list, w, 0)
    BY <2>1 DEF Walks
  <2> QED BY <2>1, <2>2
<1>3. ASSUME NEW n \in Nat, n \in T PROVE n + 1 \in T
  <2> SUFFICES ASSUME n + 1 <= Len(list)
               PROVE  \E walk \in [0 .. n + 1 -> Seq(Connections)] :
                        Walks(c, g, list, walk, n + 1)
    BY <1>3
  <2>1. PICK v \in [0 .. n -> Seq(Connections)] : Walks(c, g, list, v, n)
    BY <1>1, <1>3
  <2> DEFINE next == IF Dropped(c, g, list[n + 1]) THEN v[n] ELSE Append(v[n], list[n + 1])
             w == [i \in 0 .. n + 1 |-> IF i = n + 1 THEN next ELSE v[i]]
  <2>2. next \in Seq(Connections)
    <3>1. v[n] \in Seq(Connections) /\ list[n + 1] \in Connections
      BY <1>1
    <3>2. Append(v[n], list[n + 1]) \in Seq(Connections)
      BY <3>1, AppendProperties
    <3> QED BY <3>1, <3>2
  <2> HIDE DEF next
  <2>3. /\ w \in [0 .. n + 1 -> Seq(Connections)]
        /\ w[n + 1] = next /\ \A i \in 0 .. n : w[i] = v[i]
    BY <2>2
  <2> HIDE DEF w
  <2>4. w[0] = <<>>
    BY <2>1, <2>3 DEF Walks
  <2>5. ASSUME NEW i \in 1 .. n + 1
        PROVE  w[i] = IF Dropped(c, g, list[i]) THEN w[i - 1] ELSE Append(w[i - 1], list[i])
    <3>1. CASE i = n + 1
      <4>1. w[i - 1] = v[n]
        BY <2>3, <3>1
      <4> QED BY <2>3, <3>1, <4>1 DEF next
    <3>2. CASE i # n + 1
      <4>1. i \in 1 .. n /\ i - 1 \in 0 .. n /\ i \in 0 .. n
        BY <3>2
      <4> QED BY <2>1, <2>3, <4>1 DEF Walks
    <3> QED BY <3>1, <3>2
  <2>6. Walks(c, g, list, w, n + 1)
    BY <2>4, <2>5 DEF Walks
  <2> QED BY <2>3, <2>6
<1>4. \A n \in Nat : n \in T
  <2> HIDE DEF T
  <2> QED BY <1>2, <1>3, InductionOnNat
<1> QED BY <1>1, <1>4

LEMMA KeptIsWalk ==
  ASSUME NEW c, NEW g, NEW list \in Seq(Connections)
  PROVE  \E walk \in [0 .. Len(list) -> Seq(Connections)] :
           Walks(c, g, list, walk, Len(list)) /\ Kept(c, g, list) = walk[Len(list)]
<1> DEFINE N == Len(list)
           Step(w) == [i \in 0 .. N |->
                         IF i = 0 THEN <<>>
                         ELSE IF Dropped(c, g, list[i]) THEN w[i - 1]
                         ELSE Append(w[i - 1], list[i])]
           f == CHOOSE w : w = Step(w)
<1>1. N \in Nat
  BY LenProperties
<1>2. Kept(c, g, list) = f[N]
  BY DEF Kept
<1>3. \E w : w = Step(w)
  <2>1. PICK w \in [0 .. N -> Seq(Connections)] : Walks(c, g, list, w, N)
    BY WalkExists
  <2>2. ASSUME NEW i \in 0 .. N PROVE w[i] = Step(w)[i]
    <3>1. CASE i = 0
      BY <2>1, <3>1 DEF Walks
    <3>2. CASE i # 0
      <4>1. i \in 1 .. N
        BY <1>1, <3>2
      <4> QED BY <2>1, <3>2, <4>1 DEF Walks
    <3> QED BY <3>1, <3>2
  <2>3. w = Step(w)
    BY <2>2
  <2> QED BY <2>3
<1>4. f = Step(f)
  BY <1>3
<1> HIDE DEF f
<1>5. f[0] = <<>>
  BY <1>1, <1>4
<1>6. \A i \in 1 .. N :
        f[i] = IF Dropped(c, g, list[i]) THEN f[i - 1] ELSE Append(f[i - 1], list[i])
  <2> SUFFICES ASSUME NEW i \in 1 .. N
               PROVE  f[i] = IF Dropped(c, g, list[i]) THEN f[i - 1]
                             ELSE Append(f[i - 1], list[i])
    OBVIOUS
  <2>1. i \in 0 .. N /\ i # 0
    BY <1>1
  <2>2. f[i] = Step(f)[i]
    BY <1>4
  <2> QED BY <2>1, <2>2
<1>7. Walks(c, g, list, f, N)
  BY <1>5, <1>6 DEF Walks
<1>8. f \in [0 .. N -> Seq(Connections)]
  <2> DEFINE T == {n \in Nat : n <= N => f[n] \in Seq(Connections)}
  <2>1. 0 \in T
    BY <1>5, EmptySeq
  <2>2. ASSUME NEW n \in Nat, n \in T PROVE n + 1 \in T
    <3> SUFFICES ASSUME n + 1 <= N PROVE f[n + 1] \in Seq(Connections)
      OBVIOUS
    <3>1. n + 1 \in 1 .. N /\ (n + 1) - 1 = n /\ f[n] \in Seq(Connections)
      BY <1>1, <2>2
    <3>2. Append(f[n], list[n + 1]) \in Seq(Connections)
      BY <3>1, ElementOfSeq, AppendProperties
    <3> QED BY <1>6, <3>1, <3>2
  <2>3. \A n \in Nat : n \in T
    <3> HIDE DEF T
    <3> QED BY <2>1, <2>2, InductionOnNat
  <2>4. \A n \in 0 .. N : f[n] \in Seq(Connections)
    BY <1>1, <2>3
  <2>5. f = [i \in 0 .. N |-> f[i]]
    BY <1>4
  <2> QED BY <2>4, <2>5
<1> QED BY <1>2, <1>7, <1>8

(* A unique connection has no equal before it. *)
NewUniques(list) ==
  \A j \in 1 .. Len(list) : list[j].unique =>
    \A i \in 1 .. j - 1 : ~Equals(list[i], list[j].receiver, list[j].slot)

(* What is left is in its order, nothing in it was to be dropped, and nothing else was. *)
LEMMA KeptProperties ==
  ASSUME NEW c, NEW g, NEW list \in Seq(Connections)
  PROVE  /\ Kept(c, g, list) \in Seq(Connections)
         /\ \A i \in 1 .. Len(Kept(c, g, list)) : ~Dropped(c, g, Kept(c, g, list)[i])
         /\ \A k \in 1 .. Len(list) : \/ Dropped(c, g, list[k])
                                      \/ \E i \in 1 .. Len(Kept(c, g, list)) :
                                           Kept(c, g, list)[i] = list[k]
         /\ NewUniques(list) => NewUniques(Kept(c, g, list))
<1> DEFINE N == Len(list)
<1>1. PICK w \in [0 .. N -> Seq(Connections)] :
        Walks(c, g, list, w, N) /\ Kept(c, g, list) = w[N]
  BY KeptIsWalk
<1> DEFINE From(s, n) == \A i \in 1 .. Len(s) :
                           ~Dropped(c, g, s[i]) /\ \E k \in 1 .. n : s[i] = list[k]
           Whole(s, n) == \A k \in 1 .. n :
                            Dropped(c, g, list[k]) \/ \E i \in 1 .. Len(s) : s[i] = list[k]
           Good(n) == /\ From(w[n], n) /\ Whole(w[n], n)
                      /\ NewUniques(list) => NewUniques(w[n])
           T == {n \in Nat : n <= N => Good(n)}
<1>2. N \in Nat
  BY LenProperties
<1>3. 0 \in T
  <2>1. w[0] = <<>> /\ Len(w[0]) = 0
    BY <1>1 DEF Walks
  <2> QED BY <2>1 DEF NewUniques
<1>4. ASSUME NEW n \in Nat, n \in T PROVE n + 1 \in T
  <2> SUFFICES ASSUME n + 1 <= N PROVE Good(n + 1)
    OBVIOUS
  <2> DEFINE x == list[n + 1]
             s == w[n]
             r == w[n + 1]
  <2>1. /\ r = IF Dropped(c, g, x) THEN s ELSE Append(s, x)
        /\ s \in Seq(Connections) /\ x \in Connections
        /\ From(s, n) /\ Whole(s, n) /\ (NewUniques(list) => NewUniques(s))
    <3>1. n + 1 \in 1 .. N /\ (n + 1) - 1 = n /\ n \in 0 .. N
      BY <1>2
    <3>2. Good(n)
      BY <1>2, <1>4
    <3>3. s \in Seq(Connections) /\ x \in Connections
      BY <3>1, ElementOfSeq
    <3> QED BY <1>1, <3>1, <3>2, <3>3 DEF Walks
  <2>2. CASE Dropped(c, g, x)
    <3>1. \A k \in 1 .. n + 1 : k \in 1 .. n \/ k = n + 1
      OBVIOUS
    <3>2. \A k \in 1 .. n : k \in 1 .. n + 1
      OBVIOUS
    <3> QED BY <2>1, <2>2, <3>1, <3>2
  <2>3. CASE ~Dropped(c, g, x)
    <3>1. /\ Len(r) = Len(s) + 1 /\ Len(s) \in Nat /\ r[Len(s) + 1] = x
          /\ \A i \in 1 .. Len(s) : r[i] = s[i]
      BY <2>1, <2>3, AppendProperties, LenProperties
    <3>2. n + 1 \in 1 .. N
      BY <1>2
    <3> HIDE DEF r, s, x, N
    <3>3. From(r, n + 1)
      <4> SUFFICES ASSUME NEW i \in 1 .. Len(r)
                   PROVE  ~Dropped(c, g, r[i]) /\ \E k \in 1 .. n + 1 : r[i] = list[k]
        OBVIOUS
      <4>1. CASE i = Len(s) + 1
        BY <2>3, <3>1, <4>1 DEF x
      <4>2. CASE i # Len(s) + 1
        <5>1. i \in 1 .. Len(s)
          BY <3>1, <4>2
        <5> QED BY <2>1, <3>1, <5>1
      <4> QED BY <4>1, <4>2
    <3>4. ASSUME NewUniques(list) PROVE NewUniques(r)
      <4> SUFFICES ASSUME NEW j \in 1 .. Len(r), r[j].unique, NEW i \in 1 .. j - 1
                   PROVE  ~Equals(r[i], r[j].receiver, r[j].slot)
        BY DEF NewUniques
      <4>1. i \in 1 .. Len(s) /\ r[i] = s[i]
        BY <3>1
      <4>2. CASE j = Len(s) + 1
        <5>1. PICK k \in 1 .. n : s[i] = list[k]
          BY <2>1, <4>1
        <5>2. r[j] = list[n + 1]
          BY <3>1, <4>2 DEF x
        <5>3. k \in 1 .. (n + 1) - 1
          OBVIOUS
        <5> QED BY <3>2, <3>4, <4>1, <5>1, <5>2, <5>3 DEF NewUniques, N
      <4>3. CASE j # Len(s) + 1
        <5>1. j \in 1 .. Len(s) /\ r[j] = s[j]
          BY <3>1, <4>3
        <5> QED BY <2>1, <3>4, <4>1, <5>1 DEF NewUniques
      <4> QED BY <4>2, <4>3
    <3>5. Whole(r, n + 1)
      <4> SUFFICES ASSUME NEW k \in 1 .. n + 1, ~Dropped(c, g, list[k])
                   PROVE  \E i \in 1 .. Len(r) : r[i] = list[k]
        OBVIOUS
      <4>1. CASE k = n + 1
        <5>1. Len(s) + 1 \in 1 .. Len(r) /\ r[Len(s) + 1] = list[k]
          BY <3>1, <4>1 DEF x
        <5> QED BY <5>1
      <4>2. CASE k # n + 1
        <5>1. k \in 1 .. n
          BY <4>2
        <5>2. PICK i \in 1 .. Len(s) : s[i] = list[k]
          BY <2>1, <5>1
        <5>3. i \in 1 .. Len(r) /\ r[i] = s[i]
          BY <3>1
        <5> QED BY <5>2, <5>3
      <4> QED BY <4>1, <4>2
    <3> QED BY <3>3, <3>4, <3>5 DEF r
  <2> QED BY <2>2, <2>3
<1>5. \A n \in Nat : n \in T
  <2> HIDE DEF T
  <2> QED BY <1>3, <1>4, InductionOnNat
<1>6. Good(N)
  BY <1>2, <1>5
<1>7. Kept(c, g, list) \in Seq(Connections)
  BY <1>1, <1>2
<1> QED BY <1>1, <1>6, <1>7

-----------------------------------------------------------------------------
(* Types *)

Emissions == {NoEmission} \cup (Threads \X Nat)
Frames == [sender : Objects, signal : Signals, todo : Seq(Connections),
           stage : {"next", "slot"}, to : Objects, prev : Emissions]

ConnectCalls ==
  [op : {"connect"}, sender : Objects, signal : Signals, receiver : Objects,
   slot : Slots \cup {Lambda}, unique : BOOLEAN]
DisconnectCalls ==
  {c \in [op : {"disconnect"}, sender : Objects, signal : Signals \cup {Null},
          receiver : Named, slot : Slots \cup {Null}] :
     c.slot # Null => c.signal # Null /\ c.receiver # Null}
EmitCalls == [op : {"emit"}, sender : Objects, signal : Signals]
Calls == ConnectCalls \cup DisconnectCalls \cup EmitCalls \cup {NoCall}

(* a thread has a call exactly while it is on its way to its locks *)
CallsTyped ==
  /\ pc \in [Threads -> {"idle", "lock", "lock2", "add"}] /\ call \in [Threads -> Calls]
  /\ \A t \in Threads : pc[t] = "idle" <=> call[t] = NoCall

ObjectsTyped ==
  /\ alive \subseteq Objects
  /\ m_signalVector \in [Objects -> [Signals -> Seq(Connections)]]
  /\ m_currentSender \in [Objects -> Emissions]
  /\ frames \in [Threads -> Seq(Frames)]

TypeOK == CallsTyped /\ ObjectsTyped

LEMMA CallKinds ==
  ASSUME TypeOK, NEW t \in Threads
  PROVE  /\ call[t].op = "connect" => call[t] \in ConnectCalls
         /\ call[t].op = "disconnect" => call[t] \in DisconnectCalls
         /\ call[t].op = "emit" => call[t] \in EmitCalls
         /\ call[t] # NoCall => call[t].op # "none"
         /\ call[t] \in Calls /\ NoCall.op = "none"
<1>1. call[t] \in Calls
  BY DEF TypeOK, CallsTyped
<1> QED BY <1>1 DEF Calls, ConnectCalls, DisconnectCalls, EmitCalls, NoCall

(* Every call begins with one of the records above. *)
LEMMA CallBegins ==
  ASSUME TypeOK, NEW t \in Threads, ConnectCall(t) \/ DisconnectCall(t) \/ EmitCall(t)
  PROVE  \E c \in ConnectCalls \cup DisconnectCalls \cup EmitCalls :
           Begin(t, c) /\ (c.op = "emit" => Depth(t) < MaxDepth)
<1>1. alive \subseteq Objects
  BY DEF TypeOK, ObjectsTyped
<1>2. CASE ConnectCall(t)
  <2>1. PICK s \in alive, r \in alive, g \in Signals, f \in Slots \cup {Lambda},
             unique \in BOOLEAN :
          Begin(t, [op |-> "connect", sender |-> s, signal |-> g, receiver |-> r,
                    slot |-> f, unique |-> unique])
    BY <1>2 DEF ConnectCall
  <2> DEFINE c == [op |-> "connect", sender |-> s, signal |-> g, receiver |-> r,
                   slot |-> f, unique |-> unique]
  <2>2. c \in ConnectCalls /\ c.op # "emit"
    BY <1>1 DEF ConnectCalls
  <2> QED BY <2>1, <2>2
<1>3. CASE DisconnectCall(t)
  <2>1. PICK s \in alive, a \in DisconnectArgs :
          Begin(t, [op |-> "disconnect", sender |-> s, signal |-> a[1],
                    receiver |-> a[2], slot |-> a[3]])
    BY <1>3 DEF DisconnectCall
  <2> DEFINE c == [op |-> "disconnect", sender |-> s, signal |-> a[1],
                   receiver |-> a[2], slot |-> a[3]]
  <2>2. /\ a[1] \in Signals \cup {Null} /\ a[2] \in Named /\ a[3] \in Slots \cup {Null}
        /\ a[3] # Null => a[1] # Null /\ a[2] # Null
    BY <1>1, ObjectAssumption DEF DisconnectArgs, Named
  <2>3. c \in DisconnectCalls /\ c.op # "emit"
    BY <1>1, <2>2 DEF DisconnectCalls
  <2> QED BY <2>1, <2>3
<1>4. CASE EmitCall(t)
  <2>1. PICK s \in alive, g \in Signals :
          /\ Depth(t) < MaxDepth
          /\ Begin(t, [op |-> "emit", sender |-> s, signal |-> g])
    BY <1>4 DEF EmitCall
  <2>2. [op |-> "emit", sender |-> s, signal |-> g] \in EmitCalls
    BY <1>1 DEF EmitCalls
  <2> QED BY <2>1, <2>2
<1> QED BY <1>2, <1>3, <1>4

(* What a thread does with its locks: it begins a call, waits for its second lock, has
   searched, or ends the call. *)
LEMMA CallsTypedStep ==
  ASSUME TypeOK, [Next]_vars
  PROVE  CallsTyped'
<1> USE DEF CallsTyped
<1>1. ASSUME NEW t \in Threads, ConnectCall(t) \/ DisconnectCall(t) \/ EmitCall(t)
      PROVE  CallsTyped'
  <2>1. PICK c \in ConnectCalls \cup DisconnectCalls \cup EmitCalls : Begin(t, c)
    BY <1>1, CallBegins
  <2>2. c \in Calls /\ c # NoCall
    BY DEF Calls, ConnectCalls, DisconnectCalls, EmitCalls, NoCall
  <2> QED BY <2>1, <2>2 DEF Begin, TypeOK
<1>2. ASSUME NEW t \in Threads, LockFirst(t) PROVE CallsTyped'
  BY <1>2 DEF LockFirst, TypeOK
<1>3. ASSUME NEW t \in Threads, Release(t) PROVE CallsTyped'
  <2>1. NoCall \in Calls
    BY DEF Calls
  <2> QED BY <1>3, <2>1 DEF Release, TypeOK
<1>4. ASSUME NEW t \in Threads, ConnectSearch(t), ~Release(t) PROVE CallsTyped'
  <2>1. pc[t] # "idle" /\ call' = call /\ pc' = [pc EXCEPT ![t] = "add"]
    BY <1>4 DEF ConnectSearch, Granted
  <2> QED BY <2>1 DEF TypeOK
<1>5. ASSUME UNCHANGED locks PROVE CallsTyped'
  BY <1>5 DEF locks, TypeOK
<1>6. ASSUME NEW t \in Threads, CallStep(t) \/ RunStep(t) PROVE CallsTyped'
  BY <1>1, <1>2, <1>3, <1>4, <1>5, <1>6
     DEF CallStep, RunStep, BlockSignals, Destroy, Connect, Disconnect, EmitCopy, EmitEnd,
         EmitSkip, SlotCall, SlotReturn
<1> QED BY <1>5, <1>6 DEF Next, vars

(* The top of a stack: what an emission reads and replaces. *)
LEMMA TopType ==
  ASSUME TypeOK, NEW t \in Threads
  PROVE  /\ frames[t] \in Seq(Frames) /\ Depth(t) \in Nat
         /\ \A d \in 1 .. Depth(t) : frames[t][d] \in Frames
         /\ Depth(t) > 0 => Depth(t) \in 1 .. Depth(t) /\ Top(t) \in Frames
<1>1. frames[t] \in Seq(Frames)
  BY DEF TypeOK, ObjectsTyped
<1>2. Depth(t) \in Nat /\ \A d \in 1 .. Depth(t) : frames[t][d] \in Frames
  BY <1>1, LenProperties, ElementOfSeq DEF Depth
<1> QED BY <1>1, <1>2 DEF Top

(* The steps of an emission, by what they do to the stack of their thread. *)
Stacks(t, h) ==
  /\ h \in Seq(Frames)
  /\ frames' = [frames EXCEPT ![t] = h]

Pushes(t) ==
  \E h : /\ Stacks(t, h) /\ m_currentSender' = m_currentSender
         /\ Len(h) = Depth(t) + 1 /\ h[Len(h)].stage = "next"
         /\ \A d \in 1 .. Depth(t) : h[d] = frames[t][d]

Pops(t) ==
  \E h : /\ Stacks(t, h) /\ m_currentSender' = m_currentSender
         /\ Depth(t) > 0 /\ Top(t).stage = "next" /\ Len(h) = Depth(t) - 1
         /\ \A d \in 1 .. Depth(t) - 1 : h[d] = frames[t][d]

Replaces(t, h) ==
  /\ Stacks(t, h) /\ Depth(t) > 0 /\ Len(h) = Depth(t)
  /\ \A d \in 1 .. Depth(t) - 1 : h[d] = frames[t][d]

Skips(t) ==
  \E h : /\ Replaces(t, h) /\ m_currentSender' = m_currentSender
         /\ Top(t).stage = "next" /\ h[Depth(t)].stage = "next"

Enters(t) ==
  \E h : LET r == h[Depth(t)].to IN
         /\ Replaces(t, h) /\ Top(t).stage = "next"
         /\ h[Depth(t)].stage = "slot" /\ r \in Objects
         /\ h[Depth(t)].prev = m_currentSender[r]
         /\ m_currentSender' = [m_currentSender EXCEPT ![r] = <<t, Depth(t)>>]

Leaves(t) ==
  \E h : /\ Replaces(t, h) /\ Top(t).stage = "slot" /\ h[Depth(t)].stage = "next"
         /\ Top(t).to \in Objects
         /\ m_currentSender' = [m_currentSender EXCEPT ![Top(t).to] = Top(t).prev]

LEMMA FirstOfTodo ==
  ASSUME TypeOK, NEW t \in Threads, Depth(t) > 0, Top(t).todo # <<>>
  PROVE  Head(Top(t).todo).receiver \in Objects /\ Tail(Top(t).todo) \in Seq(Connections)
<1>1. Top(t).todo \in Seq(Connections)
  BY TopType DEF Frames
<1>2. Head(Top(t).todo) \in Connections
  BY <1>1, HeadTailProperties
<1> QED BY <1>1, <1>2, HeadTailProperties DEF Connections

LEMMA ReplaceTop ==
  ASSUME TypeOK, NEW t \in Threads, Depth(t) > 0, NEW x \in Frames,
         frames' = [frames EXCEPT ![t] = [frames[t] EXCEPT ![Depth(t)] = x]]
  PROVE  LET h == [frames[t] EXCEPT ![Depth(t)] = x] IN
         Replaces(t, h) /\ h[Depth(t)] = x
<1> DEFINE f == frames[t]
           h == [f EXCEPT ![Depth(t)] = x]
<1>1. f \in Seq(Frames) /\ Depth(t) \in Nat /\ Depth(t) = Len(f) /\ Depth(t) \in 1 .. Len(f)
  BY TopType DEF Depth
<1>2. f \in [1 .. Len(f) -> Frames]
  BY <1>1, LenProperties
<1>3. /\ h \in [1 .. Len(f) -> Frames] /\ h[Depth(t)] = x
      /\ \A d \in 1 .. Depth(t) - 1 : h[d] = f[d]
  BY <1>1, <1>2
<1>4. h \in Seq(Frames) /\ Len(h) = Len(f)
  BY <1>1, <1>3
<1> QED BY <1>1, <1>3, <1>4 DEF Replaces, Stacks

LEMMA EmitCopyStack ==
  ASSUME TypeOK, NEW t \in Threads, EmitCopy(t)
  PROVE  (frames' = frames /\ m_currentSender' = m_currentSender) \/ Pushes(t)
<1> DEFINE c == call[t]
           list == m_signalVector[c.sender][c.signal]
           frame == [sender |-> c.sender, signal |-> c.signal, todo |-> list,
                     stage |-> "next", to |-> c.sender, prev |-> NoEmission]
<1>1. /\ m_currentSender' = m_currentSender
      /\ frames' = IF list = <<>> THEN frames ELSE [frames EXCEPT ![t] = Append(@, frame)]
  BY DEF EmitCopy
<1>2. c.sender \in Objects /\ c.signal \in Signals
  BY CallKinds DEF EmitCopy, EmitCalls
<1>3. list \in Seq(Connections)
  BY <1>2 DEF TypeOK, ObjectsTyped
<1>4. frame \in Frames /\ frame.stage = "next"
  BY <1>2, <1>3 DEF Frames, Emissions
<1> HIDE DEF frame
<1>5. /\ Append(frames[t], frame) \in Seq(Frames)
      /\ Len(Append(frames[t], frame)) = Depth(t) + 1
      /\ \A d \in 1 .. Depth(t) : Append(frames[t], frame)[d] = frames[t][d]
      /\ Append(frames[t], frame)[Depth(t) + 1] = frame
  BY <1>4, TopType, AppendProperties DEF Depth
<1>6. CASE list # <<>>
  <2> DEFINE h == Append(frames[t], frame)
  <2>1. Stacks(t, h)
    BY <1>1, <1>5, <1>6 DEF Stacks
  <2>2. /\ Len(h) = Depth(t) + 1 /\ h[Len(h)].stage = "next"
        /\ \A d \in 1 .. Depth(t) : h[d] = frames[t][d]
    BY <1>4, <1>5
  <2> HIDE DEF h
  <2> QED BY <1>1, <2>1, <2>2 DEF Pushes
<1> QED BY <1>1, <1>6

LEMMA EmitEndStack ==
  ASSUME TypeOK, NEW t \in Threads, EmitEnd(t)
  PROVE  Pops(t)
<1> DEFINE h == SubSeq(frames[t], 1, Depth(t) - 1)
<1>1. /\ frames' = [frames EXCEPT ![t] = h] /\ m_currentSender' = m_currentSender
      /\ Depth(t) > 0 /\ Top(t).stage = "next"
  BY DEF EmitEnd, Iterating
<1>2. frames[t] \in Seq(Frames) /\ Depth(t) = Len(frames[t]) /\ Depth(t) \in Nat
  BY TopType DEF Depth
<1>3. /\ h \in Seq(Frames) /\ Len(h) = Depth(t) - 1
      /\ \A d \in 1 .. Depth(t) - 1 : h[d] = frames[t][d]
  BY <1>1, <1>2
<1> QED BY <1>1, <1>3 DEF Pops, Stacks

LEMMA EmitSkipStack ==
  ASSUME TypeOK, NEW t \in Threads, EmitSkip(t)
  PROVE  Skips(t)
<1> DEFINE x == [Top(t) EXCEPT !.todo = Tail(@)]
<1>1. /\ frames' = [frames EXCEPT ![t][Depth(t)].todo = Tail(@)]
      /\ m_currentSender' = m_currentSender
      /\ Depth(t) > 0 /\ Top(t).stage = "next" /\ Top(t).todo # <<>>
  BY DEF EmitSkip, Iterating
<1>2. frames' = [frames EXCEPT ![t] = [frames[t] EXCEPT ![Depth(t)] = x]]
  BY <1>1 DEF Top
<1>3. x \in Frames /\ x.stage = "next"
  BY <1>1, FirstOfTodo, TopType DEF Frames
<1> DEFINE h == [frames[t] EXCEPT ![Depth(t)] = x]
<1> HIDE DEF x
<1>4. Replaces(t, h) /\ h[Depth(t)] = x
  BY <1>1, <1>2, <1>3, ReplaceTop
<1> HIDE DEF h
<1> QED BY <1>1, <1>3, <1>4 DEF Skips

LEMMA SlotCallStack ==
  ASSUME TypeOK, NEW t \in Threads, SlotCall(t)
  PROVE  Enters(t)
<1> DEFINE r == Head(Top(t).todo).receiver
           x == [Top(t) EXCEPT !.todo = Tail(Top(t).todo), !.stage = "slot", !.to = r,
                               !.prev = m_currentSender[r]]
<1>1. /\ frames' = [frames EXCEPT ![t][Depth(t)] =
                      [Top(t) EXCEPT !.todo = Tail(Top(t).todo), !.stage = "slot", !.to = r,
                                     !.prev = m_currentSender[r]]]
      /\ m_currentSender' = [m_currentSender EXCEPT ![r] = <<t, Depth(t)>>]
      /\ Depth(t) > 0 /\ Top(t).stage = "next" /\ Top(t).todo # <<>>
  BY DEF SlotCall, Iterating
<1>2. frames' = [frames EXCEPT ![t] = [frames[t] EXCEPT ![Depth(t)] = x]]
  BY <1>1 DEF Top
<1>3. r \in Objects /\ m_currentSender[r] \in Emissions
  BY <1>1, FirstOfTodo DEF TypeOK, ObjectsTyped
<1>4. /\ x \in Frames /\ x.stage = "slot" /\ x.to = r /\ x.prev = m_currentSender[r]
  BY <1>1, <1>3, FirstOfTodo, TopType DEF Frames
<1> DEFINE h == [frames[t] EXCEPT ![Depth(t)] = x]
<1> HIDE DEF x
<1>5. Replaces(t, h) /\ h[Depth(t)] = x
  BY <1>1, <1>2, <1>4, ReplaceTop
<1> HIDE DEF h
<1> QED BY <1>1, <1>3, <1>4, <1>5 DEF Enters

LEMMA SlotReturnStack ==
  ASSUME TypeOK, NEW t \in Threads, SlotReturn(t)
  PROVE  Leaves(t)
<1> DEFINE x == [Top(t) EXCEPT !.stage = "next"]
<1>1. /\ frames' = [frames EXCEPT ![t][Depth(t)].stage = "next"]
      /\ m_currentSender' = [m_currentSender EXCEPT ![Top(t).to] = Top(t).prev]
      /\ Depth(t) > 0 /\ Top(t).stage = "slot"
  BY DEF SlotReturn, Previous
<1>2. frames' = [frames EXCEPT ![t] = [frames[t] EXCEPT ![Depth(t)] = x]]
  BY <1>1 DEF Top
<1>3. x \in Frames /\ x.stage = "next" /\ Top(t).to \in Objects
  BY <1>1, TopType DEF Frames
<1> HIDE DEF x
<1> QED BY <1>1, <1>2, <1>3, ReplaceTop DEF Leaves

(* In every step the stacks stay or one of them changes in one of these ways. *)
StackStep ==
  \/ frames' = frames /\ m_currentSender' = m_currentSender
  \/ \E t \in Threads : Pushes(t) \/ Pops(t) \/ Skips(t) \/ Enters(t) \/ Leaves(t)

LEMMA StacksStep ==
  ASSUME TypeOK, [Next]_vars
  PROVE  StackStep
<1>1. ASSUME NEW t \in Threads, ConnectCall(t) \/ DisconnectCall(t) \/ EmitCall(t)
      PROVE  StackStep
  BY <1>1, CallBegins DEF Begin, StackStep
<1>2. ASSUME NEW t \in Threads,
             \/ BlockSignals(t) \/ Destroy(t) \/ LockFirst(t) \/ ConnectSearch(t)
             \/ Connect(t) \/ Disconnect(t)
      PROVE  StackStep
  BY <1>2 DEF BlockSignals, Destroy, LockFirst, ConnectSearch, Connect, Disconnect, StackStep
<1>3. ASSUME NEW t \in Threads,
             EmitCopy(t) \/ EmitEnd(t) \/ EmitSkip(t) \/ SlotCall(t) \/ SlotReturn(t)
      PROVE  StackStep
  BY <1>3, EmitCopyStack, EmitEndStack, EmitSkipStack, SlotCallStack, SlotReturnStack
     DEF StackStep
<1> QED BY <1>1, <1>2, <1>3 DEF Next, CallStep, RunStep, vars, StackStep

LEMMA StackTypes ==
  ASSUME TypeOK, StackStep
  PROVE  m_currentSender' \in [Objects -> Emissions] /\ frames' \in [Threads -> Seq(Frames)]
<1> USE DEF TypeOK, ObjectsTyped
<1>1. CASE frames' = frames /\ m_currentSender' = m_currentSender
  BY <1>1
<1>2. ASSUME NEW t \in Threads, Pushes(t) \/ Pops(t) \/ Skips(t)
      PROVE  m_currentSender' \in [Objects -> Emissions]
             /\ frames' \in [Threads -> Seq(Frames)]
  BY <1>2 DEF Pushes, Pops, Skips, Replaces, Stacks
<1>3. ASSUME NEW t \in Threads, Enters(t)
      PROVE  m_currentSender' \in [Objects -> Emissions]
             /\ frames' \in [Threads -> Seq(Frames)]
  <2>1. <<t, Depth(t)>> \in Emissions
    BY TopType DEF Emissions
  <2> QED BY <1>3, <2>1 DEF Enters, Replaces, Stacks
<1>4. ASSUME NEW t \in Threads, Leaves(t)
      PROVE  m_currentSender' \in [Objects -> Emissions]
             /\ frames' \in [Threads -> Seq(Frames)]
  <2>1. Top(t).prev \in Emissions
    BY <1>4, TopType DEF Leaves, Replaces, Frames
  <2> QED BY <1>4, <2>1 DEF Leaves, Replaces, Stacks
<1> QED BY <1>1, <1>2, <1>3, <1>4 DEF StackStep

(* The lists of connections: one is appended, what a disconnect keeps, or none. *)
ListStep ==
  \/ m_signalVector' = m_signalVector
  \/ \E t \in Threads : \/ Connect(t) \/ Disconnect(t)
  \/ \E o \in Objects :
       m_signalVector' = [m_signalVector EXCEPT ![o] = [g \in Signals |-> <<>>]]

LEMMA ListsStep ==
  ASSUME TypeOK, [Next]_vars
  PROVE  ListStep /\ alive' \subseteq alive
<1> USE DEF connections
<1>1. ASSUME NEW t \in Threads, ConnectCall(t) \/ DisconnectCall(t) \/ EmitCall(t)
      PROVE  m_signalVector' = m_signalVector /\ alive' = alive
  BY <1>1, CallBegins DEF Begin
<1>2. ASSUME NEW t \in Threads,
             \/ BlockSignals(t) \/ LockFirst(t) \/ ConnectSearch(t) \/ EmitCopy(t)
             \/ EmitEnd(t) \/ EmitSkip(t) \/ SlotCall(t) \/ SlotReturn(t)
      PROVE  m_signalVector' = m_signalVector /\ alive' = alive
  BY <1>2 DEF BlockSignals, LockFirst, ConnectSearch, EmitCopy, EmitEnd, EmitSkip, SlotCall, SlotReturn
<1>3. ASSUME NEW t \in Threads, Destroy(t)
      PROVE  ListStep /\ alive' \subseteq alive
  <2>1. alive \subseteq Objects
    BY DEF TypeOK, ObjectsTyped
  <2> QED BY <1>3, <2>1 DEF Destroy, ListStep
<1>4. ASSUME NEW t \in Threads, Connect(t) \/ Disconnect(t)
      PROVE  ListStep /\ alive' = alive
  BY <1>4 DEF Connect, Disconnect, ListStep
<1>5. ASSUME NEW t \in Threads, CallStep(t) \/ RunStep(t)
      PROVE  ListStep /\ alive' \subseteq alive
  BY <1>1, <1>2, <1>3, <1>4, <1>5 DEF CallStep, RunStep, ListStep
<1> QED BY <1>5 DEF Next, vars, ListStep

(* A thread that is about to make a unique connection found no equal one, *)
(* and there is none.                                                     *)
Searched ==
  \A t \in Threads : pc[t] = "add" =>
    /\ call[t] \in ConnectCalls
    /\ ~Exists(m_signalVector[call[t].sender][call[t].signal], call[t].receiver,
               call[t].slot)

(* A connection is appended, a unique one to a list that was searched. *)
LEMMA ConnectAppends ==
  ASSUME TypeOK, NEW t \in Threads, Connect(t)
  PROVE  \E s \in Objects, g \in Signals, new \in Connections :
           /\ m_signalVector' =
                [m_signalVector EXCEPT ![s][g] = Append(m_signalVector[s][g], new)]
           /\ Searched /\ new.unique => ~Exists(m_signalVector[s][g], new.receiver, new.slot)
<1> DEFINE c == call[t]
           new == [receiver |-> c.receiver, slot |-> c.slot, unique |-> c.unique]
<1>1. c \in ConnectCalls
  BY CallKinds DEF Connect
<1>2. /\ c.sender \in Objects /\ c.signal \in Signals /\ new \in Connections
      /\ new.unique = c.unique /\ new.receiver = c.receiver /\ new.slot = c.slot
  BY <1>1 DEF ConnectCalls, Connections
<1>3. /\ c.unique => pc[t] = "add"
      /\ m_signalVector' = [m_signalVector EXCEPT ![c.sender][c.signal] =
                              Append(m_signalVector[c.sender][c.signal], new)]
  BY DEF Connect
<1>4. Searched /\ c.unique =>
        ~Exists(m_signalVector[c.sender][c.signal], c.receiver, c.slot)
  BY <1>3 DEF Searched
<1> HIDE DEF c, new
<1> QED BY <1>2, <1>3, <1>4

LEMMA DisconnectKeeps ==
  ASSUME TypeOK, NEW t \in Threads, Disconnect(t)
  PROVE  /\ call[t] \in DisconnectCalls
         /\ m_signalVector' = [m_signalVector EXCEPT ![call[t].sender] =
              [g \in Signals |-> Kept(call[t], g, m_signalVector[call[t].sender][g])]]
<1>1. call[t] \in DisconnectCalls
  BY CallKinds DEF Disconnect
<1> QED BY <1>1 DEF Disconnect

LEMMA ListTypes ==
  ASSUME TypeOK, ListStep
  PROVE  m_signalVector' \in [Objects -> [Signals -> Seq(Connections)]]
<1>1. m_signalVector \in [Objects -> [Signals -> Seq(Connections)]]
  BY DEF TypeOK, ObjectsTyped
<1>2. ASSUME NEW t \in Threads, Connect(t)
      PROVE  m_signalVector' \in [Objects -> [Signals -> Seq(Connections)]]
  <2>1. PICK s \in Objects, g \in Signals, new \in Connections :
          m_signalVector' = [m_signalVector EXCEPT ![s][g] = Append(m_signalVector[s][g], new)]
    BY <1>2, ConnectAppends
  <2>2. Append(m_signalVector[s][g], new) \in Seq(Connections)
    BY <1>1, AppendProperties
  <2> QED BY <1>1, <2>1, <2>2
<1>3. ASSUME NEW t \in Threads, Disconnect(t)
      PROVE  m_signalVector' \in [Objects -> [Signals -> Seq(Connections)]]
  <2> DEFINE s == call[t].sender
             lists == [g \in Signals |-> Kept(call[t], g, m_signalVector[s][g])]
  <2>1. s \in Objects /\ m_signalVector' = [m_signalVector EXCEPT ![s] = lists]
    BY <1>3, DisconnectKeeps DEF DisconnectCalls
  <2>2. \A g \in Signals : Kept(call[t], g, m_signalVector[s][g]) \in Seq(Connections)
    BY <1>1, <2>1, KeptProperties
  <2>3. lists \in [Signals -> Seq(Connections)]
    BY <2>2
  <2> HIDE DEF lists, s
  <2> QED BY <1>1, <2>1, <2>3
<1>4. ASSUME NEW o \in Objects,
             m_signalVector' = [m_signalVector EXCEPT ![o] = [g \in Signals |-> <<>>]]
      PROVE  m_signalVector' \in [Objects -> [Signals -> Seq(Connections)]]
  <2>1. [g \in Signals |-> <<>>] \in [Signals -> Seq(Connections)]
    BY EmptySeq
  <2> QED BY <1>1, <1>4, <2>1
<1> QED BY <1>1, <1>2, <1>3, <1>4 DEF ListStep

LEMMA TypeInit ==
  ASSUME Init
  PROVE  TypeOK
<1>1. CallsTyped
  BY DEF Init, CallsTyped, Calls
<1>2. m_signalVector \in [Objects -> [Signals -> Seq(Connections)]]
  <2>1. [g \in Signals |-> <<>>] \in [Signals -> Seq(Connections)]
    BY EmptySeq
  <2> QED BY <2>1 DEF Init
<1>3. m_currentSender \in [Objects -> Emissions]
  BY DEF Init, Emissions
<1>4. frames \in [Threads -> Seq(Frames)]
  <2>1. <<>> \in Seq(Frames)
    BY EmptySeq
  <2> QED BY <2>1 DEF Init
<1> QED BY <1>1, <1>2, <1>3, <1>4 DEF Init, TypeOK, ObjectsTyped

LEMMA TypeStep ==
  ASSUME TypeOK, [Next]_vars
  PROVE  TypeOK'
<1>1. ListStep /\ alive' \subseteq alive /\ StackStep
  BY ListsStep, StacksStep
<1>2. alive' \subseteq Objects
  BY <1>1 DEF TypeOK, ObjectsTyped
<1> QED BY <1>1, <1>2, CallsTypedStep, ListTypes, StackTypes DEF TypeOK, ObjectsTyped

(* Every variable keeps its type: each connection names its receiver and its slot, and each
   emission on a stack has the rest of a list of connections. *)
THEOREM TypeCorrect == Spec => []TypeOK
<1>1. Init => TypeOK
  BY TypeInit
<1>2. TypeOK /\ [Next]_vars => TypeOK'
  BY TypeStep
<1> QED BY <1>1, <1>2, PTL DEF Spec

-----------------------------------------------------------------------------
(* Connections *)

(* Two calls never have mutexes in common while one of them is between its *)
(* search and its new connection.                                          *)
LEMMA NeedsApart ==
  ASSUME LockInv, NEW t \in Threads, NEW u \in Threads, t # u,
         pc[t] = "add", Granted(u) \/ pc[u] = "add"
  PROVE  call[t].sender # call[u].sender
<1> SUFFICES ASSUME call[t].sender = call[u].sender PROVE FALSE
  OBVIOUS
<1> DEFINE m == MutexOf(call[t].sender)
<1>1. m \in Needs(t) /\ m \in Needs(u)
  BY DEF Needs
<1>2. m \in Pool
  BY <1>1, FirstIsLeast DEF LockInv
<1>3. owner[m] = t
  BY <1>1, <1>2 DEF LockInv, OwnersHold, Holding
<1>4. owner[m] \in {u, NoOne}
  BY <1>1, AllOwn
<1> HIDE DEF m
<1> QED BY <1>3, <1>4, ObjectAssumption

(* A call that is between its search and its new connection stays as it is *)
(* in the steps of the others.                                             *)
LEMMA AddStays ==
  ASSUME TypeOK, [Next]_vars, NEW t \in Threads, pc'[t] = "add", ~ConnectSearch(t)
  PROVE  pc[t] = "add" /\ call'[t] = call[t]
<1>1. pc \in [Threads -> {"idle", "lock", "lock2", "add"}] /\ call \in [Threads -> Calls]
  BY DEF TypeOK, CallsTyped
<1>2. ASSUME UNCHANGED locks PROVE pc[t] = "add" /\ call'[t] = call[t]
  BY <1>2 DEF locks
<1>3. ASSUME NEW u \in Threads, ConnectCall(u) \/ DisconnectCall(u) \/ EmitCall(u)
      PROVE  pc[t] = "add" /\ call'[t] = call[t]
  <2>1. PICK c \in ConnectCalls \cup DisconnectCalls \cup EmitCalls : Begin(u, c)
    BY <1>3, CallBegins
  <2> QED BY <1>1, <2>1 DEF Begin
<1>4. ASSUME NEW u \in Threads, LockFirst(u) \/ Release(u)
      PROVE  pc[t] = "add" /\ call'[t] = call[t]
  BY <1>1, <1>4 DEF LockFirst, Release
<1>5. ASSUME NEW u \in Threads, ConnectSearch(u), ~Release(u)
      PROVE  pc[t] = "add" /\ call'[t] = call[t]
  <2>1. u # t /\ pc' = [pc EXCEPT ![u] = "add"] /\ call' = call
    BY <1>5 DEF ConnectSearch
  <2> QED BY <1>1, <2>1
<1>6. ASSUME NEW u \in Threads, CallStep(u) \/ RunStep(u)
      PROVE  pc[t] = "add" /\ call'[t] = call[t]
  BY <1>2, <1>3, <1>4, <1>5, <1>6
     DEF CallStep, RunStep, BlockSignals, Destroy, Connect, Disconnect, EmitCopy, EmitEnd,
         EmitSkip, SlotCall, SlotReturn
<1> QED BY <1>2, <1>6 DEF Next, vars

(* Nobody gets an equal connection in between: who changes the list of a   *)
(* signal holds the mutex of its sender, which the searcher still has.     *)
LEMMA SearchedStep ==
  ASSUME TypeOK, LockInv, Searched, [Next]_vars
  PROVE  Searched'
<1> SUFFICES ASSUME NEW t \in Threads, pc'[t] = "add"
             PROVE  /\ call'[t] \in ConnectCalls
                    /\ ~Exists(m_signalVector'[call'[t].sender][call'[t].signal],
                               call'[t].receiver, call'[t].slot)
  BY DEF Searched, Exists, Equals
<1> DEFINE c == call[t]
           sv == m_signalVector
<1>1. CASE ConnectSearch(t)
  <2>1. ~Release(t)
    BY DEF Release, TypeOK, CallsTyped
  <2>2. c \in ConnectCalls
    BY <1>1, CallKinds DEF ConnectSearch
  <2> QED BY <1>1, <2>1, <2>2 DEF ConnectSearch, connections
<1>2. CASE ~ConnectSearch(t)
  <2>1. pc[t] = "add" /\ call'[t] = c
    BY <1>2, AddStays
  <2>2. /\ c \in ConnectCalls /\ c.sender \in Objects /\ c.signal \in Signals
        /\ ~Exists(sv[c.sender][c.signal], c.receiver, c.slot)
    BY <2>1 DEF Searched, ConnectCalls
  <2>3. sv \in [Objects -> [Signals -> Seq(Connections)]] /\ ListStep
    BY ListsStep DEF TypeOK, ObjectsTyped
  <2>4. CASE sv' = sv
    BY <2>1, <2>2, <2>4
  <2>5. ASSUME NEW u \in Threads, Connect(u) \/ Disconnect(u)
        PROVE  sv'[c.sender] = sv[c.sender]
    <3>1. Release(u) /\ (Granted(u) \/ pc[u] = "add")
      BY <2>5 DEF Connect, Disconnect
    <3>2. u # t
      BY <3>1 DEF Release, TypeOK, CallsTyped
    <3>3. c.sender # call[u].sender
      BY <2>1, <3>1, <3>2, NeedsApart
    <3> HIDE DEF c
    <3> QED BY <2>2, <2>3, <2>5, <3>3 DEF Connect, Disconnect
  <2>6. ASSUME NEW o \in Objects, sv' = [sv EXCEPT ![o] = [g \in Signals |-> <<>>]]
        PROVE  ~Exists(sv'[c.sender][c.signal], c.receiver, c.slot)
    <3>1. CASE c.sender = o
      BY <2>2, <2>3, <2>6, <3>1 DEF Exists
    <3>2. CASE c.sender # o
      BY <2>2, <2>3, <2>6, <3>2
    <3> QED BY <3>1, <3>2
  <2> QED BY <2>1, <2>2, <2>3, <2>4, <2>5, <2>6 DEF ListStep
<1> QED BY <1>1, <1>2

LEMMA UniqueStep ==
  ASSUME TypeOK, Searched, UniqueIsNew, [Next]_vars
  PROVE  UniqueIsNew'
<1> DEFINE sv == m_signalVector
           New(v) == \A o \in Objects, g \in Signals : NewUniques(v[o][g])
<1>1. sv \in [Objects -> [Signals -> Seq(Connections)]] /\ ListStep
  BY ListsStep DEF TypeOK, ObjectsTyped
<1>2. sv' \in [Objects -> [Signals -> Seq(Connections)]]
  BY <1>1, ListTypes
<1>3. New(sv)
  <2>1. \A o \in Objects, g \in Signals : DOMAIN sv[o][g] = 1 .. Len(sv[o][g])
    BY <1>1, LenProperties
  <2> QED BY <2>1 DEF UniqueIsNew, NewUniques
<1>4. ASSUME NEW t \in Threads, Connect(t)
      PROVE  New(sv')
  <2>1. PICK s \in Objects, g \in Signals, new \in Connections :
          /\ sv' = [sv EXCEPT ![s][g] = Append(sv[s][g], new)]
          /\ new.unique => ~Exists(sv[s][g], new.receiver, new.slot)
    BY <1>4, ConnectAppends
  <2> DEFINE old == sv[s][g]
             a == Append(old, new)
  <2>2. /\ a \in Seq(Connections) /\ Len(a) = Len(old) + 1 /\ Len(old) \in Nat
        /\ DOMAIN old = 1 .. Len(old)
        /\ \A i \in 1 .. Len(old) : a[i] = old[i]
        /\ a[Len(old) + 1] = new /\ NewUniques(old)
    BY <1>1, <1>3, AppendProperties, LenProperties
  <2>3. sv'[s][g] = a /\ \A o \in Objects, k \in Signals : o # s \/ k # g => sv'[o][k] = sv[o][k]
    BY <1>1, <2>1
  <2>4. new.unique => \A i \in 1 .. Len(old) : ~Equals(old[i], new.receiver, new.slot)
    BY <2>1, <2>2 DEF Exists
  <2> HIDE DEF a, old
  <2>5. NewUniques(a)
    <3> SUFFICES ASSUME NEW j \in 1 .. Len(a), a[j].unique, NEW i \in 1 .. j - 1
                 PROVE  ~Equals(a[i], a[j].receiver, a[j].slot)
      BY DEF NewUniques
    <3>1. i \in 1 .. Len(old) /\ a[i] = old[i]
      BY <2>2
    <3>2. CASE j = Len(old) + 1
      BY <2>2, <2>4, <3>1, <3>2
    <3>3. CASE j # Len(old) + 1
      <4>1. j \in 1 .. Len(old) /\ a[j] = old[j]
        BY <2>2, <3>3
      <4> QED BY <2>2, <3>1, <4>1 DEF NewUniques
    <3> QED BY <3>2, <3>3
  <2> QED BY <1>3, <2>3, <2>5
<1>5. ASSUME NEW t \in Threads, Disconnect(t)
      PROVE  New(sv')
  <2> DEFINE s == call[t].sender
  <2>1. /\ s \in Objects
        /\ sv' = [sv EXCEPT ![s] = [g \in Signals |-> Kept(call[t], g, sv[s][g])]]
    BY <1>5, DisconnectKeeps DEF DisconnectCalls
  <2>2. \A g \in Signals : NewUniques(Kept(call[t], g, sv[s][g]))
    BY <1>1, <1>3, <2>1, KeptProperties
  <2> HIDE DEF s
  <2>3. \A o \in Objects, g \in Signals :
          sv'[o][g] = IF o = s THEN Kept(call[t], g, sv[s][g]) ELSE sv[o][g]
    BY <1>1, <2>1
  <2> QED BY <1>3, <2>2, <2>3
<1>6. ASSUME NEW o \in Objects, sv' = [sv EXCEPT ![o] = [g \in Signals |-> <<>>]]
      PROVE  New(sv')
  <2>1. NewUniques(<<>>)
    BY DEF NewUniques
  <2> QED BY <1>1, <1>3, <1>6, <2>1
<1>7. New(sv')
  BY <1>1, <1>3, <1>4, <1>5, <1>6 DEF ListStep
<1>8. \A o \in Objects, g \in Signals : DOMAIN sv'[o][g] = 1 .. Len(sv'[o][g])
  BY <1>2, LenProperties
<1> QED BY <1>7, <1>8 DEF UniqueIsNew, NewUniques

(* However many threads and slots connect and disconnect, a unique connection has no
   equal before it in the list of its signal: between its search and its new connection
   a thread keeps the mutex of the sender, which all who change the list need. *)
THEOREM UniqueAlwaysNew == Spec => []UniqueIsNew
<1>1. Init => LockInv /\ Searched /\ UniqueIsNew
  BY LockInvInit DEF Init, Searched, UniqueIsNew
<1>2. TypeOK /\ LockInv /\ Searched /\ UniqueIsNew /\ [Next]_vars =>
        LockInv' /\ Searched' /\ UniqueIsNew'
  BY LockInvNext, SearchedStep, UniqueStep
<1> QED BY <1>1, <1>2, TypeCorrect, PTL DEF Spec

(* The four cases of disconnect remove what the arguments ask for, null being any, and
   nothing else but in the case that clears all. *)
LEMMA AskedIsDropped ==
  ASSUME NEW c \in DisconnectCalls, NEW g, NEW x
  PROVE  /\ Asked(c, g, x) => Dropped(c, g, x)
         /\ Dropped(c, g, x) => Asked(c, g, x) \/ ClearsAll(c)
<1>1. CASE c.signal # Null /\ c.receiver # Null /\ c.slot # Null
  BY <1>1 DEF Asked, Dropped, Equals
<1>2. CASE c.signal = Null /\ c.receiver # Null /\ c.slot = Null
  BY <1>2 DEF Asked, Dropped
<1>3. CASE c.signal # Null /\ c.receiver = Null /\ c.slot = Null
  BY <1>3 DEF Asked, Dropped
<1>4. CASE c.signal = Null /\ c.receiver = Null /\ c.slot = Null
  BY <1>4 DEF Asked, Dropped
<1>5. CASE ClearsAll(c)
  BY <1>5 DEF ClearsAll, Dropped
<1> QED BY <1>1, <1>2, <1>3, <1>4, <1>5 DEF DisconnectCalls, ClearsAll

LEMMA AskedGo ==
  ASSUME TypeOK, [Next]_vars, NEW t \in Threads,
         call[t].op = "disconnect", call'[t].op = "none", NEW g \in Signals
  PROVE  LET c == call[t]
             old == m_signalVector[c.sender][g]
             new == m_signalVector'[c.sender][g]
         IN  /\ \A i \in DOMAIN new : ~Asked(c, g, new[i])
             /\ \A i \in DOMAIN old :
                  Asked(c, g, old[i]) \/ ClearsAll(c) \/ \E j \in DOMAIN new : new[j] = old[i]
<1> DEFINE s == call[t].sender
           old == m_signalVector[s][g]
           kept == Kept(call[t], g, old)
<1>1. Disconnect(t)
  <2>1. call \in [Threads -> Calls] /\ call'[t] # call[t]
    BY DEF TypeOK, CallsTyped
  <2>2. ASSUME NEW u \in Threads, ConnectCall(u) \/ DisconnectCall(u) \/ EmitCall(u)
        PROVE  FALSE
    <3>1. PICK c \in ConnectCalls \cup DisconnectCalls \cup EmitCalls : Begin(u, c)
      BY <2>2, CallBegins
    <3>2. c.op # "none"
      BY DEF ConnectCalls, DisconnectCalls, EmitCalls
    <3> QED BY <2>1, <3>1, <3>2 DEF Begin
  <2>3. ASSUME NEW u \in Threads,
               \/ BlockSignals(u) \/ Destroy(u) \/ LockFirst(u) \/ EmitEnd(u) \/ EmitSkip(u)
               \/ SlotCall(u) \/ SlotReturn(u) \/ (ConnectSearch(u) /\ ~Release(u))
        PROVE  FALSE
    BY <2>1, <2>3 DEF ConnectSearch, BlockSignals, Destroy, LockFirst, EmitEnd, EmitSkip, SlotCall,
                      SlotReturn, locks
  <2>4. ASSUME NEW u \in Threads,
               \/ Connect(u) \/ Disconnect(u) \/ EmitCopy(u)
               \/ ConnectSearch(u) /\ Release(u)
        PROVE  u = t /\ Disconnect(t)
    <3>1. call' = [call EXCEPT ![u] = NoCall]
      BY <2>4 DEF Connect, Disconnect, EmitCopy, Release
    <3>2. u = t
      BY <2>1, <3>1
    <3> QED BY <2>4, <3>2 DEF Connect, ConnectSearch, EmitCopy
  <2> QED BY <2>1, <2>2, <2>3, <2>4 DEF Next, CallStep, RunStep, vars, locks
<1>2. /\ s \in Objects /\ call[t] \in DisconnectCalls
      /\ m_signalVector' = [m_signalVector EXCEPT ![s] =
           [k \in Signals |-> Kept(call[t], k, m_signalVector[s][k])]]
  BY <1>1, DisconnectKeeps DEF DisconnectCalls
<1>3. m_signalVector \in [Objects -> [Signals -> Seq(Connections)]]
  BY DEF TypeOK, ObjectsTyped
<1>4. m_signalVector'[s][g] = kept
  BY <1>2, <1>3
<1>5. /\ old \in Seq(Connections) /\ kept \in Seq(Connections)
      /\ \A k \in 1 .. Len(kept) : ~Dropped(call[t], g, kept[k])
      /\ \A k \in 1 .. Len(old) :
           Dropped(call[t], g, old[k]) \/ \E i \in 1 .. Len(kept) : kept[i] = old[k]
  <2>1. old \in Seq(Connections)
    BY <1>2, <1>3
  <2> HIDE DEF old
  <2> QED BY <2>1, KeptProperties
<1> HIDE DEF kept
<1>6. DOMAIN old = 1 .. Len(old) /\ DOMAIN kept = 1 .. Len(kept)
  BY <1>5, LenProperties
<1>7. \A i \in DOMAIN kept : ~Asked(call[t], g, kept[i])
  BY <1>2, <1>5, <1>6, AskedIsDropped
<1>8. \A i \in DOMAIN old : \/ Asked(call[t], g, old[i]) \/ ClearsAll(call[t])
                            \/ \E j \in DOMAIN kept : kept[j] = old[i]
  BY <1>2, <1>5, <1>6, AskedIsDropped
<1> QED BY <1>4, <1>7, <1>8

(* However other threads connect and disconnect until the locks are taken, when disconnect
   returns no connection is left that it was asked to remove, and none but these is gone
   unless it clears all. *)
THEOREM AllAskedAlwaysGo == Spec => AllAskedGo
<1>1. TypeOK /\ [Next]_vars =>
        [\A t \in Threads : call[t].op = "disconnect" /\ call'[t].op = "none" =>
           LET c == call[t] IN
           \A g \in Signals :
             LET old == m_signalVector[c.sender][g]
                 new == m_signalVector'[c.sender][g]
             IN  /\ \A i \in DOMAIN new : ~Asked(c, g, new[i])
                 /\ \A i \in DOMAIN old :
                      Asked(c, g, old[i]) \/ ClearsAll(c) \/ \E j \in DOMAIN new : new[j] = old[i]]_vars
  BY AskedGo
<1> QED BY <1>1, TypeCorrect, PTL DEF Spec, AllAskedGo

-----------------------------------------------------------------------------
(* The current sender *)

(* In a stack f: its d-th emission is in a slot of o; it is in none; e is the innermost of
   its first n emissions that is in one, or NoEmission. *)
In(f, d, o) == f[d].stage = "slot" /\ f[d].to = o
Outside(f, o) == \A d \in 1 .. Len(f) : ~In(f, d, o)
Innermost(e, t, f, n, o) ==
  \/ e = NoEmission /\ \A d \in 1 .. n : ~In(f, d, o)
  \/ \E d \in 1 .. n : e = <<t, d>> /\ In(f, d, o) /\ \A x \in d + 1 .. n : ~In(f, x, o)

(* The condition of the property: one thread at a time is in slots of an object. *)
OneAtATime ==
  \A o \in Objects : \A t, u \in Threads :
    Outside(frames[t], o) \/ Outside(frames[u], o) \/ t = u

OnlyIn(t, o) == \A u \in Threads : u = t \/ Outside(frames[u], o)

DepthBounded ==
  \A t \in Threads :
    Depth(t) <= MaxDepth /\ (call[t].op = "emit" => Depth(t) < MaxDepth)

CurrentIsInnermost ==
  \A o \in Objects :
    /\ (\A u \in Threads : Outside(frames[u], o)) => m_currentSender[o] = NoEmission
    /\ \A t \in Threads :
         OnlyIn(t, o) => Innermost(m_currentSender[o], t, frames[t], Depth(t), o)

(* What an emission in a slot restores is the innermost emission below it. *)
PrevIsInnermost ==
  \A t \in Threads : \A d \in 1 .. Depth(t) :
    frames[t][d].stage = "slot" =>
      Innermost(frames[t][d].prev, t, frames[t], d - 1, frames[t][d].to)

SenderInv == CurrentIsInnermost /\ PrevIsInnermost

(* Emissions that are in no slot of o make no difference. *)
LEMMA SameInnermost ==
  ASSUME NEW e, NEW t, NEW f, NEW h, NEW o, NEW k \in Nat, NEW n \in Nat, NEW m \in Nat,
         k <= n, k <= m,
         \A d \in 1 .. k : In(f, d, o) <=> In(h, d, o),
         \A d \in k + 1 .. n : ~In(f, d, o), \A d \in k + 1 .. m : ~In(h, d, o),
         Innermost(e, t, f, n, o)
  PROVE  Innermost(e, t, h, m, o)
<1>1. CASE e = NoEmission /\ \A d \in 1 .. n : ~In(f, d, o)
  <2>1. \A d \in 1 .. m : ~In(h, d, o)
    <3> SUFFICES ASSUME NEW d \in 1 .. m PROVE ~In(h, d, o)
      OBVIOUS
    <3>1. CASE d <= k
      BY <1>1, <3>1
    <3>2. CASE ~(d <= k)
      BY <3>2
    <3> QED BY <3>1, <3>2
  <2> QED BY <1>1, <2>1 DEF Innermost
<1>2. ASSUME NEW d \in 1 .. n, e = <<t, d>>, In(f, d, o), \A x \in d + 1 .. n : ~In(f, x, o)
      PROVE  Innermost(e, t, h, m, o)
  <2>1. d \in 1 .. k
    BY <1>2
  <2>2. d \in 1 .. m /\ In(h, d, o)
    BY <1>2, <2>1
  <2>3. \A x \in d + 1 .. m : ~In(h, x, o)
    <3> SUFFICES ASSUME NEW x \in d + 1 .. m PROVE ~In(h, x, o)
      OBVIOUS
    <3>1. CASE x <= k
      <4>1. x \in 1 .. k /\ x \in d + 1 .. n
        BY <3>1
      <4> QED BY <1>2, <4>1
    <3>2. CASE ~(x <= k)
      BY <3>2
    <3> QED BY <3>1, <3>2
  <2> QED BY <1>2, <2>2, <2>3 DEF Innermost
<1> QED BY <1>1, <1>2 DEF Innermost

LEMMA SameOutside ==
  ASSUME NEW f, NEW h, NEW o, NEW k \in Nat, Len(f) \in Nat, Len(h) \in Nat,
         k <= Len(f), k <= Len(h),
         \A d \in 1 .. k : In(f, d, o) <=> In(h, d, o),
         \A d \in k + 1 .. Len(f) : ~In(f, d, o), \A d \in k + 1 .. Len(h) : ~In(h, d, o)
  PROVE  Outside(f, o) <=> Outside(h, o)
<1>1. \A d \in 1 .. Len(f) : d \in 1 .. k \/ d \in k + 1 .. Len(f)
  OBVIOUS
<1>2. \A d \in 1 .. Len(h) : d \in 1 .. k \/ d \in k + 1 .. Len(h)
  OBVIOUS
<1>3. \A d \in 1 .. k : d \in 1 .. Len(f) /\ d \in 1 .. Len(h)
  OBVIOUS
<1> QED BY <1>1, <1>2, <1>3 DEF Outside

(* An object whose slots the step of t neither enters nor leaves. *)
Untouched(t, h, k, o) ==
  /\ k \in Nat /\ k <= Depth(t) /\ k <= Len(h)
  /\ \A d \in 1 .. k : In(frames[t], d, o) <=> In(h, d, o)
  /\ \A d \in k + 1 .. Depth(t) : ~In(frames[t], d, o)
  /\ \A d \in k + 1 .. Len(h) : ~In(h, d, o)

LEMMA UntouchedKeeps ==
  ASSUME TypeOK, CurrentIsInnermost, NEW t \in Threads, NEW h, Stacks(t, h),
         NEW k, NEW o \in Objects, Untouched(t, h, k, o),
         m_currentSender'[o] = m_currentSender[o]
  PROVE  /\ (\A u \in Threads : Outside(frames'[u], o)) => m_currentSender'[o] = NoEmission
         /\ \A v \in Threads :
              (\A u \in Threads : u = v \/ Outside(frames'[u], o))
                => Innermost(m_currentSender'[o], v, frames'[v], Len(frames'[v]), o)
<1> USE DEF Depth
<1>1. /\ frames'[t] = h /\ \A u \in Threads : u # t => frames'[u] = frames[u]
      /\ Len(h) \in Nat
  BY LenProperties DEF Stacks, TypeOK, ObjectsTyped
<1>2. Depth(t) \in Nat
  BY TopType
<1>3. \A u \in Threads : Outside(frames[u], o) <=> Outside(frames'[u], o)
  <2>1. Outside(frames[t], o) <=> Outside(h, o)
    BY <1>1, <1>2, SameOutside DEF Untouched
  <2> QED BY <1>1, <2>1
<1>4. ASSUME NEW v \in Threads, \A u \in Threads : u = v \/ Outside(frames'[u], o)
      PROVE  Innermost(m_currentSender'[o], v, frames'[v], Len(frames'[v]), o)
  <2>1. Innermost(m_currentSender[o], v, frames[v], Depth(v), o)
    BY <1>3, <1>4 DEF CurrentIsInnermost, OnlyIn
  <2>2. CASE v # t
    BY <1>1, <2>1, <2>2
  <2>3. CASE v = t
    <3> DEFINE e == m_currentSender[o]
    <3>1. Innermost(e, t, frames[t], Depth(t), o)
      BY <2>1, <2>3
    <3> HIDE DEF e
    <3>2. Innermost(e, t, h, Len(h), o)
      BY <1>1, <1>2, <3>1, SameInnermost DEF Untouched
    <3> QED BY <1>1, <2>3, <3>2 DEF e
  <2> QED BY <2>2, <2>3
<1> QED BY <1>3, <1>4 DEF CurrentIsInnermost

(* Every emission but the top keeps what it restores. *)
LEMMA LowerKeep ==
  ASSUME TypeOK, PrevIsInnermost, NEW t \in Threads, NEW h, Stacks(t, h), NEW k \in Nat,
         k <= Depth(t), k <= Len(h), \A d \in 1 .. k : h[d] = frames[t][d],
         \A d \in k + 1 .. Len(h) :
           h[d].stage = "slot" => Innermost(h[d].prev, t, h, d - 1, h[d].to)
  PROVE  PrevIsInnermost'
<1>1. /\ frames'[t] = h /\ \A u \in Threads : u # t => frames'[u] = frames[u]
      /\ Len(h) \in Nat
  BY LenProperties DEF Stacks, TypeOK, ObjectsTyped
<1>2. ASSUME NEW d \in 1 .. Len(h), h[d].stage = "slot"
      PROVE  Innermost(h[d].prev, t, h, d - 1, h[d].to)
  <2>1. CASE d <= k
    <3>1. d \in 1 .. Depth(t) /\ d \in 1 .. k /\ h[d] = frames[t][d] /\ d - 1 \in Nat
      BY <1>1, <2>1, TopType
    <3>2. Innermost(h[d].prev, t, frames[t], d - 1, h[d].to)
      BY <1>2, <3>1 DEF PrevIsInnermost
    <3>3. \A x \in 1 .. d - 1 : h[x] = frames[t][x]
      BY <3>1
    <3> DEFINE e == h[d].prev
               o == h[d].to
               f == frames[t]
    <3>4. \A x \in 1 .. d - 1 : In(f, x, o) <=> In(h, x, o)
      BY <3>3 DEF In
    <3> HIDE DEF e, o, f
    <3>5. Innermost(e, t, f, d - 1, o)
      BY <3>2 DEF e, o, f
    <3>6. Innermost(e, t, h, d - 1, o)
      BY <3>1, <3>4, <3>5 DEF Innermost
    <3> QED BY <3>6 DEF e, o
  <2>2. CASE ~(d <= k)
    <3>1. d \in k + 1 .. Len(h)
      BY <1>1, <2>2
    <3> QED BY <1>2, <3>1
  <2> QED BY <2>1, <2>2
<1> QED BY <1>1, <1>2 DEF PrevIsInnermost, Depth

LEMMA QuietKeeps ==
  ASSUME TypeOK, SenderInv, NEW t \in Threads, Pushes(t) \/ Pops(t) \/ Skips(t)
  PROVE  SenderInv'
<1> DEFINE n == Depth(t)
<1>1. n \in Nat /\ n = Len(frames[t])
  BY TopType DEF Depth
<1>2. ASSUME NEW h, NEW k \in Nat, Stacks(t, h), m_currentSender' = m_currentSender,
             k <= n, k <= Len(h), \A d \in 1 .. k : h[d] = frames[t][d],
             \A d \in k + 1 .. n : frames[t][d].stage = "next",
             \A d \in k + 1 .. Len(h) : h[d].stage = "next"
      PROVE  SenderInv'
  <2>1. \A o \in Objects : Untouched(t, h, k, o)
    BY <1>2 DEF Untouched, In
  <2>2. CurrentIsInnermost'
    BY <1>2, <2>1, UntouchedKeeps DEF SenderInv, CurrentIsInnermost, OnlyIn, Depth
  <2>3. PrevIsInnermost'
    BY <1>2, LowerKeep DEF SenderInv
  <2> QED BY <2>2, <2>3 DEF SenderInv
<1>3. CASE Pushes(t)
  <2>1. PICK h : /\ Stacks(t, h) /\ m_currentSender' = m_currentSender
                 /\ Len(h) = n + 1 /\ h[Len(h)].stage = "next"
                 /\ \A d \in 1 .. n : h[d] = frames[t][d]
    BY <1>3 DEF Pushes
  <2>2. /\ n <= n /\ n <= Len(h) /\ \A d \in n + 1 .. n : frames[t][d].stage = "next"
        /\ \A d \in n + 1 .. Len(h) : d = Len(h)
    BY <1>1, <2>1
  <2>3. \A d \in n + 1 .. Len(h) : h[d].stage = "next"
    BY <2>1, <2>2
  <2> HIDE DEF n
  <2> QED BY <1>1, <1>2, <2>1, <2>2, <2>3
<1>4. CASE Pops(t)
  <2>1. PICK h : /\ Stacks(t, h) /\ m_currentSender' = m_currentSender
                 /\ n > 0 /\ Top(t).stage = "next" /\ Len(h) = n - 1
                 /\ \A d \in 1 .. n - 1 : h[d] = frames[t][d]
    BY <1>4 DEF Pops
  <2>2. /\ n - 1 \in Nat /\ n - 1 <= Len(h) /\ \A d \in (n - 1) + 1 .. n : d = n
        /\ \A d \in (n - 1) + 1 .. Len(h) : h[d].stage = "next"
    BY <1>1, <2>1
  <2>3. frames[t][n].stage = "next"
    BY <2>1 DEF Top
  <2> HIDE DEF n
  <2>4. n - 1 <= n /\ \A d \in (n - 1) + 1 .. n : frames[t][d].stage = "next"
    BY <1>1, <2>2, <2>3
  <2> QED BY <1>2, <2>1, <2>2, <2>4
<1>5. CASE Skips(t)
  <2>1. PICK h : /\ Stacks(t, h) /\ m_currentSender' = m_currentSender
                 /\ n > 0 /\ Top(t).stage = "next" /\ h[n].stage = "next" /\ Len(h) = n
                 /\ \A d \in 1 .. n - 1 : h[d] = frames[t][d]
    BY <1>5 DEF Skips, Replaces
  <2>2. n - 1 \in Nat /\ n - 1 <= n /\ \A d \in (n - 1) + 1 .. n : d = n
    BY <1>1, <2>1
  <2>3. frames[t][n].stage = "next"
    BY <2>1 DEF Top
  <2> HIDE DEF n
  <2> QED BY <1>2, <2>1, <2>2, <2>3
<1> QED BY <1>3, <1>4, <1>5

LEMMA EntersKeeps ==
  ASSUME TypeOK, SenderInv, OneAtATime', NEW t \in Threads, Enters(t)
  PROVE  SenderInv'
<1> DEFINE n == Depth(t)
<1>1. PICK h : LET r == h[n].to IN
         /\ Stacks(t, h) /\ n > 0 /\ Len(h) = n /\ Top(t).stage = "next"
         /\ \A d \in 1 .. n - 1 : h[d] = frames[t][d]
         /\ h[n].stage = "slot" /\ r \in Objects /\ h[n].prev = m_currentSender[r]
         /\ m_currentSender' = [m_currentSender EXCEPT ![r] = <<t, n>>]
  BY DEF Enters, Replaces
<1> DEFINE r == h[n].to
<1>2. /\ n \in Nat /\ n - 1 \in Nat /\ n \in 1 .. n /\ (n - 1) + 1 = n
      /\ n = Len(frames[t]) /\ frames[t][n].stage = "next" /\ r \in Objects
  BY <1>1, TopType DEF Depth, Top
<1>3. frames'[t] = h /\ \A u \in Threads : u # t => frames'[u] = frames[u]
  BY <1>1 DEF Stacks, TypeOK, ObjectsTyped
<1>4. /\ m_currentSender'[r] = <<t, n>>
      /\ \A o \in Objects : o # r => m_currentSender'[o] = m_currentSender[o]
  BY <1>1 DEF TypeOK, ObjectsTyped
<1>5. In(h, n, r) /\ ~Outside(h, r)
  BY <1>1, <1>2 DEF In, Outside
<1>6. \A u \in Threads : u # t => Outside(frames[u], r)
  BY <1>2, <1>3, <1>5 DEF OneAtATime
<1> HIDE DEF n, r
<1>7. ASSUME NEW o \in Objects, o # r
      PROVE  Untouched(t, h, n - 1, o)
  <2>1. ~In(frames[t], n, o) /\ ~In(h, n, o)
    BY <1>2, <1>7 DEF In, r
  <2>2. \A d \in 1 .. n - 1 : In(frames[t], d, o) <=> In(h, d, o)
    BY <1>1 DEF In
  <2>3. \A d \in (n - 1) + 1 .. n : d = n
    BY <1>2
  <2> QED BY <1>1, <1>2, <2>1, <2>2, <2>3 DEF Untouched, n
<1>8. CurrentIsInnermost'
  <2>1. ASSUME NEW o \in Objects, o # r
        PROVE  /\ (\A u \in Threads : Outside(frames'[u], o))
                    => m_currentSender'[o] = NoEmission
               /\ \A v \in Threads :
                    (\A u \in Threads : u = v \/ Outside(frames'[u], o))
                      => Innermost(m_currentSender'[o], v, frames'[v], Len(frames'[v]), o)
    BY <1>1, <1>4, <1>7, <2>1, UntouchedKeeps DEF SenderInv
  <2>2. ASSUME NEW v \in Threads, \A u \in Threads : u = v \/ Outside(frames'[u], r)
        PROVE  Innermost(m_currentSender'[r], v, frames'[v], Len(frames'[v]), r)
    <3>1. v = t
      BY <1>3, <1>5, <2>2
    <3>2. \A x \in n + 1 .. n : ~In(h, x, r)
      BY <1>2
    <3>3. Innermost(<<t, n>>, t, h, n, r)
      BY <1>2, <1>5, <3>2 DEF Innermost
    <3> QED BY <1>1, <1>3, <1>4, <3>1, <3>3
  <2>3. ~(\A u \in Threads : Outside(frames'[u], r))
    BY <1>3, <1>5
  <2> QED BY <2>1, <2>2, <2>3 DEF CurrentIsInnermost, OnlyIn, Depth
<1>9. PrevIsInnermost'
  <2> DEFINE e == m_currentSender[r]
             f == frames[t]
  <2>1. Innermost(e, t, f, n, r)
    BY <1>2, <1>6 DEF SenderInv, CurrentIsInnermost, OnlyIn, n
  <2>2. \A d \in 1 .. n - 1 : In(f, d, r) <=> In(h, d, r)
    BY <1>1 DEF In
  <2>3. /\ \A d \in (n - 1) + 1 .. n : ~In(f, d, r)
        /\ \A d \in (n - 1) + 1 .. n - 1 : ~In(h, d, r)
    <3>1. \A d \in (n - 1) + 1 .. n : d = n
      BY <1>2
    <3> QED BY <1>2, <3>1 DEF In
  <2> HIDE DEF e, f
  <2>4. Innermost(e, t, h, n - 1, r)
    <3>1. n - 1 <= n /\ n - 1 <= n - 1
      BY <1>2
    <3> QED BY <1>2, <2>1, <2>2, <2>3, <3>1, SameInnermost
  <2>5. \A d \in (n - 1) + 1 .. Len(h) : Innermost(h[d].prev, t, h, d - 1, h[d].to)
    <3>1. \A d \in (n - 1) + 1 .. Len(h) : d = n
      BY <1>1, <1>2
    <3>2. h[n].prev = e /\ h[n].to = r
      BY <1>1 DEF e, r
    <3> QED BY <2>4, <3>1, <3>2
  <2>6. n - 1 <= Depth(t) /\ n - 1 <= Len(h)
    BY <1>1, <1>2 DEF n
  <2> QED BY <1>1, <1>2, <2>5, <2>6, LowerKeep DEF SenderInv
<1> QED BY <1>8, <1>9 DEF SenderInv

LEMMA LeavesKeeps ==
  ASSUME TypeOK, SenderInv, OneAtATime, NEW t \in Threads, Leaves(t)
  PROVE  SenderInv'
<1> DEFINE n == Depth(t)
           r == Top(t).to
           e == Top(t).prev
           f == frames[t]
<1>1. PICK h :
         /\ Stacks(t, h) /\ n > 0 /\ Len(h) = n /\ Top(t).stage = "slot"
         /\ \A d \in 1 .. n - 1 : h[d] = f[d]
         /\ h[n].stage = "next" /\ r \in Objects
         /\ m_currentSender' = [m_currentSender EXCEPT ![r] = e]
  BY DEF Leaves, Replaces
<1>2. /\ n \in Nat /\ n - 1 \in Nat /\ n \in 1 .. n /\ (n - 1) + 1 = n
      /\ n = Len(f) /\ f[n].stage = "slot" /\ f[n].to = r /\ f[n].prev = e
  BY <1>1, TopType DEF Depth, Top
<1>3. frames'[t] = h /\ \A u \in Threads : u # t => frames'[u] = frames[u]
  BY <1>1 DEF Stacks, TypeOK, ObjectsTyped
<1>4. /\ m_currentSender'[r] = e
      /\ \A o \in Objects : o # r => m_currentSender'[o] = m_currentSender[o]
  BY <1>1 DEF TypeOK, ObjectsTyped
<1>5. In(f, n, r) /\ ~Outside(f, r) /\ \A o : o # r => ~In(f, n, o)
  BY <1>2 DEF In, Outside
<1>6. \A u \in Threads : u # t => Outside(frames[u], r)
  BY <1>1, <1>5 DEF OneAtATime
<1>7. Innermost(e, t, f, n - 1, r)
  BY <1>2 DEF SenderInv, PrevIsInnermost
<1> HIDE DEF n, r, e, f
<1>8. \A o : /\ ~In(h, n, o)
             /\ \A d \in 1 .. n - 1 : In(f, d, o) <=> In(h, d, o)
  BY <1>1 DEF In
<1>9. \A d \in (n - 1) + 1 .. n : d = n
  <2>1. n \in Int /\ (n - 1) + 1 = n
    BY <1>2
  <2> QED BY <2>1
<1>10. ASSUME NEW o \in Objects, o # r
       PROVE  Untouched(t, h, n - 1, o)
  BY <1>1, <1>2, <1>5, <1>8, <1>9, <1>10 DEF Untouched, n, f
<1>11. Innermost(e, t, h, n, r)
  <2>1. n - 1 <= n - 1 /\ n - 1 <= n /\ \A d \in (n - 1) + 1 .. n - 1 : ~In(f, d, r)
    BY <1>2
  <2>2. \A d \in (n - 1) + 1 .. n : ~In(h, d, r)
    BY <1>8, <1>9
  <2> QED BY <1>2, <1>7, <1>8, <2>1, <2>2, SameInnermost
<1>12. Outside(h, r) => e = NoEmission
  BY <1>1, <1>2, <1>11 DEF Innermost, Outside
<1>13. CurrentIsInnermost'
  <2>1. ASSUME NEW o \in Objects, o # r
        PROVE  /\ (\A u \in Threads : Outside(frames'[u], o))
                    => m_currentSender'[o] = NoEmission
               /\ \A v \in Threads :
                    (\A u \in Threads : u = v \/ Outside(frames'[u], o))
                      => Innermost(m_currentSender'[o], v, frames'[v], Len(frames'[v]), o)
    BY <1>1, <1>4, <1>10, <2>1, UntouchedKeeps DEF SenderInv
  <2>2. ASSUME NEW v \in Threads, \A u \in Threads : u = v \/ Outside(frames'[u], r)
        PROVE  Innermost(m_currentSender'[r], v, frames'[v], Len(frames'[v]), r)
    <3>1. CASE v = t
      BY <1>1, <1>3, <1>4, <1>11, <3>1
    <3>2. CASE v # t
      <4>1. e = NoEmission
        BY <1>3, <1>12, <2>2, <3>2
      <4>2. Outside(frames'[v], r)
        BY <1>3, <1>6, <3>2
      <4> QED BY <1>4, <4>1, <4>2 DEF Innermost, Outside
    <3> QED BY <3>1, <3>2
  <2>3. (\A u \in Threads : Outside(frames'[u], r)) => m_currentSender'[r] = NoEmission
    BY <1>3, <1>4, <1>12
  <2> QED BY <2>1, <2>2, <2>3 DEF CurrentIsInnermost, OnlyIn, Depth
<1>14. PrevIsInnermost'
  <2>1. /\ n - 1 <= Depth(t) /\ n - 1 <= Len(h)
        /\ \A d \in 1 .. n - 1 : h[d] = frames[t][d]
    BY <1>1, <1>2 DEF n, f
  <2>2. \A d \in (n - 1) + 1 .. Len(h) : h[d].stage # "slot"
    BY <1>1, <1>9
  <2> QED BY <1>1, <1>2, <2>1, <2>2, LowerKeep DEF SenderInv
<1> QED BY <1>13, <1>14 DEF SenderInv

LEMMA SenderStep ==
  ASSUME TypeOK, SenderInv, OneAtATime, OneAtATime', [Next]_vars
  PROVE  SenderInv'
<1>1. StackStep
  BY StacksStep
<1>2. CASE frames' = frames /\ m_currentSender' = m_currentSender
  BY <1>2 DEF SenderInv, CurrentIsInnermost, OnlyIn, PrevIsInnermost, Depth
<1> QED BY <1>1, <1>2, QuietKeeps, EntersKeeps, LeavesKeeps DEF StackStep

(* An emission begins below the bound and is pushed at the end of its call. *)
LEMMA DepthStep ==
  ASSUME TypeOK, DepthBounded, [Next]_vars
  PROVE  DepthBounded'
<1> USE DEF Depth
<1>1. \A t \in Threads : Len(frames[t]) \in Nat
  BY TopType
<1>2. ASSUME NEW t \in Threads, ConnectCall(t) \/ DisconnectCall(t) \/ EmitCall(t)
      PROVE  DepthBounded'
  <2>1. PICK c \in ConnectCalls \cup DisconnectCalls \cup EmitCalls :
          Begin(t, c) /\ (c.op = "emit" => Depth(t) < MaxDepth)
    BY <1>2, CallBegins
  <2> QED BY <2>1 DEF Begin, DepthBounded, TypeOK, CallsTyped
<1>3. ASSUME NEW t \in Threads,
             \/ BlockSignals(t) \/ Destroy(t) \/ LockFirst(t)
             \/ ConnectSearch(t) /\ ~Release(t)
      PROVE  DepthBounded'
  BY <1>3 DEF BlockSignals, Destroy, LockFirst, ConnectSearch, locks, DepthBounded
<1>4. ASSUME NEW t \in Threads,
             Connect(t) \/ Disconnect(t) \/ (ConnectSearch(t) /\ Release(t))
      PROVE  DepthBounded'
  <2>1. frames' = frames /\ call' = [call EXCEPT ![t] = NoCall] /\ NoCall.op # "emit"
    BY <1>4 DEF Connect, ConnectSearch, Disconnect, Release, NoCall
  <2> QED BY <2>1 DEF DepthBounded, TypeOK, CallsTyped
<1>5. ASSUME NEW t \in Threads, EmitCopy(t)
      PROVE  DepthBounded'
  <2>1. call' = [call EXCEPT ![t] = NoCall] /\ NoCall.op # "emit" /\ call[t].op = "emit"
    BY <1>5 DEF EmitCopy, Release, NoCall
  <2>2. frames \in [Threads -> Seq(Frames)] /\ call \in [Threads -> Calls]
    BY DEF TypeOK, ObjectsTyped, CallsTyped
  <2>3. CASE frames' = frames
    BY <2>1, <2>2, <2>3 DEF DepthBounded
  <2>4. CASE Pushes(t)
    <3>1. PICK h : frames' = [frames EXCEPT ![t] = h] /\ Len(h) = Len(frames[t]) + 1
      BY <2>4 DEF Pushes, Stacks
    <3>2. frames'[t] = h /\ \A u \in Threads : u # t => frames'[u] = frames[u]
      BY <2>2, <3>1
    <3>3. Len(frames[t]) < MaxDepth
      BY <2>1 DEF DepthBounded
    <3> QED BY <1>1, <2>1, <2>2, <3>1, <3>2, <3>3, ObjectAssumption DEF DepthBounded
  <2> QED BY <1>5, <2>3, <2>4, EmitCopyStack
<1>6. ASSUME NEW t \in Threads, EmitEnd(t) \/ EmitSkip(t) \/ SlotCall(t) \/ SlotReturn(t)
      PROVE  DepthBounded'
  <2>1. call' = call
    BY <1>6 DEF EmitEnd, EmitSkip, SlotCall, SlotReturn, locks
  <2>2. \E h : Stacks(t, h) /\ Len(h) <= Len(frames[t])
    BY <1>1, <1>6, EmitEndStack, EmitSkipStack, SlotCallStack, SlotReturnStack
       DEF Pops, Skips, Enters, Leaves, Replaces
  <2>3. PICK h : Stacks(t, h) /\ Len(h) <= Len(frames[t])
    BY <2>2
  <2>4. frames'[t] = h /\ Len(h) \in Nat /\ \A u \in Threads : u # t => frames'[u] = frames[u]
    BY <2>3, LenProperties DEF Stacks, TypeOK, ObjectsTyped
  <2> QED BY <1>1, <2>1, <2>3, <2>4, ObjectAssumption DEF DepthBounded
<1> QED BY <1>2, <1>3, <1>4, <1>5, <1>6
        DEF Next, CallStep, RunStep, vars, locks, DepthBounded

LEMMA InnermostFollows ==
  ASSUME TypeOK, SenderInv, DepthBounded, OneAtATime
  PROVE  InnermostSender
<1> SUFFICES ASSUME NEW o \in alive
             PROVE  IF Inside(o) = {} THEN m_currentSender[o] = NoEmission
                    ELSE \E e \in Inside(o) :
                           m_currentSender[o] = e /\ \A x \in Inside(o) : x[2] <= e[2]
  BY DEF InnermostSender
<1>1. o \in Objects
  BY DEF TypeOK, ObjectsTyped
<1>2. \A t \in Threads : Depth(t) \in Nat /\ Depth(t) <= MaxDepth /\ Depth(t) = Len(frames[t])
  BY TopType DEF DepthBounded, Depth
<1>3. ASSUME NEW t \in Threads, NEW d \in 1 .. Depth(t), In(frames[t], d, o)
      PROVE  <<t, d>> \in Inside(o)
  <2>1. d \in 1 .. MaxDepth /\ d <= Depth(t)
    BY <1>2, ObjectAssumption
  <2>2. <<t, d>> \in {<<u, x>> : u \in Threads, x \in 1 .. MaxDepth}
    BY <2>1
  <2> QED BY <1>3, <2>1, <2>2 DEF Inside, In
<1>4. ASSUME NEW e \in Inside(o)
      PROVE  \E t \in Threads : \E d \in 1 .. Depth(t) : e = <<t, d>> /\ In(frames[t], d, o)
  <2>1. PICK t \in Threads, d \in 1 .. MaxDepth : e = <<t, d>>
    BY DEF Inside
  <2>2. e[1] = t /\ e[2] = d
    BY <2>1
  <2>3. d <= Depth(t) /\ In(frames[t], d, o)
    BY <2>2 DEF Inside, In
  <2>4. d \in 1 .. Depth(t)
    BY <1>2, <2>3
  <2> QED BY <2>1, <2>3, <2>4
<1>5. CASE Inside(o) = {}
  <2>1. \A u \in Threads : Outside(frames[u], o)
    BY <1>2, <1>3, <1>5 DEF Outside
  <2> QED BY <1>1, <1>5, <2>1 DEF SenderInv, CurrentIsInnermost
<1>6. CASE Inside(o) # {}
  <2>1. PICK t \in Threads : \E d \in 1 .. Depth(t) : In(frames[t], d, o)
    BY <1>4, <1>6
  <2>2. ~Outside(frames[t], o)
    BY <1>2, <2>1 DEF Outside
  <2>3. OnlyIn(t, o)
    BY <1>1, <2>2 DEF OneAtATime, OnlyIn
  <2>4. Innermost(m_currentSender[o], t, frames[t], Depth(t), o)
    BY <1>1, <2>3 DEF SenderInv, CurrentIsInnermost
  <2>5. PICK k \in 1 .. Depth(t) : /\ m_currentSender[o] = <<t, k>> /\ In(frames[t], k, o)
                                   /\ \A x \in k + 1 .. Depth(t) : ~In(frames[t], x, o)
    BY <2>1, <2>4 DEF Innermost
  <2>6. <<t, k>> \in Inside(o) /\ <<t, k>>[2] = k
    BY <1>3, <2>5
  <2>7. ASSUME NEW x \in Inside(o) PROVE x[2] <= k
    <3>0. PICK u \in Threads :
            \E y \in 1 .. Depth(u) : x = <<u, y>> /\ In(frames[u], y, o)
      BY <1>4
    <3>1. PICK y \in 1 .. Depth(u) : x = <<u, y>> /\ In(frames[u], y, o)
      BY <3>0
    <3>2. u = t
      BY <1>2, <2>3, <3>1 DEF OnlyIn, Outside
    <3>3. y <= k
      BY <1>2, <2>5, <3>1, <3>2
    <3> QED BY <3>1, <3>3
  <2> QED BY <1>6, <2>5, <2>6, <2>7
<1> QED BY <1>5, <1>6

(* While one thread at a time is in slots of an object, its current sender is the innermost
   emission that is in one: however threads and slots emit, block, connect and disconnect,
   ~XSender restores what XSender found. *)
THEOREM SenderAlwaysInnermost == Spec /\ []OneAtATime => []InnermostSender
<1>1. Init => SenderInv /\ DepthBounded
  <2> SUFFICES ASSUME Init PROVE SenderInv /\ DepthBounded
    OBVIOUS
  <2>1. \A t \in Threads : frames[t] = <<>> /\ call[t] = NoCall /\ Len(frames[t]) = 0
    BY DEF Init
  <2>2. DepthBounded
    BY <2>1, ObjectAssumption DEF DepthBounded, Depth, NoCall
  <2>3. PrevIsInnermost
    BY <2>1 DEF PrevIsInnermost, Depth
  <2>4. \A o \in Objects : m_currentSender[o] = NoEmission
    BY DEF Init
  <2>5. CurrentIsInnermost
    BY <2>1, <2>4 DEF CurrentIsInnermost, Innermost, Depth
  <2> QED BY <2>2, <2>3, <2>5 DEF SenderInv
<1>2. /\ TypeOK /\ SenderInv /\ DepthBounded /\ OneAtATime /\ OneAtATime' /\ [Next]_vars
      => SenderInv' /\ DepthBounded'
  BY SenderStep, DepthStep
<1>3. TypeOK /\ SenderInv /\ DepthBounded /\ OneAtATime => InnermostSender
  BY InnermostFollows
<1> QED BY <1>1, <1>2, <1>3, TypeCorrect, PTL DEF Spec
=============================================================================
