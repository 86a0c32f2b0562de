-------------------------- MODULE XOwnershipProofs --------------------------
(***************************************************************************)
(* Who owns what, in five components that do not interact here: the free   *)
(* list of blocks (XBlockPool), the counters of weak pointers (XPointer),  *)
(* two-phase construction (XMemory), queues that are moved (XQueueMove)    *)
(* and the results of a task (XResult), for any threads and any number of  *)
(* operations.                                                             *)
(*                                                                         *)
(* Each block of the pool is in one place at a time, and its count is the  *)
(* number of threads that hold a reference, and one more while it is in    *)
(* the list or on its way in or out.  That count being positive is all     *)
(* that a stale head can rely on: while it is, the next pointer stands.    *)
(*                                                                         *)
(* The counters of an object are counted by the XPointers that are left    *)
(* and by the object; counters that some thread is only making are its     *)
(* own, and were never deleted.                                            *)
(*                                                                         *)
(* Each piece of memory is in one place at a time; the thread that makes   *)
(* the singleton is alone, and before it is done nobody has an answer.     *)
(*                                                                         *)
(* The tables that lead back from the head of a queue end with the one     *)
(* that is a member of that queue, and those of two queues have no table   *)
(* in common, wherever moves and swaps put the heads.                      *)
(*                                                                         *)
(* The number of a run is held by one worker or is the value of one shared *)
(* state, whose future one client has.  A client that is alone with the    *)
(* task and takes each result before it joins again gets its own, and no   *)
(* call ends the program.                                                  *)
(***************************************************************************)
EXTENDS XOwnership, XResult, Totals

Threaded == IsFiniteSet(Users) /\ PoolSize \in Nat /\ MaxAllocated \in Nat

-----------------------------------------------------------------------------
(* What a thread can be doing *)
Heads == PoolBlocks \cup {None}

Resumes ==
  {Idle} \cup [pc : {"create"}, head : {None}] \cup [pc : {"refs"}, head : PoolBlocks]

UserStates ==
  [pc : {"idle", "pool", "try_get"}]
    \cup [pc : {"create"}, head : {None}]
    \cup [pc : {"refs", "try_get", "popped"}, head : PoolBlocks]
    \cup [pc : {"ref", "next", "try_get"}, head : PoolBlocks, refs : Nat \ {0}, bit : BOOLEAN]
    \cup [pc : {"pop"}, head : PoolBlocks, next : Heads]
    \cup [pc : {"drop"}, prevHead : PoolBlocks, head : Heads]
    \cup [pc : {"add"}, node : PoolBlocks, resume : Resumes]
    \cup [pc : {"store", "one", "push", "undo"}, node : PoolBlocks, resume : Resumes, head : Heads]

PoolTypes ==
  /\ user \in [Users -> UserStates]
  /\ owned \in [Users -> SUBSET (PoolBlocks \cup Allocatable)]
  /\ freeListHead \in Heads /\ freeListNext \in [PoolBlocks -> Heads]
  /\ freeListRefs \in [PoolBlocks -> Nat] /\ shouldBeOn \in [PoolBlocks -> BOOLEAN]
  /\ initialBlockPoolIndex \in Nat /\ initialBlockPoolSize \in {0, PoolSize}
  /\ allocated \subseteq Allocatable

(* what a thread has to do with a block *)
RefersTo(u, b) ==
  \/ u.pc \in {"next", "pop", "popped"} /\ u.head = b
  \/ u.pc = "drop" /\ u.prevHead = b
Pops(u, b) == u.pc = "popped" /\ u.head = b
Prepares(u, b) == u.pc \in {"add", "store", "one"} /\ u.node = b
Pushes(u, b) == u.pc \in {"push", "undo"} /\ u.node = b

Holders(b) == {t \in Users : RefersTo(user[t], b)}
GivenOut(b) == b <= initialBlockPoolIndex /\ b <= initialBlockPoolSize

(* the places of a block, and of which thread *)
Kinds == {"pool", "owned", "listed", "popped", "prepared", "pushed", "waits"}
Counted(k) == IF k \in {"popped", "pushed", "listed"} THEN 1 ELSE 0

BlockInv(b, k, w) ==
  /\ \A t \in Users :
       /\ b \in owned[t] <=> k = "owned" /\ w = t
       /\ Pops(user[t], b) <=> k = "popped" /\ w = t
       /\ Prepares(user[t], b) <=> k = "prepared" /\ w = t
       /\ Pushes(user[t], b) <=> k = "pushed" /\ w = t
  /\ GivenOut(b) <=> k # "pool"
  /\ freeListRefs[b] = Cardinality(Holders(b)) + Counted(k)
  /\ shouldBeOn[b] <=> k \in {"waits", "prepared"}
  /\ k \in {"pool", "prepared"} => Holders(b) = {}
  /\ k = "waits" => Holders(b) # {}
  /\ k \in {"owned", "popped", "prepared", "pushed"} => w \in Users

(* the list is a stack: a block has as many below it as its depth says *)
StackInv(kind, depth) ==
  /\ freeListHead = None => \A b \in PoolBlocks : kind[b] # "listed"
  /\ freeListHead # None => kind[freeListHead] = "listed"
  /\ \A b \in PoolBlocks : kind[b] = "listed" =>
       /\ 1 <= depth[b] /\ depth[b] <= depth[freeListHead]
       /\ depth[b] = 1 => freeListNext[b] = None
       /\ depth[b] > 1 => /\ freeListNext[b] # None /\ kind[freeListNext[b]] = "listed"
                          /\ depth[freeListNext[b]] = depth[b] - 1
       /\ \A c \in PoolBlocks : kind[c] = "listed" /\ depth[c] = depth[b] => c = b
  /\ Cardinality({b \in PoolBlocks : kind[b] = "listed"})
       = IF freeListHead = None THEN 0 ELSE depth[freeListHead]

(* what a thread has read still stands *)
Reads(t) ==
  /\ user[t].pc = "pop" => user[t].next = freeListNext[user[t].head]
  /\ user[t].pc \in {"one", "push"} => freeListNext[user[t].node] = user[t].head

AllocInv ==
  /\ \A t \in Users : owned[t] \cap Allocatable \subseteq allocated
  /\ \A t, u \in Users : t # u => owned[t] \cap owned[u] \cap Allocatable = {}

Places(kind, by, depth) ==
  /\ \A b \in PoolBlocks : BlockInv(b, kind[b], by[b])
  /\ StackInv(kind, depth)

PoolInv ==
  /\ PoolTypes
  /\ \A t \in Users : Reads(t)
  /\ AllocInv
  /\ \E kind \in [PoolBlocks -> Kinds], by \in [PoolBlocks -> Users \cup {None}],
        depth \in [PoolBlocks -> Nat] : Places(kind, by, depth)

-----------------------------------------------------------------------------
(* A thread changes what it does *)
LEMMA PoolIsNat == ASSUME Threaded PROVE PoolBlocks \subseteq Nat \ {0} /\ None \notin PoolBlocks
BY DEF Threaded, PoolBlocks, None

LEMMA HoldersChange ==
  ASSUME Threaded, NEW t \in Users, NEW x, DOMAIN user = Users, user' = [user EXCEPT ![t] = x], NEW b
  PROVE  /\ Cardinality(Holders(b)) \in Nat /\ (Cardinality(Holders(b)) = 0 <=> Holders(b) = {})
         /\ (RefersTo(x, b) <=> RefersTo(user[t], b)) => Holders(b)' = Holders(b)
         /\ RefersTo(x, b) /\ ~RefersTo(user[t], b) =>
              /\ Holders(b)' = Holders(b) \cup {t} /\ Holders(b)' # {}
              /\ Cardinality(Holders(b)') = Cardinality(Holders(b)) + 1
         /\ ~RefersTo(x, b) /\ RefersTo(user[t], b) =>
              /\ Holders(b)' = Holders(b) \ {t} /\ t \in Holders(b)
              /\ Cardinality(Holders(b)') = Cardinality(Holders(b)) - 1
              /\ Cardinality(Holders(b)') = 0 <=> Holders(b)' = {}
<1>1. /\ IsFiniteSet(Holders(b)) /\ Cardinality(Holders(b)) \in Nat
      /\ Cardinality(Holders(b)) = 0 <=> Holders(b) = {}
  BY FS_Subset, FS_CardinalityType, FS_EmptySet DEF Holders, Threaded
<1>2. \A u \in Users : user'[u] = IF u = t THEN x ELSE user[u]
  OBVIOUS
<1>3. Holders(b)' = {u \in Users : RefersTo(user'[u], b)}
  BY DEF Holders, RefersTo
<1>4. \A u \in Users \ {t} : RefersTo(user'[u], b) <=> RefersTo(user[u], b)
  BY <1>2
<1>5. RefersTo(user'[t], b) <=> RefersTo(x, b)
  BY <1>2
<1>6. CASE RefersTo(x, b) <=> RefersTo(user[t], b)
  BY <1>1, <1>3, <1>4, <1>5, <1>6 DEF Holders
<1>7. CASE RefersTo(x, b) /\ ~RefersTo(user[t], b)
  <2>1. Holders(b)' = Holders(b) \cup {t} /\ t \notin Holders(b)
    BY <1>3, <1>4, <1>5, <1>7 DEF Holders
  <2>2. Cardinality(Holders(b) \cup {t}) = Cardinality(Holders(b)) + 1
    BY <1>1, <2>1, FS_AddElement
  <2> QED BY <1>1, <1>7, <2>1, <2>2
<1>8. CASE ~RefersTo(x, b) /\ RefersTo(user[t], b)
  <2>1. Holders(b)' = Holders(b) \ {t} /\ t \in Holders(b)
    BY <1>3, <1>4, <1>5, <1>8 DEF Holders
  <2>2. Cardinality(Holders(b) \ {t}) = Cardinality(Holders(b)) - 1
    BY <1>1, <2>1, FS_RemoveElement
  <2>3. IsFiniteSet(Holders(b) \ {t})
    BY <1>1, FS_Subset
  <2>4. Cardinality(Holders(b) \ {t}) = 0 <=> Holders(b) \ {t} = {}
    BY <2>3, FS_EmptySet
  <2> QED BY <1>1, <1>8, <2>1, <2>2, <2>4
<1> QED BY <1>6, <1>7, <1>8

(* the same as before, to this block *)
SameTo(u, x, b) ==
  /\ RefersTo(x, b) <=> RefersTo(u, b)
  /\ Pops(x, b) <=> Pops(u, b)
  /\ Prepares(x, b) <=> Prepares(u, b)
  /\ Pushes(x, b) <=> Pushes(u, b)

LEMMA BlockFrame ==
  ASSUME Threaded, NEW t \in Users, NEW x, DOMAIN user = Users, user' = [user EXCEPT ![t] = x],
         NEW b, NEW k, NEW w, BlockInv(b, k, w), SameTo(user[t], x, b),
         \A u \in Users : b \in owned'[u] <=> b \in owned[u],
         freeListRefs'[b] = freeListRefs[b], shouldBeOn'[b] = shouldBeOn[b],
         GivenOut(b)' <=> GivenOut(b)
  PROVE  BlockInv(b, k, w)'
<1>1. \A u \in Users : user'[u] = IF u = t THEN x ELSE user[u]
  OBVIOUS
<1>2. Holders(b)' = Holders(b)
  BY HoldersChange DEF SameTo
<1>3. ASSUME NEW u \in Users
      PROVE  /\ Pops(user'[u], b) <=> Pops(user[u], b)
             /\ Prepares(user'[u], b) <=> Prepares(user[u], b)
             /\ Pushes(user'[u], b) <=> Pushes(user[u], b)
  BY <1>1 DEF SameTo
<1>4. \A u \in Users :
        /\ b \in owned'[u] <=> k = "owned" /\ w = u
        /\ Pops(user'[u], b) <=> k = "popped" /\ w = u
        /\ Prepares(user'[u], b) <=> k = "prepared" /\ w = u
        /\ Pushes(user'[u], b) <=> k = "pushed" /\ w = u
  BY <1>3 DEF BlockInv
<1> QED BY <1>2, <1>4 DEF BlockInv, Pops, Prepares, Pushes

-----------------------------------------------------------------------------
(* The list *)
LEMMA StackFrame ==
  ASSUME Threaded, NEW kind, NEW depth, StackInv(kind, depth), NEW other,
         freeListHead \in Heads, freeListHead' = freeListHead,
         freeListNext \in [PoolBlocks -> Heads],
         \A b \in PoolBlocks : other[b] = "listed" <=> kind[b] = "listed",
         \A b \in PoolBlocks : kind[b] = "listed" => freeListNext'[b] = freeListNext[b]
  PROVE  StackInv(other, depth)'
<1>1. {b \in PoolBlocks : other[b] = "listed"} = {b \in PoolBlocks : kind[b] = "listed"}
  OBVIOUS
<1>2. ASSUME NEW b \in PoolBlocks, other[b] = "listed"
      PROVE  /\ 1 <= depth[b] /\ depth[b] <= depth[freeListHead']
             /\ depth[b] = 1 => freeListNext'[b] = None
             /\ depth[b] > 1 => /\ freeListNext'[b] # None /\ other[freeListNext'[b]] = "listed"
                                /\ depth[freeListNext'[b]] = depth[b] - 1
             /\ \A c \in PoolBlocks : other[c] = "listed" /\ depth[c] = depth[b] => c = b
  BY <1>2 DEF StackInv, Heads
<1> QED BY <1>1, <1>2 DEF StackInv, Heads

LEMMA StackPopped ==
  ASSUME Threaded, NEW kind, NEW depth \in [PoolBlocks -> Nat], StackInv(kind, depth), NEW other,
         freeListHead \in PoolBlocks, freeListHead' = freeListNext[freeListHead],
         freeListNext \in [PoolBlocks -> Heads], freeListNext' = freeListNext,
         \A b \in PoolBlocks : other[b] = "listed" <=> kind[b] = "listed" /\ b # freeListHead
  PROVE  StackInv(other, depth)'
<1> DEFINE h == freeListHead
           S == {b \in PoolBlocks : kind[b] = "listed"}
<1>0. None \notin PoolBlocks /\ PoolBlocks \subseteq Nat
  BY PoolIsNat
<1>1. h \in S /\ depth[h] \in Nat /\ 1 <= depth[h]
  BY <1>0 DEF StackInv
<1>2. {b \in PoolBlocks : other[b] = "listed"} = S \ {h}
  OBVIOUS
<1>3. IsFiniteSet(S) /\ Cardinality(S) = depth[h]
  <2>1. IsFiniteSet(PoolBlocks)
    BY FS_Interval DEF PoolBlocks, Threaded
  <2> QED BY <1>0, <2>1, FS_Subset DEF StackInv
<1>4. Cardinality(S \ {h}) = depth[h] - 1
  BY <1>1, <1>3, FS_RemoveElement
<1>5. depth[h] = 1 => freeListNext[h] = None
  BY <1>1 DEF StackInv
<1>6. depth[h] > 1 => /\ freeListNext[h] # None /\ freeListNext[h] \in PoolBlocks
                      /\ kind[freeListNext[h]] = "listed"
                      /\ depth[freeListNext[h]] = depth[h] - 1
  BY <1>1 DEF StackInv, Heads
<1>7. \A b \in S \ {h} : depth[b] \in Nat /\ 1 <= depth[b] /\ depth[b] <= depth[h] - 1
  BY <1>1 DEF StackInv
<1>8. CASE depth[h] = 1
  <2>1. S \ {h} = {}
    BY <1>7, <1>8
  <2>2. freeListHead' = None /\ (\A b \in PoolBlocks : other[b] # "listed")
    BY <1>2, <1>5, <1>8, <2>1
  <2>3. Cardinality({b \in PoolBlocks : other[b] = "listed"}) = 0
    <3>1. Cardinality(S \ {h}) = 0
      BY <1>4, <1>8
    <3> QED BY <1>2, <3>1, Zenon
  <2> QED BY <2>2, <2>3 DEF StackInv
<1>9. CASE depth[h] > 1
  <2>1. freeListHead' # None /\ other[freeListHead'] = "listed" /\ depth[freeListHead'] = depth[h] - 1
    BY <1>1, <1>6, <1>9
  <2>2. ASSUME NEW b \in PoolBlocks, other[b] = "listed"
        PROVE  /\ 1 <= depth[b] /\ depth[b] <= depth[freeListHead']
               /\ depth[b] = 1 => freeListNext[b] = None
               /\ depth[b] > 1 => /\ freeListNext[b] # None /\ other[freeListNext[b]] = "listed"
                                  /\ depth[freeListNext[b]] = depth[b] - 1
               /\ \A c \in PoolBlocks : other[c] = "listed" /\ depth[c] = depth[b] => c = b
    <3>1. b \in S \ {h} /\ depth[b] \in Nat /\ 1 <= depth[b] /\ depth[b] <= depth[h] - 1
      BY <1>7, <2>2
    <3>2. depth[b] > 1 => /\ freeListNext[b] # None /\ freeListNext[b] \in PoolBlocks
                          /\ kind[freeListNext[b]] = "listed"
                          /\ depth[freeListNext[b]] = depth[b] - 1
      BY <3>1 DEF StackInv, Heads
    <3>3. depth[b] > 1 => freeListNext[b] # h
      BY <1>1, <3>1, <3>2
    <3> QED BY <2>1, <3>1, <3>2, <3>3 DEF StackInv
  <2> QED BY <1>2, <1>4, <2>1, <2>2 DEF StackInv
<1> QED BY <1>1, <1>8, <1>9

LEMMA StackPushed ==
  ASSUME Threaded, NEW kind, NEW depth \in [PoolBlocks -> Nat], StackInv(kind, depth), NEW other,
         NEW b \in PoolBlocks, kind[b] # "listed", freeListHead \in Heads, freeListHead' = b,
         freeListNext \in [PoolBlocks -> Heads], freeListNext' = freeListNext,
         freeListNext[b] = freeListHead,
         \A c \in PoolBlocks : other[c] = "listed" <=> kind[c] = "listed" \/ c = b
  PROVE  \E deeper \in [PoolBlocks -> Nat] : StackInv(other, deeper)'
<1> DEFINE h == freeListHead
           S == {c \in PoolBlocks : kind[c] = "listed"}
           n == IF h = None THEN 0 ELSE depth[h]
<1>0. None \notin PoolBlocks /\ PoolBlocks \subseteq Nat
  BY PoolIsNat
<1>1. n \in Nat
  BY DEF Heads
<1>11. PICK deeper \in [PoolBlocks -> Nat] : deeper = [depth EXCEPT ![b] = n + 1]
  <2>1. [depth EXCEPT ![b] = n + 1] \in [PoolBlocks -> Nat]
    BY <1>1
  <2> HIDE DEF n
  <2> QED BY <2>1
<1>2. {c \in PoolBlocks : other[c] = "listed"} = S \cup {b} /\ b \notin S
  OBVIOUS
<1>3. IsFiniteSet(S) /\ Cardinality(S) = n
  <2>1. IsFiniteSet(PoolBlocks)
    BY FS_Interval DEF PoolBlocks, Threaded
  <2> QED BY <2>1, FS_Subset DEF StackInv
<1>4. Cardinality(S \cup {b}) = n + 1
  BY <1>2, <1>3, FS_AddElement
<1>5. ASSUME NEW c \in S
      PROVE  /\ c # b /\ h # None /\ deeper[c] = depth[c] /\ 1 <= depth[c] /\ depth[c] <= n
             /\ depth[c] = 1 => freeListNext[c] = None
             /\ depth[c] > 1 => /\ freeListNext[c] # None /\ kind[freeListNext[c]] = "listed"
                                /\ freeListNext[c] \in PoolBlocks
                                /\ depth[freeListNext[c]] = depth[c] - 1
             /\ \A d \in PoolBlocks : kind[d] = "listed" /\ depth[d] = depth[c] => d = c
  BY <1>2, <1>11 DEF StackInv, Heads
<1>6. deeper[b] = n + 1
  BY <1>11
<1>7. h # None => h \in S /\ h # b /\ deeper[h] = n
  BY <1>5, <1>11 DEF StackInv, Heads
<1>8. n = 0 => h = None
  BY <1>5, <1>7
<1> HIDE DEF n
<1>9. ASSUME NEW c \in PoolBlocks, other[c] = "listed"
      PROVE  /\ 1 <= deeper[c] /\ deeper[c] <= deeper[b]
             /\ deeper[c] = 1 => freeListNext[c] = None
             /\ deeper[c] > 1 => /\ freeListNext[c] # None /\ other[freeListNext[c]] = "listed"
                                 /\ deeper[freeListNext[c]] = deeper[c] - 1
             /\ \A d \in PoolBlocks : other[d] = "listed" /\ deeper[d] = deeper[c] => d = c
  <2>1. CASE c = b
    <3>1. deeper[c] = 1 => freeListNext[c] = None
      BY <1>1, <1>6, <1>8, <2>1
    <3>2. deeper[c] > 1 => h # None
      BY <1>1, <1>6, <1>7, <2>1 DEF n
    <3>3. \A d \in S : deeper[d] <= n
      BY <1>5
    <3>4. \A d \in PoolBlocks : other[d] = "listed" /\ deeper[d] = deeper[c] => d = c
      BY <1>1, <1>6, <2>1, <3>3
    <3> QED BY <1>1, <1>6, <1>7, <2>1, <3>1, <3>2, <3>4
  <2>2. CASE c # b
    <3>1. c \in S
      BY <1>9, <2>2
    <3>2. freeListNext[c] \in PoolBlocks /\ kind[freeListNext[c]] = "listed" =>
            freeListNext[c] \in S /\ deeper[freeListNext[c]] = depth[freeListNext[c]]
      BY <1>5
    <3>3. \A d \in S : deeper[d] = depth[d]
      BY <1>5
    <3>4. deeper[c] # n + 1 /\ depth[c] \in Nat
      BY <1>1, <1>5, <3>1
    <3>5. \A d \in PoolBlocks : other[d] = "listed" /\ deeper[d] = deeper[c] => d = c
      BY <1>5, <1>6, <3>1, <3>3, <3>4
    <3> QED BY <1>1, <1>5, <1>6, <3>1, <3>2, <3>4, <3>5
  <2> QED BY <2>1, <2>2
<1>10. StackInv(other, deeper)'
  <2>1. freeListHead' # None /\ other[freeListHead'] = "listed"
    BY <1>0
  <2>2. Cardinality({c \in PoolBlocks : other[c] = "listed"}) = deeper[freeListHead']
    BY <1>2, <1>4, <1>6
  <2> QED BY <1>9, <2>1, <2>2 DEF StackInv
<1> QED BY <1>10

-----------------------------------------------------------------------------
(* The states of a thread *)
LEMMA UserParts ==
  ASSUME NEW u \in UserStates
  PROVE  /\ u.pc \in {"refs", "ref", "next", "pop", "popped"} => u.head \in PoolBlocks
         /\ u.pc = "ref" => u.refs \in Nat \ {0} /\ u.bit \in BOOLEAN
         /\ u.pc = "pop" => u.next \in Heads
         /\ u.pc = "drop" => u.prevHead \in PoolBlocks /\ u.head \in Heads
         /\ u.pc \in {"add", "store", "one", "push", "undo"} =>
              u.node \in PoolBlocks /\ u.resume \in Resumes
         /\ u.pc \in {"store", "one", "push", "undo"} => u.head \in Heads
BY DEF UserStates

LEMMA SearchGoesOn ==
  ASSUME Threaded, NEW head \in Heads
  PROVE  Searching(head) \in Resumes
BY PoolIsNat DEF Searching, Resumes, Heads

LEMMA ResumesAreStates ==
  ASSUME Threaded
  PROVE  /\ Resumes \subseteq UserStates
         /\ \A u \in Resumes : u.pc \in {"idle", "create", "refs"}
BY DEF Resumes, UserStates, Idle

LEMMA PcChanges ==
  ASSUME NEW u \in UserStates, NEW p, NEW x, x = [u EXCEPT !.pc = p]
  PROVE  /\ u.pc \in {"pool", "refs", "ref"} /\ p = "try_get" => x \in UserStates /\ x.pc = p
         /\ u.pc = "ref" /\ p = "next" => x \in UserStates /\ x.pc = p /\ x.head = u.head
         /\ u.pc \in {"store", "one", "undo"} /\ p \in {"store", "one", "push"} =>
              x \in UserStates /\ x.pc = p /\ x.node = u.node /\ x.head = u.head /\ x.resume = u.resume
<1>1. CASE u \in [pc : {"idle", "pool", "try_get"}]
  BY <1>1 DEF UserStates
<1>2. CASE u \in [pc : {"create"}, head : {None}] \cup [pc : {"refs", "try_get", "popped"}, head : PoolBlocks]
  BY <1>2 DEF UserStates
<1>3. CASE u \in [pc : {"ref", "next", "try_get"}, head : PoolBlocks, refs : Nat \ {0}, bit : BOOLEAN]
  BY <1>3 DEF UserStates
<1>4. CASE u \in [pc : {"pop"}, head : PoolBlocks, next : Heads]
               \cup [pc : {"drop"}, prevHead : PoolBlocks, head : Heads]
               \cup [pc : {"add"}, node : PoolBlocks, resume : Resumes]
  BY <1>4 DEF UserStates
<1>5. CASE u \in [pc : {"store", "one", "push", "undo"}, node : PoolBlocks, resume : Resumes, head : Heads]
  BY <1>5 DEF UserStates
<1> QED BY <1>1, <1>2, <1>3, <1>4, <1>5 DEF UserStates

-----------------------------------------------------------------------------
(* A block moves *)

(* its counts change, and to whom it belongs does not *)
LEMMA BlockCounts ==
  ASSUME Threaded, NEW t \in Users, NEW x, DOMAIN user = Users, user' = [user EXCEPT ![t] = x],
         NEW b, NEW k, NEW w, BlockInv(b, k, w), GivenOut(b)' <=> GivenOut(b),
         \A u \in Users : b \in owned'[u] <=> b \in owned[u],
         Pops(x, b) <=> Pops(user[t], b), Prepares(x, b) <=> Prepares(user[t], b),
         Pushes(x, b) <=> Pushes(user[t], b),
         freeListRefs'[b] = Cardinality(Holders(b)') + Counted(k),
         shouldBeOn'[b] <=> shouldBeOn[b],
         k \in {"pool", "prepared"} => Holders(b)' = {}, k = "waits" => Holders(b)' # {}
  PROVE  BlockInv(b, k, w)'
<1>1. \A u \in Users : user'[u] = IF u = t THEN x ELSE user[u]
  OBVIOUS
<1>2. ASSUME NEW u \in Users
      PROVE  /\ Pops(user'[u], b) <=> Pops(user[u], b)
             /\ Prepares(user'[u], b) <=> Prepares(user[u], b)
             /\ Pushes(user'[u], b) <=> Pushes(user[u], b)
  BY <1>1
<1>3. \A u \in Users :
        /\ b \in owned'[u] <=> k = "owned" /\ w = u
        /\ Pops(user'[u], b) <=> k = "popped" /\ w = u
        /\ Prepares(user'[u], b) <=> k = "prepared" /\ w = u
        /\ Pushes(user'[u], b) <=> k = "pushed" /\ w = u
  BY <1>2 DEF BlockInv
<1> QED BY <1>3 DEF BlockInv, Pops, Prepares, Pushes

(* it goes from t, or from nobody, to t or to nobody *)
LEMMA BlockGoes ==
  ASSUME Threaded, NEW t \in Users, NEW x, DOMAIN user = Users, user' = [user EXCEPT ![t] = x],
         NEW b, NEW k, NEW w, BlockInv(b, k, w), NEW l,
         k \in {"owned", "popped", "prepared", "pushed"} => w = t,
         b \in owned'[t] <=> l = "owned", Pops(x, b) <=> l = "popped",
         Prepares(x, b) <=> l = "prepared", Pushes(x, b) <=> l = "pushed",
         \A u \in Users \ {t} : b \in owned'[u] <=> b \in owned[u],
         GivenOut(b)' <=> l # "pool",
         freeListRefs'[b] = Cardinality(Holders(b)') + Counted(l),
         shouldBeOn'[b] <=> l \in {"waits", "prepared"},
         l \in {"pool", "prepared"} => Holders(b)' = {}, l = "waits" => Holders(b)' # {}
  PROVE  BlockInv(b, l, t)'
<1>1. \A u \in Users : user'[u] = IF u = t THEN x ELSE user[u]
  OBVIOUS
<1>2. ASSUME NEW u \in Users
      PROVE  /\ b \in owned'[u] <=> l = "owned" /\ t = u
             /\ Pops(user'[u], b) <=> l = "popped" /\ t = u
             /\ Prepares(user'[u], b) <=> l = "prepared" /\ t = u
             /\ Pushes(user'[u], b) <=> l = "pushed" /\ t = u
  <2>1. CASE u = t
    BY <1>1, <2>1
  <2>2. CASE u # t
    BY <1>1, <2>2 DEF BlockInv
  <2> QED BY <2>1, <2>2
<1> QED BY <1>2 DEF BlockInv, Pops, Prepares, Pushes

(* all other blocks stay where they are *)
UntouchedBy(t, x, c) ==
  /\ SameTo(user[t], x, c)
  /\ freeListRefs'[c] = freeListRefs[c] /\ shouldBeOn'[c] = shouldBeOn[c]
  /\ GivenOut(c)' <=> GivenOut(c)
  /\ \A u \in Users : c \in owned'[u] <=> c \in owned[u]

LEMMA PlacesMove ==
  ASSUME Threaded, PoolTypes, NEW t \in Users, NEW x, user' = [user EXCEPT ![t] = x],
         NEW kind \in [PoolBlocks -> Kinds], NEW by \in [PoolBlocks -> Users \cup {None}],
         NEW depth \in [PoolBlocks -> Nat], Places(kind, by, depth),
         NEW b \in PoolBlocks, \A c \in PoolBlocks \ {b} : UntouchedBy(t, x, c),
         NEW k \in Kinds, NEW w \in Users \cup {None}, BlockInv(b, k, w)',
         NEW deeper \in [PoolBlocks -> Nat], StackInv([kind EXCEPT ![b] = k], deeper)'
  PROVE  (\E kind1 \in [PoolBlocks -> Kinds], by1 \in [PoolBlocks -> Users \cup {None}],
            depth1 \in [PoolBlocks -> Nat] : Places(kind1, by1, depth1))'
<1>1. PICK kind1 \in [PoolBlocks -> Kinds] : kind1 = [kind EXCEPT ![b] = k]
  OBVIOUS
<1>2. PICK by1 \in [PoolBlocks -> Users \cup {None}] : by1 = [by EXCEPT ![b] = w]
  OBVIOUS
<1>3. ASSUME NEW c \in PoolBlocks PROVE BlockInv(c, kind1[c], by1[c])'
  <2>1. CASE c = b
    <3>1. kind1[c] = k /\ by1[c] = w
      BY <1>1, <1>2, <2>1
    <3> QED BY <2>1, <3>1
  <2>2. CASE c # b
    <3>1. kind1[c] = kind[c] /\ by1[c] = by[c]
      BY <1>1, <1>2, <2>2
    <3>2. BlockInv(c, kind[c], by[c]) /\ DOMAIN user = Users
      BY DEF Places, PoolTypes
    <3>3. BlockInv(c, kind[c], by[c])'
      BY <2>2, <3>2, BlockFrame DEF UntouchedBy
    <3> QED BY <3>1, <3>3
  <2> QED BY <2>1, <2>2
<1>4. StackInv(kind1, deeper)'
  BY <1>1
<1>5. Places(kind1, by1, deeper)'
  BY <1>3, <1>4 DEF Places
<1> QED BY <1>5

-----------------------------------------------------------------------------
(* Steps that leave every block where it is *)
LEMMA LocalStep ==
  ASSUME Threaded, PoolInv, NEW t \in Users, NEW x, user' = [user EXCEPT ![t] = x],
         PoolTypes', AllocInv', UNCHANGED freeList,
         \A b \in PoolBlocks : /\ SameTo(user[t], x, b)
                               /\ GivenOut(b)' <=> GivenOut(b)
                               /\ \A u \in Users : b \in owned'[u] <=> b \in owned[u],
         x.pc = "pop" => x.next = freeListNext[x.head],
         x.pc \in {"one", "push"} => freeListNext[x.node] = x.head
  PROVE  PoolInv'
<1>0. DOMAIN user = Users /\ freeListHead \in Heads /\ freeListNext \in [PoolBlocks -> Heads]
  BY DEF PoolInv, PoolTypes
<1>1. PICK kind \in [PoolBlocks -> Kinds], by \in [PoolBlocks -> Users \cup {None}],
           depth \in [PoolBlocks -> Nat] : Places(kind, by, depth)
  BY DEF PoolInv
<1>2. ASSUME NEW b \in PoolBlocks PROVE BlockInv(b, kind[b], by[b])'
  <2>1. freeListRefs'[b] = freeListRefs[b] /\ shouldBeOn'[b] = shouldBeOn[b]
    BY DEF freeList
  <2> QED BY <1>0, <1>1, <2>1, BlockFrame DEF Places
<1>3. StackInv(kind, depth)'
  BY <1>0, <1>1, StackFrame DEF Places, freeList
<1>4. Places(kind, by, depth)'
  BY <1>2, <1>3 DEF Places
<1>5. ASSUME NEW u \in Users PROVE Reads(u)'
  <2>1. user'[u] = IF u = t THEN x ELSE user[u]
    BY <1>0
  <2> QED BY <2>1 DEF PoolInv, Reads, freeList
<1> QED BY <1>4, <1>5 DEF PoolInv

(* a thread that has nothing to do with any block, before and after *)
Free == {"idle", "pool", "try_get", "create", "refs", "ref"}

LEMMA FreeStates ==
  ASSUME NEW u, u.pc \in Free, NEW x, x.pc \in Free, NEW b
  PROVE  SameTo(u, x, b)
BY DEF Free, SameTo, RefersTo, Pops, Prepares, Pushes

(* ... and the allocator, which has blocks of its own *)
LEMMA FreeStep ==
  ASSUME Threaded, PoolInv, NEW t \in Users, NEW x \in UserStates, user' = [user EXCEPT ![t] = x],
         user[t].pc \in Free, x.pc \in Free, UNCHANGED <<initialPool, freeList>>,
         \/ UNCHANGED <<owned, allocated>>
         \/ \E b \in Allocatable \ allocated : allocated' = allocated \cup {b} /\ Own(t, b)
         \/ \E b \in owned[t] \cap Allocatable :
              allocated' = allocated \ {b} /\ owned' = [owned EXCEPT ![t] = @ \ {b}]
  PROVE  PoolInv'
<1>0. PoolTypes /\ AllocInv
  BY DEF PoolInv
<1>1. \A b \in PoolBlocks : b \notin Allocatable
  BY DEF PoolBlocks, Allocatable, Threaded
<1>2. /\ owned' \in [Users -> SUBSET (PoolBlocks \cup Allocatable)] /\ allocated' \subseteq Allocatable
      /\ AllocInv'
      /\ \A b \in PoolBlocks, u \in Users : b \in owned'[u] <=> b \in owned[u]
  <2>1. CASE UNCHANGED <<owned, allocated>>
    BY <1>0, <2>1 DEF PoolTypes, AllocInv
  <2>2. CASE \E b \in Allocatable \ allocated : allocated' = allocated \cup {b} /\ Own(t, b)
    BY <1>0, <1>1, <2>2 DEF PoolTypes, AllocInv, Own
  <2>3. CASE \E b \in owned[t] \cap Allocatable :
              allocated' = allocated \ {b} /\ owned' = [owned EXCEPT ![t] = @ \ {b}]
    BY <1>0, <1>1, <2>3 DEF PoolTypes, AllocInv
  <2> QED BY <2>1, <2>2, <2>3
<1>3. PoolTypes'
  BY <1>0, <1>2 DEF PoolTypes, initialPool, freeList
<1>4. \A b \in PoolBlocks : SameTo(user[t], x, b) /\ (GivenOut(b)' <=> GivenOut(b))
  BY FreeStates DEF GivenOut, initialPool
<1>5. x.pc \notin {"pop", "one", "push"}
  BY DEF Free
<1> QED BY <1>2, <1>3, <1>4, <1>5, LocalStep

LEMMA FreeSteps ==
  ASSUME Threaded, PoolInv, NEW t \in Users,
         \/ Requisition(t) \/ LoadHead(t) \/ LoadRefs(t) \/ Create(t) \/ CreateFails(t) \/ Destroy(t)
  PROVE  PoolInv'
<1>0. PoolTypes
  BY DEF PoolInv
<1> DEFINE u == user[t]
<1>1. u \in UserStates /\ freeListHead \in Heads
  BY <1>0 DEF PoolTypes
<1>2. CASE Requisition(t)
  <2> DEFINE x == [pc |-> IF initialBlockPoolIndex >= initialBlockPoolSize THEN "try_get" ELSE "pool"]
  <2>1. x \in UserStates /\ x.pc \in Free
    BY DEF UserStates, Free
  <2>2. /\ user' = [user EXCEPT ![t] = x] /\ user[t].pc \in Free
        /\ UNCHANGED <<initialPool, freeList, owned, allocated>>
    BY <1>2 DEF Requisition, At, Become, Free
  <2> HIDE DEF x
  <2> QED BY <2>1, <2>2, FreeStep
<1>3. CASE LoadHead(t)
  <2>1. Searching(freeListHead) \in UserStates /\ Searching(freeListHead).pc \in Free
    BY <1>1, SearchGoesOn, ResumesAreStates DEF Free
  <2>2. /\ user' = [user EXCEPT ![t] = Searching(freeListHead)] /\ user[t].pc \in Free
        /\ UNCHANGED <<initialPool, freeList, owned, allocated>>
    BY <1>3 DEF LoadHead, At, Become, Free
  <2> QED BY <2>1, <2>2, FreeStep
<1>4. CASE LoadRefs(t)
  <2>1. u.pc = "refs" /\ u.head \in PoolBlocks
    BY <1>1, <1>4, UserParts DEF LoadRefs, At
  <2>2. CASE freeListRefs[u.head] = 0
    <3>1. PICK x : x = [u EXCEPT !.pc = "try_get"]
      OBVIOUS
    <3>2. x \in UserStates /\ x.pc = "try_get"
      BY <1>1, <2>1, <3>1, PcChanges
    <3>3. user' = [user EXCEPT ![t] = x]
      BY <1>4, <2>2, <3>1 DEF LoadRefs, To
    <3>4. UNCHANGED <<initialPool, freeList, owned, allocated>>
      BY <1>4 DEF LoadRefs
    <3> QED BY <2>1, <3>2, <3>3, <3>4, FreeStep DEF Free
  <2>3. CASE freeListRefs[u.head] # 0
    <3> DEFINE x == [pc |-> "ref", head |-> u.head, refs |-> freeListRefs[u.head], bit |-> shouldBeOn[u.head]]
    <3>1. freeListRefs[u.head] \in Nat \ {0} /\ shouldBeOn[u.head] \in BOOLEAN
      BY <1>0, <2>1, <2>3 DEF PoolTypes
    <3>2. x \in UserStates /\ x.pc = "ref"
      BY <2>1, <3>1 DEF UserStates
    <3>3. user' = [user EXCEPT ![t] = x] /\ UNCHANGED <<initialPool, freeList, owned, allocated>>
      BY <1>4, <2>3 DEF LoadRefs, Become
    <3> HIDE DEF x
    <3> QED BY <2>1, <3>2, <3>3, FreeStep DEF Free
  <2> QED BY <2>2, <2>3
<1>5. CASE Create(t) \/ CreateFails(t)
  <2>1. Idle \in UserStates /\ Idle.pc \in Free
    BY DEF UserStates, Idle, Free
  <2>2. /\ user' = [user EXCEPT ![t] = Idle] /\ user[t].pc \in Free /\ UNCHANGED <<initialPool, freeList>>
        /\ \/ UNCHANGED <<owned, allocated>>
           \/ \E b \in Allocatable \ allocated : allocated' = allocated \cup {b} /\ Own(t, b)
    BY <1>5 DEF Create, CreateFails, At, Become, Free
  <2> QED BY <2>1, <2>2, FreeStep
<1>6. CASE Destroy(t)
  <2>1. user' = [user EXCEPT ![t] = u] /\ u.pc \in Free
    BY <1>0, <1>6 DEF Destroy, At, Free, PoolTypes
  <2>2. /\ UNCHANGED <<initialPool, freeList>>
        /\ \E b \in owned[t] \cap Allocatable :
              allocated' = allocated \ {b} /\ owned' = [owned EXCEPT ![t] = @ \ {b}]
    BY <1>6 DEF Destroy
  <2> QED BY <1>1, <2>1, <2>2, FreeStep
<1> QED BY <1>2, <1>3, <1>4, <1>5, <1>6

(* a thread reads on, with the block it has in its hands *)
LEMMA ReadSteps ==
  ASSUME Threaded, PoolInv, NEW t \in Users,
         \/ LoadNext(t) \/ AddLoad(t)
         \/ Pop(t) /\ freeListHead # user[t].head
         \/ Push(t) /\ freeListHead # user[t].head
  PROVE  PoolInv'
<1>0. PoolTypes /\ AllocInv
  BY DEF PoolInv
<1> DEFINE u == user[t]
<1>1. u \in UserStates /\ freeListHead \in Heads
  BY <1>0 DEF PoolTypes
<1>2. PICK x \in UserStates :
        /\ user' = [user EXCEPT ![t] = x] /\ \A b \in PoolBlocks : SameTo(u, x, b)
        /\ x.pc = "pop" => x.next = freeListNext[x.head]
        /\ x.pc \notin {"one", "push"}
  <2>1. CASE LoadNext(t)
    <3> DEFINE x == [pc |-> "pop", head |-> u.head, next |-> freeListNext[u.head]]
    <3>1. u.pc = "next" /\ u.head \in PoolBlocks /\ user' = [user EXCEPT ![t] = x]
      BY <1>1, <2>1, UserParts DEF LoadNext, At, Become
    <3>2. freeListNext[u.head] \in Heads
      BY <1>0, <3>1 DEF PoolTypes
    <3>3. x \in UserStates
      BY <3>1, <3>2 DEF UserStates
    <3>4. x.pc = "pop" /\ x.head = u.head /\ x.next = freeListNext[x.head]
      OBVIOUS
    <3>5. \A b \in PoolBlocks : SameTo(u, x, b)
      BY <3>1, <3>4 DEF SameTo, RefersTo, Pops, Prepares, Pushes
    <3> QED BY <3>1, <3>3, <3>4, <3>5
  <2>2. CASE AddLoad(t)
    <3> DEFINE x == [pc |-> "store", node |-> u.node, resume |-> u.resume, head |-> freeListHead]
    <3>1. u.pc = "add" /\ u.node \in PoolBlocks /\ u.resume \in Resumes /\ user' = [user EXCEPT ![t] = x]
      BY <1>1, <2>2, UserParts DEF AddLoad, At, Become
    <3>2. x \in UserStates
      BY <1>1, <3>1 DEF UserStates
    <3>3. x.pc = "store" /\ x.node = u.node
      OBVIOUS
    <3>4. \A b \in PoolBlocks : SameTo(u, x, b)
      BY <3>1, <3>3 DEF SameTo, RefersTo, Pops, Prepares, Pushes
    <3> QED BY <3>1, <3>2, <3>3, <3>4
  <2>3. CASE Pop(t) /\ freeListHead # u.head
    <3> DEFINE x == [pc |-> "drop", prevHead |-> u.head, head |-> freeListHead]
    <3>1. u.pc = "pop" /\ u.head \in PoolBlocks /\ user' = [user EXCEPT ![t] = x]
      BY <1>1, <2>3, UserParts DEF Pop, At, Become
    <3>2. x \in UserStates
      BY <1>1, <3>1 DEF UserStates
    <3>3. x.pc = "drop" /\ x.prevHead = u.head
      OBVIOUS
    <3>4. \A b \in PoolBlocks : SameTo(u, x, b)
      BY <3>1, <3>3 DEF SameTo, RefersTo, Pops, Prepares, Pushes
    <3> QED BY <3>1, <3>2, <3>3, <3>4
  <2>4. CASE Push(t) /\ freeListHead # u.head
    <3>1. u.pc = "push"
      BY <2>4 DEF Push, At
    <3>2. u \in [pc : {"store", "one", "push", "undo"}, node : PoolBlocks, resume : Resumes, head : Heads]
      BY <1>1, <3>1 DEF UserStates
    <3> DEFINE x == [pc |-> "undo", node |-> u.node, resume |-> u.resume, head |-> freeListHead]
    <3>3. user' = [user EXCEPT ![t].pc = "undo", ![t].head = freeListHead]
      BY <2>4 DEF Push
    <3>4. user' = [user EXCEPT ![t] = x]
      <4>1. user \in [Users -> UserStates]
        BY <1>0 DEF PoolTypes
      <4>2. user[t] = [pc |-> "push", node |-> u.node, resume |-> u.resume, head |-> u.head]
        BY <3>1, <3>2
      <4>3. user' = [user EXCEPT ![t] = [[user[t] EXCEPT !.pc = "undo"] EXCEPT !.head = freeListHead]]
        BY <3>3, <4>1
      <4>4. PICK v : v = [user[t] EXCEPT !.pc = "undo"]
        OBVIOUS
      <4>5. v = [pc |-> "undo", node |-> u.node, resume |-> u.resume, head |-> u.head]
        BY <4>2, <4>4
      <4>6. [v EXCEPT !.head = freeListHead] = x
        BY <4>5
      <4> HIDE DEF x
      <4> QED BY <4>3, <4>4, <4>6
    <3>5. x \in UserStates
      BY <1>1, <3>2 DEF UserStates
    <3>6. x.pc = "undo" /\ x.node = u.node
      OBVIOUS
    <3>7. \A b \in PoolBlocks : SameTo(u, x, b)
      BY <3>1, <3>6 DEF SameTo, RefersTo, Pops, Prepares, Pushes
    <3> HIDE DEF x
    <3> QED BY <3>4, <3>5, <3>6, <3>7
  <2> QED BY <2>1, <2>2, <2>3, <2>4
<1>3. UNCHANGED <<initialPool, freeList, owned, allocated>>
  BY DEF LoadNext, AddLoad, Pop, Push, freeList
<1>4. PoolTypes' /\ AllocInv'
  BY <1>0, <1>2, <1>3 DEF PoolTypes, AllocInv, initialPool, freeList
<1>5. \A b \in PoolBlocks : GivenOut(b)' <=> GivenOut(b)
  BY <1>3 DEF GivenOut, initialPool
<1> QED BY <1>2, <1>3, <1>4, <1>5, LocalStep

-----------------------------------------------------------------------------
(* Steps that move a block *)
LEMMA MoveStep ==
  ASSUME Threaded, PoolInv, NEW t \in Users, NEW x, user' = [user EXCEPT ![t] = x],
         PoolTypes', AllocInv', freeListNext' = freeListNext, x.pc # "pop",
         x.pc \in {"one", "push"} => freeListNext[x.node] = x.head,
         NEW kind \in [PoolBlocks -> Kinds], NEW by \in [PoolBlocks -> Users \cup {None}],
         NEW depth \in [PoolBlocks -> Nat], Places(kind, by, depth),
         NEW b \in PoolBlocks, \A c \in PoolBlocks \ {b} : UntouchedBy(t, x, c),
         NEW k \in Kinds, NEW w \in Users \cup {None}, BlockInv(b, k, w)',
         \/ \E deeper \in [PoolBlocks -> Nat] : StackInv([kind EXCEPT ![b] = k], deeper)'
         \/ freeListHead' = freeListHead /\ (k = "listed" <=> kind[b] = "listed")
  PROVE  PoolInv'
<1>0. PoolTypes
  BY DEF PoolInv
<1>1. PICK deeper \in [PoolBlocks -> Nat] : StackInv([kind EXCEPT ![b] = k], deeper)'
  <2>1. CASE freeListHead' = freeListHead /\ (k = "listed" <=> kind[b] = "listed")
    <3>1. PICK other : other = [kind EXCEPT ![b] = k]
      OBVIOUS
    <3>2. \A c \in PoolBlocks : other[c] = "listed" <=> kind[c] = "listed"
      BY <2>1, <3>1
    <3>3. /\ freeListHead \in Heads /\ freeListNext \in [PoolBlocks -> Heads]
          /\ \A c \in PoolBlocks : kind[c] = "listed" => freeListNext'[c] = freeListNext[c]
      BY <1>0 DEF PoolTypes
    <3>4. StackInv(other, depth)'
      BY <2>1, <3>2, <3>3, StackFrame DEF Places
    <3> QED BY <3>1, <3>4
  <2> QED BY <2>1
<1>2. (\E kind1 \in [PoolBlocks -> Kinds], by1 \in [PoolBlocks -> Users \cup {None}],
          depth1 \in [PoolBlocks -> Nat] : Places(kind1, by1, depth1))'
  BY <1>0, <1>1, PlacesMove
<1>3. ASSUME NEW u \in Users PROVE Reads(u)'
  <2>1. user'[u] = IF u = t THEN x ELSE user[u]
    BY <1>0 DEF PoolTypes
  <2> QED BY <2>1 DEF PoolInv, Reads
<1> QED BY <1>2, <1>3 DEF PoolInv

(* A thread that owns, pops, prepares or pushes a block is the one of its place. *)
LEMMA PlaceOf ==
  ASSUME NEW b, NEW k, NEW w, BlockInv(b, k, w), NEW t \in Users
  PROVE  /\ b \in owned[t] => k = "owned" /\ w = t
         /\ Pops(user[t], b) => k = "popped" /\ w = t
         /\ Prepares(user[t], b) => k = "prepared" /\ w = t
         /\ Pushes(user[t], b) => k = "pushed" /\ w = t
         /\ RefersTo(user[t], b) => t \in Holders(b) /\ k \notin {"pool", "prepared"}
BY DEF BlockInv, Holders

LEMMA TakeFromPoolStep ==
  ASSUME Threaded, PoolInv, NEW t \in Users, TakeFromPool(t)
  PROVE  PoolInv'
<1>0. PoolTypes /\ AllocInv
  BY DEF PoolInv
<1> DEFINE u == user[t]
<1>1. /\ u \in UserStates /\ u.pc = "pool" /\ DOMAIN user = Users
      /\ initialBlockPoolIndex \in Nat /\ initialBlockPoolSize \in Nat
  BY <1>0 DEF PoolTypes, TakeFromPool, At, Threaded
<1>2. CASE initialBlockPoolIndex < initialBlockPoolSize
  <2>0. PICK b : b = initialBlockPoolIndex + 1
    OBVIOUS
  <2>1. /\ owned' = [owned EXCEPT ![t] = @ \cup {b}] /\ user' = [user EXCEPT ![t] = Idle]
        /\ initialBlockPoolIndex' = b
        /\ UNCHANGED <<initialBlockPoolSize, freeList, allocated, requests>>
    BY <1>2, <2>0 DEF TakeFromPool, Own, Become
  <2>2. b \in PoolBlocks /\ b \notin Allocatable
    BY <1>0, <1>1, <1>2, <2>0 DEF PoolTypes, PoolBlocks, Allocatable, Threaded
  <2>3. PICK kind \in [PoolBlocks -> Kinds], by \in [PoolBlocks -> Users \cup {None}],
             depth \in [PoolBlocks -> Nat] : Places(kind, by, depth)
    BY DEF PoolInv
  <2>4. BlockInv(b, kind[b], by[b])
    BY <2>2, <2>3 DEF Places
  <2>5. ~GivenOut(b) /\ GivenOut(b)'
    BY <1>1, <1>2, <2>0, <2>1 DEF GivenOut
  <2>6. kind[b] = "pool" /\ Holders(b) = {} /\ ~shouldBeOn[b]
    BY <2>4, <2>5 DEF BlockInv
  <2>7. RefersTo(Idle, b) <=> RefersTo(u, b)
    BY <1>1 DEF RefersTo, Idle
  <2>8. Holders(b)' = Holders(b)
    BY <1>1, <2>1, <2>7, HoldersChange
  <2>9. freeListRefs'[b] = Cardinality(Holders(b)') + Counted("owned")
    BY <2>1, <2>4, <2>6, <2>8 DEF BlockInv, Counted, freeList
  <2>10. BlockInv(b, "owned", t)'
    <3>1. b \in owned'[t] /\ \A v \in Users \ {t} : b \in owned'[v] <=> b \in owned[v]
      BY <1>0, <2>1 DEF PoolTypes
    <3>2. ~Pops(Idle, b) /\ ~Prepares(Idle, b) /\ ~Pushes(Idle, b)
      BY DEF Pops, Prepares, Pushes, Idle
    <3>3. ~shouldBeOn'[b]
      BY <2>1, <2>6 DEF freeList
    <3> QED BY <1>1, <2>1, <2>4, <2>5, <2>6, <2>9, <3>1, <3>2, <3>3, BlockGoes
  <2>11. ASSUME NEW c \in PoolBlocks \ {b} PROVE UntouchedBy(t, Idle, c)
    <3>1. SameTo(u, Idle, c)
      BY <1>1, FreeStates DEF Free, Idle
    <3>2. GivenOut(c)' <=> GivenOut(c)
      BY <1>1, <2>0, <2>1, PoolIsNat DEF GivenOut
    <3>3. \A v \in Users : c \in owned'[v] <=> c \in owned[v]
      BY <1>0, <2>1 DEF PoolTypes
    <3> QED BY <2>1, <3>1, <3>2, <3>3 DEF UntouchedBy, freeList
  <2>12. PoolTypes' /\ AllocInv'
    <3>1. Idle \in UserStates /\ b \in Nat
      BY <1>1, <2>0 DEF UserStates, Idle
    <3>2. PoolTypes'
      BY <1>0, <2>1, <2>2, <3>1 DEF PoolTypes, freeList
    <3>3. AllocInv'
      BY <1>0, <2>1, <2>2 DEF PoolTypes, AllocInv
    <3> QED BY <3>2, <3>3
  <2>13. "owned" \in Kinds /\ Idle.pc = "idle"
    BY DEF Kinds, Idle
  <2>14. freeListHead' = freeListHead /\ freeListNext' = freeListNext
    BY <2>1 DEF freeList
  <2> QED BY <2>1, <2>2, <2>3, <2>6, <2>10, <2>11, <2>12, <2>13, <2>14, MoveStep
<1>3. CASE ~(initialBlockPoolIndex < initialBlockPoolSize)
  <2>1. PICK x : x = [u EXCEPT !.pc = "try_get"]
    OBVIOUS
  <2>2. x \in UserStates /\ x.pc = "try_get"
    BY <1>1, <2>1, PcChanges
  <2>3. /\ user' = [user EXCEPT ![t] = x] /\ initialBlockPoolIndex' = initialBlockPoolIndex + 1
        /\ UNCHANGED <<initialBlockPoolSize, freeList, allocated, owned>>
    BY <1>3, <2>1 DEF TakeFromPool, To
  <2>4. PoolTypes' /\ AllocInv'
    BY <1>0, <2>2, <2>3 DEF PoolTypes, AllocInv, freeList
  <2>5. \A b \in PoolBlocks : SameTo(u, x, b) /\ (GivenOut(b)' <=> GivenOut(b))
    BY <1>1, <1>3, <2>2, <2>3, PoolIsNat, FreeStates DEF Free, GivenOut
  <2> QED BY <2>2, <2>3, <2>4, <2>5, LocalStep
<1> QED BY <1>2, <1>3

(* a reference, while the count says that the block is in use: its next pointer stands *)
LEMMA AddRefStep ==
  ASSUME Threaded, PoolInv, NEW t \in Users, AddRef(t)
  PROVE  PoolInv'
<1>0. PoolTypes /\ AllocInv
  BY DEF PoolInv
<1> DEFINE u == user[t]
<1>1. u \in UserStates /\ u.pc = "ref" /\ DOMAIN user = Users
  BY <1>0 DEF PoolTypes, AddRef, At
<1>2. PICK b \in PoolBlocks : b = u.head /\ u.refs \in Nat \ {0}
  BY <1>1, UserParts
<1>3. CASE freeListRefs[b] = u.refs /\ shouldBeOn[b] = u.bit
  <2>1. PICK x : x = [u EXCEPT !.pc = "next"]
    OBVIOUS
  <2>2. x \in UserStates /\ x.pc = "next" /\ x.head = b
    BY <1>1, <1>2, <2>1, PcChanges
  <2>3. /\ user' = [user EXCEPT ![t] = x]
        /\ freeListRefs' = [freeListRefs EXCEPT ![b] = @ + 1]
        /\ UNCHANGED <<initialPool, freeListHead, shouldBeOn, freeListNext, owned, allocated>>
    BY <1>2, <1>3, <2>1 DEF AddRef, To
  <2>4. PICK kind \in [PoolBlocks -> Kinds], by \in [PoolBlocks -> Users \cup {None}],
             depth \in [PoolBlocks -> Nat] : Places(kind, by, depth)
    BY DEF PoolInv
  <2>5. BlockInv(b, kind[b], by[b])
    BY <1>2, <2>4 DEF Places
  <2>6. freeListRefs[b] \in Nat \ {0} /\ freeListRefs'[b] = freeListRefs[b] + 1
    BY <1>0, <1>2, <1>3, <2>3 DEF PoolTypes
  <2>7. RefersTo(x, b) /\ ~RefersTo(u, b)
    BY <1>1, <1>2, <2>2 DEF RefersTo
  <2>8. /\ Holders(b)' # {} /\ Cardinality(Holders(b)) \in Nat
        /\ Cardinality(Holders(b)') = Cardinality(Holders(b)) + 1
        /\ Cardinality(Holders(b)) = 0 <=> Holders(b) = {}
    BY <1>1, <2>3, <2>7, HoldersChange
  <2>9. kind[b] \notin {"pool", "prepared"}
    BY <2>5, <2>6, <2>8 DEF BlockInv, Counted
  <2>10. freeListRefs'[b] = Cardinality(Holders(b)') + Counted(kind[b])
    BY <2>5, <2>6, <2>8 DEF BlockInv, Counted
  <2>11. BlockInv(b, kind[b], by[b])'
    <3>1. /\ Pops(x, b) <=> Pops(u, b)
          /\ Prepares(x, b) <=> Prepares(u, b)
          /\ Pushes(x, b) <=> Pushes(u, b)
      BY <1>1, <2>2 DEF Pops, Prepares, Pushes
    <3>2. (GivenOut(b)' <=> GivenOut(b)) /\ owned' = owned /\ shouldBeOn'[b] = shouldBeOn[b]
      BY <2>3 DEF GivenOut, initialPool
    <3> QED BY <1>1, <2>3, <2>5, <2>8, <2>9, <2>10, <3>1, <3>2, BlockCounts
  <2>12. ASSUME NEW c \in PoolBlocks \ {b} PROVE UntouchedBy(t, x, c)
    <3>1. SameTo(u, x, c)
      BY <1>1, <1>2, <2>2 DEF SameTo, RefersTo, Pops, Prepares, Pushes
    <3> QED BY <1>0, <2>3, <3>1 DEF UntouchedBy, PoolTypes, GivenOut, initialPool
  <2>13. PoolTypes' /\ AllocInv'
    BY <1>0, <1>2, <2>2, <2>3, <2>6 DEF PoolTypes, AllocInv, initialPool
  <2>14. kind[b] \in Kinds /\ by[b] \in Users \cup {None}
    BY <1>2
  <2> QED BY <1>2, <2>2, <2>3, <2>4, <2>11, <2>12, <2>13, <2>14, MoveStep
<1>4. CASE ~(freeListRefs[b] = u.refs /\ shouldBeOn[b] = u.bit)
  <2>1. PICK x : x = [u EXCEPT !.pc = "try_get"]
    OBVIOUS
  <2>2. x \in UserStates /\ x.pc = "try_get"
    BY <1>1, <2>1, PcChanges
  <2>3. user' = [user EXCEPT ![t] = x] /\ UNCHANGED <<initialPool, freeList, owned, allocated>>
    BY <1>2, <1>4, <2>1 DEF AddRef, To, freeList
  <2> QED BY <1>1, <2>2, <2>3, FreeStep DEF Free
<1> QED BY <1>3, <1>4

(* the next pointer is written while nobody has a reference *)
LEMMA StoreNextStep ==
  ASSUME Threaded, PoolInv, NEW t \in Users, StoreNext(t)
  PROVE  PoolInv'
<1>0. PoolTypes /\ AllocInv
  BY DEF PoolInv
<1> DEFINE u == user[t]
<1>1. u \in UserStates /\ u.pc = "store" /\ DOMAIN user = Users
  BY <1>0 DEF PoolTypes, StoreNext, At
<1>2. PICK b \in PoolBlocks : b = u.node /\ u.head \in Heads
  BY <1>1, UserParts
<1>3. PICK x : x = [u EXCEPT !.pc = "one"]
  OBVIOUS
<1>4. x \in UserStates /\ x.pc = "one" /\ x.node = b /\ x.head = u.head
  BY <1>1, <1>2, <1>3, PcChanges
<1>5. /\ user' = [user EXCEPT ![t] = x] /\ freeListNext' = [freeListNext EXCEPT ![b] = u.head]
      /\ UNCHANGED <<initialPool, freeListHead, freeListRefs, shouldBeOn, owned, allocated>>
  BY <1>2, <1>3 DEF StoreNext, To
<1>6. PICK kind \in [PoolBlocks -> Kinds], by \in [PoolBlocks -> Users \cup {None}],
           depth \in [PoolBlocks -> Nat] : Places(kind, by, depth)
  BY DEF PoolInv
<1>7. Prepares(u, b)
  BY <1>1, <1>2 DEF Prepares
<1>8. BlockInv(b, kind[b], by[b])
  BY <1>2, <1>6 DEF Places
<1>9. kind[b] = "prepared" /\ by[b] = t /\ Holders(b) = {}
  BY <1>7, <1>8, PlaceOf DEF BlockInv
<1>10. \A c \in PoolBlocks : BlockInv(c, kind[c], by[c])'
  <2>1. \A c \in PoolBlocks : SameTo(u, x, c)
    BY <1>1, <1>2, <1>4 DEF SameTo, RefersTo, Pops, Prepares, Pushes
  <2> QED BY <1>1, <1>5, <1>6, <2>1, BlockFrame DEF Places, GivenOut, initialPool
<1>11. StackInv(kind, depth)'
  <2>1. \A c \in PoolBlocks : kind[c] = "listed" => freeListNext'[c] = freeListNext[c]
    BY <1>0, <1>5, <1>9 DEF PoolTypes
  <2> QED BY <1>0, <1>5, <1>6, <2>1, StackFrame DEF PoolTypes, Places
<1>12. ASSUME NEW v \in Users PROVE Reads(v)'
  <2>1. CASE v = t
    <3>1. user'[v] = x /\ freeListNext'[b] = x.head
      BY <1>0, <1>1, <1>4, <1>5, <2>1 DEF PoolTypes
    <3> QED BY <1>4, <3>1 DEF Reads
  <2>2. CASE v # t
    <3>1. user'[v] = user[v] /\ user[v] \in UserStates
      BY <1>0, <1>5, <2>2 DEF PoolTypes
    <3>2. user[v].pc = "pop" => user[v].head # b /\ user[v].head \in PoolBlocks
      BY <1>9, <3>1, UserParts DEF Holders, RefersTo
    <3>3. ~Prepares(user[v], b) /\ ~Pushes(user[v], b)
      BY <1>8, <1>9, <2>2, PlaceOf
    <3>4. user[v].pc \in {"one", "push"} => user[v].node # b /\ user[v].node \in PoolBlocks
      BY <3>1, <3>3, UserParts DEF Prepares, Pushes
    <3>5. \A c \in PoolBlocks : c # b => freeListNext'[c] = freeListNext[c]
      BY <1>0, <1>5 DEF PoolTypes
    <3> QED BY <3>1, <3>2, <3>4, <3>5 DEF PoolInv, Reads
  <2> QED BY <2>1, <2>2
<1>13. PoolTypes' /\ AllocInv'
  BY <1>0, <1>2, <1>4, <1>5 DEF PoolTypes, AllocInv, initialPool
<1>14. Places(kind, by, depth)'
  BY <1>10, <1>11 DEF Places
<1> QED BY <1>12, <1>13, <1>14 DEF PoolInv

(* the head goes to the next block, which is still the one that was read *)
LEMMA PopStep ==
  ASSUME Threaded, PoolInv, NEW t \in Users, Pop(t), freeListHead = user[t].head
  PROVE  PoolInv'
<1>0. PoolTypes /\ AllocInv
  BY DEF PoolInv
<1> DEFINE u == user[t]
<1>1. u \in UserStates /\ u.pc = "pop" /\ DOMAIN user = Users
  BY <1>0 DEF PoolTypes, Pop, At
<1>2. PICK b \in PoolBlocks : b = u.head /\ b = freeListHead /\ u.next \in Heads
  BY <1>1, UserParts
<1>3. PICK x : x = [pc |-> "popped", head |-> b]
  OBVIOUS
<1>4. x \in UserStates /\ x.pc = "popped" /\ x.head = b
  BY <1>2, <1>3 DEF UserStates
<1>5. /\ user' = [user EXCEPT ![t] = x] /\ freeListHead' = u.next
      /\ UNCHANGED <<initialPool, freeListRefs, shouldBeOn, freeListNext, owned, allocated>>
  BY <1>2, <1>3 DEF Pop, Become
<1>6. PICK kind \in [PoolBlocks -> Kinds], by \in [PoolBlocks -> Users \cup {None}],
           depth \in [PoolBlocks -> Nat] : Places(kind, by, depth)
  BY DEF PoolInv
<1>7. BlockInv(b, kind[b], by[b]) /\ StackInv(kind, depth)
  BY <1>2, <1>6 DEF Places
<1>8. b # None /\ kind[b] = "listed"
  BY <1>2, <1>7, PoolIsNat DEF StackInv
<1>9. u.next = freeListNext[b]
  BY <1>1, <1>2 DEF PoolInv, Reads
<1>10. RefersTo(x, b) /\ RefersTo(u, b)
  BY <1>1, <1>2, <1>4 DEF RefersTo
<1>11. Holders(b)' = Holders(b)
  BY <1>1, <1>5, <1>10, HoldersChange
<1>12. BlockInv(b, "popped", t)'
  <2>1. Pops(x, b) /\ ~Prepares(x, b) /\ ~Pushes(x, b)
    BY <1>4 DEF Pops, Prepares, Pushes
  <2>2. b \notin owned'[t] /\ \A v \in Users \ {t} : b \in owned'[v] <=> b \in owned[v]
    BY <1>5, <1>7, <1>8, PlaceOf
  <2>3. GivenOut(b)'
    BY <1>5, <1>7, <1>8 DEF BlockInv, GivenOut, initialPool
  <2>4. freeListRefs'[b] = Cardinality(Holders(b)') + Counted("popped") /\ ~shouldBeOn'[b]
    BY <1>5, <1>7, <1>8, <1>11 DEF BlockInv, Counted
  <2> QED BY <1>1, <1>5, <1>7, <1>8, <2>1, <2>2, <2>3, <2>4, BlockGoes
<1>13. ASSUME NEW c \in PoolBlocks \ {b} PROVE UntouchedBy(t, x, c)
  <2>1. SameTo(u, x, c)
    BY <1>1, <1>2, <1>4 DEF SameTo, RefersTo, Pops, Prepares, Pushes
  <2> QED BY <1>5, <2>1 DEF UntouchedBy, GivenOut, initialPool
<1>14. PoolTypes' /\ AllocInv'
  BY <1>0, <1>2, <1>4, <1>5 DEF PoolTypes, AllocInv, initialPool
<1>15. StackInv([kind EXCEPT ![b] = "popped"], depth)'
  <2>1. PICK other : other = [kind EXCEPT ![b] = "popped"]
    OBVIOUS
  <2>2. \A c \in PoolBlocks : other[c] = "listed" <=> kind[c] = "listed" /\ c # freeListHead
    BY <1>2, <2>1
  <2>3. freeListNext \in [PoolBlocks -> Heads] /\ freeListHead' = freeListNext[freeListHead]
    BY <1>0, <1>2, <1>5, <1>9 DEF PoolTypes
  <2>4. StackInv(other, depth)'
    BY <1>2, <1>5, <1>7, <2>2, <2>3, StackPopped
  <2> QED BY <2>1, <2>4
<1>16. "popped" \in Kinds
  BY DEF Kinds
<1> QED BY <1>4, <1>5, <1>6, <1>12, <1>13, <1>14, <1>15, <1>16, MoveStep

(* the popped block is the thread's: its own reference and the list's are gone *)
LEMMA PoppedStep ==
  ASSUME Threaded, PoolInv, NEW t \in Users, Popped(t)
  PROVE  PoolInv'
<1>0. PoolTypes /\ AllocInv
  BY DEF PoolInv
<1> DEFINE u == user[t]
<1>1. u \in UserStates /\ u.pc = "popped" /\ DOMAIN user = Users
  BY <1>0 DEF PoolTypes, Popped, At
<1>2. PICK b \in PoolBlocks : b = u.head
  BY <1>1, UserParts
<1>3. Idle \in UserStates /\ Idle.pc = "idle"
  BY DEF UserStates, Idle
<1>4. /\ user' = [user EXCEPT ![t] = Idle] /\ freeListRefs' = [freeListRefs EXCEPT ![b] = @ - 2]
      /\ owned' = [owned EXCEPT ![t] = @ \cup {b}]
      /\ UNCHANGED <<initialPool, freeListHead, shouldBeOn, freeListNext, allocated>>
  BY <1>2 DEF Popped, Become, Own
<1>5. PICK kind \in [PoolBlocks -> Kinds], by \in [PoolBlocks -> Users \cup {None}],
           depth \in [PoolBlocks -> Nat] : Places(kind, by, depth)
  BY DEF PoolInv
<1>6. BlockInv(b, kind[b], by[b])
  BY <1>2, <1>5 DEF Places
<1>7. Pops(u, b) /\ RefersTo(u, b) /\ ~RefersTo(Idle, b)
  BY <1>1, <1>2, <1>3 DEF Pops, RefersTo
<1>8. kind[b] = "popped" /\ by[b] = t
  BY <1>6, <1>7, PlaceOf
<1>9. /\ Cardinality(Holders(b)') = Cardinality(Holders(b)) - 1 /\ Cardinality(Holders(b)) \in Nat
      /\ Cardinality(Holders(b)) # 0
  BY <1>1, <1>4, <1>7, HoldersChange
<1>10. freeListRefs[b] = Cardinality(Holders(b)) + 1 /\ freeListRefs'[b] = freeListRefs[b] - 2
  BY <1>0, <1>4, <1>6, <1>8 DEF BlockInv, Counted, PoolTypes
<1>11. BlockInv(b, "owned", t)'
  <2>1. ~Pops(Idle, b) /\ ~Prepares(Idle, b) /\ ~Pushes(Idle, b)
    BY <1>3 DEF Pops, Prepares, Pushes
  <2>2. b \in owned'[t] /\ \A v \in Users \ {t} : b \in owned'[v] <=> b \in owned[v]
    BY <1>0, <1>4 DEF PoolTypes
  <2>3. GivenOut(b)' /\ ~shouldBeOn'[b]
    BY <1>4, <1>6, <1>8 DEF BlockInv, GivenOut, initialPool
  <2>4. freeListRefs'[b] = Cardinality(Holders(b)') + Counted("owned")
    BY <1>9, <1>10 DEF Counted
  <2> QED BY <1>1, <1>4, <1>6, <1>8, <2>1, <2>2, <2>3, <2>4, BlockGoes
<1>12. ASSUME NEW c \in PoolBlocks \ {b} PROVE UntouchedBy(t, Idle, c)
  <2>1. SameTo(u, Idle, c)
    BY <1>1, <1>2, <1>3 DEF SameTo, RefersTo, Pops, Prepares, Pushes
  <2>2. \A v \in Users : c \in owned'[v] <=> c \in owned[v]
    BY <1>0, <1>4 DEF PoolTypes
  <2>3. freeListRefs'[c] = freeListRefs[c]
    BY <1>0, <1>4 DEF PoolTypes
  <2> QED BY <1>4, <2>1, <2>2, <2>3 DEF UntouchedBy, GivenOut, initialPool
<1>13. PoolTypes' /\ AllocInv'
  <2>1. freeListRefs'[b] \in Nat /\ b \notin Allocatable
    BY <1>2, <1>9, <1>10 DEF PoolBlocks, Allocatable, Threaded
  <2>2. PoolTypes'
    BY <1>0, <1>2, <1>3, <1>4, <2>1 DEF PoolTypes, initialPool
  <2>3. AllocInv'
    BY <1>0, <1>4, <2>1 DEF PoolTypes, AllocInv
  <2> QED BY <2>2, <2>3
<1>14. "owned" \in Kinds /\ freeListHead' = freeListHead /\ ("owned" = "listed" <=> kind[b] = "listed")
  BY <1>4, <1>8 DEF Kinds
<1> QED BY <1>3, <1>4, <1>5, <1>11, <1>12, <1>13, <1>14, MoveStep

(* where a call goes on, it has to do with no block *)
LEMMA ResumesAreQuiet ==
  ASSUME Threaded, NEW x \in Resumes
  PROVE  /\ x \in UserStates /\ x.pc \notin {"pop", "one", "push"}
         /\ \A b : ~RefersTo(x, b) /\ ~Pops(x, b) /\ ~Prepares(x, b) /\ ~Pushes(x, b)
BY ResumesAreStates DEF RefersTo, Pops, Prepares, Pushes

(* letting go of a reference, which may leave to this thread what the others left undone *)
LEMMA DropStep ==
  ASSUME Threaded, PoolInv, NEW t \in Users, Drop(t)
  PROVE  PoolInv'
<1>0. PoolTypes /\ AllocInv
  BY DEF PoolInv
<1> DEFINE u == user[t]
<1>1. u \in UserStates /\ u.pc = "drop" /\ DOMAIN user = Users
  BY <1>0 DEF PoolTypes, Drop, At
<1>2. PICK b \in PoolBlocks : b = u.prevHead /\ u.head \in Heads
  BY <1>1, UserParts
<1>3. PICK r \in Resumes : r = Searching(u.head)
  BY <1>2, SearchGoesOn
<1>4. PICK x : x = IF freeListRefs[b] = 1 /\ shouldBeOn[b] THEN [pc |-> "add", node |-> b, resume |-> r] ELSE r
  OBVIOUS
<1>5. /\ user' = [user EXCEPT ![t] = x] /\ freeListRefs' = [freeListRefs EXCEPT ![b] = @ - 1]
      /\ UNCHANGED <<initialPool, freeListHead, shouldBeOn, freeListNext, owned, allocated>>
  BY <1>2, <1>3, <1>4 DEF Drop, Become
<1>6. PICK kind \in [PoolBlocks -> Kinds], by \in [PoolBlocks -> Users \cup {None}],
           depth \in [PoolBlocks -> Nat] : Places(kind, by, depth)
  BY DEF PoolInv
<1>7. BlockInv(b, kind[b], by[b])
  BY <1>2, <1>6 DEF Places
<1>8. /\ x \in UserStates /\ x.pc \notin {"pop", "one", "push"}
      /\ \A c \in PoolBlocks : ~RefersTo(x, c) /\ ~Pops(x, c) /\ ~Pushes(x, c)
      /\ \A c \in PoolBlocks : Prepares(x, c) <=> c = b /\ freeListRefs[b] = 1 /\ shouldBeOn[b]
  <2>1. CASE freeListRefs[b] = 1 /\ shouldBeOn[b]
    <3>1. x.pc = "add" /\ x.node = b
      BY <1>4, <2>1
    <3>2. x \in UserStates
      BY <1>2, <1>4, <2>1 DEF UserStates
    <3> QED BY <1>2, <2>1, <3>1, <3>2 DEF RefersTo, Pops, Prepares, Pushes
  <2>2. CASE ~(freeListRefs[b] = 1 /\ shouldBeOn[b])
    BY <1>4, <2>2, ResumesAreQuiet
  <2> QED BY <2>1, <2>2
<1>9. /\ RefersTo(u, b) /\ \A c \in PoolBlocks : RefersTo(u, c) => c = b
      /\ \A c : ~Pops(u, c) /\ ~Prepares(u, c) /\ ~Pushes(u, c)
  BY <1>1, <1>2 DEF RefersTo, Pops, Prepares, Pushes
<1>10. /\ t \in Holders(b) /\ Cardinality(Holders(b)) \in Nat
       /\ Cardinality(Holders(b)) = 0 <=> Holders(b) = {}
       /\ Cardinality(Holders(b)') = Cardinality(Holders(b)) - 1
       /\ Cardinality(Holders(b)') = 0 <=> Holders(b)' = {}
  <2>1. ~RefersTo(x, b) /\ RefersTo(u, b)
    BY <1>8, <1>9
  <2>2. user' = [user EXCEPT ![t] = x]
    BY <1>5
  <2> QED BY <1>1, <2>1, <2>2, HoldersChange
<1>11. kind[b] \notin {"pool", "prepared"} /\ kind[b] \in Kinds /\ by[b] \in Users \cup {None}
  BY <1>2, <1>7, <1>10 DEF BlockInv
<1>12. freeListRefs'[b] = freeListRefs[b] - 1 /\ freeListRefs[b] = Cardinality(Holders(b)) + Counted(kind[b])
  BY <1>0, <1>2, <1>5, <1>7 DEF PoolTypes, BlockInv
<1>13. PoolTypes' /\ AllocInv'
  <2>1. freeListRefs'[b] \in Nat
    BY <1>10, <1>12 DEF Counted
  <2> QED BY <1>0, <1>2, <1>5, <1>8, <2>1 DEF PoolTypes, AllocInv, initialPool
<1>14. ASSUME NEW c \in PoolBlocks \ {b} PROVE UntouchedBy(t, x, c)
  <2>1. SameTo(u, x, c)
    BY <1>8, <1>9 DEF SameTo
  <2> QED BY <1>0, <1>5, <2>1 DEF UntouchedBy, PoolTypes, GivenOut, initialPool
<1>15. (GivenOut(b)' <=> GivenOut(b)) /\ owned' = owned /\ (shouldBeOn'[b] <=> shouldBeOn[b])
  BY <1>5 DEF GivenOut, initialPool
<1>16. CASE freeListRefs[b] = 1 /\ shouldBeOn[b]
  <2>1. kind[b] = "waits" /\ Cardinality(Holders(b)) = 1
    <3>1. kind[b] = "waits"
      BY <1>7, <1>11, <1>16 DEF BlockInv
    <3> QED BY <1>10, <1>12, <1>16, <3>1 DEF Counted
  <2>2. Holders(b)' = {} /\ freeListRefs'[b] = Cardinality(Holders(b)') + Counted("prepared")
    BY <1>10, <1>12, <1>16, <2>1 DEF Counted
  <2>3. BlockInv(b, "prepared", t)'
    <3>1. b \notin owned[t]
      BY <1>7, <2>1, PlaceOf
    <3>2. GivenOut(b)
      BY <1>7, <2>1 DEF BlockInv
    <3> QED BY <1>1, <1>2, <1>5, <1>7, <1>8, <1>15, <1>16, <2>1, <2>2, <3>1, <3>2, BlockGoes
  <2>4. "prepared" \in Kinds /\ t \in Users \cup {None} /\ ("prepared" = "listed" <=> kind[b] = "listed")
    BY <2>1 DEF Kinds
  <2>5. /\ user' = [user EXCEPT ![t] = x] /\ freeListNext' = freeListNext
        /\ freeListHead' = freeListHead /\ x.pc # "pop" /\ x.pc \notin {"one", "push"}
    BY <1>5, <1>8
  <2> QED BY <1>2, <1>6, <1>13, <1>14, <2>3, <2>4, <2>5, MoveStep
<1>17. CASE ~(freeListRefs[b] = 1 /\ shouldBeOn[b])
  <2>1. freeListRefs'[b] = Cardinality(Holders(b)') + Counted(kind[b])
    BY <1>10, <1>12 DEF Counted
  <2>2. kind[b] = "waits" => Holders(b)' # {}
    BY <1>7, <1>10, <1>12, <1>17 DEF BlockInv, Counted
  <2>3. BlockInv(b, kind[b], by[b])'
    <3>1. /\ Pops(x, b) <=> Pops(u, b)
          /\ Prepares(x, b) <=> Prepares(u, b)
          /\ Pushes(x, b) <=> Pushes(u, b)
      BY <1>2, <1>8, <1>9, <1>17
    <3> QED BY <1>1, <1>5, <1>7, <1>11, <1>15, <2>1, <2>2, <3>1, BlockCounts
  <2>4. /\ user' = [user EXCEPT ![t] = x] /\ freeListNext' = freeListNext
        /\ freeListHead' = freeListHead /\ x.pc # "pop" /\ x.pc \notin {"one", "push"}
    BY <1>5, <1>8
  <2> QED BY <1>2, <1>6, <1>11, <1>13, <1>14, <2>3, <2>4, MoveStep
<1> QED BY <1>16, <1>17

(* a block given back: listed by its owner, or left to those who still refer to it *)
LEMMA AddStep ==
  ASSUME Threaded, PoolInv, NEW t \in Users, Add(t)
  PROVE  PoolInv'
<1>0. PoolTypes /\ AllocInv
  BY DEF PoolInv
<1> DEFINE u == user[t]
<1>1. u \in UserStates /\ u.pc = "idle" /\ DOMAIN user = Users
  BY <1>0 DEF PoolTypes, Add, At
<1>2. PICK b \in PoolBlocks :
        /\ b \in owned[t] /\ owned' = [owned EXCEPT ![t] = @ \ {b}]
        /\ shouldBeOn' = [shouldBeOn EXCEPT ![b] = TRUE]
        /\ user' = [user EXCEPT ![t] = IF freeListRefs[b] = 0
                                       THEN [pc |-> "add", node |-> b, resume |-> Idle] ELSE Idle]
        /\ UNCHANGED <<initialPool, freeListHead, freeListRefs, freeListNext, allocated>>
  BY DEF Add, Become
<1>3. PICK x : x = IF freeListRefs[b] = 0 THEN [pc |-> "add", node |-> b, resume |-> Idle] ELSE Idle
  OBVIOUS
<1>4. user' = [user EXCEPT ![t] = x]
  BY <1>2, <1>3
<1>5. Idle \in Resumes
  BY DEF Resumes
<1>6. PICK kind \in [PoolBlocks -> Kinds], by \in [PoolBlocks -> Users \cup {None}],
           depth \in [PoolBlocks -> Nat] : Places(kind, by, depth)
  BY DEF PoolInv
<1>7. BlockInv(b, kind[b], by[b]) /\ kind[b] = "owned" /\ by[b] = t
  BY <1>2, <1>6, PlaceOf DEF Places
<1>8. /\ x \in UserStates /\ x.pc \notin {"pop", "one", "push"}
      /\ \A c \in PoolBlocks : ~RefersTo(x, c) /\ ~Pops(x, c) /\ ~Pushes(x, c)
      /\ \A c \in PoolBlocks : Prepares(x, c) <=> c = b /\ freeListRefs[b] = 0
  <2>1. CASE freeListRefs[b] = 0
    <3>1. x.pc = "add" /\ x.node = b
      BY <1>3, <2>1
    <3>2. x \in UserStates
      BY <1>2, <1>3, <1>5, <2>1 DEF UserStates
    <3> QED BY <1>2, <2>1, <3>1, <3>2 DEF RefersTo, Pops, Prepares, Pushes
  <2>2. CASE freeListRefs[b] # 0
    BY <1>3, <1>5, <2>2, ResumesAreQuiet
  <2> QED BY <2>1, <2>2
<1>9. \A c : ~RefersTo(u, c) /\ ~Pops(u, c) /\ ~Prepares(u, c) /\ ~Pushes(u, c)
  BY <1>1 DEF RefersTo, Pops, Prepares, Pushes
<1>10. /\ Holders(b)' = Holders(b) /\ Cardinality(Holders(b)) \in Nat
       /\ Cardinality(Holders(b)) = 0 <=> Holders(b) = {}
  BY <1>1, <1>2, <1>4, <1>8, <1>9, HoldersChange
<1>11. freeListRefs'[b] = freeListRefs[b] /\ freeListRefs[b] = Cardinality(Holders(b))
  BY <1>2, <1>7, <1>10 DEF BlockInv, Counted
<1>12. PoolTypes' /\ AllocInv'
  <2>1. PoolTypes'
    BY <1>0, <1>2, <1>4, <1>8 DEF PoolTypes, initialPool
  <2>2. AllocInv'
    BY <1>0, <1>2 DEF PoolTypes, AllocInv
  <2> QED BY <2>1, <2>2
<1>13. ASSUME NEW c \in PoolBlocks \ {b} PROVE UntouchedBy(t, x, c)
  <2>1. SameTo(u, x, c)
    BY <1>8, <1>9 DEF SameTo
  <2>2. \A v \in Users : c \in owned'[v] <=> c \in owned[v]
    BY <1>0, <1>2 DEF PoolTypes
  <2>3. shouldBeOn'[c] = shouldBeOn[c]
    BY <1>0, <1>2 DEF PoolTypes
  <2> QED BY <1>2, <2>1, <2>2, <2>3 DEF UntouchedBy, GivenOut, initialPool
<1>14. PICK k \in Kinds : k = IF freeListRefs[b] = 0 THEN "prepared" ELSE "waits"
  BY DEF Kinds
<1>15. BlockInv(b, k, t)'
  <2>1. b \notin owned'[t] /\ \A v \in Users \ {t} : b \in owned'[v] <=> b \in owned[v]
    BY <1>0, <1>2 DEF PoolTypes
  <2>2. GivenOut(b)' /\ shouldBeOn'[b]
    BY <1>0, <1>2, <1>7 DEF BlockInv, GivenOut, initialPool, PoolTypes
  <2>3. freeListRefs'[b] = Cardinality(Holders(b)') + Counted(k)
    BY <1>10, <1>11, <1>14 DEF Counted
  <2>4. (k = "prepared" => Holders(b)' = {}) /\ (k = "waits" => Holders(b)' # {})
    BY <1>10, <1>11, <1>14
  <2>5. k \in {"prepared", "waits"} /\ (Prepares(x, b) <=> k = "prepared")
    BY <1>2, <1>8, <1>14
  <2> QED BY <1>1, <1>2, <1>4, <1>7, <1>8, <2>1, <2>2, <2>3, <2>4, <2>5, BlockGoes
<1>16. freeListHead' = freeListHead /\ freeListNext' = freeListNext /\ (k = "listed" <=> kind[b] = "listed")
  BY <1>2, <1>7, <1>14
<1>17. x.pc # "pop" /\ x.pc \notin {"one", "push"}
  BY <1>8
<1> QED BY <1>2, <1>4, <1>6, <1>12, <1>13, <1>15, <1>16, <1>17, MoveStep

(* the block is made ready: its count is the list's *)
LEMMA StoreRefsStep ==
  ASSUME Threaded, PoolInv, NEW t \in Users, StoreRefs(t)
  PROVE  PoolInv'
<1>0. PoolTypes /\ AllocInv
  BY DEF PoolInv
<1> DEFINE u == user[t]
<1>1. u \in UserStates /\ u.pc = "one" /\ DOMAIN user = Users
  BY <1>0 DEF PoolTypes, StoreRefs, At
<1>2. PICK b \in PoolBlocks : b = u.node /\ u.head \in Heads
  BY <1>1, UserParts
<1>3. PICK x : x = [u EXCEPT !.pc = "push"]
  OBVIOUS
<1>4. x \in UserStates /\ x.pc = "push" /\ x.node = b /\ x.head = u.head
  BY <1>1, <1>2, <1>3, PcChanges
<1>5. /\ user' = [user EXCEPT ![t] = x]
      /\ freeListRefs' = [freeListRefs EXCEPT ![b] = 1] /\ shouldBeOn' = [shouldBeOn EXCEPT ![b] = FALSE]
      /\ UNCHANGED <<initialPool, freeListHead, freeListNext, owned, allocated>>
  BY <1>2, <1>3 DEF StoreRefs, To
<1>6. PICK kind \in [PoolBlocks -> Kinds], by \in [PoolBlocks -> Users \cup {None}],
           depth \in [PoolBlocks -> Nat] : Places(kind, by, depth)
  BY DEF PoolInv
<1>7. /\ Prepares(u, b) /\ ~RefersTo(u, b)
      /\ Pushes(x, b) /\ ~Prepares(x, b) /\ ~Pops(x, b) /\ ~RefersTo(x, b)
  BY <1>1, <1>2, <1>4 DEF Prepares, Pushes, Pops, RefersTo
<1>8. BlockInv(b, kind[b], by[b])
  BY <1>2, <1>6 DEF Places
<1>9. kind[b] = "prepared" /\ by[b] = t /\ Holders(b) = {}
  BY <1>7, <1>8, PlaceOf DEF BlockInv
<1>10. Holders(b)' = {} /\ Cardinality(Holders(b)') = 0
  BY <1>1, <1>5, <1>7, <1>9, HoldersChange
<1>11. BlockInv(b, "pushed", t)'
  <2>1. b \notin owned'[t] /\ \A v \in Users \ {t} : b \in owned'[v] <=> b \in owned[v]
    BY <1>5, <1>8, <1>9, PlaceOf
  <2>2. GivenOut(b)' /\ ~shouldBeOn'[b] /\ freeListRefs'[b] = 1
    BY <1>0, <1>5, <1>8, <1>9 DEF BlockInv, GivenOut, initialPool, PoolTypes
  <2>3. freeListRefs'[b] = Cardinality(Holders(b)') + Counted("pushed")
    BY <1>10, <2>2 DEF Counted
  <2> QED BY <1>1, <1>5, <1>7, <1>8, <1>9, <2>1, <2>2, <2>3, BlockGoes
<1>12. ASSUME NEW c \in PoolBlocks \ {b} PROVE UntouchedBy(t, x, c)
  <2>1. SameTo(u, x, c)
    BY <1>1, <1>2, <1>4 DEF SameTo, RefersTo, Pops, Prepares, Pushes
  <2>2. freeListRefs'[c] = freeListRefs[c] /\ shouldBeOn'[c] = shouldBeOn[c]
    BY <1>0, <1>5 DEF PoolTypes
  <2> QED BY <1>5, <2>1, <2>2 DEF UntouchedBy, GivenOut, initialPool
<1>13. PoolTypes' /\ AllocInv'
  <2>1. freeListRefs' \in [PoolBlocks -> Nat] /\ shouldBeOn' \in [PoolBlocks -> BOOLEAN]
    BY <1>0, <1>2, <1>5 DEF PoolTypes
  <2> QED BY <1>0, <1>4, <1>5, <2>1 DEF PoolTypes, AllocInv, initialPool
<1>14. freeListNext[x.node] = x.head /\ x.pc # "pop" /\ "pushed" \in Kinds
  BY <1>1, <1>2, <1>4 DEF PoolInv, Reads, Kinds
<1>15. /\ user' = [user EXCEPT ![t] = x] /\ freeListNext' = freeListNext
       /\ freeListHead' = freeListHead /\ ("pushed" = "listed" <=> kind[b] = "listed")
  BY <1>5, <1>9
<1> QED BY <1>2, <1>6, <1>11, <1>12, <1>13, <1>14, <1>15, MoveStep

(* the block is the new head, and what it points to is the old one *)
LEMMA PushStep ==
  ASSUME Threaded, PoolInv, NEW t \in Users, Push(t), freeListHead = user[t].head
  PROVE  PoolInv'
<1>0. PoolTypes /\ AllocInv
  BY DEF PoolInv
<1> DEFINE u == user[t]
<1>1. u \in UserStates /\ u.pc = "push" /\ DOMAIN user = Users
  BY <1>0 DEF PoolTypes, Push, At
<1>2. PICK b \in PoolBlocks : b = u.node /\ u.resume \in Resumes
  BY <1>1, UserParts
<1>3. PICK x \in Resumes : x = u.resume
  BY <1>2
<1>4. /\ x \in UserStates /\ x.pc \notin {"pop", "one", "push"}
      /\ \A c : ~RefersTo(x, c) /\ ~Pops(x, c) /\ ~Prepares(x, c) /\ ~Pushes(x, c)
  BY ResumesAreQuiet
<1>5. /\ user' = [user EXCEPT ![t] = x] /\ freeListHead' = b
      /\ UNCHANGED <<initialPool, freeListRefs, shouldBeOn, freeListNext, owned, allocated>>
  BY <1>2, <1>3 DEF Push, Added, Become
<1>6. PICK kind \in [PoolBlocks -> Kinds], by \in [PoolBlocks -> Users \cup {None}],
           depth \in [PoolBlocks -> Nat] : Places(kind, by, depth)
  BY DEF PoolInv
<1>7. /\ Pushes(u, b) /\ \A c \in PoolBlocks : Pushes(u, c) => c = b
      /\ \A c : ~RefersTo(u, c) /\ ~Pops(u, c) /\ ~Prepares(u, c)
  BY <1>1, <1>2 DEF Prepares, Pushes, Pops, RefersTo
<1>8. BlockInv(b, kind[b], by[b]) /\ StackInv(kind, depth)
  BY <1>2, <1>6 DEF Places
<1>9. kind[b] = "pushed" /\ by[b] = t
  BY <1>7, <1>8, PlaceOf
<1>10. Holders(b)' = Holders(b)
  BY <1>1, <1>4, <1>5, <1>7, HoldersChange
<1>11. BlockInv(b, "listed", t)'
  <2>1. b \notin owned'[t] /\ \A v \in Users \ {t} : b \in owned'[v] <=> b \in owned[v]
    BY <1>5, <1>8, <1>9, PlaceOf
  <2>2. GivenOut(b)' /\ ~shouldBeOn'[b]
    BY <1>5, <1>8, <1>9 DEF BlockInv, GivenOut, initialPool
  <2>3. freeListRefs'[b] = Cardinality(Holders(b)') + Counted("listed")
    BY <1>5, <1>8, <1>9, <1>10 DEF BlockInv, Counted
  <2> QED BY <1>1, <1>4, <1>5, <1>8, <1>9, <2>1, <2>2, <2>3, BlockGoes
<1>12. ASSUME NEW c \in PoolBlocks \ {b} PROVE UntouchedBy(t, x, c)
  <2>1. SameTo(u, x, c)
    BY <1>4, <1>7 DEF SameTo
  <2> QED BY <1>5, <2>1 DEF UntouchedBy, GivenOut, initialPool
<1>13. PoolTypes' /\ AllocInv'
  <2>1. freeListHead' \in Heads
    BY <1>2, <1>5 DEF Heads
  <2> QED BY <1>0, <1>4, <1>5, <2>1 DEF PoolTypes, AllocInv, initialPool
<1>14. \E deeper \in [PoolBlocks -> Nat] : StackInv([kind EXCEPT ![b] = "listed"], deeper)'
  <2>1. PICK other : other = [kind EXCEPT ![b] = "listed"]
    OBVIOUS
  <2>2. \A c \in PoolBlocks : other[c] = "listed" <=> kind[c] = "listed" \/ c = b
    BY <1>2, <2>1
  <2>3. /\ kind[b] # "listed" /\ freeListHead \in Heads /\ freeListHead' = b
        /\ freeListNext \in [PoolBlocks -> Heads] /\ freeListNext' = freeListNext
        /\ freeListNext[b] = freeListHead
    BY <1>0, <1>1, <1>2, <1>5, <1>9 DEF PoolTypes, PoolInv, Reads
  <2>4. \E deeper \in [PoolBlocks -> Nat] : StackInv(other, deeper)'
    BY <1>2, <1>8, <2>2, <2>3, StackPushed
  <2> QED BY <2>1, <2>4
<1>15. "listed" \in Kinds /\ user' = [user EXCEPT ![t] = x] /\ freeListNext' = freeListNext
       /\ x.pc # "pop" /\ x.pc \notin {"one", "push"}
  BY <1>4, <1>5 DEF Kinds
<1> QED BY <1>2, <1>6, <1>11, <1>12, <1>13, <1>14, <1>15, MoveStep

(* the push has failed: the block waits for those who referred to it meanwhile, if any *)
LEMMA UndoStep ==
  ASSUME Threaded, PoolInv, NEW t \in Users, Undo(t)
  PROVE  PoolInv'
<1>0. PoolTypes /\ AllocInv
  BY DEF PoolInv
<1> DEFINE u == user[t]
<1>1. u \in UserStates /\ u.pc = "undo" /\ DOMAIN user = Users
  BY <1>0 DEF PoolTypes, Undo, At
<1>2. PICK b \in PoolBlocks : b = u.node /\ u.resume \in Resumes
  BY <1>1, UserParts
<1>3. PICK kind \in [PoolBlocks -> Kinds], by \in [PoolBlocks -> Users \cup {None}],
           depth \in [PoolBlocks -> Nat] : Places(kind, by, depth)
  BY DEF PoolInv
<1>4. /\ Pushes(u, b) /\ \A c \in PoolBlocks : Pushes(u, c) => c = b
      /\ \A c : ~RefersTo(u, c) /\ ~Pops(u, c) /\ ~Prepares(u, c)
  BY <1>1, <1>2 DEF Prepares, Pushes, Pops, RefersTo
<1>5. BlockInv(b, kind[b], by[b])
  BY <1>2, <1>3 DEF Places
<1>6. kind[b] = "pushed" /\ by[b] = t /\ ~shouldBeOn[b]
  BY <1>4, <1>5, PlaceOf DEF BlockInv
<1>7. PICK x : x = IF freeListRefs[b] = 1 THEN [u EXCEPT !.pc = "store"] ELSE u.resume
  OBVIOUS
<1>8. /\ user' = [user EXCEPT ![t] = x] /\ freeListRefs' = [freeListRefs EXCEPT ![b] = @ - 1]
      /\ shouldBeOn' = [shouldBeOn EXCEPT ![b] = TRUE]
      /\ UNCHANGED <<initialPool, freeListHead, freeListNext, owned, allocated>>
  <2>1. CASE freeListRefs[b] = 1
    BY <1>2, <1>6, <1>7, <2>1 DEF Undo, To
  <2>2. CASE freeListRefs[b] # 1
    BY <1>2, <1>6, <1>7, <2>2 DEF Undo, Added, Become
  <2> QED BY <2>1, <2>2
<1>9. /\ x \in UserStates /\ x.pc \notin {"pop", "one", "push"}
      /\ \A c \in PoolBlocks : ~RefersTo(x, c) /\ ~Pops(x, c) /\ ~Pushes(x, c)
      /\ \A c \in PoolBlocks : Prepares(x, c) <=> c = b /\ freeListRefs[b] = 1
  <2>1. CASE freeListRefs[b] = 1
    <3>1. x \in UserStates /\ x.pc = "store" /\ x.node = b
      BY <1>1, <1>2, <1>7, <2>1, PcChanges
    <3> QED BY <1>2, <2>1, <3>1 DEF RefersTo, Pops, Prepares, Pushes
  <2>2. CASE freeListRefs[b] # 1
    BY <1>2, <1>7, <2>2, ResumesAreQuiet
  <2> QED BY <2>1, <2>2
<1>10. /\ Holders(b)' = Holders(b) /\ Cardinality(Holders(b)) \in Nat
       /\ Cardinality(Holders(b)) = 0 <=> Holders(b) = {}
  <2>1. ~RefersTo(x, b) /\ ~RefersTo(u, b)
    BY <1>4, <1>9
  <2>2. user' = [user EXCEPT ![t] = x]
    BY <1>8
  <2> QED BY <1>1, <2>1, <2>2, HoldersChange
<1>11. freeListRefs'[b] = freeListRefs[b] - 1 /\ freeListRefs[b] = Cardinality(Holders(b)) + 1
  BY <1>0, <1>2, <1>5, <1>6, <1>8 DEF PoolTypes, BlockInv, Counted
<1>12. PoolTypes' /\ AllocInv'
  <2>1. freeListRefs'[b] \in Nat
    BY <1>10, <1>11
  <2>2. freeListRefs' \in [PoolBlocks -> Nat] /\ shouldBeOn' \in [PoolBlocks -> BOOLEAN]
    BY <1>0, <1>2, <1>8, <2>1 DEF PoolTypes
  <2> QED BY <1>0, <1>8, <1>9, <2>2 DEF PoolTypes, AllocInv, initialPool
<1>13. ASSUME NEW c \in PoolBlocks \ {b} PROVE UntouchedBy(t, x, c)
  <2>1. SameTo(u, x, c)
    BY <1>4, <1>9 DEF SameTo
  <2>2. freeListRefs'[c] = freeListRefs[c] /\ shouldBeOn'[c] = shouldBeOn[c]
    BY <1>0, <1>8 DEF PoolTypes
  <2> QED BY <1>8, <2>1, <2>2 DEF UntouchedBy, GivenOut, initialPool
<1>14. PICK k \in Kinds : k = IF freeListRefs[b] = 1 THEN "prepared" ELSE "waits"
  BY DEF Kinds
<1>15. BlockInv(b, k, t)'
  <2>1. b \notin owned'[t] /\ \A v \in Users \ {t} : b \in owned'[v] <=> b \in owned[v]
    BY <1>5, <1>6, <1>8, PlaceOf
  <2>2. GivenOut(b)' /\ shouldBeOn'[b]
    BY <1>0, <1>5, <1>6, <1>8 DEF BlockInv, GivenOut, initialPool, PoolTypes
  <2>3. freeListRefs'[b] = Cardinality(Holders(b)') + Counted(k)
    BY <1>10, <1>11, <1>14 DEF Counted
  <2>4. (k = "prepared" => Holders(b)' = {}) /\ (k = "waits" => Holders(b)' # {})
    BY <1>10, <1>11, <1>14
  <2>5. k \in {"prepared", "waits"} /\ (Prepares(x, b) <=> k = "prepared")
    BY <1>2, <1>9, <1>14
  <2>6. user' = [user EXCEPT ![t] = x] /\ ~Pops(x, b) /\ ~Pushes(x, b)
    BY <1>8, <1>9
  <2> QED BY <1>1, <1>5, <1>6, <2>1, <2>2, <2>3, <2>4, <2>5, <2>6, BlockGoes
<1>16. user' = [user EXCEPT ![t] = x] /\ freeListHead' = freeListHead /\ freeListNext' = freeListNext
  BY <1>8
<1>17. k # "listed" /\ kind[b] # "listed"
  BY <1>6, <1>14
<1>18. x.pc # "pop" /\ x.pc \notin {"one", "push"}
  BY <1>9
<1> QED BY <1>3, <1>12, <1>13, <1>15, <1>16, <1>17, <1>18, MoveStep

LEMMA PoolInvInit == ASSUME Threaded, Init PROVE PoolInv
<1>1. PoolTypes
  <2>1. Idle \in UserStates
    BY DEF UserStates, Idle
  <2> QED BY <2>1 DEF Init, PoolTypes, Heads, Threaded
<1>2. /\ \A t \in Users : user[t].pc = "idle" /\ owned[t] = {}
      /\ \A b \in PoolBlocks : freeListRefs[b] = 0 /\ ~shouldBeOn[b]
      /\ freeListHead = None /\ initialBlockPoolIndex = 0
  BY DEF Init, Idle
<1>3. PICK kind \in [PoolBlocks -> Kinds], by \in [PoolBlocks -> Users \cup {None}],
           depth \in [PoolBlocks -> Nat] :
        \A b \in PoolBlocks : kind[b] = "pool" /\ by[b] = None
  <2>1. /\ [b \in PoolBlocks |-> "pool"] \in [PoolBlocks -> Kinds]
        /\ [b \in PoolBlocks |-> None] \in [PoolBlocks -> Users \cup {None}]
        /\ [b \in PoolBlocks |-> 0] \in [PoolBlocks -> Nat]
    BY DEF Kinds
  <2> QED BY <2>1
<1>4. ASSUME NEW b \in PoolBlocks PROVE BlockInv(b, kind[b], by[b])
  <2>1. \A t \in Users : /\ ~RefersTo(user[t], b) /\ ~Pops(user[t], b)
                         /\ ~Prepares(user[t], b) /\ ~Pushes(user[t], b)
    BY <1>2 DEF RefersTo, Pops, Prepares, Pushes
  <2>2. Holders(b) = {} /\ Cardinality(Holders(b)) = 0
    BY <2>1, FS_EmptySet DEF Holders
  <2>3. ~GivenOut(b)
    BY <1>2, PoolIsNat DEF GivenOut
  <2> QED BY <1>2, <1>3, <2>1, <2>2, <2>3 DEF BlockInv, Counted
<1>5. StackInv(kind, depth)
  <2>1. \A b \in PoolBlocks : kind[b] # "listed"
    BY <1>3
  <2>2. {b \in PoolBlocks : kind[b] = "listed"} = {}
    BY <2>1
  <2> QED BY <1>2, <2>1, <2>2, FS_EmptySet DEF StackInv
<1>6. (\A t \in Users : Reads(t)) /\ AllocInv
  BY <1>2 DEF Reads, AllocInv
<1> QED BY <1>1, <1>4, <1>5, <1>6 DEF PoolInv, Places

LEMMA PoolInvStays ==
  ASSUME Threaded, PoolInv, [Next]_vars
  PROVE  PoolInv'
<1>1. ASSUME NEW t \in Users, Step(t) \/ Requisition(t) \/ Destroy(t) \/ Add(t)
      PROVE  PoolInv'
  <2>1. CASE \/ Requisition(t) \/ LoadHead(t) \/ LoadRefs(t) \/ Create(t) \/ CreateFails(t) \/ Destroy(t)
    BY <2>1, FreeSteps
  <2>2. CASE TakeFromPool(t)
    BY <2>2, TakeFromPoolStep
  <2>3. CASE AddRef(t)
    BY <2>3, AddRefStep
  <2>4. CASE LoadNext(t) \/ AddLoad(t)
    BY <2>4, ReadSteps
  <2>5. CASE Pop(t)
    BY <2>5, ReadSteps, PopStep
  <2>6. CASE Popped(t)
    BY <2>6, PoppedStep
  <2>7. CASE Drop(t)
    BY <2>7, DropStep
  <2>8. CASE Add(t)
    BY <2>8, AddStep
  <2>9. CASE StoreNext(t)
    BY <2>9, StoreNextStep
  <2>10. CASE StoreRefs(t)
    BY <2>10, StoreRefsStep
  <2>11. CASE Push(t)
    BY <2>11, ReadSteps, PushStep
  <2>12. CASE Undo(t)
    BY <2>12, UndoStep
  <2> QED BY <1>1, <2>1, <2>2, <2>3, <2>4, <2>5, <2>6, <2>7, <2>8, <2>9, <2>10, <2>11, <2>12 DEF Step
<1>2. ASSUME UNCHANGED vars PROVE PoolInv'
  <2>1. CASE \E t : t \in Users
    <3>1. PICK t \in Users : TRUE
      BY <2>1
    <3>2. PICK x : x = user[t]
      OBVIOUS
    <3>3. user' = [user EXCEPT ![t] = x] /\ PoolTypes' /\ AllocInv' /\ UNCHANGED freeList
      BY <1>2, <3>2 DEF PoolInv, PoolTypes, AllocInv, vars, initialPool, freeList
    <3>4. \A b \in PoolBlocks : /\ SameTo(user[t], x, b)
                                /\ GivenOut(b)' <=> GivenOut(b)
                                /\ \A v \in Users : b \in owned'[v] <=> b \in owned[v]
      BY <1>2, <3>2 DEF SameTo, GivenOut, vars, initialPool
    <3>5. /\ x.pc = "pop" => x.next = freeListNext[x.head]
          /\ x.pc \in {"one", "push"} => freeListNext[x.node] = x.head
      BY <3>2 DEF PoolInv, Reads
    <3> QED BY <3>3, <3>4, <3>5, LocalStep
  <2>2. CASE ~\E t : t \in Users
    <3>1. PICK kind \in [PoolBlocks -> Kinds], by \in [PoolBlocks -> Users \cup {None}],
               depth \in [PoolBlocks -> Nat] : Places(kind, by, depth)
      BY DEF PoolInv
    <3>2. \A b : Holders(b)' = Holders(b)
      BY <2>2 DEF Holders
    <3>3. \A b \in PoolBlocks : BlockInv(b, kind[b], by[b])'
      BY <1>2, <2>2, <3>1, <3>2 DEF Places, BlockInv, GivenOut, vars, initialPool, freeList, Pops, Prepares,
        Pushes
    <3>4. StackInv(kind, depth)'
      BY <1>2, <3>1, StackFrame DEF Places, PoolInv, PoolTypes, vars, freeList
    <3>5. Places(kind, by, depth)'
      BY <3>3, <3>4 DEF Places
    <3>6. PoolTypes' /\ AllocInv' /\ \A t \in Users : Reads(t)'
      BY <1>2, <2>2 DEF PoolInv, PoolTypes, AllocInv, vars, initialPool, freeList
    <3> QED BY <3>5, <3>6 DEF PoolInv
  <2> QED BY <2>1, <2>2
<1> QED BY <1>1, <1>2 DEF Next, Finished

-----------------------------------------------------------------------------
(* What the recursion of Listed reaches: the block n below the head, while there is one. *)
LEMMA ListedIsTheStack ==
  ASSUME Threaded, NEW kind, NEW depth \in [PoolBlocks -> Nat], StackInv(kind, depth),
         freeListHead \in Heads, freeListNext \in [PoolBlocks -> Heads]
  PROVE  Listed = {b \in PoolBlocks : kind[b] = "listed"}
<1> DEFINE S == {b \in PoolBlocks : kind[b] = "listed"}
           D == IF freeListHead = None THEN 0 ELSE depth[freeListHead]
           Walk(w) == [n \in 0..PoolSize |->
                         IF n = 0 THEN freeListHead
                         ELSE IF w[n - 1] = None THEN None ELSE freeListNext[w[n - 1]]]
           f == CHOOSE w : w = Walk(w)
           Below(n, b) == IF n < D THEN b \in S /\ depth[b] = D - n ELSE b = None
<1>0. PoolSize \in Nat /\ None \notin PoolBlocks
  BY PoolIsNat DEF Threaded
<1>1. D \in Nat /\ D <= PoolSize
  <2>1. IsFiniteSet(PoolBlocks) /\ Cardinality(PoolBlocks) = PoolSize
    BY <1>0, FS_Interval DEF PoolBlocks
  <2>2. IsFiniteSet(S) /\ Cardinality(S) <= PoolSize /\ Cardinality(S) \in Nat
    BY <2>1, FS_Subset, FS_CardinalityType
  <2>3. Cardinality(S) = D
    BY DEF StackInv
  <2> QED BY <2>2, <2>3
<1>2. Below(0, freeListHead)
  <2>1. CASE freeListHead = None
    BY <2>1
  <2>2. CASE freeListHead # None
    <3>1. freeListHead \in S /\ 1 <= depth[freeListHead]
      BY <2>2 DEF StackInv, Heads
    <3> QED BY <1>1, <2>2, <3>1
  <2> QED BY <2>1, <2>2
<1>3. ASSUME NEW n \in Nat, NEW b, Below(n, b)
      PROVE  Below(n + 1, IF b = None THEN None ELSE freeListNext[b])
  <2>1. CASE n < D
    <3>1. b \in PoolBlocks /\ kind[b] = "listed" /\ depth[b] = D - n /\ b # None
      BY <1>0, <1>3, <2>1
    <3>2. depth[b] = 1 => freeListNext[b] = None
      BY <3>1 DEF StackInv
    <3>3. depth[b] > 1 => freeListNext[b] \in S /\ depth[freeListNext[b]] = depth[b] - 1
      BY <3>1 DEF StackInv, Heads
    <3> QED BY <1>1, <2>1, <3>1, <3>2, <3>3
  <2>2. CASE ~(n < D)
    BY <1>1, <1>3, <2>2
  <2> QED BY <2>1, <2>2
<1>4. \A n \in Nat : \E b : Below(n, b)
  <2> DEFINE T == {n \in Nat : \E b : Below(n, b)}
  <2>1. 0 \in T
    BY <1>2
  <2>2. \A n \in Nat : n \in T => n + 1 \in T
    <3> HIDE DEF Below
    <3> QED BY <1>3
  <2>3. \A n \in Nat : n \in T
    <3> HIDE DEF T
    <3> QED BY <2>1, <2>2, InductionOnNat
  <2> QED BY <2>3
<1>5. ASSUME NEW n \in Nat, NEW b, NEW c, Below(n, b), Below(n, c) PROVE b = c
  BY <1>1, <1>5 DEF StackInv
<1>6. \E w : w = Walk(w)
  <2>1. PICK w : w = [n \in 0..PoolSize |-> CHOOSE b : Below(n, b)]
    OBVIOUS
  <2>2. \A n \in 0..PoolSize : Below(n, w[n])
    <3> HIDE DEF Below
    <3> QED BY <1>4, <2>1
  <2>3. ASSUME NEW n \in 0..PoolSize PROVE w[n] = Walk(w)[n]
    <3>1. CASE n = 0
      <4>1. Below(0, w[0])
        BY <1>0, <2>2
      <4>2. w[0] = freeListHead
        <5> HIDE DEF Below
        <5> QED BY <1>2, <1>5, <4>1
      <4> QED BY <3>1, <4>2
    <3>2. CASE n # 0
      <4>1. n - 1 \in 0..PoolSize /\ n - 1 \in Nat /\ (n - 1) + 1 = n /\ n \in Nat
        BY <1>0, <3>2
      <4>2. Below(n, IF w[n - 1] = None THEN None ELSE freeListNext[w[n - 1]])
        <5> HIDE DEF Below
        <5>1. Below(n - 1, w[n - 1])
          BY <2>2, <4>1
        <5>2. Below((n - 1) + 1, IF w[n - 1] = None THEN None ELSE freeListNext[w[n - 1]])
          BY <1>3, <4>1, <5>1
        <5> QED BY <4>1, <5>2
      <4>3. w[n] = IF w[n - 1] = None THEN None ELSE freeListNext[w[n - 1]]
        <5> HIDE DEF Below
        <5> QED BY <1>5, <2>2, <4>1, <4>2
      <4> QED BY <3>2, <4>3
    <3> QED BY <3>1, <3>2
  <2>4. w = Walk(w)
    <3> HIDE DEF Below
    <3> QED BY <2>1, <2>3
  <2> QED BY <2>4
<1>7. f = Walk(f)
  BY <1>6
<1>8. Listed = {f[n] : n \in 0..PoolSize} \ {None}
  BY DEF Listed
<1> HIDE DEF f
<1>9. \A n \in 0..PoolSize : Below(n, f[n])
  <2> DEFINE T == {n \in Nat : n <= PoolSize => Below(n, f[n])}
  <2>1. 0 \in T
    <3>1. f[0] = freeListHead
      BY <1>0, <1>7
    <3> HIDE DEF Below
    <3> QED BY <1>2, <3>1
  <2>2. ASSUME NEW n \in Nat, n \in T PROVE n + 1 \in T
    <3> SUFFICES ASSUME n + 1 <= PoolSize PROVE Below(n + 1, f[n + 1])
      OBVIOUS
    <3>1. n + 1 \in 0..PoolSize /\ n + 1 # 0 /\ (n + 1) - 1 = n /\ n <= PoolSize
      BY <1>0
    <3>2. f[n + 1] = IF f[n] = None THEN None ELSE freeListNext[f[n]]
      BY <1>7, <3>1
    <3> HIDE DEF Below
    <3> QED BY <1>3, <2>2, <3>1, <3>2
  <2>3. \A n \in Nat : n \in T
    <3> HIDE DEF T
    <3> QED BY <2>1, <2>2, InductionOnNat
  <2> QED BY <2>3, <1>0
<1>10. ASSUME NEW n \in 0..PoolSize, f[n] # None PROVE f[n] \in S
  BY <1>9, <1>10
<1>11. ASSUME NEW b \in S PROVE \E n \in 0..PoolSize : f[n] = b /\ b # None
  <2>1. b \in PoolBlocks /\ b # None /\ freeListHead # None /\ 1 <= depth[b] /\ depth[b] <= D
    BY <1>0 DEF StackInv
  <2>2. PICK n : n = D - depth[b]
    OBVIOUS
  <2>3. n \in 0..PoolSize /\ n \in Nat /\ n < D /\ depth[b] = D - n
    BY <1>0, <1>1, <2>1, <2>2
  <2>4. Below(n, b)
    BY <2>3
  <2>5. f[n] = b
    <3> HIDE DEF Below
    <3> QED BY <1>5, <1>9, <2>3, <2>4
  <2> QED BY <2>1, <2>3, <2>5
<1> QED BY <1>8, <1>10, <1>11

LEMMA ConservedByPlaces ==
  ASSUME Threaded, PoolInv
  PROVE  BlocksConserved
<1>0. PoolTypes /\ AllocInv
  BY DEF PoolInv
<1>1. PICK kind \in [PoolBlocks -> Kinds], by \in [PoolBlocks -> Users \cup {None}],
           depth \in [PoolBlocks -> Nat] : Places(kind, by, depth)
  BY DEF PoolInv
<1>2. \A b \in PoolBlocks : BlockInv(b, kind[b], by[b])
  BY <1>1 DEF Places
<1>3. Listed = {b \in PoolBlocks : kind[b] = "listed"}
  BY <1>0, <1>1, ListedIsTheStack DEF Places, PoolTypes
<1>4. ASSUME NEW t \in Users, NEW v \in Users, t # v PROVE owned[t] \cap owned[v] = {}
  <2>1. \A b \in PoolBlocks : ~(b \in owned[t] /\ b \in owned[v])
    BY <1>2, <1>4, PlaceOf
  <2>2. owned[t] \subseteq PoolBlocks \cup Allocatable
    BY <1>0 DEF PoolTypes
  <2> QED BY <1>0, <1>4, <2>1, <2>2 DEF AllocInv
<1>5. ASSUME NEW t \in Users PROVE owned[t] \cap Listed = {}
  BY <1>2, <1>3, PlaceOf
<1>6. ASSUME NEW t \in Users, At(t, "popped") PROVE ~shouldBeOn[user[t].head]
  <2>1. user[t].pc = "popped" /\ user[t].head \in PoolBlocks
    BY <1>0, <1>6, UserParts DEF At, PoolTypes
  <2>2. kind[user[t].head] = "popped"
    BY <1>2, <2>1, PlaceOf DEF Pops
  <2> QED BY <1>2, <2>1, <2>2 DEF BlockInv
<1>7. ASSUME \A t \in Users : At(t, "idle"),
             NEW b \in 1..Min({initialBlockPoolIndex, initialBlockPoolSize})
      PROVE  b \in Listed \/ \E t \in Users : b \in owned[t]
  <2>1. b \in PoolBlocks /\ GivenOut(b)
    <3>1. initialBlockPoolIndex \in Nat /\ initialBlockPoolSize \in Nat /\ initialBlockPoolSize <= PoolSize
      BY <1>0 DEF PoolTypes, Threaded
    <3>2. PICK m : m = Min({initialBlockPoolIndex, initialBlockPoolSize})
      OBVIOUS
    <3>3. m \in Nat /\ m <= initialBlockPoolIndex /\ m <= initialBlockPoolSize
      <4>1. \E x \in {initialBlockPoolIndex, initialBlockPoolSize} :
              \A y \in {initialBlockPoolIndex, initialBlockPoolSize} : x <= y
        BY <3>1
      <4> QED BY <3>1, <3>2, <4>1 DEF Min
    <3> QED BY <3>1, <3>2, <3>3 DEF GivenOut, PoolBlocks, Threaded
  <2>2. \A t \in Users : /\ ~RefersTo(user[t], b) /\ ~Pops(user[t], b)
                         /\ ~Prepares(user[t], b) /\ ~Pushes(user[t], b)
    BY <1>7 DEF At, RefersTo, Pops, Prepares, Pushes
  <2>3. Holders(b) = {}
    BY <2>2 DEF Holders
  <2>4. kind[b] \in Kinds /\ by[b] \in Users \cup {None} /\ kind[b] \notin {"pool", "waits"}
    BY <1>2, <2>1, <2>3 DEF BlockInv
  <2>5. kind[b] \notin {"popped", "prepared", "pushed"}
    BY <1>2, <2>1, <2>2 DEF BlockInv
  <2>6. kind[b] = "owned" => \E t \in Users : b \in owned[t]
    BY <1>2, <2>1 DEF BlockInv
  <2> QED BY <1>3, <2>1, <2>4, <2>5, <2>6 DEF Kinds
<1> QED BY <1>4, <1>5, <1>6, <1>7 DEF BlocksConserved, OneOwner, NoBlockLost

-----------------------------------------------------------------------------
(* No block of the lock-free queue is given to two threads, or is with one and in the free list
   at once, whatever the order of the compare-exchanges on the head and on the counts; and when no
   thread is in a call every block that the pool gave out is with a thread or in the list
   (xconcurrentqueueabstract.hpp, the free list's try_get, add and add_knowing_refcount_is_zero). *)
THEOREM BlocksAlwaysConserved ==
  ASSUME IsFiniteSet(Users), PoolSize \in Nat, MaxAllocated \in Nat
  PROVE  Spec => []BlocksConserved
<1>1. Init => PoolInv
  BY PoolInvInit DEF Threaded
<1>2. PoolInv /\ [Next]_vars => PoolInv'
  BY PoolInvStays DEF Threaded
<1>3. PoolInv => BlocksConserved
  BY ConservedByPlaces DEF Threaded
<1> QED BY <1>1, <1>2, <1>3, PTL DEF Spec

-----------------------------------------------------------------------------
(* The weak pointers *)
Labels == {"idle", "load", "make", "publish", "ref", "swap", "deref", "delete"}
Making == {"load", "make", "publish"}

PointerTypes ==
  /\ object \in {"alive", "expire", "release", "delete", "gone"}
  /\ calls \in 0 .. MaxCalls /\ m_sharedRefcount_ \in 0 .. calls
  /\ m_weak_ref \in [Weak!Data -> Int] /\ m_strong_ref \in [Weak!Data -> Int] /\ deletes \in [Weak!Data -> Int]
  /\ pointer \in [Threads -> [m_ptr_ : BOOLEAN, m_d_ : 0 .. MaxCalls]]
  /\ temporary \in [Threads -> [m_ptr_ : BOOLEAN, m_d_ : 0 .. MaxCalls]]
  /\ pc \in [Threads -> Labels]

(* every XPointer has the counters of the object, or none *)
OneBlock ==
  \A t \in Threads :
    /\ pointer[t].m_d_ \in {0, m_sharedRefcount_}
    /\ pc[t] \in {"swap", "deref"} => temporary[t].m_d_ \in {0, m_sharedRefcount_}
    /\ pc[t] \in {"ref", "delete"} => temporary[t].m_d_ = m_sharedRefcount_ /\ m_sharedRefcount_ # 0

(* a block that may become the object's is one thread's alone, and was never deleted *)
NewBlock(t) == temporary[t].m_d_
PrivateBlocks ==
  /\ \A t \in Threads : pc[t] \in Making =>
       /\ NewBlock(t) \in 1 .. calls /\ NewBlock(t) # m_sharedRefcount_
       /\ deletes[NewBlock(t)] = 0
       /\ pc[t] = "publish" => m_weak_ref[NewBlock(t)] = 2 /\ m_strong_ref[NewBlock(t)] = -1
  /\ \A t, u \in Threads : pc[t] \in Making /\ pc[u] \in Making /\ NewBlock(t) = NewBlock(u) => t = u
  /\ \A d \in Weak!Data : d > calls => deletes[d] = 0

(* nobody makes an XPointer from a plain pointer once the object is being destroyed *)
PlainPointers ==
  \A t \in Threads : pc[t] \in Making \cup {"ref"} => object = "alive"

(* the last one deletes alone, when nobody has a share *)
OneDeleter ==
  /\ object = "delete" => Weak!Shares(m_sharedRefcount_) = 0
  /\ \A t \in Threads : pc[t] = "delete" =>
       /\ Weak!Shares(m_sharedRefcount_) = 0 /\ object # "delete"
       /\ \A u \in Threads : pc[u] = "delete" => u = t

(* what ~XObject leaves behind *)
Expired ==
  /\ object \in {"expire", "release", "delete"} => m_sharedRefcount_ # 0
  /\ m_sharedRefcount_ # 0 =>
       m_strong_ref[m_sharedRefcount_] = IF object \in {"alive", "expire"} THEN -1 ELSE 0

PointerInv ==
  /\ PointerTypes /\ OneBlock /\ PrivateBlocks /\ PlainPointers /\ OneDeleter /\ Expired
  /\ Weak!FreedByTheLast

Bounded == IsFiniteSet(Threads) /\ MaxCalls \in Nat

-----------------------------------------------------------------------------
(* Type correctness, and the parts that are not about counting *)
LEMMA PointerTypesStay ==
  ASSUME Bounded, PointerInv, [Weak!Next]_(Weak!vars)
  PROVE  PointerTypes'
<1> DEFINE Pointers == [m_ptr_ : BOOLEAN, m_d_ : 0 .. MaxCalls]
<1>1. PointerTypes /\ MaxCalls \in Nat
  BY DEF PointerInv, Bounded
<1>2. pc' \in [Threads -> Labels]
  BY <1>1 DEF Weak!Next, Weak!Step, Weak!AssignCall, Weak!Load, Weak!Make, Weak!MakeFails,
    Weak!Publish, Weak!PublishLost, Weak!Ref, Weak!Copy, Weak!Move, Weak!Leave, Weak!Swap,
    Weak!Deref, Weak!Delete, Weak!Destroy, Weak!Expire, Weak!ReleaseShare, Weak!DeleteShare,
    Weak!Call, Weak!Goto, Weak!vars, PointerTypes, Labels
<1>3. object' \in {"alive", "expire", "release", "delete", "gone"}
  BY <1>1 DEF Weak!Next, Weak!Step, Weak!AssignCall, Weak!Load, Weak!Make, Weak!MakeFails,
    Weak!Publish, Weak!PublishLost, Weak!Ref, Weak!Copy, Weak!Move, Weak!Leave, Weak!Swap,
    Weak!Deref, Weak!Delete, Weak!Destroy, Weak!Expire, Weak!ReleaseShare, Weak!DeleteShare,
    Weak!vars, PointerTypes
<1>4. calls' \in calls .. MaxCalls
  BY <1>1 DEF Weak!Next, Weak!Step, Weak!AssignCall, Weak!Load, Weak!Make, Weak!MakeFails,
    Weak!Publish, Weak!PublishLost, Weak!Ref, Weak!Copy, Weak!Move, Weak!Leave, Weak!Swap,
    Weak!Deref, Weak!Delete, Weak!Destroy, Weak!Expire, Weak!ReleaseShare, Weak!DeleteShare,
    Weak!Call, Weak!vars, PointerTypes
<1>5. m_sharedRefcount_' \in 0 .. calls
  <2>1. \A t \in Threads : Weak!Publish(t) => temporary[t].m_d_ \in 1 .. calls
    BY DEF PointerInv, PrivateBlocks, NewBlock, Weak!Publish, Making
  <2> QED BY <1>1, <2>1 DEF Weak!Next, Weak!Step, Weak!AssignCall, Weak!Load, Weak!Make,
    Weak!MakeFails, Weak!Publish, Weak!PublishLost, Weak!Ref, Weak!Copy, Weak!Move, Weak!Leave,
    Weak!Swap, Weak!Deref, Weak!Delete, Weak!Destroy, Weak!Expire, Weak!ReleaseShare,
    Weak!DeleteShare, Weak!vars, PointerTypes
<1>6. m_weak_ref' \in [Weak!Data -> Int]
  BY <1>1 DEF Weak!Next, Weak!Step, Weak!AssignCall, Weak!Load, Weak!Make, Weak!MakeFails,
    Weak!Publish, Weak!PublishLost, Weak!Ref, Weak!Copy, Weak!Move, Weak!Leave, Weak!Swap,
    Weak!Deref, Weak!Delete, Weak!Destroy, Weak!Expire, Weak!ReleaseShare, Weak!DeleteShare,
    Weak!counters, Weak!vars, PointerTypes
<1>7. m_strong_ref' \in [Weak!Data -> Int]
  BY <1>1 DEF Weak!Next, Weak!Step, Weak!AssignCall, Weak!Load, Weak!Make, Weak!MakeFails,
    Weak!Publish, Weak!PublishLost, Weak!Ref, Weak!Copy, Weak!Move, Weak!Leave, Weak!Swap,
    Weak!Deref, Weak!Delete, Weak!Destroy, Weak!Expire, Weak!ReleaseShare, Weak!DeleteShare,
    Weak!counters, Weak!vars, PointerTypes
<1>8. deletes' \in [Weak!Data -> Int]
  BY <1>1 DEF Weak!Next, Weak!Step, Weak!AssignCall, Weak!Load, Weak!Make, Weak!MakeFails,
    Weak!Publish, Weak!PublishLost, Weak!Ref, Weak!Copy, Weak!Move, Weak!Leave, Weak!Swap,
    Weak!Deref, Weak!Delete, Weak!Destroy, Weak!Expire, Weak!ReleaseShare, Weak!DeleteShare,
    Weak!counters, Weak!vars, PointerTypes
<1>9. pointer \in [Threads -> Pointers] /\ temporary \in [Threads -> Pointers] /\ Weak!Empty \in Pointers
  BY <1>1 DEF PointerTypes, Weak!Empty
<1>10. \A d \in 0 .. MaxCalls : Weak!To(d) \in Pointers
  BY DEF Weak!To
<1>11. calls + 1 \in 0 .. MaxCalls \/ ~(calls < MaxCalls)
  BY <1>1 DEF PointerTypes
<1>12. m_sharedRefcount_ \in 0 .. MaxCalls /\ 0 \in 0 .. MaxCalls
  BY <1>1 DEF PointerTypes
<1> HIDE DEF Pointers
<1>13. pointer' \in [Threads -> Pointers]
  BY <1>9 DEF Weak!Next, Weak!Step, Weak!AssignCall, Weak!Load, Weak!Make, Weak!MakeFails,
    Weak!Publish, Weak!PublishLost, Weak!Ref, Weak!Copy, Weak!Move, Weak!Leave, Weak!Swap,
    Weak!Deref, Weak!Delete, Weak!Destroy, Weak!Expire, Weak!ReleaseShare, Weak!DeleteShare,
    Weak!vars
<1>14. temporary' \in [Threads -> Pointers]
  BY <1>9, <1>10, <1>11, <1>12 DEF Weak!Next, Weak!Step, Weak!AssignCall, Weak!Call, Weak!Load,
    Weak!Make, Weak!MakeFails, Weak!Publish, Weak!PublishLost, Weak!Ref, Weak!Copy, Weak!Move,
    Weak!Leave, Weak!Swap, Weak!Deref, Weak!Delete, Weak!Destroy, Weak!Expire, Weak!ReleaseShare,
    Weak!DeleteShare, Weak!vars
<1>15. m_sharedRefcount_' \in 0 .. calls' /\ calls' \in 0 .. MaxCalls
  BY <1>1, <1>4, <1>5 DEF PointerTypes
<1> QED BY <1>2, <1>3, <1>6, <1>7, <1>8, <1>13, <1>14, <1>15 DEF PointerTypes, Pointers

LEMMA OneBlockStep ==
  ASSUME Bounded, PointerInv, [Weak!Next]_(Weak!vars)
  PROVE  OneBlock'
<1> USE DEF PointerInv, Bounded
<1>1. ASSUME NEW t \in Threads, Weak!AssignCall(t) PROVE OneBlock'
  BY <1>1 DEF Weak!AssignCall, Weak!Call, Weak!Goto, PointerTypes, OneBlock
<1>2. ASSUME NEW t \in Threads, Weak!Load(t) \/ Weak!MakeFails(t) PROVE OneBlock'
  BY <1>2 DEF Weak!Load, Weak!MakeFails, Weak!Goto, PointerTypes, OneBlock, Weak!To
<1>3. ASSUME NEW t \in Threads, Weak!Make(t) \/ Weak!Ref(t) PROVE OneBlock'
  BY <1>3 DEF Weak!Make, Weak!Ref, Weak!Goto, PointerTypes, OneBlock
<1>4. ASSUME NEW t \in Threads, Weak!Publish(t) \/ Weak!PublishLost(t) PROVE OneBlock'
  BY <1>4 DEF Weak!Publish, Weak!PublishLost, Weak!Goto, PointerTypes, OneBlock, Weak!To
<1>5. ASSUME NEW t \in Threads, Weak!Leave(t) \/ Weak!Swap(t) \/ Weak!Deref(t) \/ Weak!Delete(t) PROVE OneBlock'
  BY <1>5 DEF Weak!Leave, Weak!Swap, Weak!Deref, Weak!Delete, Weak!Call, Weak!Goto, PointerTypes,
    OneBlock, Weak!Empty
<1>6. ASSUME NEW t \in Threads, NEW u \in Threads, Weak!Copy(t, u) \/ Weak!Move(t, u) PROVE OneBlock'
  BY <1>6 DEF Weak!Copy, Weak!Move, Weak!Call, Weak!Goto, PointerTypes, OneBlock, Weak!Empty
<1>7. CASE Weak!Destroy \/ Weak!Expire \/ Weak!ReleaseShare \/ Weak!DeleteShare
  BY <1>7 DEF Weak!Destroy, Weak!Expire, Weak!ReleaseShare, Weak!DeleteShare, OneBlock
<1>8. CASE UNCHANGED Weak!vars
  BY <1>8 DEF Weak!vars, OneBlock
<1> QED BY <1>1, <1>2, <1>3, <1>4, <1>5, <1>6, <1>7, <1>8 DEF Weak!Next, Weak!Step

(* A step that touches no block that some thread is making, and in which nobody begins
   to make one. *)
LEMMA PrivateFrame ==
  ASSUME Bounded, PointerInv, calls' \in calls .. MaxCalls,
         \A d \in Weak!Data : d > calls' => deletes'[d] = deletes[d],
         \A t \in Threads : pc'[t] \in Making =>
           /\ pc[t] \in Making /\ NewBlock(t)' = NewBlock(t) /\ NewBlock(t) # m_sharedRefcount_'
           /\ pc'[t] = "publish" => pc[t] = "publish"
           /\ deletes'[NewBlock(t)] = deletes[NewBlock(t)]
           /\ m_weak_ref'[NewBlock(t)] = m_weak_ref[NewBlock(t)]
           /\ m_strong_ref'[NewBlock(t)] = m_strong_ref[NewBlock(t)]
  PROVE  PrivateBlocks'
<1>1. calls \in Nat /\ calls' \in Nat /\ calls <= calls' /\ PrivateBlocks
  BY DEF Bounded, PointerInv, PointerTypes
<1>2. \A d \in Weak!Data : d > calls' => deletes'[d] = 0
  BY <1>1 DEF PrivateBlocks, Weak!Data
<1>3. ASSUME NEW t \in Threads, pc'[t] \in Making
      PROVE  /\ NewBlock(t)' \in 1 .. calls' /\ NewBlock(t)' # m_sharedRefcount_'
             /\ deletes'[NewBlock(t)'] = 0
             /\ pc'[t] = "publish" => m_weak_ref'[NewBlock(t)'] = 2 /\ m_strong_ref'[NewBlock(t)'] = -1
  <2>1. pc[t] \in Making /\ NewBlock(t)' = NewBlock(t) /\ NewBlock(t) # m_sharedRefcount_'
    BY <1>3
  <2>2. NewBlock(t) \in 1 .. calls /\ deletes[NewBlock(t)] = 0
    BY <1>1, <2>1 DEF PrivateBlocks
  <2> QED BY <1>1, <1>3, <2>1, <2>2 DEF PrivateBlocks
<1>4. ASSUME NEW t \in Threads, NEW u \in Threads, pc'[t] \in Making, pc'[u] \in Making,
             NewBlock(t)' = NewBlock(u)'
      PROVE  t = u
  BY <1>1, <1>4 DEF PrivateBlocks
<1> QED BY <1>2, <1>3, <1>4 DEF PrivateBlocks

LEMMA PrivateMake ==
  ASSUME Bounded, PointerInv, NEW t \in Threads, Weak!AssignCall(t) \/ Weak!Make(t)
  PROVE  PrivateBlocks'
<1>1. /\ PrivateBlocks /\ PointerTypes /\ calls \in Nat
      /\ deletes' = deletes /\ m_sharedRefcount_' = m_sharedRefcount_
  BY DEF Bounded, PointerInv, PointerTypes, Weak!AssignCall, Weak!Make, Weak!counters
<1>2. CASE Weak!AssignCall(t)
  <2>1. /\ calls' = calls + 1 /\ pc' = [pc EXCEPT ![t] = "load"] /\ calls + 1 \in Weak!Data
        /\ temporary' = [temporary EXCEPT ![t] = Weak!To(calls + 1)] /\ UNCHANGED <<m_weak_ref, m_strong_ref>>
    BY <1>1, <1>2 DEF Bounded, Weak!AssignCall, Weak!Call, Weak!Goto, Weak!Data, Weak!counters
  <2>2. NewBlock(t)' = calls + 1 /\ pc'[t] = "load"
    BY <1>1, <2>1 DEF PointerTypes, NewBlock, Weak!To
  <2>3. \A u \in Threads : u # t => NewBlock(u)' = NewBlock(u) /\ pc'[u] = pc[u]
    BY <1>1, <2>1 DEF PointerTypes, NewBlock
  <2>4. calls + 1 # m_sharedRefcount_ /\ deletes[calls + 1] = 0
    BY <1>1, <2>1 DEF PointerTypes, PrivateBlocks
  <2>5. \A u \in Threads : pc[u] \in Making => NewBlock(u) # calls + 1 /\ NewBlock(u) \in 1 .. calls'
    BY <1>1, <2>1 DEF PrivateBlocks
  <2>6. \A d \in Weak!Data : d > calls' => deletes'[d] = 0
    BY <1>1, <2>1 DEF PrivateBlocks, Weak!Data
  <2>7. calls + 1 \in 1 .. calls'
    BY <1>1, <2>1
  <2> QED BY <1>1, <2>1, <2>2, <2>3, <2>4, <2>5, <2>6, <2>7 DEF PrivateBlocks
<1>3. CASE Weak!Make(t)
  <2>1. /\ pc[t] = "make" /\ pc' = [pc EXCEPT ![t] = "publish"] /\ UNCHANGED <<calls, temporary>>
        /\ m_weak_ref' = [m_weak_ref EXCEPT ![NewBlock(t)] = 2]
        /\ m_strong_ref' = [m_strong_ref EXCEPT ![NewBlock(t)] = -1]
    BY <1>3 DEF Weak!Make, Weak!Goto, NewBlock
  <2>2. pc[t] \in Making
    BY <2>1 DEF Making
  <2>3. NewBlock(t) \in Weak!Data
    BY <1>1, <2>2 DEF PrivateBlocks, PointerTypes, Bounded, Weak!Data
  <2>4. \A u \in Threads : /\ NewBlock(u)' = NewBlock(u) /\ (pc'[u] \in Making <=> pc[u] \in Making)
                           /\ u # t => pc'[u] = pc[u]
    BY <1>1, <2>1 DEF PointerTypes, NewBlock, Making
  <2>5. \A u \in Threads : u # t /\ pc[u] \in Making => NewBlock(u) # NewBlock(t)
    BY <1>1, <2>2 DEF PrivateBlocks
  <2>6. m_weak_ref'[NewBlock(t)] = 2 /\ m_strong_ref'[NewBlock(t)] = -1
    BY <1>1, <2>1, <2>3 DEF PointerTypes
  <2>7. \A d \in Weak!Data : d # NewBlock(t) =>
          m_weak_ref'[d] = m_weak_ref[d] /\ m_strong_ref'[d] = m_strong_ref[d]
    BY <1>1, <2>1, <2>3 DEF PointerTypes
  <2>8. \A u \in Threads : pc[u] \in Making => NewBlock(u) \in Weak!Data
    BY <1>1 DEF PrivateBlocks, PointerTypes, Bounded, Weak!Data
  <2> QED BY <1>1, <2>1, <2>4, <2>5, <2>6, <2>7, <2>8 DEF PrivateBlocks
<1> QED BY <1>2, <1>3

LEMMA PrivateStep ==
  ASSUME Bounded, PointerInv, [Weak!Next]_(Weak!vars)
  PROVE  PrivateBlocks'
<1>1. PrivateBlocks /\ PointerTypes /\ calls \in Nat /\ MaxCalls \in Nat
  BY DEF Bounded, PointerInv, PointerTypes
<1>2. \A t \in Threads : pc[t] \in Making =>
        NewBlock(t) \in Weak!Data /\ NewBlock(t) \in 1 .. calls /\ NewBlock(t) # m_sharedRefcount_
  BY <1>1 DEF PrivateBlocks, PointerTypes, Weak!Data
<1>3. ASSUME NEW t \in Threads, Weak!Load(t) \/ Weak!MakeFails(t) PROVE PrivateBlocks'
  BY <1>1, <1>2, <1>3, PrivateFrame DEF Weak!Load, Weak!MakeFails, Weak!Goto, PointerTypes, Making,
    NewBlock, Weak!counters
<1>4. ASSUME NEW t \in Threads, Weak!Publish(t) PROVE PrivateBlocks'
  BY <1>1, <1>2, <1>4, PrivateFrame DEF Weak!Publish, Weak!Goto, PointerTypes, Making, NewBlock,
    PrivateBlocks, Weak!counters
<1>5. ASSUME NEW t \in Threads, Weak!PublishLost(t) PROVE PrivateBlocks'
  <2>1. /\ pc[t] = "publish" /\ pc' = [pc EXCEPT ![t] = "ref"]
        /\ temporary' = [temporary EXCEPT ![t] = Weak!To(m_sharedRefcount_)]
        /\ deletes' = [deletes EXCEPT ![NewBlock(t)] = @ + 1]
        /\ UNCHANGED <<calls, m_weak_ref, m_strong_ref, m_sharedRefcount_>>
    BY <1>5 DEF Weak!PublishLost, Weak!Goto, NewBlock
  <2>2. pc[t] \in Making
    BY <2>1 DEF Making
  <2>3. \A u \in Threads : pc'[u] \in Making => /\ pc[u] \in Making /\ u # t /\ NewBlock(u)' = NewBlock(u)
                                                /\ pc'[u] = pc[u]
    BY <1>1, <2>1 DEF PointerTypes, NewBlock, Making
  <2>4. \A u \in Threads : pc'[u] \in Making => deletes'[NewBlock(u)] = deletes[NewBlock(u)]
    BY <1>1, <1>2, <2>1, <2>2, <2>3 DEF PrivateBlocks, PointerTypes
  <2>5. \A d \in Weak!Data : d > calls' => deletes'[d] = deletes[d]
    BY <1>1, <1>2, <2>1, <2>2 DEF PointerTypes, Weak!Data
  <2>6. calls' \in calls .. MaxCalls
    BY <1>1, <2>1 DEF PointerTypes
  <2> QED BY <1>2, <2>1, <2>3, <2>4, <2>5, <2>6, PrivateFrame
<1>6. \A t \in Threads : pc[t] \in {"ref", "delete"} => temporary[t].m_d_ = m_sharedRefcount_
  BY DEF PointerInv, OneBlock
<1>7. \A t \in Threads : pc[t] \in {"swap", "deref"} => temporary[t].m_d_ \in {0, m_sharedRefcount_}
  BY DEF PointerInv, OneBlock
<1>8. \A t \in Threads : pointer[t].m_d_ \in {0, m_sharedRefcount_}
  BY DEF PointerInv, OneBlock
<1>9. \A d \in Weak!Data : d # 0 /\ (d > calls => d # m_sharedRefcount_)
  BY <1>1 DEF PointerTypes, Weak!Data
<1>10. calls \in calls .. MaxCalls
  BY <1>1 DEF PointerTypes
<1>11. ASSUME NEW t \in Threads, Weak!Ref(t) PROVE PrivateBlocks'
  BY <1>1, <1>2, <1>6, <1>10, <1>11, PrivateFrame DEF Weak!Ref, Weak!Goto, PointerTypes, Making,
    NewBlock
<1>12. ASSUME NEW t \in Threads, Weak!Delete(t) PROVE PrivateBlocks'
  BY <1>1, <1>2, <1>6, <1>9, <1>10, <1>12, PrivateFrame DEF Weak!Delete, Weak!Goto, PointerTypes,
    Making, NewBlock
<1>13. ASSUME NEW t \in Threads, Weak!Deref(t) PROVE PrivateBlocks'
  BY <1>1, <1>2, <1>7, <1>9, <1>10, <1>13, PrivateFrame DEF Weak!Deref, Weak!Goto, PointerTypes,
    Making, NewBlock
<1>14. ASSUME NEW t \in Threads, Weak!Leave(t) \/ Weak!Swap(t) PROVE PrivateBlocks'
  BY <1>1, <1>2, <1>10, <1>14, PrivateFrame DEF Weak!Leave, Weak!Swap, Weak!Call, Weak!Goto,
    PointerTypes, Making, NewBlock, Weak!counters
<1>15. ASSUME NEW t \in Threads, NEW u \in Threads, Weak!Copy(t, u) PROVE PrivateBlocks'
  BY <1>1, <1>2, <1>8, <1>9, <1>15, PrivateFrame DEF Weak!Copy, Weak!Call, Weak!Goto, PointerTypes,
    Making, NewBlock
<1>16. ASSUME NEW t \in Threads, NEW u \in Threads, Weak!Move(t, u) PROVE PrivateBlocks'
  BY <1>1, <1>2, <1>16, PrivateFrame DEF Weak!Move, Weak!Call, Weak!Goto, PointerTypes, Making,
    NewBlock, Weak!counters
<1>17. CASE Weak!Destroy \/ Weak!Expire \/ Weak!ReleaseShare \/ Weak!DeleteShare
  BY <1>1, <1>2, <1>9, <1>10, <1>17, PrivateFrame
  DEF Weak!Destroy, Weak!Expire, Weak!ReleaseShare, Weak!DeleteShare, PointerTypes, NewBlock,
    Weak!counters
<1>18. CASE UNCHANGED Weak!vars
  BY <1>1, <1>18 DEF Weak!vars, PrivateBlocks, NewBlock
<1> QED BY <1>3, <1>4, <1>5, <1>11, <1>12, <1>13, <1>14, <1>15, <1>16, <1>17, <1>18, PrivateMake DEF
  Weak!Next, Weak!Step

LEMMA ObjectStep ==
  ASSUME Bounded, PointerInv, [Weak!Next]_(Weak!vars)
  PROVE  PlainPointers' /\ Expired'
<1> USE DEF PointerInv, Bounded
<1>1. ASSUME NEW t \in Threads,
             Weak!AssignCall(t) \/ Weak!Load(t) \/ Weak!MakeFails(t) \/ Weak!PublishLost(t) \/ Weak!Ref(t)
      PROVE  PlainPointers' /\ Expired'
  BY <1>1 DEF Weak!AssignCall, Weak!Load, Weak!MakeFails, Weak!PublishLost, Weak!Ref, Weak!Call,
    Weak!Goto, PointerTypes, PlainPointers, Expired, Making, Weak!counters
<1>2. ASSUME NEW t \in Threads, Weak!Make(t) PROVE PlainPointers' /\ Expired'
  BY <1>2 DEF Weak!Make, Weak!Goto, PointerTypes, PlainPointers, Expired, PrivateBlocks, NewBlock,
    Making, Weak!Data
<1>3. ASSUME NEW t \in Threads, Weak!Publish(t) PROVE PlainPointers' /\ Expired'
  BY <1>3 DEF Weak!Publish, Weak!Goto, PointerTypes, PlainPointers, Expired, PrivateBlocks,
    NewBlock, Making, Weak!counters
<1>4. ASSUME NEW t \in Threads, Weak!Leave(t) \/ Weak!Swap(t) \/ Weak!Deref(t) \/ Weak!Delete(t)
      PROVE  PlainPointers' /\ Expired'
  BY <1>4 DEF Weak!Leave, Weak!Swap, Weak!Deref, Weak!Delete, Weak!Call, Weak!Goto, PointerTypes,
    PlainPointers, Expired, Making, Weak!counters
<1>5. ASSUME NEW t \in Threads, NEW u \in Threads, Weak!Copy(t, u) \/ Weak!Move(t, u)
      PROVE  PlainPointers' /\ Expired'
  BY <1>5 DEF Weak!Copy, Weak!Move, Weak!Call, Weak!Goto, PointerTypes, PlainPointers, Expired,
    Making, Weak!counters
<1>6. CASE Weak!Destroy \/ Weak!Expire \/ Weak!ReleaseShare \/ Weak!DeleteShare
  <2>1. \A t \in Threads : pc[t] \notin Making \cup {"ref"} \/ object = "alive"
    BY DEF PlainPointers
  <2>2. m_sharedRefcount_ # 0 => m_sharedRefcount_ \in Weak!Data
    BY DEF PointerTypes, Weak!Data
  <2>3. PlainPointers'
    BY <1>6, <2>1 DEF Weak!Destroy, Weak!Expire, Weak!ReleaseShare, Weak!DeleteShare, PlainPointers,
      Making
  <2>4. Expired'
    BY <1>6, <2>2 DEF Weak!Destroy, Weak!Expire, Weak!ReleaseShare, Weak!DeleteShare, PointerTypes,
      Expired, Weak!counters
  <2> QED BY <2>3, <2>4
<1>7. CASE UNCHANGED Weak!vars
  BY <1>7 DEF Weak!vars, PlainPointers, Expired
<1> QED BY <1>1, <1>2, <1>3, <1>4, <1>5, <1>6, <1>7 DEF Weak!Next, Weak!Step

-----------------------------------------------------------------------------
(* Counting.  A step changes the XPointer of at most one thread, and the temporary of
   at most one, so each of the two sets that make up the shares changes in one place. *)
Has(t, d) == IF pointer[t].m_d_ = d THEN 1 ELSE 0
InTransit(t, d) == IF temporary[t].m_d_ = d /\ pc[t] \in {"swap", "deref"} THEN 1 ELSE 0
OfObject(d) == IF m_sharedRefcount_ = d /\ object \in {"alive", "expire", "release"} THEN 1 ELSE 0
PointersTo(d) == {t \in Threads : pointer[t].m_d_ = d}

(* The instance has its own Cardinality, defined alike. *)
LEMMA SameCardinality == ASSUME NEW S PROVE Weak!Cardinality(S) = Cardinality(S)
BY DEF Weak!Cardinality, Cardinality

LEMMA OneIn ==
  ASSUME NEW A, NEW B, NEW t, IsFiniteSet(A), A \ {t} = B \ {t}
  PROVE  Cardinality(B) = Cardinality(A) - (IF t \in A THEN 1 ELSE 0) + (IF t \in B THEN 1 ELSE 0)
<1> DEFINE Rest == A \ {t}
<1>0. Cardinality(A) \in Nat
  BY FS_CardinalityType
<1>1. IsFiniteSet(Rest) /\ Cardinality(Rest) = Cardinality(A) - (IF t \in A THEN 1 ELSE 0)
  BY <1>0, FS_RemoveElement
<1>2. t \notin Rest
  OBVIOUS
<1>3. Cardinality(Rest \cup {t}) = Cardinality(Rest) + 1
  BY <1>1, <1>2, FS_AddElement
<1>4. B = IF t \in B THEN Rest \cup {t} ELSE Rest
  OBVIOUS
<1>5. Cardinality(Rest) \in Nat
  BY <1>1, FS_CardinalityType
<1> HIDE DEF Rest
<1>6. CASE t \in B
  <2>1. Cardinality(B) = Cardinality(Rest) + 1
    BY <1>3, <1>4, <1>6
  <2> QED BY <1>0, <1>1, <1>5, <1>6, <2>1
<1>7. CASE t \notin B
  <2>1. B = Rest
    BY <1>4, <1>7
  <2> QED BY <1>0, <1>1, <1>5, <1>7, <2>1
<1> QED BY <1>6, <1>7

LEMMA SharesType ==
  ASSUME Bounded, NEW d
  PROVE  /\ IsFiniteSet(PointersTo(d)) /\ IsFiniteSet(Weak!Temporaries(d))
         /\ Cardinality(PointersTo(d)) \in Nat /\ Cardinality(Weak!Temporaries(d)) \in Nat
         /\ Weak!Shares(d) \in Nat
         /\ Weak!Shares(d) = Cardinality(PointersTo(d)) + Cardinality(Weak!Temporaries(d)) + OfObject(d)
<1>1. PointersTo(d) \in SUBSET Threads /\ Weak!Temporaries(d) \in SUBSET Threads
  BY DEF PointersTo, Weak!Temporaries
<1>2. IsFiniteSet(PointersTo(d)) /\ IsFiniteSet(Weak!Temporaries(d))
  BY <1>1, FS_Subset DEF Bounded
<1>3. Cardinality(PointersTo(d)) \in Nat /\ Cardinality(Weak!Temporaries(d)) \in Nat
  BY <1>2, FS_CardinalityType
<1>4. Weak!Shares(d) = Cardinality(PointersTo(d)) + Cardinality(Weak!Temporaries(d)) + OfObject(d)
  BY SameCardinality DEF Weak!Shares, PointersTo, OfObject
<1>5. OfObject(d) \in Nat
  BY DEF OfObject
<1> QED BY <1>2, <1>3, <1>4, <1>5

LEMMA SharesChange ==
  ASSUME Bounded, NEW d, NEW t \in Threads, NEW u \in Threads,
         \A v \in Threads : v # u => pointer'[v].m_d_ = pointer[v].m_d_,
         \A v \in Threads : v # t => InTransit(v, d)' = InTransit(v, d)
  PROVE  Weak!Shares(d)' = Weak!Shares(d) - Has(u, d) + Has(u, d)' - InTransit(t, d) + InTransit(t, d)'
                                - OfObject(d) + OfObject(d)'
<1>1. PointersTo(d) \ {u} = PointersTo(d)' \ {u}
  BY DEF PointersTo
<1>2. Weak!Temporaries(d) \ {t} = Weak!Temporaries(d)' \ {t}
  BY DEF Weak!Temporaries, InTransit
<1>3. Cardinality(PointersTo(d)') = Cardinality(PointersTo(d)) - Has(u, d) + Has(u, d)'
  <2>1. Cardinality(PointersTo(d)') = Cardinality(PointersTo(d)) - (IF u \in PointersTo(d) THEN 1 ELSE 0)
                                     + (IF u \in PointersTo(d)' THEN 1 ELSE 0)
    BY <1>1, OneIn, SharesType, Zenon
  <2>2. /\ (IF u \in PointersTo(d) THEN 1 ELSE 0) = Has(u, d)
        /\ (IF u \in PointersTo(d)' THEN 1 ELSE 0) = Has(u, d)'
    BY DEF Has, PointersTo
  <2> QED BY <2>1, <2>2
<1>4. Cardinality(Weak!Temporaries(d)') = Cardinality(Weak!Temporaries(d)) - InTransit(t, d) + InTransit(t, d)'
  <2>1. Cardinality(Weak!Temporaries(d)') = Cardinality(Weak!Temporaries(d))
          - (IF t \in Weak!Temporaries(d) THEN 1 ELSE 0) + (IF t \in Weak!Temporaries(d)' THEN 1 ELSE 0)
    BY <1>2, OneIn, SharesType, Zenon
  <2>2. /\ (IF t \in Weak!Temporaries(d) THEN 1 ELSE 0) = InTransit(t, d)
        /\ (IF t \in Weak!Temporaries(d)' THEN 1 ELSE 0) = InTransit(t, d)'
    BY DEF InTransit, Weak!Temporaries
  <2> QED BY <2>1, <2>2
<1>5. Weak!Shares(d)' = Cardinality(PointersTo(d))' + Cardinality(Weak!Temporaries(d))' + OfObject(d)'
  BY SameCardinality DEF Weak!Shares, PointersTo, OfObject
<1>6. /\ Cardinality(PointersTo(d)) \in Nat /\ Cardinality(Weak!Temporaries(d)) \in Nat
      /\ Weak!Shares(d) = Cardinality(PointersTo(d)) + Cardinality(Weak!Temporaries(d)) + OfObject(d)
  BY SharesType
<1>7. /\ Has(u, d) \in Int /\ Has(u, d)' \in Int /\ InTransit(t, d) \in Int /\ InTransit(t, d)' \in Int
      /\ OfObject(d) \in Int /\ OfObject(d)' \in Int
  BY DEF Has, InTransit, OfObject
<1> QED BY <1>3, <1>4, <1>5, <1>6, <1>7

(* Whoever has a share is counted. *)
LEMMA SharesPositive ==
  ASSUME Bounded, NEW d, NEW t \in Threads,
         Has(t, d) = 1 \/ InTransit(t, d) = 1 \/ OfObject(d) = 1
  PROVE  Weak!Shares(d) > 0
<1>1. CASE Has(t, d) = 1
  <2>1. t \in PointersTo(d)
    BY <1>1 DEF Has, PointersTo
  <2>2. Cardinality(PointersTo(d)) > 0
    BY <2>1, SharesType, FS_EmptySet
  <2> QED BY <2>2, SharesType DEF OfObject
<1>2. CASE InTransit(t, d) = 1
  <2>1. t \in Weak!Temporaries(d)
    BY <1>2 DEF InTransit, Weak!Temporaries
  <2>2. Cardinality(Weak!Temporaries(d)) > 0
    BY <2>1, SharesType, FS_EmptySet
  <2> QED BY <2>2, SharesType DEF OfObject
<1>3. CASE OfObject(d) = 1
  BY <1>3, SharesType
<1> QED BY <1>1, <1>2, <1>3

CountInv == OneDeleter /\ Weak!FreedByTheLast

LEMMA Known ==
  ASSUME Bounded, PointerInv, m_sharedRefcount_ # 0
  PROVE  LET d == m_sharedRefcount_ IN
         /\ d \in Weak!Data /\ m_weak_ref[d] = Weak!Shares(d) /\ Weak!Shares(d) \in Nat
         /\ deletes[d] = IF Weak!Shares(d) = 0 /\ ~Weak!AboutToDelete(d) THEN 1 ELSE 0
  BY SharesType DEF PointerInv, Weak!FreedByTheLast, PointerTypes, Weak!Data, Bounded

(* Before the first XPointer nothing is counted. *)
LEMMA NothingShared ==
  ASSUME OneBlock', Expired', m_sharedRefcount_' = 0
  PROVE  CountInv'
  BY DEF OneBlock, Expired, CountInv, OneDeleter, Weak!FreedByTheLast

(* A step that leaves the number of shares, and who is about to delete, as they are. *)
LEMMA SameShares ==
  ASSUME Bounded, PointerInv, OneBlock', m_sharedRefcount_ # 0, UNCHANGED m_sharedRefcount_,
         Weak!Shares(m_sharedRefcount_)' = Weak!Shares(m_sharedRefcount_),
         m_weak_ref'[m_sharedRefcount_] = m_weak_ref[m_sharedRefcount_],
         deletes'[m_sharedRefcount_] = deletes[m_sharedRefcount_],
         object' = "delete" <=> object = "delete",
         \A v \in Threads : pc'[v] = "delete" <=> pc[v] = "delete"
  PROVE  CountInv'
<1> DEFINE d == m_sharedRefcount_
<1>1. Weak!AboutToDelete(d)' <=> Weak!AboutToDelete(d)
  BY DEF Weak!AboutToDelete, PointerInv, OneBlock
<1>2. OneDeleter'
  BY DEF PointerInv, OneDeleter
<1>3. \A t \in Threads : pointer'[t].m_d_ \in {0, m_sharedRefcount_'}
  BY DEF OneBlock
<1>4. /\ m_weak_ref'[d] = Weak!Shares(d)'
      /\ deletes'[d] = IF Weak!Shares(d)' = 0 /\ ~Weak!AboutToDelete(d)' THEN 1 ELSE 0
  BY <1>1, Known
<1>5. Weak!FreedByTheLast'
  BY <1>3, <1>4 DEF Weak!FreedByTheLast
<1> QED BY <1>2, <1>5 DEF CountInv

(* A step after which, as before it, somebody has a share. *)
LEMMA SharesLeft ==
  ASSUME Bounded, PointerInv, OneBlock', m_sharedRefcount_ # 0, UNCHANGED m_sharedRefcount_,
         Weak!Shares(m_sharedRefcount_) > 0, Weak!Shares(m_sharedRefcount_)' > 0,
         m_weak_ref'[m_sharedRefcount_] = Weak!Shares(m_sharedRefcount_)',
         deletes'[m_sharedRefcount_] = deletes[m_sharedRefcount_],
         object' = "delete" => object = "delete",
         \A v \in Threads : pc'[v] = "delete" => pc[v] = "delete"
  PROVE  CountInv'
<1> DEFINE d == m_sharedRefcount_
<1>1. object # "delete" /\ \A v \in Threads : pc[v] # "delete"
  BY SharesType DEF PointerInv, OneDeleter
<1>2. deletes[d] = 0
  BY Known
<1>3. OneDeleter'
  BY <1>1 DEF OneDeleter
<1>4. \A t \in Threads : pointer'[t].m_d_ \in {0, m_sharedRefcount_'}
  BY DEF OneBlock
<1>5. deletes'[d] = IF Weak!Shares(d)' = 0 /\ ~Weak!AboutToDelete(d)' THEN 1 ELSE 0
  BY <1>2
<1>6. Weak!FreedByTheLast'
  BY <1>4, <1>5 DEF Weak!FreedByTheLast
<1> QED BY <1>3, <1>6 DEF CountInv

(* The last share goes: one thread is to delete the block. *)
LEMMA LastShare ==
  ASSUME Bounded, PointerInv, OneBlock', m_sharedRefcount_ # 0, UNCHANGED m_sharedRefcount_,
         Weak!Shares(m_sharedRefcount_) = 1, Weak!Shares(m_sharedRefcount_)' = 0,
         m_weak_ref'[m_sharedRefcount_] = 0,
         deletes'[m_sharedRefcount_] = deletes[m_sharedRefcount_],
         \/ object' = "delete" /\ \A v \in Threads : pc'[v] # "delete" \/ pc[v] = "delete"
         \/ /\ object' = object
            /\ \E t \in Threads : pc'[t] = "delete" /\ \A v \in Threads : v = t \/ pc'[v] = pc[v]
  PROVE  CountInv'
<1> DEFINE d == m_sharedRefcount_
<1>1. object # "delete" /\ \A v \in Threads : pc[v] # "delete"
  BY DEF PointerInv, OneDeleter
<1>2. deletes[d] = 0
  BY Known
<1>3. OneDeleter'
  BY <1>1 DEF OneDeleter
<1>4. Weak!AboutToDelete(d)'
  BY DEF Weak!AboutToDelete, OneBlock
<1>5. \A t \in Threads : pointer'[t].m_d_ \in {0, m_sharedRefcount_'}
  BY DEF OneBlock
<1>6. /\ m_weak_ref'[d] = Weak!Shares(d)'
      /\ deletes'[d] = IF Weak!Shares(d)' = 0 /\ ~Weak!AboutToDelete(d)' THEN 1 ELSE 0
  BY <1>2, <1>4
<1>7. Weak!FreedByTheLast'
  BY <1>5, <1>6 DEF Weak!FreedByTheLast
<1> QED BY <1>3, <1>7 DEF CountInv

(* The block is deleted by the one who is to do it. *)
LEMMA Deleted ==
  ASSUME Bounded, PointerInv, OneBlock', m_sharedRefcount_ # 0, UNCHANGED m_sharedRefcount_,
         Weak!Shares(m_sharedRefcount_)' = Weak!Shares(m_sharedRefcount_),
         m_weak_ref'[m_sharedRefcount_] = m_weak_ref[m_sharedRefcount_],
         deletes'[m_sharedRefcount_] = deletes[m_sharedRefcount_] + 1,
         Weak!AboutToDelete(m_sharedRefcount_), Weak!Shares(m_sharedRefcount_) = 0,
         object' # "delete", \A v \in Threads : pc'[v] # "delete"
  PROVE  CountInv'
<1> DEFINE d == m_sharedRefcount_
<1>1. deletes'[d] = 1 /\ m_weak_ref'[d] = Weak!Shares(d)' /\ Weak!Shares(d)' = 0
  BY Known
<1>2. ~Weak!AboutToDelete(d)' /\ OneDeleter'
  BY DEF Weak!AboutToDelete, OneDeleter
<1>3. \A t \in Threads : pointer'[t].m_d_ \in {0, m_sharedRefcount_'}
  BY DEF OneBlock
<1>4. Weak!FreedByTheLast'
  BY <1>1, <1>2, <1>3 DEF Weak!FreedByTheLast
<1> QED BY <1>2, <1>4 DEF CountInv

(* AssignCall to MakeFails and PublishLost are about a block that is not the object's. *)
LEMMA CountMaking ==
  ASSUME Bounded, PointerInv, OneBlock', Expired', NEW t \in Threads,
         Weak!AssignCall(t) \/ Weak!Load(t) \/ Weak!Make(t) \/ Weak!MakeFails(t) \/ Weak!PublishLost(t)
  PROVE  CountInv'
<1> DEFINE d == m_sharedRefcount_
<1>0. /\ UNCHANGED <<m_sharedRefcount_, object, pointer>> /\ PointerTypes
      /\ pc[t] = "idle" \/ pc[t] \in Making
  BY DEF Weak!AssignCall, Weak!Load, Weak!Make, Weak!MakeFails, Weak!PublishLost, Weak!Call,
    Weak!counters, PointerInv, Making
<1>1. CASE d = 0
  BY <1>0, <1>1, NothingShared
<1>2. CASE d # 0
  <2>1. d \in Weak!Data /\ (pc[t] \in Making => NewBlock(t) # d)
    BY <1>2, Known DEF PointerInv, PrivateBlocks
  <2>2. m_weak_ref'[d] = m_weak_ref[d] /\ deletes'[d] = deletes[d]
    BY <1>0, <2>1 DEF Weak!AssignCall, Weak!Load, Weak!Make, Weak!MakeFails, Weak!PublishLost,
      Weak!counters, NewBlock, Making, PointerTypes
  <2>3. \A v \in Threads : pc'[v] = "delete" <=> pc[v] = "delete"
    BY <1>0 DEF Weak!AssignCall, Weak!Load, Weak!Make, Weak!MakeFails, Weak!PublishLost, Weak!Call,
      Weak!Goto, PointerTypes
  <2>4. \A v \in Threads : v # t => pc'[v] = pc[v] /\ temporary'[v] = temporary[v]
    BY <1>0 DEF Weak!AssignCall, Weak!Load, Weak!Make, Weak!MakeFails, Weak!PublishLost, Weak!Call,
      Weak!Goto, PointerTypes
  <2>5. InTransit(t, d) = 0 /\ InTransit(t, d)' = 0
    <3>1. pc[t] \notin {"swap", "deref"}
      BY <1>0 DEF Making
    <3>2. pc'[t] \notin {"swap", "deref"} \/ temporary'[t].m_d_ = 0
      BY <1>0 DEF Weak!AssignCall, Weak!Load, Weak!Make, Weak!MakeFails, Weak!PublishLost,
        Weak!Call, Weak!Goto, PointerTypes, Weak!To
    <3> QED BY <1>0, <1>2, <3>1, <3>2 DEF InTransit
  <2>6. \A v \in Threads : v # t => InTransit(v, d)' = InTransit(v, d)
    BY <1>0, <2>4 DEF InTransit
  <2>7. Has(t, d)' = Has(t, d) /\ OfObject(d)' = OfObject(d)
    BY <1>0 DEF Has, OfObject
  <2>8. Weak!Shares(d)' = Weak!Shares(d)
    <3>1. Weak!Shares(d)' = Weak!Shares(d) - Has(t, d) + Has(t, d)' - InTransit(t, d) + InTransit(t, d)'
                         - OfObject(d) + OfObject(d)'
      BY <1>0, <2>6, SharesChange
    <3>2. Weak!Shares(d) \in Nat /\ Has(t, d) \in Int /\ OfObject(d) \in Int
      BY SharesType DEF Has, OfObject
    <3> QED BY <2>5, <2>7, <3>1, <3>2
  <2> QED BY <1>0, <1>2, <2>2, <2>3, <2>8, SameShares
<1> QED BY <1>1, <1>2

(* The first XPointer brings two shares: its own and the object's. *)
LEMMA CountPublish ==
  ASSUME Bounded, PointerInv, OneBlock', NEW t \in Threads, Weak!Publish(t)
  PROVE  CountInv'
<1> DEFINE d == NewBlock(t)
<1>1. /\ pc[t] = "publish" /\ m_sharedRefcount_ = 0 /\ m_sharedRefcount_' = d
      /\ pc' = [pc EXCEPT ![t] = "swap"] /\ UNCHANGED <<object, Weak!counters, pointer, temporary, calls>>
  BY DEF Weak!Publish, Weak!Goto, NewBlock
<1>2. d # 0 /\ m_weak_ref[d] = 2 /\ deletes[d] = 0 /\ object = "alive" /\ PointerTypes
  BY <1>1 DEF PointerInv, PrivateBlocks, PlainPointers, Making, PointerTypes
<1>3. \A v \in Threads : pointer[v].m_d_ = 0
  BY <1>1 DEF PointerInv, OneBlock
<1>4. Weak!Temporaries(d)' = {t}
  <2>1. \A v \in Threads : v # t /\ pc[v] \in {"swap", "deref"} => temporary[v].m_d_ = 0
    BY <1>1 DEF PointerInv, OneBlock
  <2> QED BY <1>1, <1>2, <2>1 DEF Weak!Temporaries, NewBlock, PointerTypes
<1>13. d' = d
  BY <1>1 DEF NewBlock
<1>5. PointersTo(d)' = {}
  BY <1>1, <1>2, <1>3, <1>13 DEF PointersTo
<1>6. OfObject(d)' = 1
  BY <1>1, <1>2, <1>13 DEF OfObject
<1>7. Cardinality({t}) = 1 /\ Cardinality({}) = 0
  BY FS_Singleton, FS_EmptySet
<1>8. Weak!Shares(d)' = 2
  <2>1. Weak!Shares(d)' = Cardinality(PointersTo(d)') + Cardinality(Weak!Temporaries(d)') + OfObject(d)'
    BY SameCardinality DEF Weak!Shares, PointersTo, OfObject
  <2> QED BY <1>4, <1>5, <1>6, <1>7, <2>1
<1>9. \A v \in Threads : pc'[v] # "delete"
  BY <1>1, <1>2 DEF PointerInv, OneBlock, PointerTypes
<1>10. OneDeleter'
  BY <1>1, <1>2, <1>9 DEF OneDeleter
<1>11. \A v \in Threads : pointer'[v].m_d_ \in {0, m_sharedRefcount_'}
  BY DEF OneBlock
<1>12. Weak!FreedByTheLast'
  BY <1>1, <1>2, <1>8, <1>11, <1>13 DEF Weak!FreedByTheLast, Weak!counters
<1> QED BY <1>10, <1>12 DEF CountInv

LEMMA CountRef ==
  ASSUME Bounded, PointerInv, OneBlock', NEW t \in Threads, Weak!Ref(t)
  PROVE  CountInv'
<1> DEFINE d == m_sharedRefcount_
<1>1. /\ pc[t] = "ref" /\ temporary[t].m_d_ = d /\ d # 0 /\ object = "alive" /\ PointerTypes
      /\ pc' = [pc EXCEPT ![t] = "swap"] /\ m_weak_ref' = [m_weak_ref EXCEPT ![d] = @ + 1]
      /\ UNCHANGED <<object, m_sharedRefcount_, m_strong_ref, deletes, pointer, temporary, calls>>
  BY DEF Weak!Ref, Weak!Goto, PointerInv, OneBlock, PlainPointers
<1>2. d \in Weak!Data /\ m_weak_ref[d] = Weak!Shares(d) /\ Weak!Shares(d) \in Nat
  BY <1>1, Known
<1>3. InTransit(t, d) = 0 /\ InTransit(t, d)' = 1
  BY <1>1 DEF InTransit, PointerTypes
<1>4. OfObject(d) = 1 /\ OfObject(d)' = 1 /\ Has(t, d)' = Has(t, d) /\ Has(t, d) \in Int
  BY <1>1 DEF OfObject, Has
<1>5. \A v \in Threads : v # t => InTransit(v, d)' = InTransit(v, d)
  BY <1>1 DEF InTransit, PointerTypes
<1>6. Weak!Shares(d)' = Weak!Shares(d) + 1
  <2>1. Weak!Shares(d)' = Weak!Shares(d) - Has(t, d) + Has(t, d)' - InTransit(t, d) + InTransit(t, d)'
                       - OfObject(d) + OfObject(d)'
    BY <1>1, <1>5, SharesChange
  <2> QED BY <1>2, <1>3, <1>4, <2>1
<1>7. Weak!Shares(d) > 0
  BY <1>4, SharesPositive
<1>8. m_weak_ref'[d] = Weak!Shares(d)'
  BY <1>1, <1>2, <1>6 DEF PointerTypes
<1>9. \A v \in Threads : pc'[v] = "delete" => pc[v] = "delete"
  BY <1>1 DEF PointerTypes
<1> QED BY <1>1, <1>2, <1>6, <1>7, <1>8, <1>9, SharesLeft

LEMMA CountCopy ==
  ASSUME Bounded, PointerInv, OneBlock', Expired', NEW t \in Threads, NEW u \in Threads, Weak!Copy(t, u)
  PROVE  CountInv'
<1> DEFINE d == m_sharedRefcount_
           k == Has(u, d)
<1>1. /\ pc[t] = "idle" /\ temporary' = [temporary EXCEPT ![t] = pointer[u]] /\ PointerTypes
      /\ pc' = [pc EXCEPT ![t] = "swap"]
      /\ UNCHANGED <<object, m_sharedRefcount_, m_strong_ref, deletes, pointer>>
      /\ pointer[u].m_d_ \in {0, d}
      /\ m_weak_ref' = IF pointer[u].m_d_ = 0 THEN m_weak_ref
                       ELSE [m_weak_ref EXCEPT ![pointer[u].m_d_] = @ + 1]
  BY DEF Weak!Copy, Weak!Call, Weak!Goto, PointerInv, OneBlock
<1>2. CASE d = 0
  BY <1>1, <1>2, NothingShared
<1>3. CASE d # 0
  <2>1. d \in Weak!Data /\ m_weak_ref[d] = Weak!Shares(d) /\ Weak!Shares(d) \in Nat
    BY <1>3, Known
  <2>2. InTransit(t, d) = 0 /\ InTransit(t, d)' = k
    BY <1>1 DEF InTransit, Has, PointerTypes
  <2>3. \A v \in Threads : v # t => InTransit(v, d)' = InTransit(v, d)
    BY <1>1 DEF InTransit, PointerTypes
  <2>4. /\ Has(t, d)' = Has(t, d) /\ OfObject(d)' = OfObject(d)
        /\ Has(t, d) \in Int /\ OfObject(d) \in Int /\ k \in {0, 1}
    BY <1>1 DEF Has, OfObject
  <2>5. Weak!Shares(d)' = Weak!Shares(d) + k
    <3>1. Weak!Shares(d)' = Weak!Shares(d) - Has(t, d) + Has(t, d)' - InTransit(t, d) + InTransit(t, d)'
                         - OfObject(d) + OfObject(d)'
      BY <1>1, <2>3, SharesChange
    <3> QED BY <2>1, <2>2, <2>4, <3>1
  <2>6. m_weak_ref'[d] = m_weak_ref[d] + k
    BY <1>1, <1>3, <2>1 DEF Has, PointerTypes
  <2>7. \A v \in Threads : pc'[v] = "delete" <=> pc[v] = "delete"
    BY <1>1 DEF PointerTypes
  <2>8. CASE k = 0
    BY <1>1, <1>3, <2>1, <2>5, <2>6, <2>7, <2>8, SameShares
  <2>9. CASE k = 1
    <3>1. Weak!Shares(d) > 0
      BY <2>9, SharesPositive
    <3> QED BY <1>1, <1>3, <2>1, <2>5, <2>6, <2>7, <2>9, <3>1, SharesLeft
  <2> QED BY <2>4, <2>8, <2>9
<1> QED BY <1>2, <1>3

(* A share changes hands. *)
LEMMA CountMove ==
  ASSUME Bounded, PointerInv, OneBlock', Expired', NEW t \in Threads, NEW u \in Threads,
         Weak!Move(t, u) \/ (u = t /\ (Weak!Leave(t) \/ Weak!Swap(t)))
  PROVE  CountInv'
<1> DEFINE d == m_sharedRefcount_
<1>1. UNCHANGED <<object, m_sharedRefcount_, Weak!counters>> /\ PointerTypes
  BY DEF Weak!Move, Weak!Leave, Weak!Swap, PointerInv
<1>2. PICK x, y, l :
        /\ temporary' = [temporary EXCEPT ![t] = x] /\ pointer' = [pointer EXCEPT ![u] = y]
        /\ pc' = [pc EXCEPT ![t] = l] /\ l \in {"swap", "deref"} /\ pc[t] # "delete"
        /\ x = pointer[u]
        /\ \/ pc[t] = "idle" /\ y = Weak!Empty
           \/ pc[t] = "swap" /\ y = temporary[t]
  BY DEF Weak!Move, Weak!Leave, Weak!Swap, Weak!Call, Weak!Goto
<1>3. CASE d = 0
  BY <1>1, <1>3, NothingShared
<1>4. CASE d # 0
  <2>1. d \in Weak!Data /\ Weak!Shares(d) \in Nat
    BY <1>4, Known
  <2>2. InTransit(t, d)' = Has(u, d) /\ Has(u, d)' = InTransit(t, d)
    BY <1>1, <1>2, <1>4 DEF InTransit, Has, PointerTypes, Weak!Empty
  <2>3. \A v \in Threads : v # t => InTransit(v, d)' = InTransit(v, d)
    BY <1>1, <1>2 DEF InTransit, PointerTypes
  <2>4. \A v \in Threads : v # u => pointer'[v].m_d_ = pointer[v].m_d_
    BY <1>1, <1>2 DEF PointerTypes
  <2>5. /\ OfObject(d)' = OfObject(d) /\ OfObject(d) \in Int
        /\ Has(u, d) \in Int /\ InTransit(t, d) \in Int
    BY <1>1 DEF Has, OfObject, InTransit
  <2>6. Weak!Shares(d)' = Weak!Shares(d)
    <3>1. Weak!Shares(d)' = Weak!Shares(d) - Has(u, d) + Has(u, d)' - InTransit(t, d) + InTransit(t, d)'
                         - OfObject(d) + OfObject(d)'
      BY <1>1, <2>3, <2>4, SharesChange
    <3> QED BY <2>1, <2>2, <2>5, <3>1
  <2>7. \A v \in Threads : pc'[v] = "delete" <=> pc[v] = "delete"
    BY <1>1, <1>2 DEF PointerTypes
  <2> QED BY <1>1, <1>4, <2>6, <2>7, SameShares DEF Weak!counters
<1> QED BY <1>3, <1>4

LEMMA CountDeref ==
  ASSUME Bounded, PointerInv, OneBlock', Expired', NEW t \in Threads, Weak!Deref(t)
  PROVE  CountInv'
<1> DEFINE d == m_sharedRefcount_
<1>1. /\ pc[t] = "deref" /\ temporary[t].m_d_ \in {0, d} /\ PointerTypes
      /\ UNCHANGED <<object, m_sharedRefcount_, m_strong_ref, deletes, pointer, calls>>
      /\ \A v \in Threads : v # t => temporary'[v] = temporary[v] /\ pc'[v] = pc[v]
  BY DEF Weak!Deref, Weak!Goto, PointerInv, OneBlock, PointerTypes
<1>2. CASE d = 0
  BY <1>1, <1>2, NothingShared
<1>3. CASE d # 0
  <2>1. d \in Weak!Data /\ m_weak_ref[d] = Weak!Shares(d) /\ Weak!Shares(d) \in Nat
    BY <1>3, Known
  <2>2. \A v \in Threads : v # t => InTransit(v, d)' = InTransit(v, d)
    BY <1>1 DEF InTransit
  <2>3. pc'[t] \in {"idle", "delete"}
    BY <1>1 DEF Weak!Deref, Weak!Goto, PointerTypes
  <2>4. /\ Has(t, d)' = Has(t, d) /\ OfObject(d)' = OfObject(d) /\ InTransit(t, d)' = 0
        /\ Has(t, d) \in Int /\ OfObject(d) \in Int /\ InTransit(t, d) \in {0, 1}
    BY <1>1, <2>3 DEF Has, OfObject, InTransit
  <2>5. Weak!Shares(d)' = Weak!Shares(d) - InTransit(t, d)
    <3>1. Weak!Shares(d)' = Weak!Shares(d) - Has(t, d) + Has(t, d)' - InTransit(t, d) + InTransit(t, d)'
                         - OfObject(d) + OfObject(d)'
      BY <1>1, <2>2, SharesChange
    <3> QED BY <2>1, <2>4, <3>1
  <2>6. CASE temporary[t].m_d_ = 0
    <3>1. InTransit(t, d) = 0
      BY <1>3, <2>6 DEF InTransit
    <3>2. m_weak_ref' = m_weak_ref /\ pc'[t] = "idle"
      BY <1>1, <2>6 DEF Weak!Deref, Weak!Goto, PointerTypes
    <3>3. Weak!Shares(d)' = Weak!Shares(d)
      BY <2>1, <2>5, <3>1
    <3>4. \A v \in Threads : pc'[v] = "delete" <=> pc[v] = "delete"
      BY <1>1, <3>2
    <3> QED BY <1>1, <1>3, <3>2, <3>3, <3>4, SameShares
  <2>7. CASE temporary[t].m_d_ = d
    <3>1. InTransit(t, d) = 1
      BY <1>1, <2>7 DEF InTransit
    <3>2. Weak!Shares(d) > 0 /\ Weak!Shares(d)' = Weak!Shares(d) - 1
      BY <2>1, <2>5, <3>1, SharesPositive
    <3>3. /\ m_weak_ref'[d] = m_weak_ref[d] - 1
          /\ pc'[t] = IF m_weak_ref[d] = 1 THEN "delete" ELSE "idle"
      BY <1>1, <1>3, <2>1, <2>7 DEF Weak!Deref, Weak!Goto, PointerTypes
    <3>4. CASE Weak!Shares(d) = 1
      BY <1>1, <1>3, <2>1, <3>2, <3>3, <3>4, LastShare
    <3>5. CASE Weak!Shares(d) # 1
      <4>1. Weak!Shares(d)' > 0 /\ m_weak_ref'[d] = Weak!Shares(d)'
        BY <2>1, <3>2, <3>3, <3>5
      <4>2. \A v \in Threads : pc'[v] = "delete" => pc[v] = "delete"
        BY <1>1, <2>1, <3>3, <3>5
      <4> QED BY <1>1, <1>3, <3>2, <4>1, <4>2, SharesLeft
    <3> QED BY <3>4, <3>5
  <2> QED BY <1>1, <2>6, <2>7
<1> QED BY <1>2, <1>3

LEMMA CountDelete ==
  ASSUME Bounded, PointerInv, OneBlock', NEW t \in Threads, Weak!Delete(t)
  PROVE  CountInv'
<1> DEFINE d == m_sharedRefcount_
<1>1. /\ pc[t] = "delete" /\ temporary[t].m_d_ = d /\ d # 0 /\ PointerTypes
      /\ Weak!Shares(d) = 0 /\ object # "delete" /\ \A v \in Threads : pc[v] = "delete" => v = t
  BY DEF Weak!Delete, PointerInv, OneBlock, OneDeleter
<1>2. /\ pc' = [pc EXCEPT ![t] = "idle"] /\ temporary' = [temporary EXCEPT ![t] = Weak!Empty]
      /\ deletes' = [deletes EXCEPT ![d] = @ + 1]
      /\ UNCHANGED <<object, m_sharedRefcount_, m_weak_ref, m_strong_ref, pointer, calls>>
  BY <1>1 DEF Weak!Delete, Weak!Goto
<1>3. d \in Weak!Data
  BY <1>1, Known
<1>4. /\ PointersTo(d)' = PointersTo(d) /\ Weak!Temporaries(d)' = Weak!Temporaries(d)
      /\ OfObject(d)' = OfObject(d)
  BY <1>1, <1>2 DEF PointersTo, Weak!Temporaries, OfObject, PointerTypes
<1>5. Weak!Shares(d)' = Weak!Shares(d)
  BY <1>2, <1>4 DEF Weak!Shares, PointersTo, OfObject
<1>6. Weak!AboutToDelete(d) /\ object' # "delete" /\ \A v \in Threads : pc'[v] # "delete"
  BY <1>1, <1>2 DEF Weak!AboutToDelete, PointerTypes
<1>7. deletes'[d] = deletes[d] + 1 /\ m_weak_ref'[d] = m_weak_ref[d]
  BY <1>1, <1>2, <1>3 DEF PointerTypes
<1> QED BY <1>1, <1>2, <1>5, <1>6, <1>7, Deleted

(* The object's own share. *)
LEMMA CountObject ==
  ASSUME Bounded, PointerInv, OneBlock', Expired',
         Weak!Destroy \/ Weak!Expire \/ Weak!ReleaseShare \/ Weak!DeleteShare
  PROVE  CountInv'
<1> DEFINE d == m_sharedRefcount_
<1>1. UNCHANGED <<m_sharedRefcount_, pointer, temporary, pc, calls>> /\ PointerTypes
  BY DEF Weak!Destroy, Weak!Expire, Weak!ReleaseShare, Weak!DeleteShare, PointerInv
<1>2. CASE d = 0
  BY <1>1, <1>2, NothingShared
<1>3. CASE d # 0
  <2>1. d \in Weak!Data /\ m_weak_ref[d] = Weak!Shares(d) /\ Weak!Shares(d) \in Nat
    BY <1>3, Known
  <2>2. Weak!Shares(d)' = Weak!Shares(d) - OfObject(d) + OfObject(d)' /\ OfObject(d) \in Nat
    <3>1. PointersTo(d)' = PointersTo(d) /\ Weak!Temporaries(d)' = Weak!Temporaries(d)
      BY <1>1 DEF PointersTo, Weak!Temporaries
    <3>2. Weak!Shares(d)' = Cardinality(PointersTo(d)') + Cardinality(Weak!Temporaries(d)') + OfObject(d)'
      BY SameCardinality DEF Weak!Shares, PointersTo, OfObject
    <3>3. OfObject(d) \in Nat /\ OfObject(d)' \in Nat
      BY DEF OfObject
    <3> QED BY <3>1, <3>2, <3>3, SharesType
  <2>3. CASE Weak!Destroy \/ Weak!Expire
    <3>1. /\ object \in {"alive", "expire"} /\ object' \in {"expire", "release"}
          /\ UNCHANGED <<m_weak_ref, deletes>>
      BY <1>3, <2>3 DEF Weak!Destroy, Weak!Expire, Weak!counters
    <3>2. Weak!Shares(d)' = Weak!Shares(d)
      BY <1>1, <2>1, <2>2, <3>1 DEF OfObject
    <3> QED BY <1>1, <1>3, <3>1, <3>2, SameShares
  <2>4. CASE Weak!ReleaseShare
    <3>1. /\ object = "release" /\ m_weak_ref' = [m_weak_ref EXCEPT ![d] = @ - 1]
          /\ object' = (IF m_weak_ref[d] = 1 THEN "delete" ELSE "gone") /\ deletes' = deletes
      BY <2>4 DEF Weak!ReleaseShare
    <3>2. OfObject(d) = 1 /\ OfObject(d)' = 0
      BY <1>1, <3>1 DEF OfObject
    <3>3. Weak!Shares(d)' = Weak!Shares(d) - 1 /\ Weak!Shares(d) > 0
      <4>1. Cardinality(PointersTo(d)) \in Nat /\ Cardinality(Weak!Temporaries(d)) \in Nat
            /\ Weak!Shares(d) = Cardinality(PointersTo(d)) + Cardinality(Weak!Temporaries(d)) + OfObject(d)
        BY SharesType
      <4> QED BY <2>1, <2>2, <3>2, <4>1
    <3>4. m_weak_ref'[d] = Weak!Shares(d)'
      BY <1>1, <2>1, <3>1, <3>3 DEF PointerTypes
    <3>5. CASE Weak!Shares(d) = 1
      BY <1>1, <1>3, <2>1, <3>1, <3>3, <3>4, <3>5, LastShare
    <3>6. CASE Weak!Shares(d) # 1
      BY <1>1, <1>3, <2>1, <3>1, <3>3, <3>4, <3>6, SharesLeft
    <3> QED BY <3>5, <3>6
  <2>5. CASE Weak!DeleteShare
    <3>1. /\ object = "delete" /\ object' = "gone" /\ deletes' = [deletes EXCEPT ![d] = @ + 1]
          /\ m_weak_ref' = m_weak_ref /\ Weak!Shares(d) = 0
      BY <2>5 DEF Weak!DeleteShare, PointerInv, OneDeleter
    <3>2. Weak!Shares(d)' = Weak!Shares(d)
      BY <1>1, <2>1, <2>2, <3>1 DEF OfObject
    <3>3. Weak!AboutToDelete(d) /\ \A v \in Threads : pc'[v] # "delete"
      BY <1>1, <3>1 DEF Weak!AboutToDelete, PointerInv, OneDeleter
    <3>4. deletes'[d] = deletes[d] + 1
      BY <1>1, <2>1, <3>1 DEF PointerTypes
    <3> QED BY <1>1, <1>3, <3>1, <3>2, <3>3, <3>4, Deleted
  <2> QED BY <2>3, <2>4, <2>5
<1> QED BY <1>2, <1>3

-----------------------------------------------------------------------------
LEMMA PointerInductive ==
  ASSUME Bounded
  PROVE  Weak!Spec => []PointerInv
<1>1. Weak!Init => PointerInv
  <2> SUFFICES ASSUME Weak!Init PROVE PointerInv
    OBVIOUS
  <2>1. PointerTypes
    <3>1. Weak!Empty \in [m_ptr_ : BOOLEAN, m_d_ : 0 .. MaxCalls]
      BY DEF Weak!Empty, Bounded
    <3> QED BY <3>1 DEF Weak!Init, PointerTypes, Labels, Bounded
  <2>2. OneBlock
    BY DEF Weak!Init, OneBlock, Weak!Empty
  <2>3. PrivateBlocks
    BY DEF Weak!Init, PrivateBlocks, Making
  <2>4. PlainPointers /\ Expired /\ OneDeleter
    BY DEF Weak!Init, PlainPointers, Expired, OneDeleter
  <2>5. Weak!FreedByTheLast
    BY <2>2 DEF Weak!Init, Weak!FreedByTheLast, OneBlock
  <2> QED BY <2>1, <2>2, <2>3, <2>4, <2>5 DEF PointerInv
<1>2. PointerInv /\ [Weak!Next]_(Weak!vars) => PointerInv'
  <2> SUFFICES ASSUME PointerInv, [Weak!Next]_(Weak!vars) PROVE PointerInv'
    OBVIOUS
  <2>1. PointerTypes' /\ OneBlock' /\ PrivateBlocks' /\ PlainPointers' /\ Expired'
    BY PointerTypesStay, OneBlockStep, PrivateStep, ObjectStep
  <2>2. ASSUME NEW t \in Threads, Weak!Step(t) PROVE CountInv'
    <3>1. CASE Weak!AssignCall(t) \/ Weak!Load(t) \/ Weak!Make(t) \/ Weak!MakeFails(t) \/ Weak!PublishLost(t)
      BY <2>1, <3>1, CountMaking
    <3>2. CASE Weak!Publish(t) \/ Weak!Ref(t) \/ Weak!Deref(t) \/ Weak!Delete(t)
      BY <2>1, <3>2, CountPublish, CountRef, CountDeref, CountDelete
    <3>3. CASE Weak!Leave(t) \/ Weak!Swap(t) \/ \E u \in Threads : Weak!Copy(t, u) \/ Weak!Move(t, u)
      BY <2>1, <3>3, CountMove, CountCopy
    <3> QED BY <2>2, <3>1, <3>2, <3>3 DEF Weak!Step
  <2>3. ASSUME UNCHANGED Weak!vars PROVE CountInv'
    <3>1. Weak!Shares(m_sharedRefcount_)' = Weak!Shares(m_sharedRefcount_)
      BY <2>3 DEF Weak!vars, Weak!Shares, Weak!Temporaries
    <3>2. CASE m_sharedRefcount_ = 0
      BY <2>1, <2>3, <3>2, NothingShared DEF Weak!vars
    <3>3. CASE m_sharedRefcount_ # 0
      BY <2>1, <2>3, <3>1, <3>3, SameShares DEF Weak!vars
    <3> QED BY <3>2, <3>3
  <2>4. ASSUME Weak!Destroy \/ Weak!Expire \/ Weak!ReleaseShare \/ Weak!DeleteShare PROVE CountInv'
    BY <2>1, <2>4, CountObject
  <2>5. CountInv'
    BY <2>2, <2>3, <2>4 DEF Weak!Next
  <2> QED BY <2>1, <2>5 DEF PointerInv, CountInv
<1> QED BY <1>1, <1>2, PTL DEF Weak!Spec

(* However the threads make, copy, move and drop XPointers to an object that is destroyed
   meanwhile: the counters count those that are left, the last one deletes them, once, and
   none gives the object that is gone. *)
THEOREM WeakPointersAlwaysSound ==
  ASSUME Bounded
  PROVE  Weak!Spec => []WeakPointersSound
<1>1. PointerInv => WeakPointersSound
  BY DEF PointerInv, WeakPointersSound, Weak!WeakPointersSound, Weak!NullWhenGone, Weak!IsNull, Expired, OneBlock,
    PointerTypes
<1> QED BY <1>1, PointerInductive, PTL

-----------------------------------------------------------------------------
(* Two-phase construction *)
Absent == 0 \notin Objects

Creations ==
  [pc : {"idle", "once", "allocate", "construct", "construct_", "created"},
   for : Memory!Kinds, piece : Objects \cup {0}, tries : Nat, attempts : Nat]

MemoryTypes ==
  /\ memory \in [Objects -> {"free", "raw", "constructed", "whole"}]
  /\ once \in {"new", "running", "done"} /\ data \in Objects \cup {0}
  /\ creating \in [Threads -> Creations]
  /\ kept \in [Threads -> SUBSET Objects] /\ children \subseteq Objects /\ lost \subseteq Objects
  /\ answer \in [Threads -> SUBSET (Objects \cup {0})]

(* who has a piece of memory, and of which thread *)
PieceInv(o, k, w) ==
  /\ \A t \in Threads : /\ o \in kept[t] <=> k = "user" /\ w = t
                        /\ creating[t].piece = o <=> k = "maker" /\ w = t
  /\ (o \in children <=> k = "parent") /\ (o = data <=> k = "singleton") /\ (o \in lost <=> k = "lost")
  /\ memory[o] = "free" <=> k = "free"
  /\ k \in {"user", "maker"} => w \in Threads
  /\ k \in {"free", "user", "maker", "parent", "singleton", "lost"}
  /\ k \in {"user", "parent", "singleton"} => memory[o] = "whole"

Pieces == \A o \in Objects : \E k, w : PieceInv(o, k, w)

(* a thread has a piece in its hands while it makes an object of it, and a whole one at the end *)
Handed(t) ==
  /\ creating[t].pc \in {"idle", "once", "allocate"} => creating[t].piece = 0
  /\ creating[t].pc \in {"construct", "construct_"} => creating[t].piece # 0
  /\ creating[t].pc = "created" /\ creating[t].piece # 0 => memory[creating[t].piece] = "whole"

(* one thread makes the singleton, and until it is done nobody has an answer *)
MakesOne(t) ==
  creating[t].for = "singleton" /\ creating[t].pc \in {"allocate", "construct", "construct_", "created"}
OnceInOrder ==
  /\ \A t \in Threads : MakesOne(t) => once = "running"
  /\ \A t, u \in Threads : MakesOne(t) /\ MakesOne(u) => t = u
  /\ data # 0 => once = "done"
  /\ \A t \in Threads : answer[t] \subseteq {data} /\ (answer[t] # {} => once = "done")

MemoryInv == MemoryTypes /\ Pieces /\ (\A t \in Threads : Handed(t)) /\ OnceInOrder

-----------------------------------------------------------------------------
(* What one thread does to the others' pieces *)
Leaves(o) ==
  /\ \A u \in Threads : /\ o \in kept'[u] <=> o \in kept[u]
                        /\ creating'[u].piece = o <=> creating[u].piece = o
  /\ (o \in children' <=> o \in children) /\ (o = data' <=> o = data) /\ (o \in lost' <=> o \in lost)
  /\ memory'[o] = memory[o]

LEMMA PieceStays ==
  ASSUME NEW o, NEW k, NEW w, PieceInv(o, k, w), Leaves(o)
  PROVE  PieceInv(o, k, w)'
BY DEF PieceInv, Leaves

LEMMA PiecesStay ==
  ASSUME Pieces, \A o \in Objects : Leaves(o)
  PROVE  Pieces'
<1> SUFFICES ASSUME NEW o \in Objects PROVE \E k, w : PieceInv(o, k, w)'
  BY DEF Pieces
<1>1. PICK k, w : PieceInv(o, k, w)
  BY DEF Pieces
<1>2. PieceInv(o, k, w)'
  BY <1>1, PieceStays
<1> QED BY <1>2

LEMMA PieceMoves ==
  ASSUME Pieces, NEW p \in Objects, \A o \in Objects \ {p} : Leaves(o), NEW l, NEW v, PieceInv(p, l, v)'
  PROVE  Pieces'
<1> SUFFICES ASSUME NEW o \in Objects PROVE \E k, w : PieceInv(o, k, w)'
  BY DEF Pieces
<1>1. CASE o = p
  BY <1>1
<1>2. CASE o # p
  <2>1. PICK k, w : PieceInv(o, k, w)
    BY DEF Pieces
  <2>2. PieceInv(o, k, w)'
    BY <1>2, <2>1, PieceStays
  <2> QED BY <2>2
<1> QED BY <1>1, <1>2

(* the thread that makes an object has its piece alone *)
LEMMA MadeAlone ==
  ASSUME Absent, MemoryInv, NEW t \in Threads, NEW p, p = creating[t].piece, p # 0
  PROVE  /\ p \in Objects /\ memory[p] # "free" /\ p # data /\ p \notin children /\ p \notin lost
         /\ \A u \in Threads : p \notin kept[u] /\ (u # t => creating[u].piece # p)
<1>1. p \in Objects
  BY DEF MemoryInv, MemoryTypes, Creations
<1>2. PICK k, w : PieceInv(p, k, w)
  BY <1>1 DEF MemoryInv, Pieces
<1>3. k = "maker" /\ w = t
  BY <1>2 DEF PieceInv
<1> QED BY <1>1, <1>2, <1>3 DEF PieceInv

(* A record of Creates, field by field. *)
LEMMA CreatesFields ==
  ASSUME MemoryTypes, NEW t \in Threads, NEW new, Memory!Creates(t, new)
  PROVE  /\ DOMAIN creating' = Threads /\ \A u \in Threads \ {t} : creating'[u] = creating[u]
         /\ creating'[t] = [f \in DOMAIN Memory!Idle |-> IF f \in DOMAIN new THEN new[f] ELSE creating[t][f]]
BY DEF Memory!Creates, MemoryTypes

(* t's record after a step; the others keep theirs *)
Becomes(t, label, kind, p) ==
  /\ creating' \in [Threads -> Creations] /\ \A u \in Threads \ {t} : creating'[u] = creating[u]
  /\ creating'[t].pc = label /\ creating'[t].for = kind /\ creating'[t].piece = p

(* Steps in which no piece changes hands: t goes on with what it has, or has nothing. *)
LEMMA QuietStep ==
  ASSUME MemoryInv, NEW t \in Threads, NEW label, NEW kind, Becomes(t, label, kind, creating[t].piece),
         UNCHANGED <<memory, lost, data, kept, children>>
  PROVE  Pieces'
<1>1. \A u \in Threads : creating'[u].piece = creating[u].piece
  BY DEF Becomes
<1>2. \A o \in Objects : Leaves(o)
  BY <1>1 DEF Leaves
<1> QED BY <1>2, PiecesStay DEF MemoryInv

LEMMA CallStep ==
  ASSUME Absent, MemoryInv, NEW t \in Threads, NEW kind \in Memory!Kinds, Memory!Call(t, kind)
  PROVE  MemoryInv'
<1>0. MemoryTypes /\ creating[t].pc = "idle" /\ creating[t].piece = 0
  BY DEF Memory!Call, Memory!At, MemoryInv, Handed
<1>1. PICK label : label = IF kind = "singleton" THEN "once" ELSE "allocate"
  OBVIOUS
<1>2. Becomes(t, label, kind, 0) /\ UNCHANGED <<memory, lost, once, data, kept, children, answer>>
  <2>1. Memory!Creates(t, [pc |-> label, for |-> kind])
    BY <1>1 DEF Memory!Call
  <2> QED BY <1>0, <1>1, <2>1
          DEF Memory!Call, Memory!Creates, Memory!Idle, Creations, Becomes, MemoryTypes, Memory!holders
<1>3. MemoryTypes'
  BY <1>0, <1>2 DEF MemoryTypes, Becomes
<1>4. Pieces'
  BY <1>0, <1>2, QuietStep
<1>5. \A u \in Threads : Handed(u)'
  BY <1>1, <1>2 DEF MemoryInv, Handed, Becomes
<1>6. \A u \in Threads : MakesOne(u)' <=> MakesOne(u)
  BY <1>0, <1>1, <1>2 DEF MakesOne, Becomes
<1>7. OnceInOrder'
  BY <1>2, <1>6 DEF MemoryInv, OnceInOrder
<1> QED BY <1>3, <1>4, <1>5, <1>7 DEF MemoryInv

LEMMA OnceSteps ==
  ASSUME Absent, MemoryInv, NEW t \in Threads, Memory!EnterOnce(t) \/ Memory!PassOnce(t)
  PROVE  MemoryInv'
<1>0. MemoryTypes /\ creating[t].pc = "once" /\ creating[t].piece = 0
  BY DEF Memory!EnterOnce, Memory!PassOnce, Memory!At, MemoryInv, Handed
<1>1. CASE Memory!EnterOnce(t)
  <2>1. /\ Becomes(t, "allocate", creating[t].for, 0) /\ once = "new" /\ once' = "running"
        /\ UNCHANGED <<memory, lost, data, kept, children, answer>>
    BY <1>0, <1>1
    DEF Memory!EnterOnce, Memory!MayRun, Memory!Creates, Memory!Idle, Creations, Becomes, MemoryTypes
  <2>2. MemoryTypes'
    BY <1>0, <2>1 DEF MemoryTypes, Becomes
  <2>3. Pieces'
    BY <1>0, <2>1, QuietStep
  <2>4. \A u \in Threads : Handed(u)'
    BY <2>1 DEF MemoryInv, Handed, Becomes
  <2>5. \A u \in Threads \ {t} : ~MakesOne(u) /\ ~MakesOne(u)'
    BY <2>1 DEF MemoryInv, OnceInOrder, MakesOne, Becomes
  <2>6. OnceInOrder'
    BY <2>1, <2>5 DEF MemoryInv, OnceInOrder
  <2> QED BY <2>2, <2>3, <2>4, <2>6 DEF MemoryInv
<1>2. CASE Memory!PassOnce(t)
  <2>1. /\ Becomes(t, "idle", "unique", 0) /\ once = "done" /\ once' = "done"
        /\ answer' = [answer EXCEPT ![t] = @ \cup {data}]
        /\ UNCHANGED <<memory, lost, data, kept, children>>
    BY <1>0, <1>2
    DEF Memory!PassOnce, Memory!Creates, Memory!Idle, Memory!None, Memory!Kinds, Creations, Becomes, MemoryTypes
  <2>2. MemoryTypes'
    BY <1>0, <2>1 DEF MemoryTypes, Becomes
  <2>3. Pieces'
    BY <1>0, <2>1, QuietStep
  <2>4. \A u \in Threads : Handed(u)'
    BY <2>1 DEF MemoryInv, Handed, Becomes
  <2>5. \A u \in Threads : ~MakesOne(u) /\ ~MakesOne(u)'
    BY <2>1 DEF MemoryInv, OnceInOrder, MakesOne, Becomes
  <2>6. OnceInOrder'
    BY <1>0, <2>1, <2>5 DEF MemoryInv, OnceInOrder, MemoryTypes
  <2> QED BY <2>2, <2>3, <2>4, <2>6 DEF MemoryInv
<1> QED BY <1>1, <1>2

LEMMA AllocateStep ==
  ASSUME Absent, MemoryInv, NEW t \in Threads, Memory!Allocate(t) \/ Memory!AllocateFails(t)
  PROVE  MemoryInv'
<1>0. MemoryTypes /\ creating[t].pc = "allocate" /\ creating[t].piece = 0
  BY DEF Memory!Allocate, Memory!AllocateFails, Memory!At, MemoryInv, Handed
<1>1. CASE Memory!Allocate(t)
  <2>1. PICK p \in Objects : /\ memory[p] = "free" /\ memory' = [memory EXCEPT ![p] = "raw"]
                             /\ Memory!Creates(t, [pc |-> "construct", piece |-> p, attempts |-> 0])
    BY <1>1 DEF Memory!Allocate
  <2>2. Becomes(t, "construct", creating[t].for, p) /\ UNCHANGED <<lost, once, data, kept, children, answer>>
    BY <1>0, <1>1, <2>1
    DEF Memory!Allocate, Memory!Creates, Memory!Idle, Creations, Becomes, MemoryTypes, Memory!holders
  <2>3. MemoryTypes'
    BY <1>0, <2>1, <2>2 DEF MemoryTypes, Becomes
  <2>4. Pieces'
    <3>1. PICK k, w : PieceInv(p, k, w)
      BY DEF MemoryInv, Pieces
    <3>2. memory'[p] = "raw"
      BY <1>0, <2>1 DEF MemoryTypes
    <3>3. PieceInv(p, "maker", t)'
      BY <2>1, <2>2, <3>1, <3>2 DEF PieceInv, Becomes
    <3>4. \A o \in Objects \ {p} : Leaves(o)
      BY <1>0, <2>1, <2>2 DEF Leaves, Becomes, MemoryTypes, Absent
    <3> QED BY <3>3, <3>4, PieceMoves DEF MemoryInv
  <2>5. ASSUME NEW u \in Threads PROVE Handed(u)'
    <3>1. CASE u = t
      BY <2>2, <3>1 DEF Handed, Becomes, Absent
    <3>2. CASE u # t
      <4>1. creating'[u] = creating[u] /\ Handed(u)
        BY <2>2, <3>2 DEF Becomes, MemoryInv
      <4>2. creating[u].piece # 0 => creating[u].piece \in Objects /\ creating[u].piece # p
        BY <2>1, MadeAlone
      <4>3. creating[u].piece # 0 => memory'[creating[u].piece] = memory[creating[u].piece]
        BY <1>0, <2>1, <4>2 DEF MemoryTypes
      <4> QED BY <4>1, <4>3 DEF Handed
    <3> QED BY <3>1, <3>2
  <2>6. \A u \in Threads : MakesOne(u)' <=> MakesOne(u)
    BY <1>0, <2>2 DEF MakesOne, Becomes
  <2>7. OnceInOrder'
    BY <2>2, <2>6 DEF MemoryInv, OnceInOrder
  <2> QED BY <2>3, <2>4, <2>5, <2>7 DEF MemoryInv
<1>2. CASE Memory!AllocateFails(t)
  <2>1. UNCHANGED <<memory, lost, once, data, kept, children, answer>>
    BY <1>2 DEF Memory!AllocateFails, Memory!holders
  <2>2. Becomes(t, "allocate", creating[t].for, 0)
    <3>1. CASE Memory!Creates(t, [attempts |-> creating[t].attempts + 1])
      BY <1>0, <3>1 DEF Memory!Creates, Memory!Idle, Creations, Becomes, MemoryTypes
    <3>2. CASE creating' = creating
      BY <1>0, <3>2 DEF Becomes, MemoryTypes
    <3> QED BY <1>2, <3>1, <3>2 DEF Memory!AllocateFails
  <2>3. MemoryTypes'
    BY <1>0, <2>1, <2>2 DEF MemoryTypes, Becomes
  <2>4. Pieces'
    BY <1>0, <2>1, <2>2, QuietStep
  <2>5. \A u \in Threads : Handed(u)'
    BY <2>1, <2>2 DEF MemoryInv, Handed, Becomes
  <2>6. \A u \in Threads : MakesOne(u)' <=> MakesOne(u)
    BY <1>0, <2>2 DEF MakesOne, Becomes
  <2>7. OnceInOrder'
    BY <2>1, <2>6 DEF MemoryInv, OnceInOrder
  <2> QED BY <2>3, <2>4, <2>5, <2>7 DEF MemoryInv
<1> QED BY <1>1, <1>2

(* A thread keeps what it has in its hands when no other thread's piece is touched. *)
LEMMA OthersHanded ==
  ASSUME Absent, MemoryInv, NEW t \in Threads, NEW p, \A o \in Objects \ {p} : memory'[o] = memory[o],
         \A u \in Threads \ {t} : creating'[u] = creating[u] /\ (creating[u].piece = p => p = 0)
  PROVE  \A u \in Threads \ {t} : Handed(u)'
<1> SUFFICES ASSUME NEW u \in Threads \ {t} PROVE Handed(u)'
  OBVIOUS
<1>1. creating'[u] = creating[u] /\ Handed(u) /\ creating[u].piece \in Objects \cup {0}
  BY DEF MemoryInv, MemoryTypes, Creations
<1>2. creating[u].piece # 0 => creating[u].piece \in Objects \ {p}
  BY <1>1
<1> QED BY <1>1, <1>2 DEF Handed

(* The two phases of the constructor, on the piece in t's hands. *)
LEMMA PhaseStep ==
  ASSUME Absent, MemoryInv, NEW t \in Threads,
         \/ Memory!Construct(t) \/ Memory!SecondPhase(t)
  PROVE  MemoryInv'
<1>0. MemoryTypes /\ creating[t].pc \in {"construct", "construct_"}
  BY DEF Memory!Construct, Memory!SecondPhase, Memory!At, MemoryInv
<1>1. PICK p : p = creating[t].piece
  OBVIOUS
<1>2. /\ p # 0 /\ p \in Objects /\ memory[p] # "free" /\ p # data /\ p \notin children /\ p \notin lost
      /\ \A u \in Threads : p \notin kept[u] /\ (u # t => creating[u].piece # p)
  <2>1. p # 0
    BY <1>0, <1>1 DEF MemoryInv, Handed
  <2> QED BY <1>1, <2>1, MadeAlone
<1>3. PICK label, v : /\ label \in {"construct_", "created"} /\ v \in {"constructed", "whole"}
                      /\ (label = "created" => v = "whole")
                      /\ creating[t].pc = (IF label = "created" THEN "construct_" ELSE "construct")
                      /\ Memory!Creates(t, [pc |-> label])
                      /\ memory' = [memory EXCEPT ![creating[t].piece] = v]
  <2>1. CASE Memory!Construct(t)
    <3>1. /\ creating[t].pc = (IF "construct_" = "created" THEN "construct_" ELSE "construct")
          /\ Memory!Creates(t, [pc |-> "construct_"])
          /\ memory' = [memory EXCEPT ![creating[t].piece] = "constructed"]
      BY <2>1 DEF Memory!Construct, Memory!At
    <3> QED BY <3>1
  <2>2. CASE Memory!SecondPhase(t)
    <3>1. /\ creating[t].pc = "construct_" /\ Memory!Creates(t, [pc |-> "created"])
          /\ memory' = [memory EXCEPT ![creating[t].piece] = "whole"]
      BY <2>2 DEF Memory!SecondPhase, Memory!At
    <3> QED BY <3>1
  <2> QED BY <2>1, <2>2
<1>4. UNCHANGED <<lost, once, data, kept, children, answer>>
  BY DEF Memory!Construct, Memory!SecondPhase, Memory!holders
<1>5. Becomes(t, label, creating[t].for, p)
  BY <1>0, <1>1, <1>3 DEF Memory!Creates, Memory!Idle, Creations, Becomes, MemoryTypes
<1>6. /\ memory' \in [Objects -> {"free", "raw", "constructed", "whole"}]
      /\ memory'[p] = v /\ \A o \in Objects \ {p} : memory'[o] = memory[o]
  BY <1>0, <1>1, <1>2, <1>3 DEF MemoryTypes
<1>7. MemoryTypes'
  BY <1>0, <1>4, <1>5, <1>6 DEF MemoryTypes, Becomes
<1>8. Pieces'
  <2>1. PICK k, w : PieceInv(p, k, w)
    BY <1>2 DEF MemoryInv, Pieces
  <2>2. k = "maker" /\ w = t
    BY <1>1, <2>1 DEF PieceInv
  <2>3. PieceInv(p, "maker", t)'
    BY <1>2, <1>3, <1>4, <1>5, <1>6, <2>1, <2>2 DEF PieceInv, Becomes
  <2>4. \A o \in Objects \ {p} : Leaves(o)
    BY <1>1, <1>4, <1>5, <1>6 DEF Leaves, Becomes
  <2> QED BY <1>2, <2>3, <2>4, PieceMoves DEF MemoryInv
<1>9. \A u \in Threads : Handed(u)'
  <2>1. Handed(t)'
    BY <1>2, <1>3, <1>5, <1>6 DEF Handed, Becomes
  <2>2. \A u \in Threads \ {t} : Handed(u)'
    BY <1>2, <1>5, <1>6, OthersHanded DEF Becomes
  <2> QED BY <2>1, <2>2
<1>10. \A u \in Threads : MakesOne(u)' <=> MakesOne(u)
  BY <1>0, <1>3, <1>5 DEF MakesOne, Becomes
<1>11. OnceInOrder'
  BY <1>4, <1>10 DEF MemoryInv, OnceInOrder
<1> QED BY <1>7, <1>8, <1>9, <1>11 DEF MemoryInv

(* The constructor throws, or construct_ fails: t has nothing. *)
LEMMA FailStep ==
  ASSUME Absent, MemoryInv, NEW t \in Threads,
         \/ Memory!ConstructorThrows(t) \/ Memory!SecondPhaseFails(t)
  PROVE  MemoryInv'
<1>0. MemoryTypes /\ creating[t].pc \in {"construct", "construct_"}
  BY DEF Memory!ConstructorThrows, Memory!SecondPhaseFails, Memory!At, MemoryInv
<1>1. PICK p : p = creating[t].piece
  OBVIOUS
<1>2. /\ p # 0 /\ p \in Objects /\ memory[p] # "free" /\ p # data /\ p \notin children /\ p \notin lost
      /\ \A u \in Threads : p \notin kept[u] /\ (u # t => creating[u].piece # p)
  <2>1. p # 0
    BY <1>0, <1>1 DEF MemoryInv, Handed
  <2> QED BY <1>1, <2>1, MadeAlone
<1>3. Memory!Creates(t, [pc |-> "created", piece |-> 0]) /\ UNCHANGED <<once, data, kept, children, answer>>
  BY DEF Memory!ConstructorThrows, Memory!SecondPhaseFails, Memory!holders, Memory!None
<1>4. Becomes(t, "created", creating[t].for, 0)
  BY <1>0, <1>3 DEF Memory!Creates, Memory!Idle, Creations, Becomes, MemoryTypes
<1>5. PICK k : /\ (k = "lost" /\ memory' = memory /\ lost' = lost \cup {p})
                  \/ (k = "free" /\ memory' = [memory EXCEPT ![p] = "free"] /\ lost' = lost)
  BY <1>1 DEF Memory!ConstructorThrows, Memory!SecondPhaseFails
<1>6. /\ memory' \in [Objects -> {"free", "raw", "constructed", "whole"}] /\ lost' \subseteq Objects
      /\ \A o \in Objects \ {p} : memory'[o] = memory[o] /\ (o \in lost' <=> o \in lost)
      /\ (p \in lost' <=> k = "lost") /\ (memory'[p] = "free" <=> k = "free") /\ k \in {"lost", "free"}
  BY <1>0, <1>2, <1>5 DEF MemoryTypes
<1>7. MemoryTypes'
  BY <1>0, <1>3, <1>4, <1>6 DEF MemoryTypes, Becomes
<1>8. Pieces'
  <2>1. PieceInv(p, k, t)'
    BY <1>2, <1>3, <1>4, <1>6 DEF PieceInv, Becomes
  <2>2. \A o \in Objects \ {p} : Leaves(o)
    BY <1>1, <1>3, <1>4, <1>6 DEF Leaves, Becomes, Absent
  <2> QED BY <1>2, <2>1, <2>2, PieceMoves DEF MemoryInv
<1>9. \A u \in Threads : Handed(u)'
  <2>1. Handed(t)'
    BY <1>4 DEF Handed, Becomes
  <2>2. \A u \in Threads \ {t} : Handed(u)'
    BY <1>2, <1>4, <1>6, OthersHanded DEF Becomes
  <2> QED BY <2>1, <2>2
<1>10. \A u \in Threads : MakesOne(u)' <=> MakesOne(u)
  BY <1>0, <1>4 DEF MakesOne, Becomes
<1>11. OnceInOrder'
  BY <1>3, <1>10 DEF MemoryInv, OnceInOrder
<1> QED BY <1>7, <1>8, <1>9, <1>11 DEF MemoryInv

(* The object, if there is one, goes to a unique pointer, under a parent, or is destroyed. *)
LEMMA GivenStep ==
  ASSUME Absent, MemoryInv, NEW t \in Threads,
         \/ Memory!KeepUnique(t) \/ Memory!Adopt(t) \/ Memory!Orphan(t)
  PROVE  MemoryInv'
<1>0. /\ MemoryTypes /\ creating[t].pc = "created" /\ creating[t].for \in {"unique", "child", "orphan"}
      /\ Memory!Creates(t, Memory!Idle) /\ UNCHANGED <<lost, once, data, answer>>
  BY DEF Memory!KeepUnique, Memory!Adopt, Memory!Orphan, Memory!At, Memory!holders, MemoryInv
<1>1. PICK p : p = creating[t].piece
  OBVIOUS
<1>2. p \in Objects \cup {0} /\ (p # 0 => memory[p] = "whole")
  BY <1>0, <1>1 DEF MemoryInv, MemoryTypes, Creations, Handed
<1>3. p # 0 => /\ p \in Objects /\ p # data /\ p \notin children /\ p \notin lost
               /\ \A u \in Threads : p \notin kept[u] /\ (u # t => creating[u].piece # p)
  BY <1>1, MadeAlone
<1>4. Becomes(t, "idle", "unique", 0)
  BY <1>0 DEF Memory!Creates, Memory!Idle, Memory!None, Memory!Kinds, Creations, Becomes, MemoryTypes
<1>5. PICK k : /\ k \in {"user", "parent", "free"}
               /\ memory' \in [Objects -> {"free", "raw", "constructed", "whole"}]
               /\ kept' \in [Threads -> SUBSET Objects] /\ children' \subseteq Objects
               /\ \A o \in Objects \ {p} : memory'[o] = memory[o] /\ (o \in children' <=> o \in children)
               /\ \A o \in Objects \ {p} : \A u \in Threads : o \in kept'[u] <=> o \in kept[u]
               /\ p # 0 => /\ memory'[p] = IF k = "free" THEN "free" ELSE "whole"
                           /\ (p \in children' <=> k = "parent")
                           /\ \A u \in Threads : p \in kept'[u] <=> k = "user" /\ u = t
  <2>1. CASE Memory!KeepUnique(t)
    <3>1. memory' = memory /\ children' = children /\ kept' = [kept EXCEPT ![t] = @ \cup ({p} \ {0})]
      BY <1>1, <2>1 DEF Memory!KeepUnique, Memory!None
    <3>2. /\ "user" \in {"user", "parent", "free"}
          /\ memory' \in [Objects -> {"free", "raw", "constructed", "whole"}]
          /\ kept' \in [Threads -> SUBSET Objects] /\ children' \subseteq Objects
          /\ \A o \in Objects \ {p} : memory'[o] = memory[o] /\ (o \in children' <=> o \in children)
          /\ \A o \in Objects \ {p} : \A u \in Threads : o \in kept'[u] <=> o \in kept[u]
          /\ p # 0 => /\ memory'[p] = "whole" /\ p \notin children'
                      /\ \A u \in Threads : p \in kept'[u] <=> u = t
      BY <1>0, <1>2, <1>3, <3>1 DEF MemoryTypes
    <3> QED BY <3>2
  <2>2. CASE Memory!Adopt(t)
    <3>1. memory' = memory /\ kept' = kept /\ children' = children \cup ({p} \ {0})
      BY <1>1, <2>2 DEF Memory!Adopt, Memory!None
    <3>2. /\ children' \subseteq Objects
          /\ \A o \in Objects \ {p} : o \in children' <=> o \in children
          /\ p # 0 => /\ memory'[p] = "whole" /\ p \in children'
                      /\ \A u \in Threads : p \notin kept'[u]
      BY <1>0, <1>2, <1>3, <3>1 DEF MemoryTypes
    <3>3. memory' \in [Objects -> {"free", "raw", "constructed", "whole"}] /\ kept' \in [Threads -> SUBSET Objects]
      BY <1>0, <3>1 DEF MemoryTypes
    <3> QED BY <3>1, <3>2, <3>3
  <2>3. CASE Memory!Orphan(t)
    <3>1. /\ kept' = kept /\ children' = children
          /\ memory' = [o \in Objects |-> IF o = p THEN "free" ELSE memory[o]]
      BY <1>1, <2>3 DEF Memory!Orphan, Memory!holders
    <3>2. /\ memory' \in [Objects -> {"free", "raw", "constructed", "whole"}]
          /\ \A o \in Objects \ {p} : memory'[o] = memory[o]
          /\ p # 0 => memory'[p] = "free" /\ p \notin children' /\ \A u \in Threads : p \notin kept'[u]
      BY <1>0, <1>2, <1>3, <3>1 DEF MemoryTypes
    <3>3. kept' \in [Threads -> SUBSET Objects] /\ children' \subseteq Objects
      BY <1>0, <3>1 DEF MemoryTypes
    <3> QED BY <3>1, <3>2, <3>3
  <2> QED BY <2>1, <2>2, <2>3
<1>6. MemoryTypes'
  BY <1>0, <1>4, <1>5 DEF MemoryTypes, Becomes
<1>7. \A o \in Objects \ {p} : Leaves(o)
  BY <1>0, <1>1, <1>4, <1>5 DEF Leaves, Becomes, Absent
<1>8. Pieces'
  <2>1. CASE p = 0
    <3>1. \A o \in Objects : Leaves(o)
      BY <1>7, <2>1 DEF Absent
    <3> QED BY <3>1, PiecesStay DEF MemoryInv
  <2>2. CASE p # 0
    <3>1. PieceInv(p, k, t)'
      BY <1>0, <1>3, <1>4, <1>5, <2>2 DEF PieceInv, Becomes
    <3> QED BY <1>3, <1>7, <2>2, <3>1, PieceMoves DEF MemoryInv
  <2> QED BY <2>1, <2>2
<1>9. \A u \in Threads : Handed(u)'
  <2>1. Handed(t)'
    BY <1>4 DEF Handed, Becomes
  <2>2. \A o \in Objects \ {p} : memory'[o] = memory[o]
    BY <1>5
  <2>3. \A u \in Threads \ {t} : creating'[u] = creating[u] /\ (creating[u].piece = p => p = 0)
    BY <1>3, <1>4 DEF Becomes
  <2>4. \A u \in Threads \ {t} : Handed(u)'
    BY <2>2, <2>3, OthersHanded
  <2> QED BY <2>1, <2>4
<1>10. \A u \in Threads : MakesOne(u)' <=> MakesOne(u)
  BY <1>0, <1>4 DEF MakesOne, Becomes
<1>11. OnceInOrder'
  BY <1>0, <1>10 DEF MemoryInv, OnceInOrder
<1> QED BY <1>6, <1>8, <1>9, <1>11 DEF MemoryInv

(* The object becomes the singleton; there was none while the once_flag was running. *)
LEMMA EstablishStep ==
  ASSUME Absent, MemoryInv, NEW t \in Threads, Memory!Establish(t)
  PROVE  MemoryInv'
<1>0. MemoryTypes /\ creating[t].pc = "created" /\ creating[t].for = "singleton" /\ creating[t].piece # 0
  BY DEF Memory!Establish, Memory!At, Memory!None, MemoryInv
<1>1. PICK p : p = creating[t].piece
  OBVIOUS
<1>2. /\ p # 0 /\ p \in Objects /\ p # data /\ p \notin children /\ p \notin lost
      /\ \A u \in Threads : p \notin kept[u] /\ (u # t => creating[u].piece # p)
  BY <1>0, <1>1, MadeAlone
<1>3. memory[p] = "whole"
  BY <1>0, <1>1 DEF MemoryInv, Handed
<1>4. /\ data' = p /\ once' = "done" /\ UNCHANGED <<memory, lost, kept, children, answer>>
      /\ Memory!Creates(t, [pc |-> "once", piece |-> 0, tries |-> 0])
  BY <1>1 DEF Memory!Establish, Memory!None
<1>5. Becomes(t, "once", "singleton", 0)
  BY <1>0, <1>4 DEF Memory!Creates, Memory!Idle, Creations, Becomes, MemoryTypes
<1>6. MakesOne(t) /\ once = "running" /\ data = 0
  BY <1>0 DEF MakesOne, MemoryInv, OnceInOrder
<1>7. MemoryTypes'
  BY <1>0, <1>2, <1>4, <1>5 DEF MemoryTypes, Becomes
<1>8. Pieces'
  <2>1. PieceInv(p, "singleton", t)'
    BY <1>2, <1>3, <1>4, <1>5 DEF PieceInv, Becomes
  <2>2. \A o \in Objects \ {p} : Leaves(o)
    BY <1>1, <1>4, <1>5, <1>6 DEF Leaves, Becomes, Absent
  <2> QED BY <1>2, <2>1, <2>2, PieceMoves DEF MemoryInv
<1>9. \A u \in Threads : Handed(u)'
  <2>1. Handed(t)'
    BY <1>5 DEF Handed, Becomes
  <2>2. \A u \in Threads \ {t} : Handed(u)'
    BY <1>4, <1>5 DEF MemoryInv, Handed, Becomes
  <2> QED BY <2>1, <2>2
<1>10. \A u \in Threads : ~MakesOne(u)'
  BY <1>5, <1>6 DEF MakesOne, Becomes, MemoryInv, OnceInOrder
<1>11. \A u \in Threads : answer'[u] = {}
  BY <1>4, <1>6 DEF MemoryInv, OnceInOrder
<1>12. OnceInOrder'
  BY <1>4, <1>10, <1>11 DEF OnceInOrder
<1> QED BY <1>7, <1>8, <1>9, <1>12 DEF MemoryInv

(* An attempt failed: the next one, or none any more. *)
LEMMA AgainStep ==
  ASSUME Absent, MemoryInv, NEW t \in Threads, Memory!TryAgain(t)
  PROVE  MemoryInv'
<1>0. MemoryTypes /\ creating[t].pc = "created" /\ creating[t].for = "singleton" /\ creating[t].piece = 0
  BY DEF Memory!TryAgain, Memory!At, Memory!None, MemoryInv
<1>1. UNCHANGED <<memory, lost, data, kept, children, answer>>
  BY DEF Memory!TryAgain
<1>2. MakesOne(t) /\ once = "running"
  BY <1>0 DEF MakesOne, MemoryInv, OnceInOrder
<1>3. PICK label : /\ Becomes(t, label, "singleton", 0)
                   /\ (label = "allocate" /\ once' = once) \/ (label = "once" /\ once' = "done")
  <2>1. CASE Memory!Creates(t, [pc |-> "allocate", tries |-> creating[t].tries + 1]) /\ once' = once
    <3>1. Becomes(t, "allocate", "singleton", 0)
      BY <1>0, <2>1 DEF Memory!Creates, Memory!Idle, Creations, Becomes, MemoryTypes
    <3> QED BY <2>1, <3>1
  <2>2. CASE Memory!Creates(t, [pc |-> "once", tries |-> 0]) /\ once' = "done"
    <3>1. Becomes(t, "once", "singleton", 0)
      BY <1>0, <2>2 DEF Memory!Creates, Memory!Idle, Creations, Becomes, MemoryTypes
    <3> QED BY <2>2, <3>1
  <2> QED BY <2>1, <2>2 DEF Memory!TryAgain
<1>4. MemoryTypes'
  BY <1>0, <1>1, <1>3 DEF MemoryTypes, Becomes
<1>5. Pieces'
  BY <1>0, <1>1, <1>3, QuietStep
<1>6. \A u \in Threads : Handed(u)'
  BY <1>1, <1>3 DEF MemoryInv, Handed, Becomes
<1>7. \A u \in Threads \ {t} : ~MakesOne(u) /\ ~MakesOne(u)'
  BY <1>2, <1>3 DEF MemoryInv, OnceInOrder, MakesOne, Becomes
<1>8. MakesOne(t)' => once' = "running"
  BY <1>2, <1>3 DEF MakesOne, Becomes
<1>9. data = 0 /\ \A u \in Threads : answer[u] = {}
  BY <1>2 DEF MemoryInv, OnceInOrder
<1>10. OnceInOrder'
  BY <1>1, <1>7, <1>8, <1>9 DEF OnceInOrder
<1> QED BY <1>4, <1>5, <1>6, <1>10 DEF MemoryInv

(* An object in a unique pointer or under a parent is deleted, by a thread that makes nothing. *)
LEMMA DeleteStep ==
  ASSUME Absent, MemoryInv, NEW t \in Threads, NEW o \in Objects, Memory!Delete(t, o)
  PROVE  MemoryInv'
<1>0. /\ MemoryTypes /\ o \in kept[t] \cup children /\ UNCHANGED <<lost, once, data, creating, answer>>
      /\ memory' = [memory EXCEPT ![o] = "free"] /\ children' = children \ {o}
      /\ kept' = [kept EXCEPT ![t] = @ \ {o}]
  BY DEF Memory!Delete, MemoryInv
<1>1. PICK k, w : PieceInv(o, k, w)
  BY DEF MemoryInv, Pieces
<1>2. (k = "user" /\ w = t) \/ k = "parent"
  BY <1>0, <1>1 DEF PieceInv
<1>3. MemoryTypes'
  BY <1>0 DEF MemoryTypes
<1>4. memory'[o] = "free" /\ \A q \in Objects \ {o} : memory'[q] = memory[q]
  BY <1>0 DEF MemoryTypes
<1>5. \A u \in Threads : /\ \A q \in Objects \ {o} : q \in kept'[u] <=> q \in kept[u]
                         /\ o \notin kept'[u]
  BY <1>0, <1>1, <1>2 DEF MemoryTypes, PieceInv
<1>6. Pieces'
  <2>1. PieceInv(o, "free", t)'
    BY <1>0, <1>1, <1>2, <1>4, <1>5 DEF PieceInv
  <2>2. \A q \in Objects \ {o} : Leaves(q)
    BY <1>0, <1>4, <1>5 DEF Leaves
  <2> QED BY <2>1, <2>2, PieceMoves DEF MemoryInv
<1>7. ASSUME NEW u \in Threads PROVE Handed(u)'
  <2>1. creating'[u] = creating[u] /\ creating[u].piece # o /\ creating[u].piece \in Objects \cup {0}
    BY <1>0, <1>1, <1>2 DEF PieceInv, MemoryTypes, Creations
  <2>2. creating[u].piece # 0 => memory'[creating[u].piece] = memory[creating[u].piece]
    BY <1>4, <2>1
  <2> QED BY <2>1, <2>2 DEF MemoryInv, Handed
<1>8. OnceInOrder'
  BY <1>0 DEF MemoryInv, OnceInOrder, MakesOne
<1> QED BY <1>3, <1>6, <1>7, <1>8 DEF MemoryInv

-----------------------------------------------------------------------------
LEMMA MemoryInit ==
  ASSUME Absent, Memory!Init
  PROVE  MemoryInv
<1>1. MemoryTypes
  BY DEF Memory!Init, Memory!Idle, Memory!Kinds, Memory!None, Creations, MemoryTypes
<1>2. Pieces
  <2>1. \A o \in Objects : PieceInv(o, "free", 0)
    BY DEF Memory!Init, Memory!Idle, Memory!None, PieceInv, Absent
  <2> QED BY <2>1 DEF Pieces
<1>3. (\A t \in Threads : Handed(t)) /\ OnceInOrder
  BY DEF Memory!Init, Memory!Idle, Memory!None, Handed, OnceInOrder, MakesOne
<1> QED BY <1>1, <1>2, <1>3 DEF MemoryInv

LEMMA NothingStep ==
  ASSUME MemoryInv, UNCHANGED <<memory, lost, once, data, creating, kept, children, answer>>
  PROVE  MemoryInv'
<1>1. Pieces'
  <2>1. \A o \in Objects : Leaves(o)
    BY DEF Leaves
  <2> QED BY <2>1, PiecesStay DEF MemoryInv
<1>2. MemoryTypes' /\ (\A t \in Threads : Handed(t)') /\ OnceInOrder'
  BY DEF MemoryInv, MemoryTypes, Handed, OnceInOrder, MakesOne
<1> QED BY <1>1, <1>2 DEF MemoryInv

LEMMA MemoryStep ==
  ASSUME Absent, MemoryInv, [Memory!Next]_(Memory!vars)
  PROVE  MemoryInv'
<1>1. ASSUME NEW t \in Threads, Memory!Step(t) PROVE MemoryInv'
  <2>1. ASSUME NEW kind \in Memory!Kinds, Memory!Call(t, kind) PROVE MemoryInv'
    BY <2>1, CallStep
  <2>2. CASE Memory!EnterOnce(t) \/ Memory!PassOnce(t)
    BY <2>2, OnceSteps
  <2>3. CASE Memory!Allocate(t) \/ Memory!AllocateFails(t)
    BY <2>3, AllocateStep
  <2>4. CASE Memory!Construct(t) \/ Memory!SecondPhase(t)
    BY <2>4, PhaseStep
  <2>5. CASE Memory!ConstructorThrows(t) \/ Memory!SecondPhaseFails(t)
    BY <2>5, FailStep
  <2>6. CASE Memory!KeepUnique(t) \/ Memory!Adopt(t) \/ Memory!Orphan(t)
    BY <2>6, GivenStep
  <2>7. CASE Memory!Establish(t)
    BY <2>7, EstablishStep
  <2>8. CASE Memory!TryAgain(t)
    BY <2>8, AgainStep
  <2>9. CASE Memory!CountersFail(t)
    <3>1. UNCHANGED <<memory, lost, once, data, creating, kept, children, answer>>
      BY <2>9 DEF Memory!CountersFail, Memory!holders
    <3> QED BY <3>1, NothingStep
  <2>10. ASSUME NEW o \in Objects, Memory!Delete(t, o) PROVE MemoryInv'
    BY <2>10, DeleteStep
  <2> QED BY <1>1, <2>1, <2>2, <2>3, <2>4, <2>5, <2>6, <2>7, <2>8, <2>9, <2>10 DEF Memory!Step
<1>2. CASE UNCHANGED Memory!vars
  <2>1. UNCHANGED <<memory, lost, once, data, creating, kept, children, answer>>
    BY <1>2 DEF Memory!vars
  <2> QED BY <2>1, NothingStep
<1> QED BY <1>1, <1>2 DEF Memory!Next

(* Whoever has a piece is its only owner, and nobody has a free one. *)
LEMMA WholeAndOnce ==
  ASSUME Absent, MemoryInv
  PROVE  Memory!CreatedWholeAndOnce
<1>1. Memory!OneSingleton
  <2> SUFFICES ASSUME \E t \in Threads : answer[t] # {}
               PROVE  /\ \A t \in Threads : answer[t] \subseteq {data}
                      /\ once = "done" /\ (data # 0 => memory[data] = "whole")
    BY DEF Memory!OneSingleton, Memory!None
  <2>1. data # 0 => \E k, w : PieceInv(data, k, w)
    BY DEF MemoryInv, MemoryTypes, Pieces
  <2>2. data # 0 => memory[data] = "whole"
    BY <2>1 DEF PieceInv
  <2> QED BY <2>2 DEF MemoryInv, OnceInOrder
<1>2. ASSUME NEW o \in Objects
      PROVE  /\ Memory!Cardinality(Memory!Owners(o)) = IF memory[o] = "free" THEN 0 ELSE 1
             /\ o \in (UNION {kept[t] : t \in Threads}) \cup children => memory[o] = "whole"
  <2>1. PICK k, w : PieceInv(o, k, w)
    BY DEF MemoryInv, Pieces
  <2>2. o # 0
    BY DEF Absent
  <2>3. /\ {u \in Threads : o \in kept[u]} = IF k = "user" THEN {w} ELSE {}
        /\ {u \in Threads : creating[u].piece = o} = IF k = "maker" THEN {w} ELSE {}
        /\ children \cap {o} = IF k = "parent" THEN {o} ELSE {}
        /\ {data} \cap {o} = IF k = "singleton" THEN {o} ELSE {}
        /\ lost \cap {o} = IF k = "lost" THEN {o} ELSE {}
    BY <2>1 DEF PieceInv
  <2>4. Memory!Owners(o) =
          IF k = "user" THEN {<<"user", w>>}
          ELSE IF k = "maker" THEN {<<"maker", w>>}
          ELSE IF k = "parent" THEN {<<"parent">>}
          ELSE IF k = "singleton" THEN {<<"singleton">>}
          ELSE IF k = "lost" THEN {<<"nobody">>} ELSE {}
    BY <2>3 DEF Memory!Owners
  <2>5. IF memory[o] = "free" THEN Memory!Owners(o) = {} ELSE \E owner : Memory!Owners(o) = {owner}
    BY <2>1, <2>4 DEF PieceInv
  <2>6. Cardinality(Memory!Owners(o)) = IF memory[o] = "free" THEN 0 ELSE 1
    BY <2>5, FS_EmptySet, FS_Singleton
  <2>7. Memory!Cardinality(Memory!Owners(o)) = Cardinality(Memory!Owners(o))
    BY DEF Memory!Cardinality, Cardinality
  <2>8. o \in (UNION {kept[t] : t \in Threads}) \cup children => memory[o] = "whole"
    BY <2>1 DEF PieceInv
  <2> QED BY <2>6, <2>7, <2>8
<1>3. Memory!OnlyWholeObjects
  BY <1>2 DEF Memory!OnlyWholeObjects
<1> QED BY <1>1, <1>3 DEF Memory!CreatedWholeAndOnce

(* An object is handed out only whole, every piece of memory has one owner until it is given
   back, and all who ask for the singleton get the same answer for ever (Creator::Create,
   CreateUniquePtr, CreateForQtObjectTree, UniqueConstruction). *)
THEOREM CreatedAlwaysWhole ==
  ASSUME Absent
  PROVE  Memory!Spec => []CreatedWholeAndOnce
<1>1. Memory!Init => MemoryInv
  BY MemoryInit
<1>2. MemoryInv /\ [Memory!Next]_(Memory!vars) => MemoryInv'
  BY MemoryStep
<1>3. MemoryInv => CreatedWholeAndOnce
  BY WholeAndOnce DEF CreatedWholeAndOnce
<1> QED BY <1>1, <1>2, <1>3, PTL DEF Memory!Spec

--------------------------------------------------------------------------
(* The tables and producers of queues that are moved: XQueueMove *)
(* the parent of a producer is a queue, or none *)
Parented == MaxTables \in Nat /\ Queue!None \notin Queues

(* how many tables there may be behind one *)
Behind == [h \in Queue!Tables |-> IF h[1] = "allocated" THEN h[2] ELSE 0]

Backward(p) ==
  /\ p \in [Queue!Tables -> Queue!Tables \cup {Queue!None}]
  /\ \A h \in Queue!Tables : p[h] # Queue!None => Behind[p[h]] < Behind[h]

Closed(p, S) == \A h \in S : p[h] # Queue!None => p[h] \in S

(* Chain, of any links *)
ChainOf(p, h) ==
  LET at[n \in 0..MaxTables + 1] ==
        IF n = 0 THEN h ELSE IF at[n - 1] = Queue!None THEN Queue!None ELSE p[at[n - 1]]
  IN  {at[n] : n \in 0..MaxTables + 1} \ {Queue!None}

LEMMA ChainsAreOfLinks ==
  /\ \A h : Queue!Chain(h) = ChainOf(prev, h)
  /\ \A h : (Queue!Chain(h))' = ChainOf(prev', h')
BY DEF Queue!Chain, ChainOf

LEMMA TablesBehind ==
  ASSUME MaxTables \in Nat
  PROVE  /\ Queue!None \notin Queue!Tables
         /\ \A q \in Queues : Queue!Initial(q) \in Queue!Tables /\ Behind[Queue!Initial(q)] = 0
                              /\ Queue!Initial(q) \notin Queue!Allocated
         /\ \A q, r \in Queues : Queue!Initial(q) = Queue!Initial(r) => q = r
         /\ \A i \in 1..MaxTables : <<"allocated", i>> \in Queue!Tables /\ Behind[<<"allocated", i>>] = i
                                    /\ <<"allocated", i>> \in Queue!Allocated
         /\ \A h \in Queue!Tables : \/ \E q \in Queues : h = Queue!Initial(q)
                                    \/ \E i \in 1..MaxTables : h = <<"allocated", i>>
         /\ \A h \in Queue!Tables : Behind[h] \in 0..MaxTables
<1> USE DEF Queue!Tables, Queue!Allocated, Queue!Initial, Queue!None
<1>1. \A q \in Queues : Queue!Initial(q) \in Queue!Tables /\ Behind[Queue!Initial(q)] = 0
  BY DEF Behind
<1>2. \A i \in 1..MaxTables : <<"allocated", i>> \in Queue!Tables /\ Behind[<<"allocated", i>>] = i
  BY DEF Behind
<1>3. \A h \in Queue!Tables : \/ \E q \in Queues : h = Queue!Initial(q)
                              \/ \E i \in 1..MaxTables : h = <<"allocated", i>>
  OBVIOUS
<1>4. Queue!None \notin Queue!Tables
  OBVIOUS
<1>5. \A q, r \in Queues : Queue!Initial(q) = Queue!Initial(r) => q = r
  OBVIOUS
<1>6. \A q \in Queues : Queue!Initial(q) \notin Queue!Allocated
  OBVIOUS
<1>7. \A i \in 1..MaxTables : <<"allocated", i>> \in Queue!Allocated
  OBVIOUS
<1> HIDE DEF Queue!Tables, Queue!Allocated, Queue!Initial, Queue!None
<1>8. \A h \in Queue!Tables : Behind[h] \in 0..MaxTables
  BY <1>1, <1>2, <1>3
<1> QED BY <1>1, <1>2, <1>3, <1>4, <1>5, <1>6, <1>7, <1>8

(* the tables from h on, however many *)
LEMMA WalkExists ==
  ASSUME MaxTables \in Nat, NEW p, Backward(p), NEW h \in Queue!Tables
  PROVE  \E f \in [0..MaxTables + 1 -> Queue!Tables \cup {Queue!None}] :
           \A n \in 0..MaxTables + 1 :
             f[n] = IF n = 0 THEN h ELSE IF f[n - 1] = Queue!None THEN Queue!None ELSE p[f[n - 1]]
<1> DEFINE T == Queue!Tables
           O == Queue!None
           Next1(x) == IF x = O THEN O ELSE p[x]
           E == {n \in Nat : \E f \in [Nat -> T \cup {O}] :
                               f[0] = h /\ \A k \in 0..(n - 1) : f[k + 1] = Next1(f[k])}
<1>1. \A x \in T \cup {O} : Next1(x) \in T \cup {O}
  BY DEF Backward
<1> HIDE DEF Next1, T, O
<1>2. 0 \in E
  <2>1. PICK f : f = [n \in Nat |-> h]
    OBVIOUS
  <2>2. f \in [Nat -> T \cup {O}] /\ f[0] = h
    BY <2>1 DEF T
  <2>3. \A k \in 0..(0 - 1) : f[k + 1] = Next1(f[k])
    OBVIOUS
  <2> QED BY <2>2, <2>3
<1>3. ASSUME NEW n \in Nat, n \in E PROVE n + 1 \in E
  <2>1. PICK f \in [Nat -> T \cup {O}] : f[0] = h /\ \A k \in 0..(n - 1) : f[k + 1] = Next1(f[k])
    BY <1>3
  <2> DEFINE g == [f EXCEPT ![n + 1] = Next1(f[n])]
  <2>2. g \in [Nat -> T \cup {O}] /\ g[n + 1] = Next1(f[n]) /\ \A k \in 0..n : g[k] = f[k]
    BY <1>1, <2>1
  <2> HIDE DEF g
  <2>3. \A k \in 0..((n + 1) - 1) : g[k + 1] = Next1(g[k])
    <3> SUFFICES ASSUME NEW k \in 0..n PROVE g[k + 1] = Next1(g[k])
      OBVIOUS
    <3>1. CASE k = n
      <4>1. n \in 0..n
        OBVIOUS
      <4> QED BY <2>2, <3>1, <4>1
    <3>2. CASE k \in 0..(n - 1)
      <4>1. k \in 0..n /\ k + 1 \in 0..n
        BY <3>2
      <4> QED BY <2>1, <2>2, <3>2, <4>1
    <3> QED BY <3>1, <3>2
  <2>4. g[0] = h
    BY <2>1, <2>2
  <2> QED BY <2>2, <2>3, <2>4
<1> HIDE DEF E
<1>4. MaxTables + 1 \in E
  <2>1. \A n \in Nat : n \in E
    BY <1>2, <1>3, InductionOnNat
  <2> QED BY <2>1
<1>5. PICK f \in [Nat -> T \cup {O}] : f[0] = h /\ \A k \in 0..MaxTables : f[k + 1] = Next1(f[k])
  BY <1>4 DEF E
<1> DEFINE g == [n \in 0..MaxTables + 1 |-> f[n]]
<1>6. g \in [0..MaxTables + 1 -> T \cup {O}] /\ \A n \in 0..MaxTables + 1 : g[n] = f[n]
  BY <1>5
<1> HIDE DEF g
<1>7. ASSUME NEW n \in 0..MaxTables + 1 PROVE g[n] = IF n = 0 THEN h ELSE Next1(g[n - 1])
  <2>1. CASE n = 0
    BY <1>5, <1>6, <2>1
  <2>2. CASE n # 0
    <3>1. n - 1 \in 0..MaxTables /\ (n - 1) + 1 = n /\ n - 1 \in 0..MaxTables + 1
      BY <2>2
    <3>2. f[(n - 1) + 1] = Next1(f[n - 1])
      BY <1>5, <3>1
    <3> QED BY <1>6, <2>2, <3>1, <3>2
  <2> QED BY <2>1, <2>2
<1> QED BY <1>6, <1>7 DEF T, O, Next1

(* A chain is the smallest set with its first table that has with a table also the one before. *)
LEMMA ChainIsLeast ==
  ASSUME MaxTables \in Nat, NEW p, Backward(p), NEW h \in Queue!Tables
  PROVE  /\ h \in ChainOf(p, h) /\ ChainOf(p, h) \subseteq Queue!Tables /\ Closed(p, ChainOf(p, h))
         /\ \A S : h \in S /\ Closed(p, S) => ChainOf(p, h) \subseteq S
<1> DEFINE N == MaxTables + 1
           T == Queue!Tables
           O == Queue!None
           Iter(f) == [n \in 0..N |-> IF n = 0 THEN h ELSE IF f[n - 1] = O THEN O ELSE p[f[n - 1]]]
           at == CHOOSE f : f = Iter(f)
<1>1. ChainOf(p, h) = {at[n] : n \in 0..N} \ {O}
  BY DEF ChainOf
<1>2. at = Iter(at)
  <2>1. PICK f \in [0..N -> T \cup {O}] :
          \A n \in 0..N : f[n] = IF n = 0 THEN h ELSE IF f[n - 1] = O THEN O ELSE p[f[n - 1]]
    BY WalkExists
  <2>2. f = Iter(f)
    BY <2>1
  <2> QED BY <2>2
<1> HIDE DEF at
<1>3. \A n \in 0..N : at[n] = IF n = 0 THEN h ELSE IF at[n - 1] = O THEN O ELSE p[at[n - 1]]
  BY <1>2
<1>4. N \in Nat /\ O \notin T /\ h \in T /\ h # O
  BY TablesBehind
<1>5. \A x \in T : (p[x] \in T \/ p[x] = O) /\ Behind[x] \in 0..MaxTables
                   /\ (p[x] # O => Behind[p[x]] < Behind[x])
  BY TablesBehind DEF Backward
<1> HIDE DEF T, O
<1>6. \A n \in 0..N : at[n] = O \/ (at[n] \in T /\ Behind[at[n]] + n <= MaxTables)
  <2> DEFINE E == {n \in Nat : n \in 0..N => at[n] = O \/ (at[n] \in T /\ Behind[at[n]] + n <= MaxTables)}
  <2>1. 0 \in E
    BY <1>3, <1>4, <1>5
  <2>2. ASSUME NEW n \in Nat, n \in E PROVE n + 1 \in E
    <3> SUFFICES ASSUME n + 1 \in 0..N, at[n + 1] # O
                 PROVE  at[n + 1] \in T /\ Behind[at[n + 1]] + (n + 1) <= MaxTables
      OBVIOUS
    <3>1. n \in 0..N /\ n + 1 # 0 /\ (n + 1) - 1 = n
      BY <1>4
    <3>2. at[n] # O /\ at[n + 1] = p[at[n]]
      BY <1>3, <3>1
    <3>3. at[n] \in T /\ Behind[at[n]] + n <= MaxTables
      BY <2>2, <3>1, <3>2
    <3>4. p[at[n]] \in T /\ Behind[p[at[n]]] < Behind[at[n]] /\ Behind[at[n]] \in Nat /\ Behind[p[at[n]]] \in Nat
      BY <1>5, <3>2, <3>3
    <3> QED BY <3>2, <3>3, <3>4
  <2> HIDE DEF E
  <2>3. \A n \in Nat : n \in E
    BY <2>1, <2>2, InductionOnNat
  <2> QED BY <1>4, <2>3 DEF E
<1>7. h \in ChainOf(p, h)
  <2>1. 0 \in 0..N /\ at[0] = h
    BY <1>3, <1>4
  <2> QED BY <1>1, <1>4, <2>1
<1>8. ChainOf(p, h) \subseteq T
  BY <1>1, <1>6
<1>9. Closed(p, ChainOf(p, h))
  <2> SUFFICES ASSUME NEW n \in 0..N, at[n] # O, p[at[n]] # O
               PROVE  \E k \in 0..N : at[k] = p[at[n]]
    BY <1>1 DEF Closed, O
  <2>1. at[n] \in T /\ Behind[at[n]] + n <= MaxTables /\ Behind[at[n]] \in Nat /\ Behind[p[at[n]]] \in Nat
        /\ Behind[p[at[n]]] < Behind[at[n]]
    BY <1>5, <1>6
  <2>2. n + 1 \in 0..N /\ n + 1 # 0 /\ (n + 1) - 1 = n
    BY <1>4, <2>1
  <2>3. at[n + 1] = p[at[n]]
    BY <1>3, <2>2
  <2> QED BY <2>2, <2>3
<1>10. ASSUME NEW S, h \in S, Closed(p, S) PROVE ChainOf(p, h) \subseteq S
  <2> DEFINE E == {n \in Nat : n \in 0..N => at[n] = O \/ at[n] \in S}
  <2>1. 0 \in E
    BY <1>3, <1>4, <1>10
  <2>2. ASSUME NEW n \in Nat, n \in E PROVE n + 1 \in E
    <3> SUFFICES ASSUME n + 1 \in 0..N, at[n + 1] # O PROVE at[n + 1] \in S
      OBVIOUS
    <3>1. n \in 0..N /\ n + 1 # 0 /\ (n + 1) - 1 = n
      BY <1>4
    <3>2. at[n] # O /\ at[n + 1] = p[at[n]]
      BY <1>3, <3>1
    <3> QED BY <1>10, <2>2, <3>1, <3>2 DEF Closed, O
  <2> HIDE DEF E
  <2>3. \A n \in Nat : n \in E
    BY <2>1, <2>2, InductionOnNat
  <2> QED BY <1>1, <1>4, <2>3 DEF E
<1> QED BY <1>7, <1>8, <1>9, <1>10 DEF T

-----------------------------------------------------------------------------
(* What every queue has, whether it exists or not: its own part ends its tables, which no other queue
   gets at; they lead to its producers only, and its producers belong to it. *)
Of(q) == ChainOf(prev, hashHead[q])

MoveTypes ==
  /\ Parented /\ queuesAlive \subseteq Queues /\ tail \in [Queues -> SUBSET Queue!Members]
  /\ hashHead \in [Queues -> Queue!Tables] /\ Backward(prev)
  /\ entries \in [Queue!Tables -> SUBSET Queue!Members]
  /\ parent \in [Queue!Members -> Queues \cup {Queue!None}] /\ freed \subseteq Queue!Allocated

EndsInv ==
  \A q \in Queues :
    /\ \A h \in Of(q) : h \notin freed /\ (prev[h] = Queue!None <=> h = Queue!Initial(q)) /\ entries[h] \subseteq tail[q]
    /\ entries[Queue!Initial(q)] \subseteq tail[q]

ApartInv == \A q, r \in Queues : q # r => Of(q) \cap Of(r) = {}

NewInv == \A h \in Queue!Allocated : prev[h] = Queue!None => entries[h] = {}

OwnersInv ==
  /\ \A q \in Queues : \A p \in tail[q] : parent[p] = q
  /\ \A q \in Queues \ queuesAlive : hashHead[q] = Queue!Initial(q) /\ tail[q] = {}
  /\ tokens \subseteq UNION {tail[q] : q \in queuesAlive}

MoveInv == MoveTypes /\ EndsInv /\ ApartInv /\ NewInv /\ OwnersInv

LEMMA ChainsOfQueues ==
  ASSUME MoveInv
  PROVE  \A q \in Queues : /\ hashHead[q] \in Of(q) /\ Of(q) \subseteq Queue!Tables /\ Closed(prev, Of(q))
                           /\ hashHead[q] \in Queue!Tables
<1> SUFFICES ASSUME NEW q \in Queues
             PROVE  /\ hashHead[q] \in Of(q) /\ Of(q) \subseteq Queue!Tables /\ Closed(prev, Of(q))
                    /\ hashHead[q] \in Queue!Tables
  OBVIOUS
<1>1. hashHead[q] \in Queue!Tables /\ MaxTables \in Nat /\ Backward(prev)
  BY DEF MoveInv, MoveTypes, Parented
<1> QED BY <1>1, ChainIsLeast DEF Of

(* a queue gets at no more tables than are in a closed set with its first one *)
LEMMA ChainWithin ==
  ASSUME MaxTables \in Nat, Backward(prev'), NEW q \in Queues, hashHead'[q] \in Queue!Tables,
         NEW S, hashHead'[q] \in S, Closed(prev', S)
  PROVE  Of(q)' \subseteq S
BY ChainIsLeast DEF Of

(* steps that leave the links alone *)
LEMMA LinksStay ==
  ASSUME UNCHANGED <<prev, hashHead>>
  PROVE  \A q \in Queues : Of(q)' = Of(q)
BY DEF Of

LEMMA InitialOwn ==
  ASSUME MoveInv
  PROVE  /\ \A q, r \in Queues : Queue!Initial(q) \in Of(r) => q = r
         /\ \A q \in Queues : prev[Queue!Initial(q)] = Queue!None
<1>1. \A q \in Queues : prev[Queue!Initial(q)] = Queue!None
  <2> SUFFICES ASSUME NEW q \in Queues, prev[Queue!Initial(q)] # Queue!None PROVE FALSE
    OBVIOUS
  <2>1. /\ Queue!Initial(q) \in Queue!Tables /\ Behind[Queue!Initial(q)] = 0
        /\ \A h \in Queue!Tables : Behind[h] \in 0..MaxTables
    BY TablesBehind DEF MoveInv, MoveTypes, Parented
  <2>2. prev[Queue!Initial(q)] \in Queue!Tables /\ Behind[prev[Queue!Initial(q)]] < 0
    BY <2>1 DEF MoveInv, MoveTypes, Backward
  <2> QED BY <2>1, <2>2
<1>2. ASSUME NEW q \in Queues, NEW r \in Queues, Queue!Initial(q) \in Of(r) PROVE q = r
  <2>1. Queue!Initial(q) = Queue!Initial(r)
    BY <1>1, <1>2 DEF MoveInv, EndsInv
  <2> QED BY <2>1, TablesBehind DEF MoveInv, MoveTypes, Parented
<1> QED BY <1>1, <1>2

LEMMA ConstructStep ==
  ASSUME MoveInv, NEW q \in Queues, Queue!Construct(q)
  PROVE  MoveInv'
<1>1. /\ q \notin queuesAlive /\ queuesAlive' = queuesAlive \cup {q}
      /\ hashHead' = [hashHead EXCEPT ![q] = Queue!Initial(q)]
      /\ prev' = [prev EXCEPT ![Queue!Initial(q)] = Queue!None]
      /\ entries' = [entries EXCEPT ![Queue!Initial(q)] = {}] /\ tail' = [tail EXCEPT ![q] = {}]
      /\ UNCHANGED <<parent, tokens, freed>>
  BY DEF Queue!Construct
<1>2. hashHead[q] = Queue!Initial(q) /\ tail[q] = {}
  BY <1>1 DEF MoveInv, OwnersInv
<1>3. hashHead' = hashHead /\ tail' = tail
  BY <1>1, <1>2 DEF MoveInv, MoveTypes
<1>4. prev' = prev
  BY <1>1, InitialOwn DEF MoveInv, MoveTypes, Backward
<1>5. entries' = entries
  <2>1. entries[Queue!Initial(q)] = {}
    BY <1>2 DEF MoveInv, EndsInv
  <2> QED BY <1>1, <2>1 DEF MoveInv, MoveTypes
<1>6. \A r \in Queues : Of(r)' = Of(r)
  BY <1>3, <1>4, LinksStay
<1>7. MoveTypes'
  BY <1>1, <1>3, <1>4, <1>5 DEF MoveInv, MoveTypes, Parented
<1>8. EndsInv' /\ ApartInv' /\ NewInv'
  BY <1>1, <1>3, <1>4, <1>5, <1>6 DEF MoveInv, EndsInv, ApartInv, NewInv
<1>9. OwnersInv'
  BY <1>1, <1>3 DEF MoveInv, OwnersInv
<1> QED BY <1>7, <1>8, <1>9 DEF MoveInv

LEMMA AddMemberStep ==
  ASSUME MoveInv, NEW q \in Queues, NEW p \in Queue!Members, Queue!AddExplicit(q, p) \/ Queue!AddImplicit(q, p)
  PROVE  MoveInv'
<1>1. /\ q \in queuesAlive /\ parent[p] = Queue!None
      /\ tail' = [tail EXCEPT ![q] = @ \cup {p}] /\ parent' = [parent EXCEPT ![p] = q]
      /\ tokens' \in {tokens, tokens \cup {p}}
      /\ entries' \in {entries, [entries EXCEPT ![hashHead[q]] = @ \cup {p}]}
      /\ UNCHANGED <<queuesAlive, hashHead, prev, freed>>
  BY DEF Queue!AddExplicit, Queue!AddImplicit
<1>2. \A r \in Queues : Of(r)' = Of(r)
  BY <1>1, LinksStay
<1>3. hashHead[q] \in Of(q) /\ hashHead[q] \in Queue!Tables
  BY ChainsOfQueues
<1>4. \A r \in Queues : tail'[r] = IF r = q THEN tail[q] \cup {p} ELSE tail[r]
  BY <1>1 DEF MoveInv, MoveTypes
<1>5. \A h \in Queue!Tables : entries'[h] = entries[h] \/ (h = hashHead[q] /\ entries'[h] = entries[h] \cup {p})
  BY <1>1 DEF MoveInv, MoveTypes
<1>6. \A r \in Queues : Of(r) \subseteq Queue!Tables /\ Queue!Initial(r) \in Queue!Tables
  BY ChainsOfQueues, TablesBehind DEF MoveInv, MoveTypes, Parented
<1>7. MoveTypes'
  <2>1. entries' \in [Queue!Tables -> SUBSET Queue!Members] /\ tail' \in [Queues -> SUBSET Queue!Members]
    BY <1>1, <1>3 DEF MoveInv, MoveTypes
  <2> QED BY <1>1, <2>1 DEF MoveInv, MoveTypes, Parented
<1>8. EndsInv'
  <2> SUFFICES ASSUME NEW r \in Queues
               PROVE  /\ \A h \in Of(r) : /\ h \notin freed /\ (prev[h] = Queue!None <=> h = Queue!Initial(r))
                                          /\ entries'[h] \subseteq tail'[r]
                      /\ entries'[Queue!Initial(r)] \subseteq tail'[r]
    BY <1>1, <1>2 DEF EndsInv
  <2>1. ASSUME NEW h \in Of(r) PROVE entries'[h] \subseteq tail'[r]
    <3>1. h = hashHead[q] => r = q
      BY <1>3, <2>1 DEF MoveInv, ApartInv
    <3>2. entries[h] \subseteq tail[r]
      BY <2>1 DEF MoveInv, EndsInv
    <3> QED BY <1>4, <1>5, <1>6, <2>1, <3>1, <3>2
  <2>2. entries'[Queue!Initial(r)] \subseteq tail'[r]
    <3>1. Queue!Initial(r) = hashHead[q] => r = q
      BY <1>3, InitialOwn
    <3>2. entries[Queue!Initial(r)] \subseteq tail[r]
      BY DEF MoveInv, EndsInv
    <3> QED BY <1>4, <1>5, <1>6, <3>1, <3>2
  <2> QED BY <2>1, <2>2 DEF MoveInv, EndsInv
<1>9. ApartInv'
  BY <1>2 DEF MoveInv, ApartInv
<1>10. NewInv'
  <2> SUFFICES ASSUME NEW h \in Queue!Allocated, prev[h] = Queue!None PROVE entries'[h] = {}
    BY <1>1 DEF NewInv
  <2>1. h \in Queue!Tables
    BY DEF Queue!Tables
  <2>2. h # hashHead[q]
    BY <1>3, TablesBehind DEF MoveInv, EndsInv, MoveTypes, Parented
  <2> QED BY <1>5, <2>1, <2>2 DEF MoveInv, NewInv
<1>11. OwnersInv'
  <2>1. ASSUME NEW r \in Queues, NEW m \in tail'[r] PROVE parent'[m] = r
    <3>1. m \in Queue!Members /\ ((m = p /\ r = q) \/ m \in tail[r])
      BY <1>4, <2>1 DEF MoveInv, MoveTypes
    <3>2. m \in tail[r] => m # p
      BY <1>1 DEF MoveInv, OwnersInv, MoveTypes, Parented
    <3> QED BY <1>1, <3>1, <3>2 DEF MoveInv, OwnersInv, MoveTypes
  <2>2. \A r \in Queues \ queuesAlive : hashHead[r] = Queue!Initial(r) /\ tail'[r] = {}
    BY <1>1, <1>4 DEF MoveInv, OwnersInv
  <2>3. tokens' \subseteq UNION {tail'[r] : r \in queuesAlive}
    <3>1. \A r \in queuesAlive : r \in Queues /\ tail[r] \subseteq tail'[r]
      BY <1>4 DEF MoveInv, MoveTypes
    <3>2. p \in tail'[q]
      BY <1>4
    <3>3. tokens \subseteq UNION {tail[r] : r \in queuesAlive}
      BY DEF MoveInv, OwnersInv
    <3> QED BY <1>1, <3>1, <3>2, <3>3
  <2> QED BY <1>1, <2>1, <2>2, <2>3 DEF OwnersInv
<1> QED BY <1>7, <1>8, <1>9, <1>10, <1>11 DEF MoveInv

LEMMA GrowStep ==
  ASSUME MoveInv, NEW q \in Queues, Queue!Grow(q)
  PROVE  MoveInv'
<1>1. PICK i \in 1..MaxTables :
        /\ \A j \in 1..MaxTables : j < i <=> (<<"allocated", j>> \in freed \/ prev[<<"allocated", j>>] # Queue!None)
        /\ prev' = [prev EXCEPT ![<<"allocated", i>>] = hashHead[q]]
        /\ hashHead' = [hashHead EXCEPT ![q] = <<"allocated", i>>]
  BY DEF Queue!Grow
<1>2. PICK h : h = <<"allocated", i>>
  OBVIOUS
<1>3. /\ h \in Queue!Tables /\ h \in Queue!Allocated /\ Behind[h] = i /\ i \in Nat /\ MaxTables \in Nat
      /\ \A r \in Queues : h # Queue!Initial(r)
  BY <1>2, TablesBehind DEF MoveInv, MoveTypes, Parented
<1>4. h \notin freed /\ prev[h] = Queue!None /\ entries[h] = {}
  <2>1. ~(i < i)
    BY <1>3
  <2> QED BY <1>1, <1>2, <1>3, <2>1 DEF MoveInv, NewInv
<1>5. /\ prev' = [prev EXCEPT ![h] = hashHead[q]] /\ hashHead' = [hashHead EXCEPT ![q] = h]
      /\ UNCHANGED <<queuesAlive, tail, entries, parent, tokens, freed>> /\ q \in queuesAlive
  BY <1>1, <1>2 DEF Queue!Grow
<1>6. hashHead[q] \in Of(q) /\ hashHead[q] \in Queue!Tables /\ hashHead[q] # Queue!None
      /\ \A r \in Queues : hashHead[r] \in Of(r) /\ Of(r) \subseteq Queue!Tables /\ Closed(prev, Of(r))
  BY ChainsOfQueues, TablesBehind DEF MoveInv, MoveTypes, Parented
<1>7. \A r \in Queues : h \notin Of(r)
  BY <1>3, <1>4 DEF MoveInv, EndsInv
<1>8. Behind[hashHead[q]] < i
  <2>1. CASE \E r \in Queues : hashHead[q] = Queue!Initial(r)
    BY <1>3, <2>1, TablesBehind
  <2>2. ASSUME NEW j \in 1..MaxTables, hashHead[q] = <<"allocated", j>> PROVE Behind[hashHead[q]] < i
    <3>1. PICK t : t = <<"allocated", j>>
      OBVIOUS
    <3>2. Behind[t] = j /\ t \in Queue!Allocated /\ t = hashHead[q]
      BY <1>3, <2>2, <3>1, TablesBehind
    <3>3. t # Queue!Initial(q)
      BY <1>3, <3>2, TablesBehind
    <3>4. prev[t] # Queue!None
      BY <1>6, <3>2, <3>3 DEF MoveInv, EndsInv
    <3> QED BY <1>1, <3>1, <3>2, <3>4
  <2> QED BY <1>3, <1>6, <2>1, <2>2, TablesBehind
<1>9. \A x \in Queue!Tables : prev'[x] = IF x = h THEN hashHead[q] ELSE prev[x]
  BY <1>5 DEF MoveInv, MoveTypes, Backward
<1>10. \A r \in Queues : hashHead'[r] = IF r = q THEN h ELSE hashHead[r]
  BY <1>5 DEF MoveInv, MoveTypes
<1>11. Backward(prev')
  <2>1. prev' \in [Queue!Tables -> Queue!Tables \cup {Queue!None}]
    BY <1>5, <1>6 DEF MoveInv, MoveTypes, Backward
  <2>2. \A x \in Queue!Tables : prev'[x] # Queue!None => Behind[prev'[x]] < Behind[x]
    BY <1>3, <1>8, <1>9 DEF MoveInv, MoveTypes, Backward
  <2> QED BY <2>1, <2>2 DEF Backward
<1>12. hashHead' \in [Queues -> Queue!Tables]
  BY <1>3, <1>5 DEF MoveInv, MoveTypes
<1>13. \A r \in Queues : Of(r)' \subseteq IF r = q THEN Of(q) \cup {h} ELSE Of(r)
  <2> SUFFICES ASSUME NEW r \in Queues PROVE Of(r)' \subseteq IF r = q THEN Of(q) \cup {h} ELSE Of(r)
    OBVIOUS
  <2>1. PICK S : S = IF r = q THEN Of(q) \cup {h} ELSE Of(r)
    OBVIOUS
  <2>2. hashHead'[r] \in S
    BY <1>6, <1>10, <2>1
  <2>3. Closed(prev', S)
    <3> SUFFICES ASSUME NEW x \in S, prev'[x] # Queue!None PROVE prev'[x] \in S
      BY DEF Closed
    <3>1. CASE x = h
      BY <1>3, <1>6, <1>7, <1>9, <2>1, <3>1
    <3>2. CASE x # h
      <4>1. x \in Of(r) /\ x \in Queue!Tables
        BY <1>6, <2>1, <3>2
      <4>2. prev'[x] = prev[x]
        BY <1>9, <3>2, <4>1
      <4> QED BY <1>6, <2>1, <4>1, <4>2 DEF Closed
    <3> QED BY <3>1, <3>2
  <2>4. hashHead'[r] \in Queue!Tables
    BY <1>12
  <2> QED BY <1>3, <1>11, <2>1, <2>2, <2>3, <2>4, ChainWithin
<1>14. MoveTypes'
  BY <1>5, <1>11, <1>12 DEF MoveInv, MoveTypes, Parented
<1>15. EndsInv'
  <2> SUFFICES ASSUME NEW r \in Queues
               PROVE  /\ \A x \in Of(r)' : /\ x \notin freed /\ (prev'[x] = Queue!None <=> x = Queue!Initial(r))
                                           /\ entries[x] \subseteq tail[r]
                      /\ entries[Queue!Initial(r)] \subseteq tail[r]
    BY <1>5 DEF EndsInv
  <2>1. ASSUME NEW x \in Of(r)'
        PROVE  /\ x \notin freed /\ (prev'[x] = Queue!None <=> x = Queue!Initial(r)) /\ entries[x] \subseteq tail[r]
    <3>1. CASE x = h
      BY <1>3, <1>4, <1>6, <1>9, <3>1
    <3>2. CASE x # h
      <4>1. x \in Of(r) /\ x \in Queue!Tables
        BY <1>6, <1>13, <2>1, <3>2
      <4> QED BY <1>9, <3>2, <4>1 DEF MoveInv, EndsInv
    <3> QED BY <3>1, <3>2
  <2> QED BY <2>1 DEF MoveInv, EndsInv
<1>16. ApartInv'
  BY <1>7, <1>13 DEF MoveInv, ApartInv
<1>17. NewInv'
  <2>1. Queue!Allocated \subseteq Queue!Tables
    BY DEF Queue!Tables
  <2> QED BY <1>5, <1>6, <1>9, <2>1 DEF MoveInv, NewInv
<1>18. OwnersInv'
  BY <1>5, <1>10 DEF MoveInv, OwnersInv
<1> QED BY <1>14, <1>15, <1>16, <1>17, <1>18 DEF MoveInv

(* The hashes of two queues are exchanged. *)
LEMMA HashesSwapped ==
  ASSUME MoveInv, NEW q \in Queues, NEW r \in Queues, q # r, Queue!SwapHashes(q, r)
  PROVE  /\ Backward(prev') /\ hashHead' \in [Queues -> Queue!Tables]
         /\ entries' \in [Queue!Tables -> SUBSET Queue!Members]
         /\ \A s \in Queues \ {q, r} : Of(s)' \subseteq Of(s) /\ hashHead'[s] = hashHead[s]
         /\ Of(q)' \subseteq (Of(r) \ {Queue!Initial(r)}) \cup {Queue!Initial(q)}
         /\ Of(r)' \subseteq (Of(q) \ {Queue!Initial(q)}) \cup {Queue!Initial(r)}
         /\ \A x \in Queue!Tables : prev'[x] = Queue!None <=> prev[x] = Queue!None
         /\ \A x \in Queue!Tables \ {Queue!Initial(q), Queue!Initial(r)} : entries'[x] = entries[x]
         /\ entries'[Queue!Initial(q)] = entries[Queue!Initial(r)]
         /\ entries'[Queue!Initial(r)] = entries[Queue!Initial(q)]
<1>1. /\ MaxTables \in Nat /\ hashHead \in [Queues -> Queue!Tables] /\ Backward(prev)
      /\ entries \in [Queue!Tables -> SUBSET Queue!Members]
  BY DEF MoveInv, MoveTypes, Parented
<1>2. PICK a, b : a = Queue!Initial(q) /\ b = Queue!Initial(r)
  OBVIOUS
<1>3. /\ a \in Queue!Tables /\ b \in Queue!Tables /\ a # b /\ Behind[a] = 0 /\ Behind[b] = 0
      /\ prev[a] = Queue!None /\ prev[b] = Queue!None /\ a # Queue!None /\ b # Queue!None
      /\ \A x \in Queue!Tables : Behind[x] \in Nat /\ x # Queue!None
  BY <1>1, <1>2, TablesBehind, InitialOwn
<1>4. /\ entries' = [entries EXCEPT ![a] = entries[b], ![b] = entries[a]]
      /\ hashHead' = [hashHead EXCEPT ![q] = IF hashHead[r] = b THEN a ELSE hashHead[r],
                                      ![r] = IF hashHead[q] = a THEN b ELSE hashHead[q]]
      /\ prev' = [x \in Queue!Tables |->
                    CASE x \in Of(r) /\ prev[x] = b -> a
                      [] x \in Of(q) /\ prev[x] = a -> b
                      [] OTHER -> prev[x]]
  BY <1>2, ChainsAreOfLinks DEF Queue!SwapHashes, Queue!PrevFixed, Of
<1>5. /\ \A s \in Queues : hashHead[s] \in Of(s) /\ Of(s) \subseteq Queue!Tables /\ Closed(prev, Of(s))
      /\ Of(q) \cap Of(r) = {}
      /\ \A s \in Queues \ {q, r} : Of(s) \cap Of(q) = {} /\ Of(s) \cap Of(r) = {}
  BY ChainsOfQueues DEF MoveInv, ApartInv
<1>6. \A x \in Queue!Tables :
        prev'[x] = IF x \in Of(r) /\ prev[x] = b THEN a ELSE IF x \in Of(q) /\ prev[x] = a THEN b ELSE prev[x]
  BY <1>4, <1>5
<1>7. \A x \in Queue!Tables : prev'[x] = Queue!None <=> prev[x] = Queue!None
  BY <1>3, <1>6
<1>8. Backward(prev')
  <2>1. prev' \in [Queue!Tables -> Queue!Tables \cup {Queue!None}]
    BY <1>1, <1>3, <1>4, <1>6 DEF Backward
  <2>2. \A x \in Queue!Tables : prev'[x] # Queue!None => Behind[prev'[x]] < Behind[x]
    BY <1>1, <1>3, <1>6 DEF Backward
  <2> QED BY <2>1, <2>2 DEF Backward
<1>9. hashHead' \in [Queues -> Queue!Tables]
  BY <1>1, <1>3, <1>4
<1>10. /\ hashHead'[q] = (IF hashHead[r] = b THEN a ELSE hashHead[r])
       /\ hashHead'[r] = (IF hashHead[q] = a THEN b ELSE hashHead[q])
       /\ \A s \in Queues \ {q, r} : hashHead'[s] = hashHead[s]
  BY <1>1, <1>4
<1>11. \A s \in Queues \ {q, r} : Of(s)' \subseteq Of(s)
  <2> SUFFICES ASSUME NEW s \in Queues \ {q, r} PROVE Of(s)' \subseteq Of(s)
    OBVIOUS
  <2>1. Closed(prev', Of(s))
    BY <1>5, <1>6 DEF Closed
  <2> QED BY <1>1, <1>5, <1>8, <1>9, <1>10, <2>1, ChainWithin
<1>12. Of(q)' \subseteq (Of(r) \ {b}) \cup {a}
  <2>1. PICK S : S = (Of(r) \ {b}) \cup {a}
    OBVIOUS
  <2>2. hashHead'[q] \in S
    BY <1>5, <1>10, <2>1
  <2>3. Closed(prev', S)
    BY <1>3, <1>5, <1>6, <2>1 DEF Closed
  <2> QED BY <1>1, <1>8, <1>9, <2>1, <2>2, <2>3, ChainWithin
<1>13. Of(r)' \subseteq (Of(q) \ {a}) \cup {b}
  <2>1. PICK S : S = (Of(q) \ {a}) \cup {b}
    OBVIOUS
  <2>2. hashHead'[r] \in S
    BY <1>5, <1>10, <2>1
  <2>3. Closed(prev', S)
    BY <1>3, <1>5, <1>6, <2>1 DEF Closed
  <2> QED BY <1>1, <1>8, <1>9, <2>1, <2>2, <2>3, ChainWithin
<1>14. /\ entries' \in [Queue!Tables -> SUBSET Queue!Members]
       /\ \A x \in Queue!Tables \ {a, b} : entries'[x] = entries[x]
       /\ entries'[a] = entries[b] /\ entries'[b] = entries[a]
  BY <1>1, <1>3, <1>4
<1> QED BY <1>2, <1>7, <1>8, <1>9, <1>10, <1>11, <1>12, <1>13, <1>14

(* Swap and move: what two queues list is exchanged, too. *)
LEMMA Exchanged ==
  ASSUME MoveInv, NEW q \in Queues, NEW r \in Queues, q # r, Queue!SwapHashes(q, r), r \in queuesAlive,
         queuesAlive' = queuesAlive \cup {q}, tail' = [tail EXCEPT ![q] = tail[r], ![r] = tail[q]],
         parent' \in [Queue!Members -> Queues \cup {Queue!None}],
         \A p \in Queue!Members : parent'[p] = IF p \in tail[r] THEN q ELSE IF p \in tail[q] THEN r ELSE parent[p],
         UNCHANGED <<tokens, freed>>
  PROVE  MoveInv'
<1>1. PICK a, b : a = Queue!Initial(q) /\ b = Queue!Initial(r)
  OBVIOUS
<1>2. /\ a \in Queue!Tables /\ b \in Queue!Tables /\ a # b /\ a \notin freed /\ b \notin freed
      /\ prev[a] = Queue!None /\ prev[b] = Queue!None /\ a \notin Queue!Allocated /\ b \notin Queue!Allocated
      /\ \A s \in Queues \ {q, r} : a # Queue!Initial(s) /\ b # Queue!Initial(s) /\ Queue!Initial(s) \in Queue!Tables
  BY <1>1, TablesBehind, InitialOwn DEF MoveInv, MoveTypes, Parented
<1>3. /\ Backward(prev') /\ hashHead' \in [Queues -> Queue!Tables]
      /\ entries' \in [Queue!Tables -> SUBSET Queue!Members]
      /\ \A s \in Queues \ {q, r} : Of(s)' \subseteq Of(s) /\ hashHead'[s] = hashHead[s]
      /\ Of(q)' \subseteq (Of(r) \ {b}) \cup {a} /\ Of(r)' \subseteq (Of(q) \ {a}) \cup {b}
      /\ \A x \in Queue!Tables : prev'[x] = Queue!None <=> prev[x] = Queue!None
      /\ \A x \in Queue!Tables \ {a, b} : entries'[x] = entries[x]
      /\ entries'[a] = entries[b] /\ entries'[b] = entries[a]
  BY <1>1, HashesSwapped
<1>4. \A s \in Queues : tail'[s] = IF s = q THEN tail[r] ELSE IF s = r THEN tail[q] ELSE tail[s]
  BY DEF MoveInv, MoveTypes
<1>5. /\ \A s \in Queues : Of(s) \subseteq Queue!Tables
      /\ \A s \in Queues : \A x \in Of(s) : /\ x \notin freed /\ entries[x] \subseteq tail[s]
                                            /\ (prev[x] = Queue!None <=> x = Queue!Initial(s))
      /\ entries[a] \subseteq tail[q] /\ entries[b] \subseteq tail[r]
      /\ \A s \in Queues : entries[Queue!Initial(s)] \subseteq tail[s]
      /\ \A s \in Queues : s # q => Of(s) \cap Of(q) = {}
      /\ \A s \in Queues : s # r => Of(s) \cap Of(r) = {}
      /\ \A s \in Queues : (a \in Of(s) => s = q) /\ (b \in Of(s) => s = r)
  BY <1>1, ChainsOfQueues, InitialOwn DEF MoveInv, EndsInv, ApartInv
<1>6. MoveTypes'
  BY <1>3, <1>4 DEF MoveInv, MoveTypes, Parented
<1>7. EndsInv'
  <2> SUFFICES ASSUME NEW s \in Queues
               PROVE  /\ \A x \in Of(s)' : /\ x \notin freed /\ (prev'[x] = Queue!None <=> x = Queue!Initial(s))
                                           /\ entries'[x] \subseteq tail'[s]
                      /\ entries'[Queue!Initial(s)] \subseteq tail'[s]
    BY DEF EndsInv
  <2>1. CASE s = q
    <3>1. entries'[a] \subseteq tail'[q]
      BY <1>3, <1>4, <1>5
    <3>2. ASSUME NEW x \in Of(q)' PROVE x \notin freed /\ (prev'[x] = Queue!None <=> x = a) /\ entries'[x] \subseteq tail'[q]
      <4>1. CASE x = a
        BY <1>2, <1>3, <3>1, <4>1
      <4>2. CASE x # a
        <5>1. x \in Of(r) /\ x # b /\ x \in Queue!Tables
          BY <1>3, <1>5, <3>2, <4>2
        <5>2. prev[x] # Queue!None /\ x \notin freed /\ entries[x] \subseteq tail[r]
          BY <1>1, <1>5, <5>1
        <5> QED BY <1>3, <1>4, <4>2, <5>1, <5>2
      <4> QED BY <4>1, <4>2
    <3> QED BY <1>1, <2>1, <3>1, <3>2
  <2>2. CASE s = r
    <3>1. entries'[b] \subseteq tail'[r]
      BY <1>3, <1>4, <1>5
    <3>2. ASSUME NEW x \in Of(r)' PROVE x \notin freed /\ (prev'[x] = Queue!None <=> x = b) /\ entries'[x] \subseteq tail'[r]
      <4>1. CASE x = b
        BY <1>2, <1>3, <3>1, <4>1
      <4>2. CASE x # b
        <5>1. x \in Of(q) /\ x # a /\ x \in Queue!Tables
          BY <1>3, <1>5, <3>2, <4>2
        <5>2. prev[x] # Queue!None /\ x \notin freed /\ entries[x] \subseteq tail[q]
          BY <1>1, <1>5, <5>1
        <5> QED BY <1>3, <1>4, <4>2, <5>1, <5>2
      <4> QED BY <4>1, <4>2
    <3> QED BY <1>1, <2>2, <3>1, <3>2
  <2>3. CASE s \notin {q, r}
    <3>1. tail'[s] = tail[s] /\ Of(s)' \subseteq Of(s)
      BY <1>3, <1>4, <2>3
    <3>2. entries'[Queue!Initial(s)] = entries[Queue!Initial(s)]
      BY <1>2, <1>3, <2>3
    <3>3. \A x \in Of(s)' : x \in Of(s) /\ x \in Queue!Tables /\ x # a /\ x # b
      BY <1>5, <2>3, <3>1
    <3>4. ASSUME NEW x \in Of(s)'
          PROVE  x \notin freed /\ (prev'[x] = Queue!None <=> x = Queue!Initial(s)) /\ entries'[x] \subseteq tail'[s]
      <4>1. x \in Of(s) /\ x \in Queue!Tables /\ x # a /\ x # b
        BY <3>3, <3>4
      <4>2. prev'[x] = Queue!None <=> prev[x] = Queue!None
        BY <1>3, <4>1
      <4>3. entries'[x] = entries[x]
        BY <1>3, <4>1
      <4> QED BY <1>5, <3>1, <4>1, <4>2, <4>3
    <3> QED BY <1>5, <3>1, <3>2, <3>4
  <2> QED BY <2>1, <2>2, <2>3
<1>8. ApartInv'
  <2> SUFFICES ASSUME NEW s \in Queues, NEW t \in Queues, s # t, NEW x, x \in Of(s)', x \in Of(t)' PROVE FALSE
    BY DEF ApartInv
  <2> DEFINE Was(u) == IF u = q THEN (Of(r) \ {b}) \cup {a} ELSE IF u = r THEN (Of(q) \ {a}) \cup {b} ELSE Of(u)
  <2>1. \A u \in Queues : Of(u)' \subseteq Was(u)
    BY <1>3
  <2>2. x \in Was(s) /\ x \in Was(t)
    BY <2>1
  <2>3. s \notin {q, r} /\ t \notin {q, r} => Of(s) \cap Of(t) = {}
    BY DEF MoveInv, ApartInv
  <2> QED BY <1>2, <1>5, <2>2, <2>3
<1>9. NewInv'
  <2>1. Queue!Allocated \subseteq Queue!Tables
    BY DEF Queue!Tables
  <2> QED BY <1>2, <1>3, <2>1 DEF MoveInv, NewInv
<1>10. OwnersInv'
  <2>1. ASSUME NEW s \in Queues, NEW p \in tail'[s] PROVE parent'[p] = s
    <3>1. p \in Queue!Members /\ (p \in tail[r] => parent[p] = r) /\ (p \in tail[q] => parent[p] = q)
          /\ (p \in tail[s] => parent[p] = s)
      BY <1>4, <2>1 DEF MoveInv, MoveTypes, OwnersInv
    <3> QED BY <1>4, <2>1, <3>1
  <2>2. ASSUME NEW s \in Queues \ queuesAlive' PROVE hashHead'[s] = Queue!Initial(s) /\ tail'[s] = {}
    <3>1. s \notin {q, r} /\ s \notin queuesAlive
      BY <2>2
    <3> QED BY <1>3, <1>4, <3>1 DEF MoveInv, OwnersInv
  <2>3. tokens' \subseteq UNION {tail'[s] : s \in queuesAlive'}
    <3> SUFFICES ASSUME NEW p \in tokens PROVE \E s \in queuesAlive' : p \in tail'[s]
      OBVIOUS
    <3>1. PICK s \in queuesAlive : p \in tail[s] /\ s \in Queues
      BY DEF MoveInv, MoveTypes, OwnersInv
    <3>2. PICK t \in Queues : t = IF s = q THEN r ELSE IF s = r THEN q ELSE s
      BY <3>1
    <3>3. t \in queuesAlive' /\ tail'[t] = tail[s]
      BY <1>4, <3>1, <3>2
    <3> QED BY <3>1, <3>3
  <2> QED BY <2>1, <2>2, <2>3 DEF OwnersInv
<1> QED BY <1>6, <1>7, <1>8, <1>9, <1>10 DEF MoveInv

LEMMA SwapStep ==
  ASSUME MoveInv, NEW q \in Queues, NEW r \in Queues, Queue!Swap(q, r)
  PROVE  MoveInv'
<1>1. /\ q \in queuesAlive /\ r \in queuesAlive /\ q # r /\ Queue!SwapHashes(q, r)
      /\ tail' = [tail EXCEPT ![q] = tail[r], ![r] = tail[q]] /\ queuesAlive' = queuesAlive
      /\ parent' = Queue!Reowned(q, r) /\ UNCHANGED <<tokens, freed>>
  BY DEF Queue!Swap
<1>2. queuesAlive' = queuesAlive \cup {q}
  BY <1>1
<1>3. \A p \in Queue!Members : parent'[p] = IF p \in tail[r] THEN q ELSE IF p \in tail[q] THEN r ELSE parent[p]
  <2> SUFFICES ASSUME NEW p \in Queue!Members
               PROVE  parent'[p] = IF p \in tail[r] THEN q ELSE IF p \in tail[q] THEN r ELSE parent[p]
    OBVIOUS
  <2>1. p \in tail[r] => p \notin tail[q]
    BY <1>1 DEF MoveInv, OwnersInv
  <2>2. parent'[p] = CASE p \in tail[r] -> q [] p \in tail[q] -> r [] OTHER -> parent[p]
    BY <1>1 DEF Queue!Reowned
  <2> QED BY <2>1, <2>2
<1>4. parent' \in [Queue!Members -> Queues \cup {Queue!None}]
  BY <1>1, <1>3 DEF Queue!Reowned, MoveInv, MoveTypes
<1> QED BY <1>1, <1>2, <1>3, <1>4, Exchanged

LEMMA MoveConstructStep ==
  ASSUME MoveInv, NEW q \in Queues, NEW r \in Queues, Queue!MoveConstruct(q, r)
  PROVE  MoveInv'
<1>1. /\ q \notin queuesAlive /\ r \in queuesAlive /\ q # r /\ Queue!SwapHashes(q, r)
      /\ tail' = [tail EXCEPT ![q] = tail[r], ![r] = {}] /\ queuesAlive' = queuesAlive \cup {q}
      /\ parent' = [p \in Queue!Members |-> IF p \in tail[r] THEN q ELSE parent[p]] /\ UNCHANGED <<tokens, freed>>
  BY DEF Queue!MoveConstruct
<1>2. tail[q] = {}
  BY <1>1 DEF MoveInv, OwnersInv
<1>3. \A p \in Queue!Members : parent'[p] = IF p \in tail[r] THEN q ELSE IF p \in tail[q] THEN r ELSE parent[p]
  BY <1>1, <1>2
<1>4. parent' \in [Queue!Members -> Queues \cup {Queue!None}]
  BY <1>1 DEF MoveInv, MoveTypes
<1> QED BY <1>1, <1>2, <1>3, <1>4, Exchanged

LEMMA DestroyStep ==
  ASSUME MoveInv, NEW q \in Queues, Queue!Destroy(q)
  PROVE  MoveInv'
<1>1. /\ q \in queuesAlive /\ queuesAlive' = queuesAlive \ {q}
      /\ tokens' = tokens \ tail[q] /\ tail' = [tail EXCEPT ![q] = {}]
      /\ freed' = freed \cup {h \in Of(q) : prev[h] # Queue!None}
      /\ hashHead' = [hashHead EXCEPT ![q] = Queue!Initial(q)] /\ entries' = [entries EXCEPT ![Queue!Initial(q)] = {}]
      /\ UNCHANGED <<prev, parent>>
  BY ChainsAreOfLinks DEF Queue!Destroy, Of
<1>2. PICK a : a = Queue!Initial(q)
  OBVIOUS
<1>3. /\ a \in Queue!Tables /\ prev[a] = Queue!None /\ MaxTables \in Nat /\ a \notin Queue!Allocated
      /\ \A r \in Queues : a \in Of(r) => r = q
      /\ \A r \in Queues : a = Queue!Initial(r) => r = q
      /\ \A r \in Queues : Queue!Initial(r) \in Queue!Tables
      /\ \A r \in Queues : Queue!Initial(r) \in Of(q) => r = q
  BY <1>2, InitialOwn, TablesBehind DEF MoveInv, MoveTypes, Parented
<1>4. \A r \in Queues : hashHead'[r] = (IF r = q THEN a ELSE hashHead[r]) /\ tail'[r] = (IF r = q THEN {} ELSE tail[r])
  BY <1>1, <1>2 DEF MoveInv, MoveTypes
<1>5. \A x \in Queue!Tables : entries'[x] = IF x = a THEN {} ELSE entries[x]
  BY <1>1, <1>2 DEF MoveInv, MoveTypes
<1>6. \A r \in Queues : Of(r) \subseteq Queue!Tables /\ hashHead[r] \in Of(r) /\ Closed(prev, Of(r))
  BY ChainsOfQueues
<1>7. hashHead' \in [Queues -> Queue!Tables]
  BY <1>1, <1>2, <1>3 DEF MoveInv, MoveTypes
<1>8. \A r \in Queues : Of(r)' \subseteq IF r = q THEN {a} ELSE Of(r)
  <2> SUFFICES ASSUME NEW r \in Queues PROVE Of(r)' \subseteq IF r = q THEN {a} ELSE Of(r)
    OBVIOUS
  <2>1. PICK S : S = IF r = q THEN {a} ELSE Of(r)
    OBVIOUS
  <2>2. hashHead'[r] \in S
    BY <1>4, <1>6, <2>1
  <2>3. Closed(prev', S) /\ Backward(prev')
    BY <1>1, <1>3, <1>6, <2>1 DEF Closed, MoveInv, MoveTypes
  <2>4. hashHead'[r] \in Queue!Tables
    BY <1>7
  <2> QED BY <1>3, <2>1, <2>2, <2>3, <2>4, ChainWithin
<1>9. MoveTypes'
  <2>1. entries' \in [Queue!Tables -> SUBSET Queue!Members] /\ tail' \in [Queues -> SUBSET Queue!Members]
    BY <1>1 DEF MoveInv, MoveTypes
  <2>2. freed' \subseteq Queue!Allocated
    <3> SUFFICES ASSUME NEW h \in Of(q), prev[h] # Queue!None PROVE h \in Queue!Allocated
      BY <1>1 DEF MoveInv, MoveTypes
    <3>1. h \in Queue!Tables /\ \A r \in Queues : h # Queue!Initial(r)
      BY <1>6, InitialOwn
    <3> QED BY <3>1 DEF Queue!Tables
  <2> QED BY <1>1, <1>7, <2>1, <2>2 DEF MoveInv, MoveTypes, Parented
<1>10. EndsInv'
  <2> SUFFICES ASSUME NEW r \in Queues
               PROVE  /\ \A x \in Of(r)' : /\ x \notin freed' /\ (prev[x] = Queue!None <=> x = Queue!Initial(r))
                                           /\ entries'[x] \subseteq tail'[r]
                      /\ entries'[Queue!Initial(r)] \subseteq tail'[r]
    BY <1>1 DEF EndsInv
  <2>1. CASE r = q
    <3>1. \A x \in Of(r)' : x = a
      BY <1>8, <2>1
    <3>2. a \notin freed'
      BY <1>1, <1>3 DEF MoveInv, MoveTypes
    <3>3. entries'[a] = {}
      BY <1>3, <1>5
    <3> QED BY <1>2, <1>3, <2>1, <3>1, <3>2, <3>3
  <2>2. CASE r # q
    <3>1. Of(r)' \subseteq Of(r) /\ Of(r) \cap Of(q) = {} /\ tail'[r] = tail[r]
      BY <1>4, <1>8, <2>2 DEF MoveInv, ApartInv
    <3>2. ASSUME NEW x \in Of(r)'
          PROVE  x \notin freed' /\ (prev[x] = Queue!None <=> x = Queue!Initial(r)) /\ entries'[x] \subseteq tail'[r]
      <4>1. x \in Of(r) /\ x \in Queue!Tables /\ x \notin Of(q)
        BY <1>6, <3>1, <3>2
      <4>2. entries'[x] \subseteq entries[x] /\ x \notin freed'
        BY <1>1, <1>5, <4>1 DEF MoveInv, EndsInv
      <4> QED BY <3>1, <4>1, <4>2 DEF MoveInv, EndsInv
    <3>3. entries'[Queue!Initial(r)] \subseteq tail'[r]
      BY <1>3, <1>5, <3>1 DEF MoveInv, EndsInv
    <3> QED BY <3>2, <3>3
  <2> QED BY <2>1, <2>2
<1>11. ApartInv'
  <2> SUFFICES ASSUME NEW s \in Queues, NEW t \in Queues, s # t, NEW x, x \in Of(s)', x \in Of(t)' PROVE FALSE
    BY DEF ApartInv
  <2>1. (s = q => x = a /\ x \in Of(t)) /\ (t = q => x = a /\ x \in Of(s))
    BY <1>8
  <2>2. s # q /\ t # q => x \in Of(s) /\ x \in Of(t)
    BY <1>8
  <2> QED BY <1>3, <2>1, <2>2 DEF MoveInv, ApartInv
<1>12. NewInv'
  <2>1. Queue!Allocated \subseteq Queue!Tables
    BY DEF Queue!Tables
  <2> QED BY <1>1, <1>5, <2>1 DEF MoveInv, NewInv
<1>13. OwnersInv'
  <2>1. \A r \in Queues : \A p \in tail'[r] : parent'[p] = r
    BY <1>1, <1>4 DEF MoveInv, OwnersInv
  <2>2. \A r \in Queues \ queuesAlive' : hashHead'[r] = Queue!Initial(r) /\ tail'[r] = {}
    BY <1>1, <1>2, <1>4 DEF MoveInv, OwnersInv
  <2>3. tokens' \subseteq UNION {tail'[r] : r \in queuesAlive'}
    <3> SUFFICES ASSUME NEW p \in tokens, p \notin tail[q] PROVE \E r \in queuesAlive' : p \in tail'[r]
      BY <1>1
    <3>1. PICK r \in queuesAlive : p \in tail[r] /\ r \in Queues
      BY DEF MoveInv, MoveTypes, OwnersInv
    <3> QED BY <1>1, <1>4, <3>1
  <2> QED BY <2>1, <2>2, <2>3 DEF OwnersInv
<1> QED BY <1>9, <1>10, <1>11, <1>12, <1>13 DEF MoveInv

LEMMA ThreadExitsStep ==
  ASSUME MoveInv, NEW p \in Queue!Members, Queue!ThreadExits(p)
  PROVE  MoveInv'
<1>1. /\ entries' = [h \in Queue!Tables |->
                       IF h \in Queue!Chain(hashHead[parent[p]]) THEN entries[h] \ {p} ELSE entries[h]]
      /\ UNCHANGED <<queuesAlive, tail, hashHead, prev, parent, tokens, freed>>
  BY DEF Queue!ThreadExits
<1>2. \A h \in Queue!Tables : entries'[h] \subseteq entries[h]
  BY <1>1
<1>3. \A r \in Queues : Of(r)' = Of(r)
  BY <1>1, LinksStay
<1>4. \A r \in Queues : Of(r) \subseteq Queue!Tables /\ Queue!Initial(r) \in Queue!Tables
  BY ChainsOfQueues, TablesBehind DEF MoveInv, MoveTypes, Parented
<1>5. MoveTypes'
  BY <1>1 DEF MoveInv, MoveTypes, Parented
<1>6. EndsInv'
  <2> SUFFICES ASSUME NEW r \in Queues
               PROVE  /\ \A x \in Of(r) : /\ x \notin freed /\ (prev[x] = Queue!None <=> x = Queue!Initial(r))
                                          /\ entries'[x] \subseteq tail[r]
                      /\ entries'[Queue!Initial(r)] \subseteq tail[r]
    BY <1>1, <1>3 DEF EndsInv
  <2>1. \A x \in Of(r) : x \in Queue!Tables /\ entries'[x] \subseteq entries[x]
    BY <1>2, <1>4
  <2>2. entries'[Queue!Initial(r)] \subseteq entries[Queue!Initial(r)]
    BY <1>2, <1>4
  <2> QED BY <2>1, <2>2 DEF MoveInv, EndsInv
<1>7. ApartInv' /\ OwnersInv'
  BY <1>1, <1>3 DEF MoveInv, ApartInv, OwnersInv
<1>8. NewInv'
  <2>1. Queue!Allocated \subseteq Queue!Tables
    BY DEF Queue!Tables
  <2> QED BY <1>1, <1>2, <2>1 DEF MoveInv, NewInv
<1> QED BY <1>5, <1>6, <1>7, <1>8 DEF MoveInv

(* However many queues are made, moved, swapped and destroyed, in whatever order, with however many producers
   and tables: a producer belongs to the queue that lists it and is found in the tables of that queue only,
   a valid token owns a producer that exists, and no queue gets at a table that was freed or is a part of
   another queue. *)
THEOREM TablesAlwaysMoveAlong ==
  ASSUME Parented
  PROVE  Queue!Spec => []TablesMoveAlong
<1>1. Queue!Init => MoveInv
  <2> SUFFICES ASSUME Queue!Init PROVE MoveInv
    OBVIOUS
  <2>1. /\ queuesAlive = {} /\ tail = [q \in Queues |-> {}]
        /\ hashHead = [q \in Queues |-> Queue!Initial(q)] /\ prev = [h \in Queue!Tables |-> Queue!None]
        /\ entries = [h \in Queue!Tables |-> {}]
        /\ parent = [p \in Queue!Members |-> Queue!None] /\ tokens = {} /\ freed = {}
    BY DEF Queue!Init
  <2>2. /\ MaxTables \in Nat
        /\ \A q \in Queues : Queue!Initial(q) \in Queue!Tables
        /\ \A q, r \in Queues : Queue!Initial(q) = Queue!Initial(r) => q = r
    BY TablesBehind DEF Parented
  <2>3. MoveTypes
    BY <2>1, <2>2 DEF MoveTypes, Backward
  <2>4. \A q \in Queues : Of(q) \subseteq {Queue!Initial(q)}
    <3> SUFFICES ASSUME NEW q \in Queues PROVE Of(q) \subseteq {Queue!Initial(q)}
      OBVIOUS
    <3>1. PICK a : a = Queue!Initial(q)
      OBVIOUS
    <3>2. Closed(prev, {a}) /\ a \in {a} /\ a \in Queue!Tables /\ a = hashHead[q]
      BY <2>1, <2>2, <3>1 DEF Closed
    <3> QED BY <2>2, <2>3, <3>1, <3>2, ChainIsLeast DEF Of, MoveTypes
  <2>5. EndsInv /\ ApartInv /\ NewInv /\ OwnersInv
    <3>1. Queue!Allocated \subseteq Queue!Tables
      BY DEF Queue!Tables
    <3>2. EndsInv
      BY <2>1, <2>2, <2>4 DEF EndsInv
    <3>3. ApartInv
      BY <2>2, <2>4 DEF ApartInv
    <3>4. NewInv /\ OwnersInv
      BY <2>1, <3>1 DEF NewInv, OwnersInv
    <3> QED BY <3>2, <3>3, <3>4
  <2> QED BY <2>3, <2>5 DEF MoveInv
<1>2. MoveInv /\ [Queue!Next]_(Queue!vars) => MoveInv'
  <2> SUFFICES ASSUME MoveInv, [Queue!Next]_(Queue!vars) PROVE MoveInv'
    OBVIOUS
  <2>1. CASE UNCHANGED Queue!vars
    <3>1. UNCHANGED <<queuesAlive, tail, hashHead, prev, entries, parent, tokens, freed>>
      BY <2>1 DEF Queue!vars
    <3> QED BY <3>1, LinksStay DEF MoveInv, MoveTypes, Parented, EndsInv, ApartInv, NewInv, OwnersInv
  <2>2. CASE \E q \in Queues : Queue!Construct(q) \/ Queue!Grow(q) \/ Queue!Destroy(q)
    BY <2>2, ConstructStep, GrowStep, DestroyStep
  <2>3. CASE \E q \in Queues, p \in Queue!Members : Queue!AddExplicit(q, p) \/ Queue!AddImplicit(q, p)
    BY <2>3, AddMemberStep
  <2>4. CASE \E q, r \in Queues : Queue!Swap(q, r) \/ Queue!MoveConstruct(q, r)
    BY <2>4, SwapStep, MoveConstructStep
  <2>5. CASE \E p \in Queue!Members \ tokens : Queue!ThreadExits(p)
    BY <2>5, ThreadExitsStep
  <2> QED BY <2>1, <2>2, <2>3, <2>4, <2>5 DEF Queue!Next
<1>3. MoveInv => TablesMoveAlong
  <2> SUFFICES ASSUME MoveInv PROVE TablesMoveAlong
    OBVIOUS
  <2>1. \A q \in queuesAlive : q \in Queues /\ Queue!Chain(hashHead[q]) = Of(q)
    BY ChainsAreOfLinks DEF Of, MoveInv, MoveTypes
  <2> QED BY <2>1 DEF TablesMoveAlong, Queue!TablesMoveAlong, MoveInv, EndsInv,
       OwnersInv
<1> QED BY <1>1, <1>2, <1>3, PTL DEF Queue!Spec

-----------------------------------------------------------------------------
(* The results of a task: XResult.  Each is returned once *)

WorkerPCs == {"idle", "run", "set", "value", "release", "unset_running", "unset_owner"}
ClientPCs == {"idle", "owner", "lock", "allow", "recall", "mark", "allowed", "disallow",
              "acquire", "get_for", "get_until", "future", "wait"}

TypeOK ==
  /\ m_bin_sem_ \in Nat /\ runs \in Nat /\ pushes \in Nat
  /\ queued \in [Pools -> Nat]
  /\ wpc \in [Workers -> WorkerPCs] /\ run \in [Workers -> Nat]
  /\ cpc \in [Clients -> ClientPCs] /\ fut \in [Clients -> Nat]
  /\ pool \in [Clients -> Pools \cup {NoPool}]
  /\ \A c \in Clients : cpc[c] \in {"owner", "lock", "allow"} => pool[c] \in Pools
  /\ last \in [Clients -> Nat] /\ received \in [Clients -> Int]
  /\ shared \in Seq(Int) /\ Len(shared) > 0 /\ retrieved \subseteq DOMAIN shared
  /\ delivered \in Seq(Int)

(* a worker that has a run whose value is in no shared state yet *)
Holds(w) == wpc[w] \in {"run", "set", "value"}

(* the number of a run is held by one worker, or is the value of one shared state *)
RunsOnce ==
  /\ \A w \in Workers : Holds(w) => run[w] \in 1 .. runs
  /\ \A w, v \in Workers : Holds(w) /\ Holds(v) /\ w # v => run[w] # run[v]
  /\ \A g \in DOMAIN shared :
       /\ shared[g] \in Broken .. runs
       /\ shared[g] > 0 => \A w \in Workers : Holds(w) => run[w] # shared[g]
  /\ \A g, h \in DOMAIN shared : shared[g] > 0 /\ g # h => shared[g] # shared[h]

(* a future is one client's *)
FuturesOnce ==
  /\ \A c \in Clients : cpc[c] = "wait" => fut[c] \in retrieved
  /\ \A c, d \in Clients : cpc[c] = "wait" /\ cpc[d] = "wait" /\ c # d => fut[c] # fut[d]

(* what was returned came out of a future nobody waits for *)
DeliveredOnce ==
  \A i \in DOMAIN delivered :
    /\ delivered[i] > 0
    /\ \E g \in retrieved : /\ shared[g] = delivered[i]
                            /\ \A c \in Clients : cpc[c] = "wait" => fut[c] # g

OnceInv == TypeOK /\ RunsOnce /\ FuturesOnce /\ DeliveredOnce /\ ResultOnce

(* set(): the last shared state is broken unless it has a value, and a new one comes after it;
   then the new one gets its value *)
LEMMA SetIs ==
  ASSUME TypeOK, NEW w \in Workers
  PROVE  /\ SetFresh(w) =>
              /\ shared' \in Seq(Int) /\ Len(shared') = Len(shared) + 1
              /\ shared'[Len(shared) + 1] = Unset
              /\ \A g \in DOMAIN shared :
                   shared'[g] = IF g = Len(shared) /\ shared[g] = Unset THEN Broken ELSE shared[g]
         /\ SetValue(w) =>
              \/ UNCHANGED shared
              \/ /\ shared' \in Seq(Int) /\ Len(shared') = Len(shared)
                 /\ shared[Len(shared)] = Unset /\ shared'[Len(shared)] = run[w]
                 /\ \A g \in DOMAIN shared : g # Len(shared) => shared'[g] = shared[g]
<1>1. ASSUME SetFresh(w)
      PROVE  /\ shared' \in Seq(Int) /\ Len(shared') = Len(shared) + 1
             /\ shared'[Len(shared) + 1] = Unset
             /\ \A g \in DOMAIN shared :
                  shared'[g] = IF g = Len(shared) /\ shared[g] = Unset THEN Broken ELSE shared[g]
  <2> DEFINE Old == [g \in DOMAIN shared |->
                       IF g = Len(shared) /\ shared[g] = Unset THEN Broken ELSE shared[g]]
  <2>1. Old \in Seq(Int) /\ Len(Old) = Len(shared) /\ DOMAIN Old = DOMAIN shared
    BY DEF TypeOK, Broken
  <2>2. shared' = Append(Old, Unset)
    BY <1>1 DEF SetFresh
  <2>3. \A g \in DOMAIN shared :
          Old[g] = IF g = Len(shared) /\ shared[g] = Unset THEN Broken ELSE shared[g]
    OBVIOUS
  <2> HIDE DEF Old
  <2> QED BY <2>1, <2>2, <2>3 DEF Unset
<1>2. ASSUME SetValue(w), shared[Len(shared)] = Unset
      PROVE  /\ shared' \in Seq(Int) /\ Len(shared') = Len(shared)
             /\ shared[Len(shared)] = Unset /\ shared'[Len(shared)] = run[w]
             /\ \A g \in DOMAIN shared : g # Len(shared) => shared'[g] = shared[g]
  BY <1>2 DEF SetValue, TypeOK
<1>3. ASSUME SetValue(w), shared[Len(shared)] # Unset
      PROVE  UNCHANGED shared
  BY <1>3 DEF SetValue
<1> QED BY <1>1, <1>2, <1>3

(* every step keeps the types *)
LEMMA TypeStep ==
  ASSUME ResultAssumption, TypeOK, FuturesOnce, [ResultNext]_resultVars
  PROVE  TypeOK'
<1> USE DEF TypeOK, resultVars, result, task, worker, counts, deliveries, flags, ClientGoto, WorkerGoto
<1>1. CASE UNCHANGED resultVars
  BY <1>1
<1>2. ASSUME NEW c \in Clients, Begin(c) \/ ClientStep(c) PROVE TypeOK'
  <2>0. ASSUME cpc[c] = "wait" PROVE shared[fut[c]] \in Int
    BY <2>0 DEF FuturesOnce
  <2> USE <1>2 DEF Begin, ClientStep, JoinCall, GetCall, TryGet, TimedCall, ResultCall, JoinOwner,
          JoinFull, JoinReset, JoinAllow, GetRecall, GetMark, GetAllowed, GetDisallow, GetAcquire,
          TimedAcquire, TimedOut, GetFuture, GetValue
  <2>1. UNCHANGED <<shared, wpc, run>> /\ runs' \in Nat /\ pushes' \in Nat
    OBVIOUS
  <2>2. m_bin_sem_' \in Nat
    OBVIOUS
  <2>3. queued' \in [Pools -> Nat]
    <3>1. CASE UNCHANGED queued
      BY <3>1
    <3>2. CASE JoinAllow(c)
      <4>1. pool[c] \in Pools /\ queued' = [queued EXCEPT ![pool[c]] = @ + 1]
        BY <3>2
      <4> QED BY ONLY <4>1, TypeOK DEF TypeOK
    <3> QED BY <3>1, <3>2
  <2>4. cpc' \in [Clients -> ClientPCs]
    BY DEF Fails, Return, ReturnEmpty, ClientPCs
  <2>5. fut' \in [Clients -> Nat]
    <3>1. UNCHANGED fut \/ fut' = [fut EXCEPT ![c] = Len(shared)]
      OBVIOUS
    <3>2. CASE UNCHANGED fut
      BY <3>2
    <3>3. CASE fut' = [fut EXCEPT ![c] = Len(shared)]
      BY ONLY <3>3, TypeOK DEF TypeOK
    <3> QED BY <3>1, <3>2, <3>3
  <2>6. pool' \in [Clients -> Pools \cup {NoPool}]
    OBVIOUS
  <2>10. \A d \in Clients : cpc'[d] \in {"owner", "lock", "allow"} => pool'[d] \in Pools
    BY DEF Fails, Return, ReturnEmpty
  <2>7. last' \in [Clients -> Nat]
    OBVIOUS
  <2>8. received' \in [Clients -> Int] /\ delivered' \in Seq(Int)
    <3>1. CASE GetValue(c) /\ shared[fut[c]] # Broken
      <4>1. received' = [received EXCEPT ![c] = shared[fut[c]]] /\ delivered' = Append(delivered, shared[fut[c]])
        BY <3>1 DEF Return
      <4>2. shared[fut[c]] \in Int
        BY <2>0, <3>1
      <4> QED BY ONLY <4>1, <4>2, TypeOK DEF TypeOK
    <3>2. CASE ~GetValue(c) \/ shared[fut[c]] = Broken
      BY <3>2
    <3> QED BY <3>1, <3>2
  <2>9. retrieved' \subseteq DOMAIN shared
    OBVIOUS
  <2> QED BY <2>1, <2>2, <2>3, <2>4, <2>5, <2>6, <2>7, <2>8, <2>9, <2>10
<1>4. ASSUME NEW w \in Workers, WorkerStep(w) PROVE TypeOK'
  <2>0. ASSUME SetFresh(w) \/ SetValue(w)
        PROVE  shared' \in Seq(Int) /\ Len(shared') > 0 /\ DOMAIN shared \subseteq DOMAIN shared'
    <3>1. shared' \in Seq(Int) /\ (Len(shared') = Len(shared) + 1 \/ Len(shared') = Len(shared))
      BY <2>0, SetIs
    <3> QED BY ONLY <3>1, TypeOK DEF TypeOK
  <2> USE <1>4 DEF WorkerStep, TakeTask, Run, CallEnd, SetFresh, SetValue, SetRelease
  <2>1. UNCHANGED <<cpc, fut, pool, last, received, delivered, retrieved, pushes>> /\ m_bin_sem_' \in Nat
    OBVIOUS
  <2>2. queued' \in [Pools -> Nat]
    BY DEF ResultAssumption
  <2>3. wpc' \in [Workers -> WorkerPCs] /\ run' \in [Workers -> Nat] /\ runs' \in Nat
    <3>1. wpc' \in [Workers -> WorkerPCs]
      BY DEF WorkerPCs
    <3>2. UNCHANGED <<run, runs>> \/ (runs' = runs + 1 /\ run' = [run EXCEPT ![w] = runs + 1])
      OBVIOUS
    <3>3. CASE UNCHANGED <<run, runs>>
      BY <3>1, <3>3
    <3>4. CASE runs' = runs + 1 /\ run' = [run EXCEPT ![w] = runs + 1]
      BY ONLY <3>1, <3>4, TypeOK DEF TypeOK
    <3> QED BY <3>2, <3>3, <3>4
  <2>4. shared' \in Seq(Int) /\ Len(shared') > 0 /\ DOMAIN shared \subseteq DOMAIN shared'
    <3>1. CASE SetFresh(w) \/ SetValue(w)
      BY <2>0, <3>1
    <3>2. CASE ~SetFresh(w) /\ ~SetValue(w)
      BY <3>2
    <3> QED BY <3>1, <3>2
  <2> QED BY <2>1, <2>2, <2>3, <2>4
<1> QED BY <1>1, <1>2, <1>4 DEF ResultNext, ResultAtRest

(* a client's step: a future is taken by one client, a value leaves with its future *)
LEMMA ClientOnce ==
  ASSUME OnceInv, NEW c \in Clients, Begin(c) \/ ClientStep(c)
  PROVE  RunsOnce' /\ FuturesOnce' /\ DeliveredOnce' /\ ResultOnce'
<1>1. UNCHANGED <<shared, wpc, run, runs>>
  BY DEF Begin, ClientStep, JoinCall, GetCall, TryGet, TimedCall, ResultCall, JoinOwner, JoinFull,
         JoinReset, JoinAllow, GetRecall, GetMark, GetAllowed, GetDisallow, GetAcquire,
         TimedAcquire, TimedOut, GetFuture, GetValue, resultVars, result, task, worker, counts, deliveries,
         flags
<1>2. RunsOnce'
  BY <1>1 DEF OnceInv, RunsOnce, Holds
<1>3. CASE GetFuture(c) /\ Len(shared) \notin retrieved
  <2>1. /\ cpc' = [cpc EXCEPT ![c] = "wait"] /\ fut' = [fut EXCEPT ![c] = Len(shared)]
        /\ retrieved' = retrieved \cup {Len(shared)} /\ UNCHANGED delivered
    BY <1>3 DEF GetFuture, ClientGoto, deliveries
  <2>2. FuturesOnce'
    BY <1>3, <2>1 DEF FuturesOnce, OnceInv, TypeOK
  <2>3. DeliveredOnce' /\ ResultOnce'
    BY <1>1, <1>3, <2>1 DEF DeliveredOnce, FuturesOnce, ResultOnce, OnceInv, TypeOK
  <2> QED BY <1>2, <2>2, <2>3
<1>4. CASE GetValue(c) /\ shared[fut[c]] # Broken
  <2> DEFINE v == shared[fut[c]]
  <2>1. /\ cpc[c] = "wait" /\ v # Unset
        /\ cpc' = [cpc EXCEPT ![c] = "idle"] /\ delivered' = Append(delivered, v)
        /\ UNCHANGED <<fut, retrieved>>
    BY <1>4 DEF GetValue, Return, result
  <2>2. fut[c] \in retrieved /\ v > 0
    <3>1. fut[c] \in retrieved /\ fut[c] \in DOMAIN shared
      BY <2>1 DEF OnceInv, FuturesOnce, TypeOK
    <3>2. v \in Broken .. runs /\ runs \in Nat
      BY <3>1 DEF OnceInv, RunsOnce, TypeOK
    <3> QED BY <1>4, <2>1, <3>1, <3>2 DEF Broken, Unset
  <2>3. FuturesOnce'
    BY <2>1 DEF FuturesOnce, OnceInv, TypeOK
  <2>4. \A d \in Clients : cpc'[d] = "wait" => cpc[d] = "wait" /\ d # c /\ fut[d] # fut[c]
    BY <2>1 DEF FuturesOnce, OnceInv, TypeOK
  <2>5. \A i \in DOMAIN delivered : delivered[i] # v
    <3> SUFFICES ASSUME NEW i \in DOMAIN delivered, delivered[i] = v PROVE FALSE
      OBVIOUS
    <3>1. PICK g \in retrieved : shared[g] = v /\ g # fut[c]
      BY <2>1 DEF OnceInv, DeliveredOnce
    <3> QED BY <2>2, <3>1 DEF OnceInv, RunsOnce, TypeOK
  <2>6. /\ Len(delivered') = Len(delivered) + 1 /\ delivered'[Len(delivered) + 1] = v
        /\ \A i \in DOMAIN delivered : delivered'[i] = delivered[i]
        /\ DOMAIN delivered' = DOMAIN delivered \cup {Len(delivered) + 1}
    <3>1. v \in Int /\ delivered \in Seq(Int)
      BY <2>2 DEF OnceInv, TypeOK
    <3> QED BY <2>1, <3>1
  <2> HIDE DEF v
  <2>7. ResultOnce'
    BY <2>5, <2>6 DEF ResultOnce, OnceInv
  <2>8. DeliveredOnce'
    <3> SUFFICES ASSUME NEW i \in DOMAIN delivered'
                 PROVE  /\ delivered'[i] > 0
                        /\ \E g \in retrieved : /\ shared[g] = delivered'[i]
                             /\ \A d \in Clients : cpc'[d] = "wait" => fut[d] # g
      BY <1>1, <2>1 DEF DeliveredOnce
    <3>1. CASE i \in DOMAIN delivered
      BY <2>4, <2>6, <3>1 DEF OnceInv, DeliveredOnce
    <3>2. CASE i = Len(delivered) + 1
      BY <2>2, <2>4, <2>6, <3>2 DEF v
    <3> QED BY <2>6, <3>1, <3>2
  <2> QED BY <1>2, <2>3, <2>7, <2>8
<1>5. CASE ~(GetFuture(c) /\ Len(shared) \notin retrieved) /\ ~(GetValue(c) /\ shared[fut[c]] # Broken)
  <2>1. UNCHANGED <<fut, retrieved, delivered>>
    BY <1>5 DEF Begin, ClientStep, JoinCall, GetCall, TryGet, TimedCall, ResultCall, JoinOwner,
         JoinFull, JoinReset, JoinAllow, GetRecall, GetMark, GetAllowed, GetDisallow, GetAcquire,
         TimedAcquire, TimedOut, GetFuture, GetValue, resultVars, result, task, worker, counts, deliveries,
         flags
  <2>2. \A d \in Clients : cpc'[d] = "wait" => cpc[d] = "wait"
    BY <1>5 DEF Begin, ClientStep, JoinCall, GetCall, TryGet, TimedCall, ResultCall, JoinOwner,
         JoinFull, JoinReset, JoinAllow, GetRecall, GetMark, GetAllowed, GetDisallow, GetAcquire,
         TimedAcquire, TimedOut, GetFuture, GetValue, Fails, ReturnEmpty, ClientGoto, OnceInv, TypeOK
  <2> QED BY <1>1, <1>2, <2>1, <2>2 DEF OnceInv, FuturesOnce, DeliveredOnce, ResultOnce
<1> QED BY <1>3, <1>4, <1>5

(* a worker's step: the value it sets is the number of a run no shared state has *)
LEMMA WorkerOnce ==
  ASSUME OnceInv, NEW w \in Workers, WorkerStep(w)
  PROVE  RunsOnce' /\ FuturesOnce' /\ DeliveredOnce' /\ ResultOnce'
<1>1. UNCHANGED <<cpc, fut, retrieved, delivered>>
  BY DEF WorkerStep, TakeTask, Run, CallEnd, SetFresh, SetValue, SetRelease, resultVars, result, task, worker,
         counts, deliveries, flags
<1>2. FuturesOnce' /\ ResultOnce'
  BY <1>1 DEF OnceInv, FuturesOnce, ResultOnce
<1>3. ASSUME \A g \in DOMAIN shared : g \in DOMAIN shared' /\ (shared[g] > 0 => shared'[g] = shared[g])
      PROVE  DeliveredOnce'
  BY <1>1, <1>3 DEF OnceInv, TypeOK, DeliveredOnce
<1>4. CASE TakeTask(w)
  <2>1. UNCHANGED shared /\ runs' = runs + 1 /\ run' = [run EXCEPT ![w] = runs + 1]
        /\ wpc' = [wpc EXCEPT ![w] = "run"]
    BY <1>4 DEF TakeTask, WorkerGoto, result
  <2>2. RunsOnce'
    BY <2>1 DEF OnceInv, TypeOK, RunsOnce, Holds, Broken
  <2> QED BY <1>2, <1>3, <2>1, <2>2
<1>5. CASE Run(w) \/ SetRelease(w) \/ CallEnd(w)
  <2>1. UNCHANGED <<shared, runs, run>>
    BY <1>5 DEF Run, SetRelease, CallEnd, result, counts
  <2>2. \A v \in Workers : Holds(v)' <=> Holds(v)
    BY <1>5 DEF Run, SetRelease, CallEnd, WorkerGoto, Holds, OnceInv, TypeOK
  <2>3. RunsOnce'
    BY <2>1, <2>2 DEF OnceInv, RunsOnce
  <2> QED BY <1>2, <1>3, <2>1, <2>3
<1>6. CASE SetFresh(w)
  <2>1. /\ shared' \in Seq(Int) /\ Len(shared') = Len(shared) + 1 /\ shared'[Len(shared) + 1] = Unset
        /\ \A g \in DOMAIN shared :
             shared'[g] = IF g = Len(shared) /\ shared[g] = Unset THEN Broken ELSE shared[g]
    BY <1>6, SetIs DEF OnceInv
  <2>2. /\ DOMAIN shared' = DOMAIN shared \cup {Len(shared) + 1}
        /\ \A g \in DOMAIN shared' :
             /\ shared'[g] > 0 => g \in DOMAIN shared /\ shared'[g] = shared[g]
             /\ g \in DOMAIN shared /\ shared[g] > 0 => shared'[g] = shared[g]
             /\ shared'[g] \in Broken .. runs
    <3>1. DOMAIN shared' = DOMAIN shared \cup {Len(shared) + 1}
      BY <2>1 DEF OnceInv, TypeOK
    <3>2. shared'[Len(shared) + 1] \in Broken .. runs /\ ~(shared'[Len(shared) + 1] > 0)
      BY <2>1 DEF OnceInv, TypeOK, Unset, Broken
    <3>3. ASSUME NEW g \in DOMAIN shared
          PROVE  /\ shared'[g] > 0 \/ shared[g] > 0 => shared'[g] = shared[g]
                 /\ shared'[g] \in Broken .. runs
      <4>1. shared[g] \in Broken .. runs /\ runs \in Nat
        BY DEF OnceInv, TypeOK, RunsOnce
      <4>2. CASE g = Len(shared) /\ shared[g] = Unset
        BY <2>1, <4>1, <4>2 DEF Unset, Broken
      <4>3. CASE ~(g = Len(shared) /\ shared[g] = Unset)
        BY <2>1, <4>1, <4>3
      <4> QED BY <4>2, <4>3
    <3>4. Len(shared) + 1 \notin DOMAIN shared
      BY DEF OnceInv, TypeOK
    <3> QED BY <3>1, <3>2, <3>3, <3>4
  <2>3. UNCHANGED <<runs, run>> /\ \A v \in Workers : Holds(v)' <=> Holds(v)
    BY <1>6 DEF SetFresh, WorkerGoto, Holds, OnceInv, TypeOK, counts
  <2>4. RunsOnce'
    BY <2>2, <2>3 DEF OnceInv, RunsOnce
  <2> QED BY <1>2, <1>3, <2>2, <2>4
<1>7. CASE SetValue(w) /\ shared[Len(shared)] = Unset
  <2>1. /\ shared' \in Seq(Int) /\ Len(shared') = Len(shared) /\ shared'[Len(shared)] = run[w]
        /\ \A g \in DOMAIN shared : g # Len(shared) => shared'[g] = shared[g]
    BY <1>7, SetIs DEF OnceInv, SetValue, Unset, TypeOK
  <2>2. UNCHANGED <<runs, run>> /\ wpc[w] = "value" /\ wpc' = [wpc EXCEPT ![w] = "release"]
    BY <1>7 DEF SetValue, WorkerGoto, counts
  <2>3. /\ ~Holds(w)' /\ Holds(w) /\ \A v \in Workers : v # w => (Holds(v)' <=> Holds(v))
    BY <2>2 DEF Holds, OnceInv, TypeOK
  <2>4. DOMAIN shared' = DOMAIN shared /\ Len(shared) \in DOMAIN shared
    BY <2>1 DEF OnceInv, TypeOK
  <2>5. run[w] \in 1 .. runs /\ runs \in Nat
    BY <2>3 DEF OnceInv, RunsOnce, TypeOK
  <2>6. \A v \in Workers : Holds(v)' => run[v] \in 1 .. runs /\ run[v] # run[w]
    BY <2>3 DEF OnceInv, RunsOnce
  <2>7. \A g \in DOMAIN shared : shared[g] > 0 => shared[g] # run[w] /\ g # Len(shared)
    BY <1>7, <2>3 DEF OnceInv, RunsOnce, Unset
  <2>8. RunsOnce'
    <3>1. /\ \A v \in Workers : Holds(v)' => run'[v] \in 1 .. runs'
          /\ \A u, v \in Workers : Holds(u)' /\ Holds(v)' /\ u # v => run'[u] # run'[v]
      BY <2>2, <2>3, <2>6 DEF OnceInv, RunsOnce
    <3>2. ASSUME NEW g \in DOMAIN shared'
          PROVE  /\ shared'[g] \in Broken .. runs'
                 /\ shared'[g] > 0 => \A v \in Workers : Holds(v)' => run'[v] # shared'[g]
      <4>1. CASE g = Len(shared)
        BY <2>1, <2>2, <2>5, <2>6, <4>1 DEF Broken
      <4>2. CASE g # Len(shared)
        BY <2>1, <2>2, <2>3, <2>4, <4>2 DEF OnceInv, RunsOnce
      <4> QED BY <4>1, <4>2
    <3>3. ASSUME NEW g \in DOMAIN shared', NEW h \in DOMAIN shared', shared'[g] > 0, g # h
          PROVE  shared'[g] # shared'[h]
      <4>1. CASE g # Len(shared) /\ h # Len(shared)
        BY <2>1, <2>4, <3>3, <4>1 DEF OnceInv, RunsOnce
      <4>2. CASE g = Len(shared)
        BY <2>1, <2>4, <2>5, <2>7, <3>3, <4>2
      <4>3. CASE h = Len(shared)
        BY <2>1, <2>4, <2>5, <2>7, <3>3, <4>3
      <4> QED BY <4>1, <4>2, <4>3
    <3> QED BY <3>1, <3>2, <3>3 DEF RunsOnce
  <2> QED BY <1>2, <1>3, <2>1, <2>4, <2>7, <2>8
<1>8. CASE SetValue(w) /\ shared[Len(shared)] # Unset
  <2>1. UNCHANGED <<shared, runs, run, wpc>>
    BY <1>8 DEF SetValue, counts
  <2>2. RunsOnce'
    BY <2>1 DEF OnceInv, RunsOnce, Holds
  <2> QED BY <1>2, <1>3, <2>1, <2>2
<1> QED BY <1>4, <1>5, <1>6, <1>7, <1>8 DEF WorkerStep

(* runs, futures and returned results correspond in every state *)
LEMMA OnceInductive ==
  ASSUME ResultAssumption
  PROVE  ResultSpec => []OnceInv
<1>1. ResultInit => OnceInv
  <2> SUFFICES ASSUME ResultInit PROVE OnceInv
    OBVIOUS
  <2>1. TypeOK
    BY DEF ResultInit, TypeOK, WorkerPCs, ClientPCs, Unset
  <2> QED BY <2>1 DEF ResultInit, OnceInv, RunsOnce, FuturesOnce, DeliveredOnce, ResultOnce, Holds, Unset, Broken
<1>2. OnceInv /\ [ResultNext]_resultVars => OnceInv'
  <2> SUFFICES ASSUME OnceInv, [ResultNext]_resultVars PROVE OnceInv'
    OBVIOUS
  <2>1. TypeOK'
    BY TypeStep DEF OnceInv
  <2>2. ASSUME UNCHANGED resultVars PROVE OnceInv'
    BY <2>1, <2>2 DEF resultVars, result, task, worker, counts, deliveries, flags, OnceInv, RunsOnce,
       FuturesOnce, DeliveredOnce, ResultOnce, Holds
  <2> QED BY <2>1, <2>2, ClientOnce, WorkerOnce DEF ResultNext, ResultAtRest, OnceInv
<1> QED BY <1>1, <1>2, PTL DEF ResultSpec

(* The result of a run is returned once (XResult::get_, try_get_, get_for_, get_until), however
   many clients join the task and ask for results, in however many pools. *)
THEOREM ResultsReturnedOnce ==
  ASSUME ResultAssumption
  PROVE  ResultSpec => []ResultOnce
<1>1. OnceInv => ResultOnce
  BY DEF OnceInv
<1> QED BY <1>1, OnceInductive, PTL

-----------------------------------------------------------------------------
(* One client that takes each result before it joins again *)

OneAsker(c) == Clients = {c} /\ Disciplined /\ "get_for" \notin ClientOps[c]

(* a worker that has not made its run's result known *)
Active(w) == wpc[w] \in {"run", "set", "value", "release"}
NobodyActive == \A w \in Workers : ~Active(w)

NoneQueued == \A p \in Pools : queued[p] = 0
OneQueued ==
  \E p \in Pools : queued[p] = 1 /\ \A q \in Pools : q # p => queued[q] = 0

Joining == {"idle", "owner", "lock", "allow"}
Asking == {"idle", "recall", "mark", "allowed", "disallow", "acquire", "get_until"}

(* the last shared state has the value of the last run, and its future is there to be taken *)
Fresh == Len(shared) = runs + 1 /\ Len(shared) \notin retrieved
Valued == Fresh /\ shared[Len(shared)] = pushes

(* where the run of the last accepted join is: nowhere, in a queue, in a worker's hands, in the
   promise with a permit, with a client that took the permit, with one that took the future *)
Settled(c) ==
  /\ received[c] = last[c] /\ NoneQueued /\ NobodyActive
  /\ m_bin_sem_ = 0 /\ runs = pushes /\ Len(shared) = runs + 1 /\ cpc[c] \in Joining

Queued(c) ==
  /\ received[c] # last[c] /\ OneQueued /\ NobodyActive
  /\ m_bin_sem_ = 0 /\ runs = pushes - 1 /\ Len(shared) = runs + 1 /\ cpc[c] \in Asking

Running(c, w) ==
  /\ received[c] # last[c] /\ NoneQueued /\ Active(w) /\ \A v \in Workers : Active(v) => v = w
  /\ m_bin_sem_ = 0 /\ runs = pushes /\ cpc[c] \in Asking /\ run[w] = pushes
  /\ wpc[w] \in {"run", "set"} => Len(shared) = runs
  /\ wpc[w] = "value" => Fresh /\ shared[Len(shared)] = Unset
  /\ wpc[w] = "release" => Valued

Ready(c) ==
  /\ received[c] # last[c] /\ NoneQueued /\ NobodyActive
  /\ m_bin_sem_ = 1 /\ runs = pushes /\ Valued /\ cpc[c] \in Asking

Taking(c) ==
  /\ received[c] # last[c] /\ NoneQueued /\ NobodyActive
  /\ m_bin_sem_ = 0 /\ runs = pushes /\ Valued /\ cpc[c] = "future"

Taken(c) ==
  /\ received[c] # last[c] /\ NoneQueued /\ NobodyActive
  /\ m_bin_sem_ = 0 /\ runs = pushes /\ cpc[c] = "wait"
  /\ Len(shared) = runs + 1 /\ fut[c] = Len(shared) /\ shared[fut[c]] = pushes

TurnInv(c) ==
  /\ ~terminated /\ last[c] = pushes
  /\ \/ Settled(c) \/ Queued(c) \/ Ready(c) \/ Taking(c) \/ Taken(c)
     \/ \E w \in Workers : Running(c, w)

(* a step of the client that neither joins nor takes a permit *)
LEMMA TurnStays ==
  ASSUME NEW c \in Clients, TypeOK, TurnInv(c), cpc[c] \notin {"future", "wait"},
         UNCHANGED <<received, last, queued, wpc, run, m_bin_sem_, runs, pushes, shared, retrieved, terminated>>,
         received[c] = last[c] => cpc'[c] \in Joining,
         received[c] # last[c] => cpc'[c] \in Asking
  PROVE  TurnInv(c)'
<1>1. (NobodyActive' <=> NobodyActive) /\ (NoneQueued' <=> NoneQueued) /\ (OneQueued' <=> OneQueued)
  BY DEF NobodyActive, Active, NoneQueued, OneQueued
<1>2. \A w \in Workers : Active(w)' <=> Active(w)
  BY DEF Active
<1>3. (Fresh' <=> Fresh) /\ (Valued' <=> Valued)
  BY DEF Fresh, Valued
<1>4. CASE Settled(c)
  BY <1>1, <1>4 DEF TurnInv, Settled
<1>5. CASE Queued(c)
  BY <1>1, <1>5 DEF TurnInv, Queued
<1>6. CASE Ready(c)
  BY <1>1, <1>3, <1>6 DEF TurnInv, Ready
<1>7. ASSUME NEW w \in Workers, Running(c, w) PROVE TurnInv(c)'
  <2>1. Running(c, w)'
    BY <1>1, <1>2, <1>3, <1>7 DEF Running
  <2> QED BY <2>1 DEF TurnInv
<1>8. ~Taking(c) /\ ~Taken(c)
  BY DEF Taking, Taken
<1> QED BY <1>4, <1>5, <1>6, <1>7, <1>8 DEF TurnInv

(* whoever takes a permit finds the value of its own run, in a future nobody has *)
LEMMA TurnTakes ==
  ASSUME NEW c \in Clients, TypeOK, TurnInv(c), cpc[c] \notin {"future", "wait"},
         m_bin_sem_ > 0, m_bin_sem_' = m_bin_sem_ - 1, cpc'[c] = "future",
         UNCHANGED <<received, last, queued, wpc, run, runs, pushes, shared, retrieved, terminated>>
  PROVE  TurnInv(c)'
<1>1. Ready(c)
  BY DEF TurnInv, Settled, Queued, Running, Taking, Taken
<1>2. Taking(c)'
  BY <1>1 DEF Ready, Taking, NobodyActive, Active, NoneQueued, Valued, Fresh
<1> QED BY <1>2 DEF TurnInv

(* the client's steps; a result it gets is that of its last join *)
LEMMA TurnClient ==
  ASSUME ResultAssumption, NEW c \in Clients, OneAsker(c), OnceInv, TurnInv(c), Begin(c) \/ ClientStep(c)
  PROVE  TurnInv(c)' /\ (received'[c] # received[c] => received'[c] = last[c])
<1> USE DEF OnceInv
<1>1. /\ cpc[c] \in {"owner", "lock", "allow"} => Settled(c)
      /\ cpc[c] \in Asking \ {"idle"} => received[c] # last[c]
      /\ cpc[c] = "future" => Taking(c)
      /\ cpc[c] = "wait" => Taken(c)
      /\ cpc[c] # "get_for"
  BY DEF TurnInv, Settled, Queued, Running, Ready, Taking, Taken, Joining, Asking
<1>2. CASE JoinCall(c) \/ JoinOwner(c) \/ JoinFull(c) \/ JoinReset(c)
  <2>1. /\ UNCHANGED <<received, last, queued, wpc, run, m_bin_sem_, runs, pushes, shared, retrieved, terminated>>
        /\ cpc[c] \in Joining /\ cpc'[c] \in Joining /\ received[c] = last[c]
    BY <1>1, <1>2 DEF JoinCall, JoinOwner, JoinFull, JoinReset, ClientGoto, Joining, TypeOK, OneAsker,
       Settled, result, task, worker, counts, deliveries, flags
  <2> QED BY <2>1, TurnStays DEF Joining
<1>3. CASE GetCall(c) \/ TimedCall(c) \/ (TryGet(c) /\ ~(m_bin_sem_ > 0))
  <2>1. /\ UNCHANGED <<received, last, queued, wpc, run, m_bin_sem_, runs, pushes, shared, retrieved, terminated>>
        /\ cpc[c] = "idle" /\ cpc'[c] \in Asking /\ received[c] # last[c]
    BY <1>3 DEF GetCall, TimedCall, TryGet, ResultCall, ClientGoto, Asking, TypeOK, OneAsker,
       result, task, worker, counts, deliveries, flags
  <2> QED BY <2>1, TurnStays DEF Joining
<1>4. CASE GetRecall(c) \/ GetMark(c) \/ GetAllowed(c) \/ GetDisallow(c) \/ TimedOut(c)
  <2>1. /\ UNCHANGED <<received, last, queued, wpc, run, m_bin_sem_, runs, pushes, shared, retrieved, terminated>>
        /\ cpc[c] \in Asking \ {"idle"} /\ cpc'[c] \in Asking
    BY <1>1, <1>4 DEF GetRecall, GetMark, GetAllowed, GetDisallow, TimedOut, ClientGoto, Asking, TypeOK,
       result, task, worker, counts, deliveries, flags
  <2>2. received[c] # last[c] /\ cpc[c] \notin {"future", "wait"}
    BY <1>1, <2>1 DEF Asking
  <2> QED BY <2>1, <2>2, TurnStays
<1>5. CASE GetAcquire(c) \/ TimedAcquire(c) \/ (TryGet(c) /\ m_bin_sem_ > 0)
  <2>1. /\ UNCHANGED <<received, last, queued, wpc, run, runs, pushes, shared, retrieved, terminated>>
        /\ m_bin_sem_ > 0 /\ m_bin_sem_' = m_bin_sem_ - 1
        /\ cpc[c] \notin {"future", "wait"} /\ cpc'[c] = "future"
    BY <1>1, <1>5 DEF GetAcquire, TimedAcquire, TryGet, ResultCall, ClientGoto, TypeOK,
       result, task, worker, counts, deliveries, flags
  <2> QED BY <2>1, TurnTakes
<1>6. CASE GetFuture(c)
  <2>1. Taking(c)
    BY <1>1, <1>6 DEF GetFuture
  <2>2. /\ cpc'[c] = "wait" /\ fut'[c] = Len(shared)
        /\ UNCHANGED <<received, last, queued, wpc, run, m_bin_sem_, runs, pushes, shared, terminated>>
    BY <1>6, <2>1 DEF GetFuture, Taking, Valued, Fresh, ClientGoto, TypeOK, task, worker, counts, deliveries, flags
  <2>3. Taken(c)'
    BY <2>1, <2>2 DEF Taking, Taken, Valued, Fresh, NobodyActive, Active, NoneQueued
  <2> QED BY <2>2, <2>3 DEF TurnInv
<1>7. CASE GetValue(c)
  <2>1. Taken(c)
    BY <1>1, <1>7 DEF GetValue
  <2>2. /\ cpc'[c] = "idle" /\ received'[c] = pushes
        /\ UNCHANGED <<last, queued, wpc, run, m_bin_sem_, runs, pushes, shared, terminated>>
    BY <1>7, <2>1 DEF GetValue, Taken, Return, TypeOK, Broken, result, task, worker, counts, flags
  <2>3. Settled(c)'
    BY <2>1, <2>2 DEF Taken, Settled, TurnInv, NobodyActive, Active, NoneQueued, Joining
  <2> QED BY <2>2, <2>3 DEF TurnInv
<1>8. CASE JoinAllow(c)
  <2>1. Settled(c)
    BY <1>1, <1>8 DEF JoinAllow, ClientGoto
  <2>2. /\ cpc'[c] = "idle" /\ pushes' = pushes + 1 /\ last'[c] = pushes + 1
        /\ queued' = [queued EXCEPT ![pool[c]] = @ + 1]
        /\ UNCHANGED <<received, wpc, run, m_bin_sem_, runs, shared, terminated>>
    BY <1>8 DEF JoinAllow, ClientGoto, TypeOK, worker
  <2>3. OneQueued'
    BY <1>8, <2>1, <2>2 DEF Settled, NoneQueued, OneQueued, TypeOK, JoinAllow, ClientGoto
  <2>4. Queued(c)'
    BY <2>1, <2>2, <2>3 DEF Settled, Queued, TurnInv, NobodyActive, Active, Asking, TypeOK
  <2> QED BY <2>2, <2>4 DEF TurnInv
<1>9. ~GetValue(c) => UNCHANGED received
  BY DEF Begin, ClientStep, JoinCall, GetCall, TryGet, TimedCall, ResultCall, JoinOwner, JoinFull,
         JoinReset, JoinAllow, GetRecall, GetMark, GetAllowed, GetDisallow, GetAcquire,
         TimedAcquire, TimedOut, GetFuture, deliveries
<1>10. GetValue(c) => received'[c] = last[c]
  BY <1>1 DEF GetValue, Taken, Return, TypeOK, Broken, TurnInv
<1> QED BY <1>2, <1>3, <1>4, <1>5, <1>6, <1>7, <1>8, <1>9, <1>10 DEF Begin, ClientStep

(* the workers' steps: the run of the last join goes from the queue to the promise *)
LEMMA TurnWorker ==
  ASSUME ResultAssumption, NEW c \in Clients, OneAsker(c), OnceInv, TurnInv(c),
         NEW w \in Workers, WorkerStep(w)
  PROVE  TurnInv(c)' /\ UNCHANGED received
<1> USE DEF OnceInv
<1>1. UNCHANGED <<received, last, pushes, cpc, fut, retrieved>>
  BY DEF WorkerStep, TakeTask, Run, CallEnd, SetFresh, SetValue, SetRelease, result, task, worker,
         counts, deliveries, flags
<1>2. wpc[w] \in {"run", "set", "value", "release"} => Running(c, w)
  BY DEF TurnInv, Settled, Queued, Running, Ready, Taking, Taken, NobodyActive, Active
<1>3. CASE TakeTask(w)
  <2>1. /\ wpc' = [wpc EXCEPT ![w] = "run"] /\ run' = [run EXCEPT ![w] = runs + 1]
        /\ runs' = runs + 1 /\ queued' = [queued EXCEPT ![PoolOf[w]] = @ - 1]
        /\ UNCHANGED <<m_bin_sem_, shared, terminated>>
    BY <1>3 DEF TakeTask, WorkerGoto, result, flags
  <2>2. PoolOf[w] \in Pools /\ queued[PoolOf[w]] > 0
    BY <1>3 DEF TakeTask, ResultAssumption
  <2>3. Queued(c)
    BY <2>2 DEF TurnInv, Settled, Queued, Running, Ready, Taking, Taken, NoneQueued
  <2>4. NoneQueued'
    BY <2>1, <2>2, <2>3 DEF Queued, OneQueued, NoneQueued, TypeOK
  <2>5. Running(c, w)'
    BY <1>1, <2>1, <2>3, <2>4 DEF Queued, Running, NobodyActive, Active, TypeOK
  <2> QED BY <1>1, <2>1, <2>5 DEF TurnInv
<1>4. CASE Run(w)
  <2>1. /\ wpc' = [wpc EXCEPT ![w] = "set"] /\ wpc[w] = "run"
        /\ UNCHANGED <<m_bin_sem_, shared, terminated, runs, run, queued>>
    BY <1>4 DEF Run, WorkerGoto, result, flags, counts, task
  <2>2. Running(c, w)'
    BY <1>1, <1>2, <2>1 DEF Running, Active, NoneQueued, TypeOK
  <2> QED BY <1>1, <2>1, <2>2 DEF TurnInv
<1>5. CASE SetFresh(w)
  <2>1. /\ wpc' = [wpc EXCEPT ![w] = "value"] /\ wpc[w] = "set"
        /\ UNCHANGED <<m_bin_sem_, terminated, runs, run, queued>>
    BY <1>5 DEF SetFresh, WorkerGoto, flags, counts, task
  <2>2. Len(shared') = Len(shared) + 1 /\ shared'[Len(shared) + 1] = Unset
    BY <1>5, SetIs
  <2>3. Len(shared) + 1 \notin retrieved
    BY DEF TypeOK
  <2>4. Running(c, w)'
    BY <1>1, <1>2, <2>1, <2>2, <2>3 DEF Running, Active, NoneQueued, Fresh, TypeOK
  <2> QED BY <1>1, <2>1, <2>4 DEF TurnInv
<1>6. CASE SetValue(w)
  <2>1. Running(c, w) /\ wpc[w] = "value"
    BY <1>2, <1>6 DEF SetValue, WorkerGoto
  <2>2. shared[Len(shared)] = Unset
    BY <2>1 DEF Running
  <2>3. /\ wpc' = [wpc EXCEPT ![w] = "release"]
        /\ UNCHANGED <<m_bin_sem_, terminated, runs, run, queued>>
    BY <1>6, <2>2 DEF SetValue, WorkerGoto, flags, counts, task
  <2>4. shared' = [shared EXCEPT ![Len(shared)] = run[w]]
    BY <1>6, <2>2 DEF SetValue
  <2>5. Len(shared') = Len(shared) /\ shared'[Len(shared)] = run[w]
    BY <2>4 DEF TypeOK
  <2>6. Running(c, w)'
    BY <1>1, <2>1, <2>3, <2>5 DEF Running, Active, NoneQueued, Fresh, Valued, TypeOK
  <2> QED BY <1>1, <2>3, <2>6 DEF TurnInv
<1>7. CASE SetRelease(w)
  <2>1. Running(c, w) /\ wpc[w] = "release"
    BY <1>2, <1>7 DEF SetRelease, WorkerGoto
  <2>2. /\ wpc' = [wpc EXCEPT ![w] = "unset_running"] /\ m_bin_sem_' = 1
        /\ UNCHANGED <<shared, terminated, runs, run, queued>>
    BY <1>7, <2>1 DEF SetRelease, Running, WorkerGoto, counts, task
  <2>3. Ready(c)'
    BY <1>1, <2>1, <2>2 DEF Running, Ready, NobodyActive, Active, NoneQueued, Fresh, Valued, TypeOK
  <2> QED BY <1>1, <2>2, <2>3 DEF TurnInv
<1>8. CASE CallEnd(w)
  <2>1. /\ \A v \in Workers : Active(v)' <=> Active(v)
        /\ \A v \in Workers : Active(v) => wpc'[v] = wpc[v]
    BY <1>8 DEF CallEnd, WorkerGoto, Active, TypeOK
  <2>2. UNCHANGED <<m_bin_sem_, shared, terminated, runs, run, queued>>
    BY <1>8 DEF CallEnd, result, flags, counts
  <2>3. /\ (NobodyActive' <=> NobodyActive) /\ (NoneQueued' <=> NoneQueued) /\ (OneQueued' <=> OneQueued)
        /\ (Fresh' <=> Fresh) /\ (Valued' <=> Valued)
    BY <1>1, <2>1, <2>2 DEF NobodyActive, NoneQueued, OneQueued, Fresh, Valued
  <2>4. ASSUME NEW v \in Workers, Running(c, v) PROVE Running(c, v)'
    BY <1>1, <2>1, <2>2, <2>3, <2>4 DEF Running
  <2>5. (Settled(c) => Settled(c)') /\ (Queued(c) => Queued(c)') /\ (Ready(c) => Ready(c)')
    BY <1>1, <2>2, <2>3 DEF Settled, Queued, Ready
  <2>6. (Taking(c) => Taking(c)') /\ (Taken(c) => Taken(c)')
    BY <1>1, <2>2, <2>3 DEF Taking, Taken
  <2> QED BY <1>1, <2>2, <2>4, <2>5, <2>6 DEF TurnInv
<1> QED BY <1>1, <1>3, <1>4, <1>5, <1>6, <1>7, <1>8 DEF WorkerStep

Alone == \E c \in Clients : OneAsker(c)
InTurn == \A c \in Clients : TurnInv(c)

(* a client that is alone with the task and takes each result in turn: where its run is *)
LEMMA TurnInductive ==
  ASSUME ResultAssumption, Alone
  PROVE  ResultSpec => [](OnceInv /\ InTurn)
<1>1. PICK c \in Clients : OneAsker(c)
  BY DEF Alone
<1>2. InTurn <=> TurnInv(c)
  BY <1>1 DEF InTurn, OneAsker
<1>3. InTurn' <=> TurnInv(c)'
  BY <1>1 DEF InTurn, OneAsker
<1>4. ResultInit => InTurn
  BY <1>2 DEF ResultInit, TurnInv, Settled, NoneQueued, NobodyActive, Active, Joining
<1>5. OnceInv /\ InTurn /\ [ResultNext]_resultVars => InTurn'
  <2> SUFFICES ASSUME OnceInv, TurnInv(c), [ResultNext]_resultVars PROVE TurnInv(c)'
    BY <1>2, <1>3
  <2>1. ASSUME UNCHANGED resultVars PROVE TurnInv(c)'
    BY <2>1 DEF resultVars, result, task, worker, counts, deliveries, flags, TurnInv, Settled, Queued,
       Running, Ready, Taking, Taken, NoneQueued, OneQueued, NobodyActive, Active, Fresh, Valued
  <2> QED BY <1>1, <2>1, TurnClient, TurnWorker DEF ResultNext, ResultAtRest, OneAsker
<1> QED BY <1>4, <1>5, OnceInductive, PTL DEF ResultSpec

(* A client that joins the task, takes the result and joins again gets the result of its own
   join each time, never that of an earlier run, with any number of pools and workers. *)
THEOREM ResultsInTurn ==
  ASSUME ResultAssumption, Alone
  PROVE  ResultSpec => OwnResult
<1>1. OnceInv /\ InTurn /\ [ResultNext]_resultVars
        => [\A c \in Clients : received'[c] # received[c] => received'[c] = last[c]]_resultVars
  BY TurnClient, TurnWorker DEF ResultNext, ResultAtRest, OneAsker, Alone, InTurn
<1> QED BY <1>1, TurnInductive, PTL DEF ResultSpec, OwnResult

(* For such a client no call of result(), join or call() ends the program: each future is taken
   once and each promise set once (the noexcept functions of xresult.cpp). *)
THEOREM NeverTerminated ==
  ASSUME ResultAssumption, Alone
  PROVE  ResultSpec => []NotTerminated
<1>1. InTurn => NotTerminated
  BY DEF InTurn, Alone, TurnInv, NotTerminated
<1> QED BY <1>1, TurnInductive, PTL
=============================================================================
