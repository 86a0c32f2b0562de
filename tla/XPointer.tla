------------------------------ MODULE XPointer ------------------------------
(***************************************************************************)
(* The weak pointers to XObjects, XPointer (XTools/xpointer.hpp and .cpp). *)
(* A block of counters, ExternalRefCountData, is shared by the object and  *)
(* all XPointers to it.  It is made when the first XPointer is, which      *)
(* several threads may do at once; it is freed by whichever of the object  *)
(* and the XPointers is last.  m_weak_ref counts all of them, and          *)
(* m_strong_ref is -1 until the object's destructor makes it 0.            *)
(*                                                                         *)
(* Each thread has one XPointer of its own.  The object is destroyed once, *)
(* by a thread that does nothing else, and never while somebody makes an   *)
(* XPointer from a plain pointer to it: nobody may hold such a pointer     *)
(* then.                                                                   *)
(***************************************************************************)
EXTENDS Integers, FiniteSets

CONSTANTS
  Threads,
  MaxCalls         \* bound: operations on XPointers, of all threads

VARIABLES
  object,             \* how far ~XObject is
  m_sharedRefcount_,  \* the XObjectPrivate's pointer to the counters, 0 for none
  m_weak_ref, m_strong_ref, deletes,   \* of each block of counters
  pointer,            \* the XPointer of each thread: m_ptr_ set, and m_d_ (0 for none)
  temporary,          \* the XPointer that an operation makes and destroys
  pc, calls

vars == <<object, m_sharedRefcount_, m_weak_ref, m_strong_ref, deletes, pointer, temporary, pc, calls>>

Data == 1..MaxCalls
Empty == [m_ptr_ |-> FALSE, m_d_ |-> 0]
To(d) == [m_ptr_ |-> TRUE, m_d_ |-> d]

Init ==
  /\ object = "alive" /\ m_sharedRefcount_ = 0
  /\ m_weak_ref = [d \in Data |-> 0] /\ m_strong_ref = [d \in Data |-> 0] /\ deletes = [d \in Data |-> 0]
  /\ pointer = [t \in Threads |-> Empty] /\ temporary = [t \in Threads |-> Empty]
  /\ pc = [t \in Threads |-> "idle"] /\ calls = 0

Goto(t, label) == pc' = [pc EXCEPT ![t] = label]
Call(t, label) == pc[t] = "idle" /\ calls < MaxCalls /\ calls' = calls + 1 /\ Goto(t, label)
counters == <<m_weak_ref, m_strong_ref, deletes>>

-----------------------------------------------------------------------------
(* operator= and assign from a plain pointer, and the constructor; a null pointer
   changes nothing.  The data of a call is the block it would make. *)
AssignCall(t) ==
  /\ object = "alive" /\ Call(t, "load")
  /\ temporary' = [temporary EXCEPT ![t] = To(calls + 1)]
  /\ UNCHANGED <<object, m_sharedRefcount_, counters, pointer>>

(* getAndRef: the counters are there already, or they must be made *)
Load(t) ==
  /\ pc[t] = "load"
  /\ IF m_sharedRefcount_ # 0
     THEN temporary' = [temporary EXCEPT ![t] = To(m_sharedRefcount_)] /\ Goto(t, "ref")
     ELSE Goto(t, "make") /\ UNCHANGED temporary
  /\ UNCHANGED <<object, m_sharedRefcount_, counters, pointer, calls>>

Make(t) ==
  /\ pc[t] = "make" /\ Goto(t, "publish")
  /\ m_strong_ref' = [m_strong_ref EXCEPT ![temporary[t].m_d_] = -1]
  /\ m_weak_ref' = [m_weak_ref EXCEPT ![temporary[t].m_d_] = 2]
  /\ UNCHANGED <<object, m_sharedRefcount_, deletes, pointer, temporary, calls>>

(* bad_alloc: the XPointer has no counters, and counts as null *)
MakeFails(t) ==
  /\ pc[t] = "make" /\ Goto(t, "swap")
  /\ temporary' = [temporary EXCEPT ![t] = To(0)]
  /\ UNCHANGED <<object, m_sharedRefcount_, counters, pointer, calls>>

Publish(t) ==
  /\ pc[t] = "publish" /\ m_sharedRefcount_ = 0
  /\ m_sharedRefcount_' = temporary[t].m_d_ /\ Goto(t, "swap")
  /\ UNCHANGED <<object, counters, pointer, temporary, calls>>

(* mutant: ... and the other one used without a share in it *)
PublishLostUnreferred(t) ==
  /\ pc[t] = "publish" /\ m_sharedRefcount_ # 0
  /\ deletes' = [deletes EXCEPT ![temporary[t].m_d_] = @ + 1]
  /\ temporary' = [temporary EXCEPT ![t] = To(m_sharedRefcount_)] /\ Goto(t, "swap")
  /\ UNCHANGED <<object, m_sharedRefcount_, m_weak_ref, m_strong_ref, pointer, calls>>

(* somebody else was first: the block is deleted, and the other one used *)
PublishLost(t) ==
  /\ pc[t] = "publish" /\ m_sharedRefcount_ # 0
  /\ deletes' = [deletes EXCEPT ![temporary[t].m_d_] = @ + 1]
  /\ temporary' = [temporary EXCEPT ![t] = To(m_sharedRefcount_)] /\ Goto(t, "ref")
  /\ UNCHANGED <<object, m_sharedRefcount_, m_weak_ref, m_strong_ref, pointer, calls>>

Ref(t) ==
  /\ pc[t] = "ref" /\ Goto(t, "swap")
  /\ m_weak_ref' = [m_weak_ref EXCEPT ![temporary[t].m_d_] = @ + 1]
  /\ UNCHANGED <<object, m_sharedRefcount_, m_strong_ref, deletes, pointer, temporary, calls>>

(* operator=(const XPointer&), from the XPointer of a thread that may not change it meanwhile *)
Copy(t, u) ==
  LET d == pointer[u].m_d_ IN
  /\ t # u /\ pc[u] = "idle" /\ Call(t, "swap")
  /\ temporary' = [temporary EXCEPT ![t] = pointer[u]]
  /\ m_weak_ref' = IF d = 0 THEN m_weak_ref ELSE [m_weak_ref EXCEPT ![d] = @ + 1]
  /\ UNCHANGED <<object, m_sharedRefcount_, m_strong_ref, deletes, pointer>>

(* operator=(XPointer&&) *)
Move(t, u) ==
  /\ t # u /\ pc[u] = "idle" /\ Call(t, "swap")
  /\ temporary' = [temporary EXCEPT ![t] = pointer[u]]
  /\ pointer' = [pointer EXCEPT ![u] = Empty]
  /\ UNCHANGED <<object, m_sharedRefcount_, counters>>

(* the end of a thread's XPointer *)
Leave(t) ==
  /\ Call(t, "deref")
  /\ temporary' = [temporary EXCEPT ![t] = pointer[t]] /\ pointer' = [pointer EXCEPT ![t] = Empty]
  /\ UNCHANGED <<object, m_sharedRefcount_, counters>>

Swap(t) ==
  /\ pc[t] = "swap" /\ Goto(t, "deref")
  /\ pointer' = [pointer EXCEPT ![t] = temporary[t]] /\ temporary' = [temporary EXCEPT ![t] = pointer[t]]
  /\ UNCHANGED <<object, m_sharedRefcount_, counters, calls>>

(* ~XPointer; deref returns whether the count is still positive *)
Deref(t) ==
  LET d == temporary[t].m_d_ IN
  /\ pc[t] = "deref"
  /\ IF d = 0
     THEN Goto(t, "idle") /\ UNCHANGED m_weak_ref
     ELSE /\ m_weak_ref' = [m_weak_ref EXCEPT ![d] = @ - 1]
          /\ Goto(t, IF m_weak_ref[d] = 1 THEN "delete" ELSE "idle")
  /\ temporary' = [temporary EXCEPT ![t] = IF d # 0 /\ m_weak_ref[d] = 1 THEN @ ELSE Empty]
  /\ UNCHANGED <<object, m_sharedRefcount_, m_strong_ref, deletes, pointer, calls>>

Delete(t) ==
  /\ pc[t] = "delete" /\ Goto(t, "idle")
  /\ deletes' = [deletes EXCEPT ![temporary[t].m_d_] = @ + 1]
  /\ temporary' = [temporary EXCEPT ![t] = Empty]
  /\ UNCHANGED <<object, m_sharedRefcount_, m_weak_ref, m_strong_ref, pointer, calls>>

-----------------------------------------------------------------------------
(* ~XObject, the part about the counters *)
Destroy ==
  /\ object = "alive" /\ \A t \in Threads : pc[t] \notin {"load", "make", "publish", "ref"}
  /\ object' = IF m_sharedRefcount_ = 0 THEN "gone" ELSE "expire"
  /\ UNCHANGED <<m_sharedRefcount_, counters, pointer, temporary, pc, calls>>

Expire ==
  /\ object = "expire" /\ object' = "release"
  /\ m_strong_ref' = [m_strong_ref EXCEPT ![m_sharedRefcount_] = 0]
  /\ UNCHANGED <<m_sharedRefcount_, m_weak_ref, deletes, pointer, temporary, pc, calls>>

ReleaseShare ==
  /\ object = "release"
  /\ m_weak_ref' = [m_weak_ref EXCEPT ![m_sharedRefcount_] = @ - 1]
  /\ object' = IF m_weak_ref[m_sharedRefcount_] = 1 THEN "delete" ELSE "gone"
  /\ UNCHANGED <<m_sharedRefcount_, m_strong_ref, deletes, pointer, temporary, pc, calls>>

DeleteShare ==
  /\ object = "delete" /\ object' = "gone"
  /\ deletes' = [deletes EXCEPT ![m_sharedRefcount_] = @ + 1]
  /\ UNCHANGED <<m_sharedRefcount_, m_weak_ref, m_strong_ref, pointer, temporary, pc, calls>>

Step(t) ==
  \/ AssignCall(t) \/ Load(t) \/ Make(t) \/ MakeFails(t) \/ Publish(t) \/ PublishLost(t) \/ Ref(t)
  \/ Leave(t) \/ Swap(t) \/ Deref(t) \/ Delete(t)
  \/ \E u \in Threads : Copy(t, u) \/ Move(t, u)

Next == (\E t \in Threads : Step(t)) \/ Destroy \/ Expire \/ ReleaseShare \/ DeleteShare

Spec == Init /\ [][Next]_vars

-----------------------------------------------------------------------------
(* isNull and get *)
IsNull(p) == p.m_d_ = 0 \/ ~p.m_ptr_ \/ m_strong_ref[p.m_d_] = 0

Temporaries(d) ==
  {t \in Threads : temporary[t].m_d_ = d /\ pc[t] \in {"swap", "deref"}}

(* who has a share in a block of counters: XPointers, and the object *)
Shares(d) ==
  Cardinality({t \in Threads : pointer[t].m_d_ = d}) + Cardinality(Temporaries(d))
    + IF m_sharedRefcount_ = d /\ object \in {"alive", "expire", "release"} THEN 1 ELSE 0

AboutToDelete(d) ==
  \/ m_sharedRefcount_ = d /\ object = "delete"
  \/ \E t \in Threads : temporary[t].m_d_ = d /\ pc[t] = "delete"

(* The counters that an object and its weak pointers share count exactly those that are left,
   whoever was first to make them; the last one deletes them, once, and nobody else does
   (getAndRef, ~XPointer, ~XObject). *)
FreedByTheLast ==
  /\ \A t \in Threads : pointer[t].m_d_ \in {0, m_sharedRefcount_}
  /\ \A d \in {m_sharedRefcount_} \ {0} :
       /\ m_weak_ref[d] = Shares(d)
       /\ deletes[d] = IF Shares(d) = 0 /\ ~AboutToDelete(d) THEN 1 ELSE 0

(* No weak pointer gives the object once its destructor has begun to give it up (isNull, get). *)
NullWhenGone == object \in {"release", "delete", "gone"} => \A t \in Threads : IsNull(pointer[t])

WeakPointersSound == FreedByTheLast /\ NullWhenGone

=============================================================================
