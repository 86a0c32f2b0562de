------------------------------ MODULE XBlockPool ------------------------------
(***************************************************************************)
(* Where the blocks of the lock-free queue come from and go to             *)
(* (xconcurrentqueueabstract.hpp): the initial pool, the lock-free free    *)
(* list, the allocator.                                                    *)
(*                                                                         *)
(* The free list is a stack whose nodes count their references: a thread   *)
(* takes a reference before it reads the next pointer of a node, and a     *)
(* node that is to be listed while others still hold references is listed  *)
(* by the one that lets go of the last.  Blocks that were allocated are    *)
(* not listed but destroyed (RECYCLE_ALLOCATED_BLOCKS is false).           *)
(***************************************************************************)
EXTENDS Integers, FiniteSetsExt

CONSTANTS
  Users,         \* threads
  PoolSize,      \* blocks of the initial pool
  MaxAllocated,  \* blocks there is memory for
  MaxRequests    \* requisitions of all threads

VARIABLES
  initialBlockPoolSize,   \* PoolSize, or 0 when the pool could not be allocated
  initialBlockPoolIndex,
  freeListHead,
  freeListRefs,   \* the count of each block of the pool
  shouldBeOn,     \* its bit SHOULD_BE_ON_FREELIST
  freeListNext,
  user,           \* what each thread is doing
  owned,          \* the blocks each thread has
  allocated,      \* dynamically allocated blocks that exist
  requests

freeList == <<freeListHead, freeListRefs, shouldBeOn, freeListNext>>
initialPool == <<initialBlockPoolSize, initialBlockPoolIndex>>
vars == <<initialPool, freeList, user, owned, allocated, requests>>

None == 0
PoolBlocks == 1..PoolSize
Allocatable == (PoolSize + 1)..(PoolSize + MaxAllocated)
Idle == [pc |-> "idle"]

(* populate_initial_block_list *)
Init ==
  /\ initialBlockPoolSize \in {0, PoolSize} /\ initialBlockPoolIndex = 0
  /\ freeListHead = None
  /\ freeListRefs = [b \in PoolBlocks |-> 0] /\ shouldBeOn = [b \in PoolBlocks |-> FALSE]
  /\ freeListNext = [b \in PoolBlocks |-> None]
  /\ user = [t \in Users |-> Idle] /\ owned = [t \in Users |-> {}]
  /\ allocated = {} /\ requests = 0

At(t, pc) == user[t].pc = pc
To(t, pc) == user' = [user EXCEPT ![t].pc = pc]
Become(t, state) == user' = [user EXCEPT ![t] = state]
Own(t, b) == owned' = [owned EXCEPT ![t] = @ \cup {b}]

-----------------------------------------------------------------------------
(* requisition_block: the pool, the free list, the allocator *)
Requisition(t) ==
  /\ At(t, "idle") /\ requests < MaxRequests /\ requests' = requests + 1
  /\ Become(t, [pc |-> IF initialBlockPoolIndex >= initialBlockPoolSize THEN "try_get" ELSE "pool"])
  /\ UNCHANGED <<initialPool, freeList, owned, allocated>>

(* try_get_block_from_initial_pool: others may have raised the index meanwhile *)
TakeFromPool(t) ==
  /\ At(t, "pool")
  /\ initialBlockPoolIndex' = initialBlockPoolIndex + 1
  /\ IF initialBlockPoolIndex < initialBlockPoolSize
     THEN Own(t, initialBlockPoolIndex + 1) /\ Become(t, Idle)
     ELSE To(t, "try_get") /\ UNCHANGED owned
  /\ UNCHANGED <<initialBlockPoolSize, freeList, allocated, requests>>

(* The search of the free list goes on with a head. *)
Searching(head) == [pc |-> IF head = None THEN "create" ELSE "refs", head |-> head]

LoadHead(t) ==
  /\ At(t, "try_get") /\ Become(t, Searching(freeListHead))
  /\ UNCHANGED <<initialPool, freeList, owned, allocated, requests>>

(* a block without references has left the list: look at the head again *)
LoadRefs(t) ==
  /\ At(t, "refs")
  /\ LET b == user[t].head IN
       IF freeListRefs[b] = 0 THEN To(t, "try_get")
       ELSE Become(t, [pc |-> "ref", head |-> b, refs |-> freeListRefs[b], bit |-> shouldBeOn[b]])
  /\ UNCHANGED <<initialPool, freeList, owned, allocated, requests>>

(* mutant: add without comparing *)
AddRefUnseen(t) ==
  /\ At(t, "ref")
  /\ freeListRefs' = [freeListRefs EXCEPT ![user[t].head] = @ + 1] /\ To(t, "next")
  /\ UNCHANGED <<initialPool, freeListHead, shouldBeOn, freeListNext, owned, allocated, requests>>

AddRef(t) ==
  /\ At(t, "ref")
  /\ LET b == user[t].head IN
       IF freeListRefs[b] = user[t].refs /\ shouldBeOn[b] = user[t].bit
       THEN freeListRefs' = [freeListRefs EXCEPT ![b] = @ + 1] /\ To(t, "next")
       ELSE To(t, "try_get") /\ UNCHANGED freeListRefs
  /\ UNCHANGED <<initialPool, freeListHead, shouldBeOn, freeListNext, owned, allocated, requests>>

LoadNext(t) ==
  /\ At(t, "next")
  /\ LET b == user[t].head IN Become(t, [pc |-> "pop", head |-> b, next |-> freeListNext[b]])
  /\ UNCHANGED <<initialPool, freeList, owned, allocated, requests>>

Pop(t) ==
  /\ At(t, "pop")
  /\ LET b == user[t].head IN
       IF freeListHead = b
       THEN freeListHead' = user[t].next /\ Become(t, [pc |-> "popped", head |-> b])
       ELSE Become(t, [pc |-> "drop", prevHead |-> b, head |-> freeListHead]) /\ UNCHANGED freeListHead
  /\ UNCHANGED <<initialPool, freeListRefs, shouldBeOn, freeListNext, owned, allocated, requests>>

(* two references: its own and the list's *)
Popped(t) ==
  /\ At(t, "popped")
  /\ freeListRefs' = [freeListRefs EXCEPT ![user[t].head] = @ - 2]
  /\ Own(t, user[t].head) /\ Become(t, Idle)
  /\ UNCHANGED <<initialPool, freeListHead, shouldBeOn, freeListNext, allocated, requests>>

(* the head has changed: let go of the reference, and list the block if it was the last *)
Drop(t) ==
  /\ At(t, "drop")
  /\ LET b == user[t].prevHead IN
       /\ freeListRefs' = [freeListRefs EXCEPT ![b] = @ - 1]
       /\ IF freeListRefs[b] = 1 /\ shouldBeOn[b]
          THEN Become(t, [pc |-> "add", node |-> b, resume |-> Searching(user[t].head)])
          ELSE Become(t, Searching(user[t].head))
  /\ UNCHANGED <<initialPool, freeListHead, shouldBeOn, freeListNext, owned, allocated, requests>>

Create(t) ==
  /\ At(t, "create")
  /\ \E b \in Allocatable \ allocated : allocated' = allocated \cup {b} /\ Own(t, b)
  /\ Become(t, Idle)
  /\ UNCHANGED <<initialPool, freeList, requests>>

(* CannotAlloc, or no memory *)
CreateFails(t) ==
  /\ At(t, "create") /\ Become(t, Idle)
  /\ UNCHANGED <<initialPool, freeList, owned, allocated, requests>>

-----------------------------------------------------------------------------
(* add_block_to_free_list *)
Destroy(t) ==
  /\ At(t, "idle")
  /\ \E b \in owned[t] \cap Allocatable :
       allocated' = allocated \ {b} /\ owned' = [owned EXCEPT ![t] = @ \ {b}]
  /\ UNCHANGED <<initialPool, freeList, user, requests>>

Add(t) ==
  /\ At(t, "idle")
  /\ \E b \in owned[t] \cap PoolBlocks :
       /\ owned' = [owned EXCEPT ![t] = @ \ {b}]
       /\ shouldBeOn' = [shouldBeOn EXCEPT ![b] = TRUE]
       /\ Become(t, IF freeListRefs[b] = 0 THEN [pc |-> "add", node |-> b, resume |-> Idle] ELSE Idle)
  /\ UNCHANGED <<initialPool, freeListHead, freeListRefs, freeListNext, allocated, requests>>

(* add_knowing_refcount_is_zero *)
AddLoad(t) ==
  /\ At(t, "add")
  /\ Become(t, [pc |-> "store", node |-> user[t].node, resume |-> user[t].resume, head |-> freeListHead])
  /\ UNCHANGED <<initialPool, freeList, owned, allocated, requests>>

StoreNext(t) ==
  /\ At(t, "store")
  /\ freeListNext' = [freeListNext EXCEPT ![user[t].node] = user[t].head] /\ To(t, "one")
  /\ UNCHANGED <<initialPool, freeListHead, freeListRefs, shouldBeOn, owned, allocated, requests>>

StoreRefs(t) ==
  /\ At(t, "one")
  /\ freeListRefs' = [freeListRefs EXCEPT ![user[t].node] = 1]
  /\ shouldBeOn' = [shouldBeOn EXCEPT ![user[t].node] = FALSE]
  /\ To(t, "push")
  /\ UNCHANGED <<initialPool, freeListHead, freeListNext, owned, allocated, requests>>

(* add returns, or try_get goes on *)
Added(t) == Become(t, user[t].resume)

Push(t) ==
  /\ At(t, "push")
  /\ IF freeListHead = user[t].head
     THEN freeListHead' = user[t].node /\ Added(t)
     ELSE user' = [user EXCEPT ![t].pc = "undo", ![t].head = freeListHead] /\ UNCHANGED freeListHead
  /\ UNCHANGED <<initialPool, freeListRefs, shouldBeOn, freeListNext, owned, allocated, requests>>

(* the push has failed: it is left to whoever lets go of the last reference *)
Undo(t) ==
  /\ At(t, "undo")
  /\ LET b == user[t].node IN
       /\ freeListRefs' = [freeListRefs EXCEPT ![b] = @ - 1]
       /\ shouldBeOn' = [shouldBeOn EXCEPT ![b] = TRUE]
       /\ IF freeListRefs[b] = 1 /\ ~shouldBeOn[b] THEN To(t, "store") ELSE Added(t)
  /\ UNCHANGED <<initialPool, freeListHead, freeListNext, owned, allocated, requests>>

-----------------------------------------------------------------------------
Step(t) ==
  \/ TakeFromPool(t) \/ LoadHead(t) \/ LoadRefs(t) \/ AddRef(t) \/ LoadNext(t) \/ Pop(t) \/ Popped(t)
  \/ Drop(t) \/ Create(t) \/ CreateFails(t)
  \/ AddLoad(t) \/ StoreNext(t) \/ StoreRefs(t) \/ Push(t) \/ Undo(t)

Finished == requests = MaxRequests /\ (\A t \in Users : At(t, "idle")) /\ UNCHANGED vars

Next == (\E t \in Users : Step(t) \/ Requisition(t) \/ Destroy(t) \/ Add(t)) \/ Finished

Spec == Init /\ [][Next]_vars

-----------------------------------------------------------------------------
(* Properties *)

(* the blocks of the list, from its head: at most as many steps as there are blocks *)
Listed ==
  LET from[n \in 0..PoolSize] == IF n = 0 THEN freeListHead
                                 ELSE IF from[n - 1] = None THEN None ELSE freeListNext[from[n - 1]]
  IN  {from[n] : n \in 0..PoolSize} \ {None}

(* A block belongs to one thread, or it is in the list and to be had: no interleaving of the
   compare-exchanges on the head and on the counts gives it away twice. *)
OneOwner ==
  /\ \A t, u \in Users : t # u => owned[t] \cap owned[u] = {}
  /\ \A t \in Users : owned[t] \cap Listed = {}
  /\ \A t \in Users : At(t, "popped") => ~shouldBeOn[user[t].head]

(* When no thread is in a call every block of the pool that was given out is with a thread or
   in the list: a push that was left to somebody else has been done. *)
NoBlockLost ==
  (\A t \in Users : At(t, "idle")) =>
    \A b \in 1..Min({initialBlockPoolIndex, initialBlockPoolSize}) :
      b \in Listed \/ \E t \in Users : b \in owned[t]

BlocksConserved == OneOwner /\ NoBlockLost
=============================================================================
