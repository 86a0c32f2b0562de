----------------------------- MODULE XOwnership -----------------------------
(***************************************************************************)
(* Four components whose promises say who owns what, side by side: the     *)
(* blocks of a queue (XBlockPool, extended), the counters of weak pointers *)
(* (XPointer), objects made in two phases (XMemory), and the producers and *)
(* tables of queues that are moved (XQueueMove).  They do not interact;    *)
(* what is renamed here keeps their names apart.                           *)
(***************************************************************************)
EXTENDS XBlockPool

CONSTANTS
  Threads,
  MaxCalls,                         \* of XPointer
  Objects, RetryCount, LogLimit,    \* of XMemory
  MaxCreations,                     \* its MaxCalls
  Queues, MaxTables, MaxMembers, MaxMoves   \* of XQueueMove

VARIABLES
  object, m_sharedRefcount_, m_weak_ref, m_strong_ref, deletes, pointer, temporary, pc, calls,
  memory, lost, once, data, creating, kept, children, answer, errorLog, crashed, creations,
  queuesAlive, tail, hashHead, prev, entries, parent, tokens, freed, moves

weakVars == <<object, m_sharedRefcount_, m_weak_ref, m_strong_ref, deletes, pointer, temporary, pc, calls>>
memoryVars == <<memory, lost, once, data, creating, kept, children, answer, errorLog, crashed, creations>>
queueVars == <<queuesAlive, tail, hashHead, prev, entries, parent, tokens, freed, moves>>

Weak == INSTANCE XPointer
Memory == INSTANCE XMemory WITH owned <- kept, calls <- creations, MaxCalls <- MaxCreations
Queue == INSTANCE XQueueMove WITH alive <- queuesAlive, head <- hashHead

-----------------------------------------------------------------------------
(* The counters of weak pointers are freed once, by the last who uses them; no weak pointer
   gives a destroyed object. *)
WeakPointersSound == Weak!WeakPointersSound
(* Only whole objects are handed out, and one singleton. *)
CreatedWholeAndOnce == Memory!CreatedWholeAndOnce
(* Producers and hash tables change hands together when queues are moved and swapped. *)
TablesMoveAlong == Queue!TablesMoveAlong
=============================================================================
