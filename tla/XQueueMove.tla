----------------------------- MODULE XQueueMove -----------------------------
(***************************************************************************)
(* Construction, move, swap and destruction of lock-free queues            *)
(* (xconcurrentqueueabstract.hpp).  Nothing else may run meanwhile; but    *)
(* threads and tokens outlive the queue they first used: their producers   *)
(* and the hash tables that lead to them change hands.                     *)
(*                                                                         *)
(* The first hash table is a part of the queue object, and the later ones  *)
(* end in it: whoever gets the tables of another queue has to end them in  *)
(* its own part.                                                           *)
(***************************************************************************)
EXTENDS Integers, FiniteSetsExt

CONSTANTS
  Queues,       \* queue objects
  MaxTables,    \* bound: hash tables ever allocated
  MaxMembers,   \* bound: producers ever created
  MaxMoves      \* bound: constructions, moves and swaps

VARIABLES
  alive,        \* the queues that exist
  tail,         \* by queue, its producers: the list from producerListTail
  head,         \* by queue, implicitProducerHash
  prev,         \* by table
  entries,      \* by table, the producers it leads to
  parent,       \* by producer
  tokens,       \* producers that a token owns
  freed,        \* tables whose memory has been freed
  moves

vars == <<alive, tail, head, prev, entries, parent, tokens, freed, moves>>

None == <<>>
Initial(q) == <<"initialImplicitProducerHash", q>>
Allocated == {<<"allocated", i>> : i \in 1..MaxTables}
Tables == {Initial(q) : q \in Queues} \cup Allocated
Members == 1..MaxMembers

Init ==
  /\ alive = {} /\ tail = [q \in Queues |-> {}]
  /\ head = [q \in Queues |-> Initial(q)] /\ prev = [h \in Tables |-> None] /\ entries = [h \in Tables |-> {}]
  /\ parent = [p \in Members |-> None] /\ tokens = {} /\ freed = {} /\ moves = 0

(* the tables from h on: no more than there are *)
Chain(h) ==
  LET at[n \in 0..MaxTables + 1] == IF n = 0 THEN h ELSE IF at[n - 1] = None THEN None ELSE prev[at[n - 1]]
  IN  {at[n] : n \in 0..MaxTables + 1} \ {None}

-----------------------------------------------------------------------------
(* populate_initial_implicit_producer_hash *)
Construct(q) ==
  /\ q \notin alive /\ alive' = alive \cup {q}
  /\ moves < MaxMoves /\ moves' = moves + 1
  /\ head' = [head EXCEPT ![q] = Initial(q)] /\ prev' = [prev EXCEPT ![Initial(q)] = None]
  /\ entries' = [entries EXCEPT ![Initial(q)] = {}] /\ tail' = [tail EXCEPT ![q] = {}]
  /\ UNCHANGED <<parent, tokens, freed>>

(* use of a queue: a producer of a token, one of a thread, a larger table *)
AddExplicit(q, p) ==
  /\ q \in alive /\ parent[p] = None /\ (\A r \in 1..(p - 1) : parent[r] # None)
  /\ tail' = [tail EXCEPT ![q] = @ \cup {p}] /\ parent' = [parent EXCEPT ![p] = q]
  /\ tokens' = tokens \cup {p}
  /\ UNCHANGED <<alive, head, prev, entries, freed, moves>>

AddImplicit(q, p) ==
  /\ q \in alive /\ parent[p] = None /\ (\A r \in 1..(p - 1) : parent[r] # None)
  /\ tail' = [tail EXCEPT ![q] = @ \cup {p}] /\ parent' = [parent EXCEPT ![p] = q]
  /\ entries' = [entries EXCEPT ![head[q]] = @ \cup {p}]
  /\ UNCHANGED <<alive, head, prev, tokens, freed, moves>>

Grow(q) ==
  /\ q \in alive
  /\ \E i \in 1..MaxTables :
       LET h == <<"allocated", i>> IN
         /\ \A j \in 1..MaxTables : j < i <=> (<<"allocated", j>> \in freed \/ prev[<<"allocated", j>>] # None)
         /\ prev' = [prev EXCEPT ![h] = head[q]] /\ head' = [head EXCEPT ![q] = h]
  /\ UNCHANGED <<alive, tail, entries, parent, tokens, freed, moves>>

-----------------------------------------------------------------------------
(* mutant: an allocated table still ends in the part of the other queue *)
PrevKept(q, r) == prev

(* the tables that were r's end in q from now on, and the other way round *)
PrevFixed(q, r) ==
  [h \in Tables |->
     CASE h \in Chain(head[r]) /\ prev[h] = Initial(r) -> Initial(q)
       [] h \in Chain(head[q]) /\ prev[h] = Initial(q) -> Initial(r)
       [] OTHER -> prev[h]]

(* swap_implicit_producer_hashes *)
SwapHashes(q, r) ==
  /\ entries' = [entries EXCEPT ![Initial(q)] = entries[Initial(r)], ![Initial(r)] = entries[Initial(q)]]
  /\ head' = [head EXCEPT ![q] = IF head[r] = Initial(r) THEN Initial(q) ELSE head[r],
                          ![r] = IF head[q] = Initial(q) THEN Initial(r) ELSE head[q]]
  /\ prev' = PrevFixed(q, r)

(* reownProducers of both *)
Reowned(q, r) ==
  [p \in Members |-> CASE p \in tail[r] -> q [] p \in tail[q] -> r [] OTHER -> parent[p]]

(* swap, move assignment: nothing when both are the same queue *)
Swap(q, r) ==
  /\ {q, r} \subseteq alive /\ q # r
  /\ moves < MaxMoves /\ moves' = moves + 1
  /\ tail' = [tail EXCEPT ![q] = tail[r], ![r] = tail[q]]
  /\ SwapHashes(q, r) /\ parent' = Reowned(q, r)
  /\ UNCHANGED <<alive, tokens, freed>>

(* the move constructor: q begins with an empty hash and leaves it to r *)
MoveConstruct(q, r) ==
  /\ q \notin alive /\ r \in alive /\ alive' = alive \cup {q}
  /\ moves < MaxMoves /\ moves' = moves + 1
  /\ tail' = [tail EXCEPT ![q] = tail[r], ![r] = {}]
  /\ SwapHashes(q, r) /\ parent' = [p \in Members |-> IF p \in tail[r] THEN q ELSE parent[p]]
  /\ UNCHANGED <<tokens, freed>>

(* the destructor: producers, whose tokens become invalid, and the tables but the last *)
Destroy(q) ==
  /\ q \in alive /\ alive' = alive \ {q}
  /\ tokens' = tokens \ tail[q] /\ tail' = [tail EXCEPT ![q] = {}]
  /\ freed' = freed \cup {h \in Chain(head[q]) : prev[h] # None}
  /\ head' = [head EXCEPT ![q] = Initial(q)] /\ entries' = [entries EXCEPT ![Initial(q)] = {}]
  /\ UNCHANGED <<prev, parent, moves>>

(* implicit_producer_thread_exited, in the tables of the parent *)
ThreadExits(p) ==
  /\ \E q \in alive : p \in tail[q]
  /\ entries' = [h \in Tables |-> IF h \in Chain(head[parent[p]]) THEN entries[h] \ {p} ELSE entries[h]]
  /\ UNCHANGED <<alive, tail, head, prev, parent, tokens, freed, moves>>

Next ==
  \/ \E q \in Queues : Construct(q) \/ Grow(q) \/ Destroy(q)
  \/ \E q \in Queues, p \in Members : AddExplicit(q, p) \/ AddImplicit(q, p)
  \/ \E q, r \in Queues : Swap(q, r) \/ MoveConstruct(q, r)
  \/ \E p \in Members \ tokens : ThreadExits(p)

Spec == Init /\ [][Next]_vars

-----------------------------------------------------------------------------
(* Properties *)

(* Whatever moves there were, a producer belongs to the queue that lists it and is found in the
   tables of that queue only, a valid token owns one that exists, and no queue gets at a table
   that has been freed or is a part of another queue. *)
TablesMoveAlong ==
  /\ tokens \subseteq UNION {tail[q] : q \in alive}
  /\ \A q \in alive : \A p \in tail[q] : parent[p] = q
  /\ \A q \in alive : \A h \in Chain(head[q]) :
       /\ h \notin freed
       /\ prev[h] = None <=> h = Initial(q)
       /\ entries[h] \subseteq tail[q]
=============================================================================
