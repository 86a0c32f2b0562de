------------------------- MODULE XImplicitProducer -------------------------
(***************************************************************************)
(* The queue of one implicit producer of the lock-free queue               *)
(* (xconcurrentqueueabstract.hpp, ImplicitProducer).                       *)
(*                                                                         *)
(* Unlike an explicit producer it gives its blocks back: a block counts    *)
(* the elements that were moved out of it, and the consumer that takes the *)
(* last one clears the entry of the block in the index and adds the block  *)
(* to the free list.  So blocks leave the index in any order.  A header of *)
(* the index is a ring of pointers to entries; a larger one shares the     *)
(* entries of the one before.                                              *)
(*                                                                         *)
(* The free list is a set here (XBlockPool has its steps).  Memory is       *)
(* sequentially consistent; what a thread does alone is one step.          *)
(***************************************************************************)
EXTENDS XCircularIndex, FiniteSetsExt, SequencesExt, TLC

CONSTANT Blocks      \* all blocks there are; None is not one

None == "none"                   \* the null block
Raw == IndexMod                  \* a slot without an element
InvalidBase == 1                 \* INVALID_BLOCK_BASE

VARIABLES
  tailIndex, headIndex, dequeueOptimisticCount, dequeueOvercommit,
  entries,      \* BlockIndexEntry: the block that starts at key
  headers,      \* BlockIndexHeader: a ring of pointers to entries and its tail
  tailBlock,
  elementsCompletelyDequeued,   \* by block
  elements,     \* by block and slot
  free,         \* the free list of the queue
  mayThrow,     \* has the element a constructor that may throw?
  calls, call,  \* the producer: its calls so far, the one it is in
  deq           \* the dequeue of each consumer

tickets == <<headIndex, dequeueOptimisticCount, dequeueOvercommit>>
index == <<entries, headers>>
blocks == <<elementsCompletelyDequeued, elements>>
producer == <<tailBlock, calls, call>>
vars == <<tailIndex, tickets, index, blocks, free, mayThrow, producer, deq>>

-----------------------------------------------------------------------------
Idle == [pc |-> "idle"]
NoEntry == [key |-> InvalidBase, value |-> None]

(* the first header, if there was memory for it *)
Constructed ==
  /\ tailIndex = 0 /\ tailBlock = None
  /\ \/ /\ entries = [e \in 1..InitialIndexSize |-> NoEntry]
        /\ headers = <<[tail |-> InitialIndexSize - 1, index |-> [s \in 0..(InitialIndexSize - 1) |-> s + 1]]>>
     \/ entries = <<>> /\ headers = <<>>

(* later: the elements before Age were enqueued and dequeued one by one *)
Aged ==
  LET turns == Age \div BlockSize
      Turn(s) == CHOOSE k \in (turns - InitialIndexSize)..(turns - 1) : k % InitialIndexSize = s
  IN  /\ tailIndex = Age /\ tailBlock \in Blocks
      /\ entries = [e \in 1..InitialIndexSize |-> [key |-> Turn(e - 1) * BlockSize, value |-> None]]
      /\ headers = <<[tail |-> (turns - 1) % InitialIndexSize,
                      index |-> [s \in 0..(InitialIndexSize - 1) |-> s + 1]]>>

Init ==
  /\ Constructed \/ Aged
  /\ headIndex = tailIndex /\ dequeueOptimisticCount = tailIndex /\ dequeueOvercommit = 0
  /\ elementsCompletelyDequeued = [b \in Blocks |-> 0]
  /\ elements = [b \in Blocks |-> [s \in BlockSlots |-> Raw]]
  /\ free = Blocks /\ mayThrow \in BOOLEAN
  /\ calls = 0 /\ call = Idle /\ deq = [c \in Consumers |-> Idle]

-----------------------------------------------------------------------------
(* The index.  A header is told by its number; the one in use is the last. *)
InUse == Len(headers)
Capacity(h) == Cardinality(DOMAIN headers[h].index)
EntryAt(h, s) == headers[h].index[s]            \* a pointer into entries
NewTail == (headers[InUse].tail + 1) % Capacity(InUse)

Available(e) == entries[e].key = InvalidBase \/ entries[e].value = None

(* get_block_index_index_for_index, given the tail that was loaded *)
IndexFor(h, tail, i) ==
  (tail + Signed(Sub(BaseOf(i), entries[EntryAt(h, tail)].key)) \div BlockSize) % Capacity(h)

EntryFor(i) == EntryAt(InUse, IndexFor(InUse, headers[InUse].tail, i))

(* new_block_index: the pointers to the old entries, from the oldest on, then new entries *)
(* mutant: from slot 0, as if the ring had never turned *)
PointersFromStart(old, size, s) == IF s < size THEN old.index[s] ELSE Len(entries) + s - size + 1
Pointers(old, size, s) ==
  IF s < size THEN old.index[(old.tail + 1 + s) % size] ELSE Len(entries) + s - size + 1

Grown ==
  LET size == Capacity(InUse) IN
    [tail |-> size - 1, index |-> [s \in 0..(2 * size - 1) |-> Pointers(headers[InUse], size, s)]]

WithTail(tail) == [headers EXCEPT ![InUse].tail = tail]
Rewound == WithTail((headers[InUse].tail - 1) % Capacity(InUse))       \* rewind_block_index_tail

-----------------------------------------------------------------------------
(* The producer.  enqueue is enqueue_bulk for one element, but constructs the element before
   the block is in the index when the constructor may throw. *)
EnqueueCall(n, bulk) ==
  LET base == BaseOf(Sub(tailIndex, 1))
      toCome == Sub(BaseOf(Add(tailIndex, n - 1)), base) \div BlockSize
  IN  /\ call.pc = "idle" /\ calls < MaxCalls /\ calls' = calls + 1
      /\ call' = [pc |-> IF toCome = 0 THEN "construct" ELSE "room", bulk |-> bulk, n |-> n, base |-> base,
                  toCome |-> toCome, startBlock |-> tailBlock, block |-> None, fresh |-> <<>>, gone |-> 0]
      /\ UNCHANGED <<tailIndex, tickets, index, blocks, free, mayThrow, tailBlock, deq>>

NextBase == Add(call.base, BlockSize)

(* the tail could catch up with the head, or the limit would be exceeded *)
Full ==
  \/ ~Less(headIndex, Add(NextBase, BlockSize))
  \/ /\ MaxSubqueueSize # IndexMod - 1
     /\ MaxSubqueueSize = 0 \/ MaxSubqueueSize - BlockSize < Sub(NextBase, headIndex)

NextEntryFree == headers # <<>> /\ Available(EntryAt(InUse, NewTail))

(* insert_block_index_entry: the key first, then the tail that shows it to consumers *)
InsertKey ==
  /\ \/ call.pc = "room" /\ ~Full /\ NextEntryFree
     \/ call.pc = "grown"
  /\ entries' = [entries EXCEPT ![EntryAt(InUse, NewTail)].key = NextBase]
  /\ call' = [call EXCEPT !.pc = "tail"]
  /\ UNCHANGED <<tailIndex, tickets, headers, blocks, free, mayThrow, tailBlock, calls, deq>>

InsertTail ==
  /\ call.pc = "tail"
  /\ headers' = WithTail(NewTail)
  /\ call' = [call EXCEPT !.pc = "block"]
  /\ UNCHANGED <<tailIndex, tickets, entries, blocks, free, mayThrow, tailBlock, calls, deq>>

GrowIndex ==
  /\ call.pc = "room" /\ ~Full /\ headers # <<>> /\ ~NextEntryFree
  /\ headers' = Append(headers, Grown)
  /\ entries' = entries \o [k \in 1..Capacity(InUse) |-> NoEntry]
  /\ call' = [call EXCEPT !.pc = "grown"]
  /\ UNCHANGED <<tailIndex, tickets, blocks, free, mayThrow, tailBlock, calls, deq>>

(* no room in the queue or, without memory, in the index *)
InsertFails ==
  /\ call.pc = "room" /\ (Full \/ ~NextEntryFree)
  /\ call' = [call EXCEPT !.pc = "undo"]
  /\ UNCHANGED <<tailIndex, tickets, index, blocks, free, mayThrow, tailBlock, calls, deq>>

RequisitionFails ==
  /\ call.pc = "block"
  /\ headers' = Rewound
  /\ entries' = [entries EXCEPT ![EntryAt(InUse, headers[InUse].tail)].value = None]
  /\ call' = [call EXCEPT !.pc = "undo"]
  /\ UNCHANGED <<tailIndex, tickets, blocks, free, mayThrow, tailBlock, calls, deq>>

(* requisition_block and reset_empty *)
Requisition ==
  /\ call.pc = "block"
  /\ \E b \in free :
       /\ free' = free \ {b}
       /\ elementsCompletelyDequeued' = [elementsCompletelyDequeued EXCEPT ![b] = 0]
       /\ call' = [call EXCEPT !.block = b, !.pc = IF mayThrow /\ ~call.bulk THEN "construct" ELSE "enter"]
  /\ UNCHANGED <<tailIndex, tickets, index, elements, mayThrow, tailBlock, calls, deq>>

(* the block becomes visible in the index; on to the next one or to the elements *)
EnterBlock ==
  /\ call.pc = "enter"
  /\ entries' = [entries EXCEPT ![EntryAt(InUse, headers[InUse].tail)].value = call.block]
  /\ tailBlock' = call.block
  /\ call' = [call EXCEPT
       !.base = NextBase, !.toCome = @ - 1, !.block = None, !.fresh = Append(@, call.block),
       !.pc = CASE call.toCome > 1 -> "room"
                [] mayThrow /\ ~call.bulk -> "publish"
                [] OTHER -> "construct"]
  /\ UNCHANGED <<tailIndex, tickets, headers, blocks, free, mayThrow, calls, deq>>

(* the block for the k-th element: those of the chain come after the one the call began in *)
BlockFor(k) ==
  LET chain == (IF SlotOf(tailIndex) = 0 THEN <<>> ELSE <<call.startBlock>>)
                 \o call.fresh \o (IF call.block = None THEN <<>> ELSE <<call.block>>)
  IN  chain[(SlotOf(tailIndex) + k) \div BlockSize + 1]

Construct ==
  /\ call.pc = "construct"
  /\ elements' = [b \in Blocks |-> [s \in BlockSlots |->
       LET here == {k \in 0..(call.n - 1) : BlockFor(k) = b /\ SlotOf(tailIndex + k) = s}
       IN  IF here = {} THEN elements[b][s] ELSE Add(tailIndex, Max(here))]]
  /\ call' = [call EXCEPT !.pc = IF call.block = None THEN "publish" ELSE "enter"]
  /\ UNCHANGED <<tailIndex, tickets, index, elementsCompletelyDequeued, free, mayThrow, tailBlock, calls, deq>>

(* a constructor throws, and what the call has constructed is destroyed again; a block that is
   not in the index yet goes back at once *)
ConstructorThrows ==
  /\ call.pc = "construct" /\ mayThrow
  /\ IF call.block = None
     THEN call' = [call EXCEPT !.pc = "undo"] /\ UNCHANGED <<index, free>>
     ELSE /\ headers' = Rewound
          /\ entries' = [entries EXCEPT ![EntryAt(InUse, headers[InUse].tail)].value = None]
          /\ free' = free \cup {call.block} /\ call' = Idle
  /\ UNCHANGED <<tailIndex, tickets, blocks, mayThrow, tailBlock, calls, deq>>

(* one more block of a failed call is taken out of the index, from the first to the last *)
UndoBlock ==
  /\ call.pc = "undo" /\ call.gone < Len(call.fresh)
  /\ LET i == Add(BaseOf(Sub(tailIndex, 1)), (call.gone + 1) * BlockSize)
     IN  entries' = [entries EXCEPT ![EntryFor(i)].value = None]
  /\ headers' = Rewound
  /\ call' = [call EXCEPT !.gone = @ + 1]
  /\ UNCHANGED <<tailIndex, tickets, blocks, free, mayThrow, tailBlock, calls, deq>>

(* mutant: without the block the call began in *)
UndoEndForgets ==
  /\ call.pc = "undo" /\ call.gone = Len(call.fresh)
  /\ free' = free \cup ToSet(call.fresh) /\ tailBlock' = tailBlock
  /\ call' = Idle
  /\ UNCHANGED <<tailIndex, tickets, index, blocks, mayThrow, calls, deq>>

(* then all are given back *)
UndoEnd ==
  /\ call.pc = "undo" /\ call.gone = Len(call.fresh)
  /\ free' = free \cup ToSet(call.fresh) /\ tailBlock' = call.startBlock
  /\ call' = Idle
  /\ UNCHANGED <<tailIndex, tickets, index, blocks, mayThrow, calls, deq>>

Publish ==
  /\ call.pc = "publish"
  /\ tailIndex' = Add(tailIndex, call.n) /\ call' = Idle
  /\ UNCHANGED <<tickets, index, blocks, free, mayThrow, tailBlock, calls, deq>>

Enqueue ==
  \/ EnqueueCall(1, FALSE) \/ \E n \in Counts : EnqueueCall(n, TRUE)
  \/ InsertKey \/ InsertTail \/ GrowIndex \/ InsertFails \/ Requisition \/ RequisitionFails
  \/ EnterBlock \/ Construct \/ ConstructorThrows \/ UndoBlock \/ UndoEnd \/ Publish

-----------------------------------------------------------------------------
(* The consumers.  dequeue is dequeue_bulk for one element; a move that throws loses the
   element it moves and those that were claimed with it, but leaves the same state. *)
DequeueCall(c, max) ==
  LET desired == Sub(tailIndex, Sub(dequeueOptimisticCount, dequeueOvercommit))
  IN  /\ deq[c].pc = "idle" /\ call.pc # "destroyed" /\ Positive(desired)
      /\ deq' = [deq EXCEPT ![c] = [pc |-> "reserve", want |-> Least(desired, max),
                                    overcommit |-> dequeueOvercommit]]
      /\ UNCHANGED <<tailIndex, tickets, index, blocks, free, mayThrow, producer>>

Reserve(c) ==
  /\ deq[c].pc = "reserve"
  /\ dequeueOptimisticCount' = Add(dequeueOptimisticCount, deq[c].want)
  /\ deq' = [deq EXCEPT ![c] = [pc |-> "check", want |-> deq[c].want,
                                first |-> Sub(dequeueOptimisticCount, deq[c].overcommit)]]
  /\ UNCHANGED <<tailIndex, headIndex, dequeueOvercommit, index, blocks, free, mayThrow, producer>>

(* the second load of tailIndex *)
Check(c) ==
  LET there == Sub(tailIndex, deq[c].first)
      actual == IF Positive(there) THEN Least(there, deq[c].want) ELSE 0
  IN  /\ deq[c].pc = "check"
      /\ deq' = [deq EXCEPT ![c] = [pc |-> IF actual < deq[c].want THEN "giveBack" ELSE "claim",
                                    n |-> actual, excess |-> deq[c].want - actual]]
      /\ UNCHANGED <<tailIndex, tickets, index, blocks, free, mayThrow, producer>>

GiveBack(c) ==
  /\ deq[c].pc = "giveBack"
  /\ dequeueOvercommit' = Add(dequeueOvercommit, deq[c].excess)
  /\ deq' = [deq EXCEPT ![c] = IF @.n = 0 THEN Idle ELSE [@ EXCEPT !.pc = "claim", !.excess = 0]]
  /\ UNCHANGED <<tailIndex, headIndex, dequeueOptimisticCount, index, blocks, free, mayThrow, producer>>

ClaimElements(c) ==
  /\ deq[c].pc = "claim"
  /\ headIndex' = Add(headIndex, deq[c].n)
  /\ deq' = [deq EXCEPT ![c] = [pc |-> "load", n |-> deq[c].n, index |-> headIndex]]
  /\ UNCHANGED <<tailIndex, dequeueOptimisticCount, dequeueOvercommit, index, blocks, free, mayThrow, producer>>

(* the loads of blockIndex and of its tail *)
LoadIndex(c) ==
  /\ deq[c].pc = "load"
  /\ deq' = [deq EXCEPT ![c] = [pc |-> "locate", n |-> @.n, index |-> @.index,
                                header |-> InUse, slot |-> headers[InUse].tail]]
  /\ UNCHANGED <<tailIndex, tickets, index, blocks, free, mayThrow, producer>>

(* the load of the key there *)
Locate(c) ==
  /\ deq[c].pc = "locate"
  /\ deq' = [deq EXCEPT ![c].pc = "move", ![c].slot = IndexFor(deq[c].header, deq[c].slot, deq[c].index)]
  /\ UNCHANGED <<tailIndex, tickets, index, blocks, free, mayThrow, producer>>

(* the claimed elements that lie in the block of the first one *)
InBlock(d) == Least(d.n, BlockSize - SlotOf(d.index))
SlotsOf(d) == SlotOf(d.index)..(SlotOf(d.index) + InBlock(d) - 1)

(* they are moved out and destroyed *)
MoveOut(c) ==
  /\ deq[c].pc = "move"
  /\ LET e == EntryAt(deq[c].header, deq[c].slot)
         b == entries[e].value
     IN  /\ elements' = [elements EXCEPT ![b] = [s \in BlockSlots |->
                           IF s \in SlotsOf(deq[c]) THEN Raw ELSE elements[b][s]]]
         /\ deq' = [deq EXCEPT ![c] = [@ EXCEPT !.pc = "mark"] @@ [entry |-> e, block |-> b]]
  /\ UNCHANGED <<tailIndex, tickets, index, elementsCompletelyDequeued, free, mayThrow, producer>>

(* on to the claimed elements in the next block *)
Onward(d) ==
  LET k == InBlock(d) IN
    IF k = d.n THEN Idle
    ELSE [pc |-> "move", n |-> d.n - k, index |-> Add(d.index, k),
          header |-> d.header, slot |-> (d.slot + 1) % Capacity(d.header)]

(* set_many_empty: were they the last elements of the block? *)
(* mutant: a bulk dequeue counts for one, as in set_empty *)
CountedOne(d) == elementsCompletelyDequeued[d.block] + 1
Counted(d) == elementsCompletelyDequeued[d.block] + InBlock(d)

MarkEmpty(c) ==
  /\ deq[c].pc = "mark"
  /\ LET d == deq[c] IN
       /\ elementsCompletelyDequeued' = [elementsCompletelyDequeued EXCEPT ![d.block] = Counted(d)]
       /\ deq' = [deq EXCEPT ![c] = IF Counted(d) = BlockSize THEN [d EXCEPT !.pc = "release"] ELSE Onward(d)]
  /\ UNCHANGED <<tailIndex, tickets, index, elements, free, mayThrow, producer>>

(* the consumer of the last elements takes the block out of the index ... *)
Release(c) ==
  /\ deq[c].pc = "release"
  /\ entries' = [entries EXCEPT ![deq[c].entry].value = None]
  /\ deq' = [deq EXCEPT ![c].pc = "free"]
  /\ UNCHANGED <<tailIndex, tickets, headers, blocks, free, mayThrow, producer>>

(* ... and gives it back *)
FreeBlock(c) ==
  /\ deq[c].pc = "free"
  /\ free' = free \cup {deq[c].block}
  /\ deq' = [deq EXCEPT ![c] = Onward(deq[c])]
  /\ UNCHANGED <<tailIndex, tickets, index, blocks, mayThrow, producer>>

Dequeue(c) ==
  \/ \E max \in Maxes : DequeueCall(c, max)
  \/ Reserve(c) \/ Check(c) \/ GiveBack(c) \/ ClaimElements(c)
  \/ LoadIndex(c) \/ Locate(c) \/ MoveOut(c) \/ MarkEmpty(c) \/ Release(c) \/ FreeBlock(c)

-----------------------------------------------------------------------------
(* ~ImplicitProducer, when nobody uses the queue *)
AtRest == call.pc = "idle" /\ \A c \in Consumers : deq[c].pc = "idle"

LeftOver == {Add(headIndex, k) : k \in 0..(Sub(tailIndex, headIndex) - 1)}

(* It asks for the block of an element unless it has one and the element is the first of a
   block; then it goes on in the block it has. *)
BlockAsked(i) ==
  LET found == IF SlotOf(i) # 0 \/ i = headIndex THEN i ELSE Sub(i, 1) IN entries[EntryFor(found)].value

Visited == {<<BlockAsked(i), SlotOf(i)>> : i \in LeftOver}

(* each time it asks for a block it gives back the one it has, at the end the last one *)
GivenBack ==
  {BlockAsked(Sub(i, 1)) : i \in {j \in LeftOver : SlotOf(j) # 0 /\ j # headIndex}}
    \cup (IF tailBlock # None /\ (LeftOver # {} \/ SlotOf(tailIndex) # 0) THEN {tailBlock} ELSE {})

Destroy ==
  /\ AtRest /\ call' = [pc |-> "destroyed"]
  /\ elements' = [b \in Blocks |-> [s \in BlockSlots |->
                    IF <<b, s>> \in Visited THEN Raw ELSE elements[b][s]]]
  /\ free' = free \cup GivenBack
  /\ UNCHANGED <<tailIndex, tickets, index, elementsCompletelyDequeued, mayThrow, tailBlock, calls, deq>>

Destroyed == call.pc = "destroyed" /\ UNCHANGED vars

Next == Enqueue \/ (\E c \in Consumers : Dequeue(c)) \/ Destroy \/ Destroyed

Spec == Init /\ [][Next]_vars

-----------------------------------------------------------------------------
Live == {<<b, s>> \in Blocks \X BlockSlots : elements[b][s] # Raw}

(* Nobody writes into a block that is on the free list, where another producer may take it:
   the tail block of a queue that was emptied up to its last slot is on it. *)
FreeBlocksUntouched ==
  [][\A b \in free \cap free' : elements'[b] = elements[b]
        /\ elementsCompletelyDequeued'[b] = elementsCompletelyDequeued[b]]_vars

(* When nobody uses the queue, the blocks that are not on the free list are those in the index
   that have an element left or a slot for the next one: whoever emptied a block, and however
   an enqueue failed, each block was given back. *)
BlocksGivenBack ==
  AtRest =>
    LET held == {b \in Blocks : \E i \in LeftOver : entries[EntryFor(i)].value = b}
                  \cup (IF SlotOf(tailIndex) # 0 THEN {tailBlock} ELSE {})
    IN  Blocks \ free = held /\ held = {entries[e].value : e \in DOMAIN entries} \ {None}

(* The destructor destroys the elements that were not dequeued, and no others. *)
DestroysWhatIsLeft == [][Destroy => Live = Visited]_vars

(* An element as a consumer would find it *)
Content(h, slot, i) ==
  LET b == entries[EntryAt(h, slot)].value IN IF b = None THEN Raw ELSE elements[b][SlotOf(i)]

Unclaimed ==
  IF call.pc = "destroyed" THEN <<>>
  ELSE [k \in 1..Sub(tailIndex, headIndex) |->
          LET i == Add(headIndex, k - 1) IN Content(InUse, IndexFor(InUse, headers[InUse].tail, i), i)]

Claimed(c) ==
  LET d == deq[c]
      At(k) == Add(d.index, k - 1)
      Further(k) == (d.slot + (SlotOf(d.index) + k - 1) \div BlockSize) % Capacity(d.header)
  IN  CASE d.pc = "load" ->
             [k \in 1..d.n |-> Content(InUse, IndexFor(InUse, headers[InUse].tail, At(k)), At(k))]
        [] d.pc = "locate" ->
             [k \in 1..d.n |-> Content(d.header, IndexFor(d.header, d.slot, At(k)), At(k))]
        [] d.pc = "move" -> [k \in 1..d.n |-> Content(d.header, Further(k), At(k))]
        [] d.pc \in {"mark", "release", "free"} ->
             [k \in 1..(d.n - InBlock(d)) |-> Content(d.header, Further(InBlock(d) + k), At(InBlock(d) + k))]
        [] OTHER -> <<>>

Abstract == INSTANCE XSubQueue WITH
  Elements <- Index, queue <- Unclaimed, taken <- [c \in Consumers |-> Claimed(c)]

(* Read through the index, the blocks are a queue: elements are claimed in the order of
   enqueueing, each by one consumer, and what a consumer has claimed stays where it will look
   for it, whatever entries and blocks other consumers give back and the producer uses again. *)
ImplementsQueue == Abstract!Spec
=============================================================================
