------------------------- MODULE XExplicitProducer -------------------------
(***************************************************************************)
(* The queue of one explicit producer of the lock-free queue               *)
(* (xconcurrentqueueabstract.hpp, ExplicitProducer).                       *)
(*                                                                         *)
(* One producer enqueues, any number of consumers dequeue, nobody locks.   *)
(* The elements lie in blocks that form a circular list; the producer      *)
(* takes the block ahead again when all its slots are marked empty and     *)
(* inserts a new one otherwise.  A circular index of <base, block> entries *)
(* tells consumers where a block is; it doubles when it is full.           *)
(* Consumers reserve optimistically, give back what they cannot have and   *)
(* claim the rest at headIndex; only then do they look for the block.      *)
(*                                                                         *)
(* Indices are counted modulo IndexMod, the 2^w of index_t.  An element is *)
(* told by the index it was enqueued at.  Memory is sequentially           *)
(* consistent; what a thread does alone is one step.                       *)
(***************************************************************************)
EXTENDS XCircularIndex, FiniteSetsExt, SequencesExt

CONSTANTS
  NumBlocks,          \* blocks there is memory for
  UndoAnyTime         \* see MayUndo

Blocks == 1..NumBlocks
None == 0                        \* the null block
Raw == IndexMod                  \* a slot without an element

ASSUME ProducerAssumption == NumBlocks \in Nat /\ UndoAnyTime \in BOOLEAN

VARIABLES
  tailIndex, headIndex, dequeueOptimisticCount, dequeueOvercommit,
  blockIndex,   \* the index headers ever made; consumers find the last one
  indexSize, indexFront, slotsUsed,     \* pr_blockIndexSize, Front, SlotsUsed
  tailBlock, next, made,  \* the list, and how many blocks it has
  emptyFlags, elements,   \* by block and slot
  mayThrow,     \* has the element a constructor that may throw?
  calls,        \* calls of the producer so far
  call,         \* the call of the producer
  deq,          \* the dequeue of each consumer
  abandoned,    \* history: blocks a constructor threw in
  undone        \* history: has a bulk enqueue failed with blocks in its hands?

history == <<abandoned, undone>>
counted == <<mayThrow, calls>>

tickets == <<headIndex, dequeueOptimisticCount, dequeueOvercommit>>
index == <<blockIndex, indexSize, indexFront, slotsUsed>>
list == <<tailBlock, next, made>>
vars == <<tailIndex, tickets, index, list, emptyFlags, elements, mayThrow, calls, call, deq, history>>

-----------------------------------------------------------------------------
(* is_empty *)
(* mutant: the last flag stands for all *)
LastIsEmpty(b) == emptyFlags[b][BlockSize - 1]
IsEmpty(b) == \A s \in BlockSlots : emptyFlags[b][s]

AllFlags(value) == [s \in BlockSlots |-> value]

(* the slot of the entry for the block of i, when slot f has the entry for base *)
EntrySlot(size, f, base, i) == (f + Signed(Sub(BaseOf(i), base)) \div BlockSize) % size

NoEntry == [base |-> 0, block |-> None]

Idle == [pc |-> "idle"]

Header(size, front, entries) == [size |-> size, front |-> front, entries |-> entries]

(* what the constructor leaves; its allocation of the first index may fail *)
Constructed ==
  /\ tailIndex = 0
  /\ \/ /\ indexSize = InitialIndexSize
        /\ blockIndex = <<Header(InitialIndexSize, IndexMod - 1,
                                    [s \in 0..(InitialIndexSize - 1) |-> NoEntry])>>
     \/ indexSize = InitialIndexSize \div 2 /\ blockIndex = <<>>
  /\ indexFront = 0 /\ slotsUsed = 0
  /\ tailBlock = None /\ next = [b \in Blocks |-> None] /\ made = 0
  /\ emptyFlags = [b \in Blocks |-> AllFlags(FALSE)]

(* later: the elements before Age were enqueued and dequeued one by one, through one block *)
Aged ==
  LET turns == Age \div BlockSize
      Turn(s) == CHOOSE k \in (turns - InitialIndexSize)..(turns - 1) : k % InitialIndexSize = s
  IN  /\ tailIndex = Age
      /\ indexSize = InitialIndexSize
      /\ blockIndex = <<Header(InitialIndexSize, (turns - 1) % InitialIndexSize,
                          [s \in 0..(InitialIndexSize - 1) |-> [base |-> Turn(s) * BlockSize, block |-> 1]])>>
      /\ indexFront = turns % InitialIndexSize /\ slotsUsed = 1
      /\ tailBlock = 1 /\ next = [b \in Blocks |-> IF b = 1 THEN 1 ELSE None] /\ made = 1
      /\ emptyFlags = [b \in Blocks |-> AllFlags(b = 1)]

Init ==
  /\ Constructed \/ Aged
  /\ headIndex = tailIndex /\ dequeueOptimisticCount = tailIndex /\ dequeueOvercommit = 0
  /\ elements = [b \in Blocks |-> AllFlags(Raw)]
  /\ mayThrow \in BOOLEAN
  /\ calls = 0 /\ call = Idle /\ deq = [c \in Consumers |-> Idle]
  /\ abandoned = {} /\ undone = FALSE

-----------------------------------------------------------------------------
(* The producer.  A call of enqueue is one of enqueue_bulk for one element, except for
   the order in which it resets flags and enters the block in the index. *)
WithEntry(base, block) ==
  [blockIndex EXCEPT ![Len(blockIndex)].entries[indexFront] = [base |-> base, block |-> block]]

After(s) == (s + 1) % indexSize
Before(s) == (s - 1) % indexSize

(* the index base of the last block that has been entered, and the blocks still to enter *)
EnqueueCall(n, bulk) ==
  LET base == BaseOf(Sub(tailIndex, 1))
      toCome == Sub(BaseOf(Add(tailIndex, n - 1)), base) \div BlockSize
  IN  /\ call.pc = "idle" /\ calls < MaxCalls /\ calls' = calls + 1
      /\ call' = [pc |-> IF toCome = 0 THEN "construct" ELSE "ahead", bulk |-> bulk, n |-> n,
                  base |-> base, toCome |-> toCome, first |-> None, startBlock |-> tailBlock, grown |-> FALSE,
                  front |-> indexFront, slots |-> slotsUsed]
      /\ UNCHANGED <<tailIndex, tickets, index, list, emptyFlags, elements, mayThrow, deq, history>>

(* one more block of the call has been found *)
Found(b, more) ==
  call' = [call EXCEPT !.pc = IF call.toCome = 1 THEN "ready" ELSE more,
                       !.base = Add(@, BlockSize), !.toCome = @ - 1,
                       !.first = IF @ = None THEN b ELSE @]

HasAhead ==
  /\ tailBlock # None
  /\ next[tailBlock] # call.first
  /\ IsEmpty(next[tailBlock])

(* the block ahead is taken again *)
TakeAhead ==
  /\ call.pc = "ahead" /\ HasAhead
  /\ LET b == next[tailBlock] IN
       /\ tailBlock' = b /\ Found(b, "ahead")
       /\ IF call.bulk
          THEN /\ blockIndex' = WithEntry(Add(call.base, BlockSize), b)
               /\ indexFront' = After(indexFront) /\ UNCHANGED emptyFlags
          ELSE /\ emptyFlags' = [emptyFlags EXCEPT ![b] = AllFlags(FALSE)]
               /\ UNCHANGED <<blockIndex, indexFront>>
  /\ UNCHANGED <<tailIndex, tickets, indexSize, slotsUsed, next, made, elements, counted, deq, history>>

NoneAhead ==
  /\ call.pc = "ahead" /\ ~HasAhead
  /\ call' = [call EXCEPT !.pc = "room"]
  /\ UNCHANGED <<tailIndex, tickets, index, list, emptyFlags, elements, counted, deq, history>>

(* the tail could catch up with the head, or the limit would be exceeded *)
NoLeeway(base) ==
  \/ ~Less(headIndex, Add(base, BlockSize))
  \/ /\ MaxSubqueueSize # IndexMod - 1
     /\ MaxSubqueueSize = 0 \/ MaxSubqueueSize - BlockSize < Sub(base, headIndex)

IndexFull == blockIndex = <<>> \/ slotsUsed = indexSize

(* Without UndoAnyTime a bulk enqueue that has blocks in its hands fails only while the index
   has not grown for it and has a slot for every block, or has no new block of it. *)
MayUndo ==
  \/ UndoAnyTime \/ ~call.bulk \/ call.first = None
  \/ ~call.grown /\ (indexSize >= NumBlocks \/ slotsUsed = call.slots)

NeedsNoUndo ==
  \/ UndoAnyTime \/ ~call.bulk
  \/ /\ made + call.toCome <= NumBlocks
     /\ ~NoLeeway(Add(call.base, call.toCome * BlockSize))

Restore ==
  /\ indexFront' = call.front /\ slotsUsed' = call.slots
  /\ tailBlock' = IF call.startBlock = None THEN call.first ELSE call.startBlock
  /\ call' = Idle

EnqueueFails ==
  /\ call.pc \in {"room", "block"} /\ MayUndo
  /\ Restore /\ undone' = (undone \/ (call.bulk /\ call.first # None))
  /\ UNCHANGED <<tailIndex, tickets, blockIndex, indexSize, next, made, emptyFlags, elements,
                 counted, deq, abandoned>>

(* new_block_index: twice the size, the entries in use in front *)
Copied(s) == blockIndex[Len(blockIndex)].entries[(indexFront - slotsUsed + s) % indexSize]

NewBlockIndex ==
  /\ call.pc = "room" /\ ~NoLeeway(Add(call.base, BlockSize)) /\ IndexFull
  /\ call.first = None \/ NeedsNoUndo
  /\ LET entries == [s \in 0..(2 * indexSize - 1) |-> IF s < slotsUsed THEN Copied(s) ELSE NoEntry]
     IN  blockIndex' = Append(blockIndex, Header(2 * indexSize, Sub(call.slots, 1), entries))
  /\ indexSize' = 2 * indexSize /\ indexFront' = slotsUsed
  /\ call' = [call EXCEPT !.pc = "block", !.front = call.slots, !.grown = TRUE]
  /\ UNCHANGED <<tailIndex, tickets, slotsUsed, list, emptyFlags, elements, counted, deq, history>>

(* requisition_block finds one; a bulk enqueue may still give it up, so it counts as empty *)
InsertBlock ==
  /\ \/ call.pc = "room" /\ ~NoLeeway(Add(call.base, BlockSize)) /\ ~IndexFull
     \/ call.pc = "block"
  /\ made < NumBlocks
  /\ NeedsNoUndo \/ (~call.grown /\ indexSize >= NumBlocks)
  /\ LET b == made + 1 IN
       /\ made' = b /\ tailBlock' = b /\ Found(b, "room")
       /\ next' = IF tailBlock = None THEN [next EXCEPT ![b] = b]
                  ELSE [next EXCEPT ![b] = next[tailBlock], ![tailBlock] = b]
       /\ slotsUsed' = slotsUsed + 1
       /\ emptyFlags' = [emptyFlags EXCEPT ![b] = AllFlags(call.bulk)]
       /\ IF call.bulk
          THEN /\ blockIndex' = WithEntry(Add(call.base, BlockSize), b)
               /\ indexFront' = After(indexFront)
          ELSE UNCHANGED <<blockIndex, indexFront>>
  /\ UNCHANGED <<tailIndex, tickets, indexSize, elements, counted, deq, history>>

(* the i-th block from b on *)
Nth(b, i) == LET walk[k \in 0..i] == IF k = 0 THEN b ELSE next[walk[k - 1]] IN walk[i]

(* the blocks this call has got, from the first to the last *)
Fresh ==
  IF call.first = None THEN {}
  ELSE LET steps == CHOOSE i \in 0..NumBlocks :
                      Nth(call.first, i) = tailBlock /\ \A j \in 0..(i - 1) : Nth(call.first, j) # tailBlock
       IN  {Nth(call.first, i) : i \in 0..steps}

PublishedAt(s) == [blockIndex EXCEPT ![Len(blockIndex)].front = s]

(* the single block, which is entered only now, or all those that are entered already *)
EnterBlocks ==
  IF call.bulk THEN blockIndex' = PublishedAt(Before(indexFront)) /\ UNCHANGED indexFront
  ELSE /\ blockIndex' = [WithEntry(call.base, tailBlock) EXCEPT ![Len(blockIndex)].front = indexFront]
       /\ indexFront' = After(indexFront)

(* the blocks are complete; they are published before the elements are there, unless a
   constructor may throw *)
Ready ==
  /\ call.pc = "ready"
  /\ emptyFlags' = [b \in Blocks |-> IF b \in Fresh THEN AllFlags(FALSE) ELSE emptyFlags[b]]
  /\ IF mayThrow THEN UNCHANGED <<blockIndex, indexFront>> ELSE EnterBlocks
  /\ call' = [call EXCEPT !.pc = "construct"]
  /\ UNCHANGED <<tailIndex, tickets, indexSize, slotsUsed, list, elements, counted, deq, history>>

(* the block for the k-th element of the call *)
BlockFor(k) ==
  Nth(IF SlotOf(tailIndex) = 0 THEN call.first ELSE call.startBlock,
      (SlotOf(tailIndex) + k) \div BlockSize)

Construct ==
  /\ call.pc = "construct"
  /\ elements' = [b \in Blocks |-> [s \in BlockSlots |->
       LET here == {k \in 0..(call.n - 1) : BlockFor(k) = b /\ SlotOf(tailIndex + k) = s}
       IN  IF here = {} THEN elements[b][s] ELSE Add(tailIndex, Max(here))]]
  /\ call' = [call EXCEPT !.pc = IF mayThrow /\ call.first # None THEN "enter" ELSE "publish"]
  /\ UNCHANGED <<tailIndex, tickets, index, list, emptyFlags, counted, deq, history>>

(* a constructor throws; what the call has constructed is destroyed again *)
ConstructorThrows ==
  /\ call.pc = "construct" /\ mayThrow
  /\ UndoAnyTime \/ ~call.bulk \/ ~call.grown
  /\ Restore /\ abandoned' = abandoned \cup Fresh
  /\ UNCHANGED <<tailIndex, tickets, blockIndex, indexSize, next, made, emptyFlags, elements,
                 counted, deq, undone>>

Enter ==
  /\ call.pc = "enter" /\ EnterBlocks
  /\ call' = [call EXCEPT !.pc = "publish"]
  /\ UNCHANGED <<tailIndex, tickets, indexSize, slotsUsed, list, emptyFlags, elements, counted,
                 deq, history>>

Publish ==
  /\ call.pc = "publish"
  /\ tailIndex' = Add(tailIndex, call.n) /\ call' = Idle
  /\ UNCHANGED <<tickets, index, list, emptyFlags, elements, counted, deq, history>>

-----------------------------------------------------------------------------
(* The consumers.  dequeue is dequeue_bulk for one element. *)
(* the loads of tailIndex, dequeueOvercommit and dequeueOptimisticCount *)
DequeueCall(c, max) ==
  LET desired == Sub(tailIndex, Sub(dequeueOptimisticCount, dequeueOvercommit))
  IN  /\ deq[c].pc = "idle" /\ call.pc # "destroyed" /\ Positive(desired)
      /\ deq' = [deq EXCEPT ![c] = [pc |-> "reserve", want |-> Least(desired, max),
                                    overcommit |-> dequeueOvercommit]]
      /\ UNCHANGED <<tailIndex, tickets, index, list, emptyFlags, elements, counted, call, history>>

Reserve(c) ==
  /\ deq[c].pc = "reserve"
  /\ dequeueOptimisticCount' = Add(dequeueOptimisticCount, deq[c].want)
  /\ deq' = [deq EXCEPT ![c] = [pc |-> "check", want |-> deq[c].want,
                                first |-> Sub(dequeueOptimisticCount, deq[c].overcommit)]]
  /\ UNCHANGED <<tailIndex, headIndex, dequeueOvercommit, index, list, emptyFlags, elements,
                 counted, call, history>>

(* the second load of tailIndex *)
Check(c) ==
  LET there == Sub(tailIndex, deq[c].first)
      actual == IF Positive(there) THEN Least(there, deq[c].want) ELSE 0
  IN  /\ deq[c].pc = "check"
      /\ deq' = [deq EXCEPT ![c] = [pc |-> IF actual < deq[c].want THEN "giveBack" ELSE "claim",
                                    n |-> actual, excess |-> deq[c].want - actual]]
      /\ UNCHANGED <<tailIndex, tickets, index, list, emptyFlags, elements, counted, call, history>>

(* mutant: one, as in dequeue *)
GiveBackOne(c) ==
  /\ deq[c].pc = "giveBack"
  /\ dequeueOvercommit' = Add(dequeueOvercommit, 1)
  /\ deq' = [deq EXCEPT ![c] = IF @.n = 0 THEN Idle ELSE [@ EXCEPT !.pc = "claim", !.excess = 0]]
  /\ UNCHANGED <<tailIndex, headIndex, dequeueOptimisticCount, index, list, emptyFlags, elements,
                 counted, call, history>>

GiveBack(c) ==
  /\ deq[c].pc = "giveBack"
  /\ dequeueOvercommit' = Add(dequeueOvercommit, deq[c].excess)
  /\ deq' = [deq EXCEPT ![c] = IF @.n = 0 THEN Idle ELSE [@ EXCEPT !.pc = "claim", !.excess = 0]]
  /\ UNCHANGED <<tailIndex, headIndex, dequeueOptimisticCount, index, list, emptyFlags, elements,
                 counted, call, history>>

ClaimElements(c) ==
  /\ deq[c].pc = "claim"
  /\ headIndex' = Add(headIndex, deq[c].n)
  /\ deq' = [deq EXCEPT ![c] = [pc |-> "load", n |-> deq[c].n, index |-> headIndex]]
  /\ UNCHANGED <<tailIndex, dequeueOptimisticCount, dequeueOvercommit, index, list, emptyFlags,
                 elements, counted, call, history>>

(* the loads of blockIndex and front *)
LoadIndex(c) ==
  /\ deq[c].pc = "load"
  /\ deq' = [deq EXCEPT ![c] = [pc |-> "locate", n |-> @.n, index |-> @.index,
               header |-> Len(blockIndex), slot |-> blockIndex[Len(blockIndex)].front]]
  /\ UNCHANGED <<tailIndex, tickets, index, list, emptyFlags, elements, counted, call, history>>

(* where the block is, by its distance from the one in front *)
SlotFor(d) ==
  LET h == blockIndex[d.header] IN EntrySlot(h.size, d.slot, h.entries[d.slot].base, d.index)

Locate(c) ==
  /\ deq[c].pc = "locate"
  /\ deq' = [deq EXCEPT ![c].pc = "move", ![c].slot = SlotFor(deq[c])]
  /\ UNCHANGED <<tailIndex, tickets, index, list, emptyFlags, elements, counted, call, history>>

(* the claimed elements that lie in the block of the first one *)
InBlock(d) == Least(d.n, BlockSize - SlotOf(d.index))
SlotsOf(d) == SlotOf(d.index)..(SlotOf(d.index) + InBlock(d) - 1)
BlockOf(d) == blockIndex[d.header].entries[d.slot].block

(* they are moved out and destroyed *)
MoveOut(c) ==
  /\ deq[c].pc = "move"
  /\ LET b == BlockOf(deq[c]) IN
       /\ elements' = [elements EXCEPT ![b] = [s \in BlockSlots |->
                        IF s \in SlotsOf(deq[c]) THEN Raw ELSE elements[b][s]]]
       /\ deq' = [deq EXCEPT ![c] = [pc |-> "mark", n |-> @.n, index |-> @.index,
                    header |-> @.header, slot |-> @.slot, block |-> b]]
  /\ UNCHANGED <<tailIndex, tickets, index, list, emptyFlags, counted, call, history>>

(* the slots that set_empty or set_many_empty marks *)
(* mutant: one, as set_empty *)
MarkedOne(d) == {SlotOf(d.index)}
Marked(d) == SlotsOf(d)

(* ... and on to the next block *)
MarkEmpty(c) ==
  /\ deq[c].pc = "mark"
  /\ LET d == deq[c]  k == InBlock(d) IN
       /\ emptyFlags' = [emptyFlags EXCEPT ![d.block] = [s \in BlockSlots |->
                          s \in Marked(d) \/ emptyFlags[d.block][s]]]
       /\ deq' = [deq EXCEPT ![c] = IF k = d.n THEN Idle
                    ELSE [pc |-> "move", n |-> d.n - k, index |-> Add(d.index, k),
                          header |-> d.header,
                          slot |-> (d.slot + 1) % blockIndex[d.header].size]]
  /\ UNCHANGED <<tailIndex, tickets, index, list, elements, counted, call, history>>

-----------------------------------------------------------------------------
(* ~ExplicitProducer, when nobody uses the queue *)
AtRest == call.pc = "idle" /\ \A c \in Consumers : deq[c].pc = "idle"

HalfDequeued ==
  LET h == blockIndex[Len(blockIndex)]
      Entry(k) == h.entries[(indexFront - slotsUsed + k) % h.size]
      Passed(k) == Less(Add(Entry(k).base, BlockSize), headIndex)
  IN  IF SlotOf(headIndex) = 0 THEN None
      ELSE Entry(CHOOSE k \in 0..(h.size - 1) : ~Passed(k) /\ \A j \in 0..(k - 1) : Passed(j)).block

From(b) == IF b = HalfDequeued THEN SlotOf(headIndex) ELSE 0

(* mutant: every block to its end *)
Whole(b) == BlockSize
To(b) == IF b = tailBlock /\ SlotOf(tailIndex) # 0 THEN SlotOf(tailIndex) ELSE BlockSize

(* the slots whose elements it destroys *)
Visited ==
  IF tailBlock = None THEN {}
  ELSE {p \in (1..made) \X BlockSlots : ~IsEmpty(p[1]) /\ From(p[1]) <= p[2] /\ p[2] < To(p[1])}

Destroy ==
  /\ AtRest /\ call' = [pc |-> "destroyed"]
  /\ elements' = [b \in Blocks |-> [s \in BlockSlots |->
                    IF <<b, s>> \in Visited THEN Raw ELSE elements[b][s]]]
  /\ UNCHANGED <<tailIndex, tickets, index, list, emptyFlags, counted, deq, history>>

-----------------------------------------------------------------------------
Enqueue ==
  \/ EnqueueCall(1, FALSE) \/ \E n \in Counts : EnqueueCall(n, TRUE)
  \/ TakeAhead \/ NoneAhead \/ NewBlockIndex \/ InsertBlock \/ EnqueueFails
  \/ Ready \/ Construct \/ ConstructorThrows \/ Enter \/ Publish

Dequeue(c) ==
  \/ \E max \in Maxes : DequeueCall(c, max)
  \/ Reserve(c) \/ Check(c) \/ GiveBack(c) \/ ClaimElements(c)
  \/ LoadIndex(c) \/ Locate(c) \/ MoveOut(c) \/ MarkEmpty(c)

Destroyed == call.pc = "destroyed" /\ UNCHANGED vars

Next == Enqueue \/ (\E c \in Consumers : Dequeue(c)) \/ Destroy \/ Destroyed

Spec == Init /\ [][Next]_vars

-----------------------------------------------------------------------------
(* Properties *)
Live == {p \in Blocks \X BlockSlots : elements[p[1]][p[2]] # Raw}

(* what a consumer has reserved and neither claimed nor given back *)
Reserved(c) ==
  CASE deq[c].pc = "check" -> deq[c].want
    [] deq[c].pc \in {"giveBack", "claim"} -> deq[c].n + deq[c].excess
    [] OTHER -> 0

(* However dequeues overtake each other, what is reserved beyond the overcommit and the
   head is what consumers are still busy with; so when they are done the next one finds
   exactly the elements there are. *)
TicketsBalance ==
  Sub(Sub(dequeueOptimisticCount, dequeueOvercommit), headIndex)
    = MapThenSumSet(Reserved, Consumers) % IndexMod

(* When nobody uses the queue, a block without elements that is not the last one can be taken
   again, unless a constructor has thrown in it. *)
BlocksComeBack ==
  AtRest => \A b \in (1..made) \ (abandoned \cup {tailBlock}) :
              (\A s \in BlockSlots : elements[b][s] = Raw) => IsEmpty(b)

(* Every block with elements in it that can be claimed has its entry in the current index:
   there is always room in the index for the block that is entered. *)
IndexedWhileLive ==
  call.pc # "destroyed" => \A i \in 0..(Sub(tailIndex, headIndex) - 1) :
    LET h == blockIndex[Len(blockIndex)]  x == Add(headIndex, i) IN
      \E e \in ToSet([s \in 1..h.size |-> h.entries[s - 1]]) :
        e.base = BaseOf(x) /\ e.block # None /\ elements[e.block][SlotOf(x)] = x

(* Unless a bulk enqueue has given up blocks, the destructor destroys each element that was
   not dequeued; unless a constructor has thrown, it destroys nothing else. *)
DestroysWhatIsLeft ==
  [][Destroy /\ ~undone => Live \subseteq Visited /\ (abandoned = {} => Visited \subseteq Live)]_vars

(* An element as a consumer would find it *)
Content(h, slot, i) ==
  LET b == h.entries[slot].block IN IF b = None THEN Raw ELSE elements[b][SlotOf(i)]

ContentAt(h, f, i) == Content(h, EntrySlot(h.size, f, h.entries[f].base, i), i)

Unclaimed ==
  LET h == blockIndex[Len(blockIndex)]
  IN  IF call.pc = "destroyed" THEN <<>>
      ELSE [k \in 1..Sub(tailIndex, headIndex) |-> ContentAt(h, h.front, Add(headIndex, k - 1))]

Claimed(c) ==
  LET d == deq[c]
      At(k) == Add(d.index, k - 1)
      h == blockIndex[IF d.pc = "load" THEN Len(blockIndex) ELSE d.header]
      Further(k) == (d.slot + (SlotOf(d.index) + k - 1) \div BlockSize) % h.size
  IN  CASE d.pc = "load" -> [k \in 1..d.n |-> ContentAt(h, h.front, At(k))]
        [] d.pc = "locate" -> [k \in 1..d.n |-> ContentAt(h, d.slot, At(k))]
        [] d.pc = "move" -> [k \in 1..d.n |-> Content(h, Further(k), At(k))]
        [] d.pc = "mark" -> [k \in 1..(d.n - InBlock(d)) |->
                               Content(h, Further(InBlock(d) + k), At(InBlock(d) + k))]
        [] OTHER -> <<>>

Abstract == INSTANCE XSubQueue WITH
  Elements <- Index, queue <- Unclaimed, taken <- [c \in Consumers |-> Claimed(c)]

(* Read through the index, the blocks are a queue: elements are claimed in the order of
   enqueueing, each by one consumer, and what a consumer has claimed stays where it will
   look for it, whatever the producer does to blocks and index in the meantime. *)
ImplementsQueue == Abstract!Spec
=============================================================================
