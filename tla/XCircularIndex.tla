--------------------------- MODULE XCircularIndex ---------------------------
(***************************************************************************)
(* The indices of a producer's queue (index_t, circular_less_than and      *)
(* Block::operator[] of xconcurrentqueueabstract.hpp): integers of w bits  *)
(* that wrap around, cut into blocks of BlockSize slots; and the other     *)
(* parameters that both kinds of producers have.                           *)
(***************************************************************************)
EXTENDS Integers

CONSTANTS
  BlockSize,          \* BLOCK_SIZE
  IndexMod,           \* 2^w for index_t and size_t of w bits
  InitialIndexSize,   \* EXPLICIT_INITIAL_INDEX_SIZE, IMPLICIT_INITIAL_INDEX_SIZE
  MaxSubqueueSize,    \* MAX_SUBQUEUE_SIZE, IndexMod - 1 for none
  Counts, Maxes,      \* sizes of bulk calls
  Age,                \* an index the producer may have come to already
  Consumers,
  MaxCalls            \* calls of the producer

ASSUME IndexAssumption ==
  /\ BlockSize \in Nat /\ BlockSize > 1
  /\ \E w \in 1..IndexMod : IndexMod = 2^w
  /\ IndexMod % BlockSize = 0
  /\ InitialIndexSize > 1 /\ IndexMod % InitialIndexSize = 0
  /\ MaxSubqueueSize \in 0..(IndexMod - 1)
  /\ Counts \subseteq 1..(IndexMod - 1) /\ Maxes \subseteq 1..(IndexMod - 1)
  /\ Age \in 0..(IndexMod - 1) /\ Age % BlockSize = 0 /\ Age \div BlockSize >= InitialIndexSize

Index == 0..(IndexMod - 1)
BlockSlots == 0..(BlockSize - 1)

Add(a, b) == (a + b) % IndexMod
Sub(a, b) == (a - b) % IndexMod
Less(a, b) == Sub(a, b) > IndexMod \div 2            \* circular_less_than
Positive(a) == Less(0, a)
Signed(a) == IF a >= IndexMod \div 2 THEN a - IndexMod ELSE a
SlotOf(i) == i % BlockSize
BaseOf(i) == i - SlotOf(i)
Least(a, b) == IF a < b THEN a ELSE b
=============================================================================
