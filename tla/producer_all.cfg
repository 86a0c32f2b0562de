\* An explicit or an implicit producer and two consumers of its queue: blocks of two elements, indices
\* of four bits.
CONSTANTS
  Consumers = {c1, c2}
  ImplicitBlocks = {b1, b2, b3}
  BlockSize = 2
  IndexMod = 16
  InitialIndexSize = 2
  MaxSubqueueSize = 15
  NumBlocks = 3
  MaxCalls = 3
  Age = 14
  Counts = {3}
  Maxes = {3}
  UndoAnyTime = FALSE
SYMMETRY Symmetry
SPECIFICATION PartsSpec
INVARIANTS TicketsBalance BlocksComeBack BlocksGivenBack
PROPERTIES DestroysWhatIsLeft FreeBlocksUntouched BothImplementQueue
