\* A bulk enqueue may fail at any time.
CONSTANTS
  Consumers = {c1, c2}
  BlockSize = 2
  IndexMod = 16
  InitialIndexSize = 2
  MaxSubqueueSize = 15
  NumBlocks = 3
  MaxCalls = 3
  Age = 14
  Counts = {3}
  Maxes = {3}
  UndoAnyTime = TRUE
SYMMETRY ConsumerSymmetry
SPECIFICATION Spec
INVARIANT IndexedWhileLive
