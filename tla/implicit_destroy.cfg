\* The destructor with elements left in one block or more.
CONSTANTS
  Consumers = {c1}
  Blocks = {b1, b2, b3}
  BlockSize = 2
  IndexMod = 16
  InitialIndexSize = 2
  MaxSubqueueSize = 15
  MaxCalls = 3
  Age = 14
  Counts = {3}
  Maxes = {3}
SYMMETRY Symmetry
SPECIFICATION Spec
PROPERTY DestroysWhatIsLeft
