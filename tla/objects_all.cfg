\* Objects or the choice of a producer, each on a small instance of its own: a thread that emits and one
\* that changes connections; two producers and two consumers, with the scan of try_dequeue and the quota
\* as small as they can be.
CONSTANTS
  e1 = e1  e2 = e2
  Threads = {e1, e2}
  Objects = {o1, o2}
  Signals = {g1}
  Slots = {f1}
  Lambda = Lambda
  Null = Null
  ThreadOps <- OneEmitter
  Mutexes = {0, 1}
  NoOne = NoOne
  MaxDepth = 2
  MaxCalls = 4
  Dequeuers = {d1, d2}
  MaxProducers = 2
  MaxElements = 2
  MaxDispatched = 3
  Batches = {2}
  ScanLimit = 1
  Quota = 1
  CountMod = 8
SPECIFICATION PartsSpec
SYMMETRY Symmetry
INVARIANTS SomeLockProceeds UniqueIsNew InnermostSender ReportsTruly SpreadOut
PROPERTY AllAskedGo
