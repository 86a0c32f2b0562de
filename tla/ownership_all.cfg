\* Each component on a small instance of its own, one at a time.
\* Of results: two clients use two pools and call everything in any order, the queues may be full.
\* Of blocks: three threads, two blocks in the pool and memory for one more.
\* Of weak pointers and memory: two threads, memory for two objects; an allocation is tried once.
CONSTANTS
  c1 = c1  c2 = c2  w1 = w1  w2 = w2  w3 = w3  p1 = p1  p2 = p2
  Clients = {c1, c2}
  ClientOps <- Everything
  Disciplined = FALSE
  Pools = {p1, p2}
  Workers = {w1, w2, w3}
  PoolOf <- TwoPoolsOf
  QueueFull = TRUE
  MaxJoins = 2
  MaxGets = 2
  NoPool = NoPool
  t1 = t1  t2 = t2  t3 = t3
  Enqueuers = {t1, t2, t3}
  HashOf <- Colliding
  InitialSize = 2
  MaxProducers = 2
  MaxHashes = 3
  MaxEnqueues = 4
  u1 = u1  u2 = u2
  Users = {u1, u2, u3}
  PoolSize = 2
  MaxAllocated = 1
  MaxRequests = 5
  Threads = {t1, t2}
  MaxCalls = 4
  Objects = {1, 2}
  RetryCount = 1
  LogLimit = 1
  MaxCreations = 3
  Queues = {q1, q2, q3}
  MaxTables = 2
  MaxMembers = 2
  MaxMoves = 5
SPECIFICATION PartsSpec
SYMMETRY Symmetry
INVARIANTS
  ResultOnce SearchLeadsToOne BlocksConserved TablesMoveAlong WeakPointersSound CreatedWholeAndOnce
