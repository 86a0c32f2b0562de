\* three threads that enqueue and dequeue one or two elements, with and without a timeout; and a
\* client that joins, takes its result and joins again, with two workers; the queue may be full
CONSTANTS
  Threads = {t1, t2, t3}
  initialCount = 0
  Maxes = {1, 2}
  SignalCounts = {1, 2}
  Timeouts = {"none", "some"}
  MaxCalls = 4
  w1 = w1  w2 = w2  p1 = p1
  Clients = {c1}
  ClientOps <- JoinAndGet
  Disciplined = TRUE
  Pools = {p1}
  Workers = {w1, w2}
  PoolOf <- OnePoolOf
  QueueFull = TRUE
  MaxJoins = 3
  MaxGets = 5
  NoPool = NoPool
SPECIFICATION WaitsSpec
INVARIANTS BackedByElements NobodySleepsOnElements PermitsKept NotTerminated
PROPERTIES OwnResult AllReturn
