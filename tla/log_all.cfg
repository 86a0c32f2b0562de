\* two clients use every operation, the limit changes, the file may not open, the logger
\* is destroyed when the clients have returned; no deadlock check: the destructor may hang
CONSTANTS
  c1 = c1  c2 = c2
  Clients = {c1, c2}
  ClientOps <- AllOps
  Limits = {1, 2}
  Destroys = TRUE
  FileFails = TRUE
  MaxLogs = 2
  MaxWaits = 2
  NoOne = NoOne
SPECIFICATION FairSpec
PROPERTY CallsReturn
INVARIANTS WorkerHears InOrder QueueBounded DrainedAtExit
CHECK_DEADLOCK FALSE
