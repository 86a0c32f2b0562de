\* FIXED mode, a client stops the pool and joins again
CONSTANTS
  c1 = c1  c2 = c2
  Clients = {c1}
  ClientOps <- JoinAndStop
  NestedJoins = FALSE
  ThreadIds = {t1, t2}
  Slots = {1, 2}
  Modes = {"FIXED"}
  StartSizes = {}
  CpuThreads = 1
  ThreadsThresholds = {1}
  TasksThresholds = {1}
  ThreadsExpire = FALSE
  MaxCalls = 3
  Free = Free
SPECIFICATION Spec
INVARIANT NoStrandedTask
