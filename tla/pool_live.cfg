\* one client makes every call, task bodies join, both modes, no thread expires: what was
\* accepted is run, every call returns
CONSTANTS
  c1 = c1  c2 = c2
  Clients = {c1}
  ClientOps <- OneOwner
  NestedJoins = TRUE
  ThreadIds = {t1, t2}
  Slots = {1, 2}
  Modes = {"FIXED", "CACHE"}
  StartSizes = {1}
  CpuThreads = 1
  ThreadsThresholds = {1, 2}
  TasksThresholds = {1}
  ThreadsExpire = FALSE
  MaxCalls = 3
  Free = Free
SPECIFICATION FairSpec
PROPERTIES JobsRun CallsReturn
