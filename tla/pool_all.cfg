\* Each component on a small instance of its own, one at a time.
\* Of the pool: one client makes every call and tasks join tasks, both modes.
\* Of log files: limits that one message, two messages or none reaches.
\* Of the crash diagnostics: as many threads as fill the pipe.
\* Of the counting semaphore: two threads that wait at a release of two, and a third.
CONSTANTS
  c1 = c1
  Clients = {c1}
  ClientOps <- OneOwner
  NestedJoins = TRUE
  ThreadIds = {t1, t2}
  Slots = {1, 2}
  Modes = {"FIXED", "CACHE"}
  StartSizes = {1}
  CpuThreads = 2
  ThreadsThresholds = {1, 2}
  TasksThresholds = {1, 2}
  ThreadsExpire = TRUE
  MaxCalls = 4
  Free = Free
  Bases = {"app"}
  FileLimits = {0, 2}
  Retentions = {0, 1}
  Sizes = {1, 2}
  SeqLimit = 2
  MaxDays = 3
  MaxMessages = 3
  MaxStarts = 3
  CrashThreads = {v1, v2}
  CrashSignals <- CrashOrder
  Faults = {"segv"}
  Aborts = {"abrt"}
  CrashPipeSize = 2
  MaxSwitches = 2
  r1 = r1  r2 = r2  s1 = s1  s2 = s2
  Registrars = {r1, r2}
  SystemSignals = {s1, s2}
  OwnerOf <- OwnerOfSignal
  MaxObjects = 3
  MaxRaises = 2
  PipeSize = 2
  N = 3
  Values = {0, 1}
  SizeMod = 16
  Acquirers = {a1, a2, a3}
  LeastMaxValue = 2
  Updates = {1, 2}
  MaxReleases = 3
SPECIFICATION PartsSpec
INVARIANTS
  NoLostWakeup TicketsOnce CountersExact
  FilesInOrder SizeFollows HandledIfRegistered KeepsNewest PermitsCounted
PROPERTY StopMeansQuiet
