\* one fatal message
CONSTANTS
  c1 = c1  c2 = c2
  Clients = {c1}
  ClientOps <- FatalOnly
  Limits = {0}
  Destroys = FALSE
  FileFails = FALSE
  MaxLogs = 1
  MaxWaits = 0
  NoOne = NoOne
SPECIFICATION Spec
PROPERTY FlushMeansWritten
