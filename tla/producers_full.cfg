\* One behaviour: the comment counts on a free slot in every table.
CONSTANTS
  Threads <- Ids
  HashOf <- SameHash
  InitialSize = 16
  MaxProducers = 50
  MaxTables = 2
  MaxCalls = 100
SPECIFICATION ScheduleSpec
INVARIANT SearchEnds
