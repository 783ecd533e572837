\* One synchronisation of three files, one of them excluded, with up to one
\* change by others.
CONSTANTS
  Name = {1, 2, 3}
  Excluded = {3}
  Data = {a, b, c}
  Size <- Sizes
  Time = {0, 2}
  Now = 2
  MaxTimeDiff = 1
  Comparators = {"smart", "composite", "time"}
  StartLocal <- Directories
  StartRemote <- Buckets
  PageSize = 2
  Parallelism = 2
  BatchSize = 1
  Edited = {1}
  NewData = {c}
  MaxEdits = 1
  None = None
  a = a
  b = b
  c = c
SPECIFICATION FairSyncSpec
INVARIANTS  ReportedIsDone
PROPERTIES RemovalIsSafe SyncReturns
CHECK_DEADLOCK FALSE
