\* A key is put twice.
CONSTANTS
  Client = {c1, c2}
  Cleaner = Cleaner
  Key = {m1, b1}
  m1 = m1
  b1 = b1
  Size <- ManifestAndBlob
  EntrySize = 2
  MaxSizeBytes = 6
  MaxEntries = 2
  Work = {"put", "reput"}
  IOFails = FALSE
  Crashes = FALSE
  NoActor = NoActor
  NoKey = NoKey
SPECIFICATION FairSpec
CHECK_DEADLOCK FALSE
PROPERTY EveryCallReturns
