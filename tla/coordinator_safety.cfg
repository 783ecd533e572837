\* A client and the cleanup goroutine, failures and restarts.
CONSTANTS
  Client = {c1}
  Cleaner = Cleaner
  Key = {m1, b1}
  m1 = m1
  b1 = b1
  Size <- ManifestAndBlob
  EntrySize = 2
  MaxSizeBytes = 6
  MaxEntries = 2
  Work = {"get", "put", "size", "clear", "cleanup"}
  IOFails = TRUE
  Crashes = TRUE
  NoActor = NoActor
  NoKey = NoKey
SPECIFICATION Spec
INVARIANTS IndexIsSound EvictionFreesTracked
CHECK_DEADLOCK FALSE
