\* Two clients, Close and a running cleanup: locks, liveness, the last save.
CONSTANTS
  Client = {c1, c2}
  Cleaner = Cleaner
  Key = {m1}
  m1 = m1
  b1 = b1
  Size <- OneManifest
  EntrySize = 2
  MaxSizeBytes = 0
  MaxEntries = 2
  Work = {"get", "reput", "clear", "close", "cleanup"}
  IOFails = FALSE
  Crashes = FALSE
  NoActor = NoActor
  NoKey = NoKey
SPECIFICATION FairSpec
INVARIANT CloseIsLast
 
CHECK_DEADLOCK FALSE
