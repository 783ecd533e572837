\* The operations of a client beside one that changes the same objects.
CONSTANTS
  Client = {c1, c2}
  Key = {1, 2}
  Data = {large, other, small}
  Size <- Sizes
  Stored = {large}
  UploadId = {u1}
  PageSize = 1
  PartSize = 2
  Concurrency = 1
  File = File
  None = None
  Work <- Works
  Contents <- Stores
  MaxCalls <- Calls
  Threshold = 2
  Cancels = {c1}
  c1 = c1
  c2 = c2
  large = large
  other = other
  small = small
SPECIFICATION FairSpec
INVARIANTS UploadsAreSound MoveKeepsObject ListedOnceIfStable
PROPERTY EverythingEnds
CHECK_DEADLOCK FALSE
