\* A push beside a pull of the same reference, and two pulls beside each other;
\* the source changes once while it is read.
CONSTANTS
  Proc = {p1, p2}
  Dir = {d1}
  Work <- Works
  MaxCalls <- Calls
  Name = {f1, f2, h}
  Kind <- Kinds
  Size = {1, 2}
  MaxFiles = 2
  MaxFileSize = 2
  MaxSize = 3
  Sources <- Directories
  Stored <- StoredArchives
  MaxRetries = 1
  MaxEdits = 1
  None = None
  p1 = p1
  p2 = p2
  f1 = f1
  f2 = f2
  h = h
SPECIFICATION FairSpec
INVARIANTS RegistryIsSound  
PROPERTY CallsReturn
CHECK_DEADLOCK FALSE
