\* A process that does everything beside one that stores, rotates, closes and
\* uses the same SecretString.
CONSTANTS
  Proc = {p1, p2}
  Path = {s1}
  Value = {x, y}
  Kept = {x}
  Version = {v1}
  Batch <- References
  Shared <- First
  Work <- Works
  MaxCalls <- Calls
  Parallel = 1
  None = None
  p1 = p1
  p2 = p2
  s1 = s1
  v1 = v1
SPECIFICATION FairSpec
INVARIANTS SecretsAreKept 
PROPERTIES ImplementsAtomicSecret CallsReturn
CHECK_DEADLOCK FALSE
