\* The priorities of initializeCaches; entries of sizes around the limit.
CONSTANTS
  Key = {k1, k2, k3}
  EntrySizes = {1, 2}
  MaxSizeBytes = 2
  LRUPriority = 1
  SizePriority = 2
  MaxUses = 4
SPECIFICATION StrategySpec
SYMMETRY Symmetry
INVARIANTS LruIsLeastRecentlyUsed SelectsTheRightOnes SelectsEnough
