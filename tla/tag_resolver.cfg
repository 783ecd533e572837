\* Resolutions, batches and manifest calls over one tag cache.
CONSTANTS
  Proc = {p1, p2}
  Reference = {r1}
  Digest = {d1, d2}
  Path = {f1}
  TagPath <- OneFile
  MaxHistorySize = 1
  MaxPuts = 3
  Cached = {d1, d2}
  DefaultTTL = 1
  MaxTime = 2
  MaxMoves = 1
  MaxCalls = 3
  None = None
  r1 = r1
  f1 = f1
SPECIFICATION ResolverSpec
SYMMETRY Symmetry
INVARIANTS  HistoryWellFormed UnstirredIsLatest ResolvedSinceInvalidated ServedIsYoung BatchIsWhole
CHECK_DEADLOCK FALSE
