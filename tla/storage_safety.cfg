\* Two paths that share .temp; every call of the file system may fail, crashes,
\* power losses.
CONSTANTS
  Proc = {p1, p2}
  Path = {a, b}
  Data = {d1, d2}
  TempDir = {t1, t2}
  Faults = {"tempdir", "create", "write", "rename", "remove", "close"}
  NoData = NoData
  Torn = Torn
  Free = Free
  Leaked = Leaked
  NoTemp = NoTemp
  NoReq = NoReq
SPECIFICATION Spec
SYMMETRY Symmetry
INVARIANTS TypeOK NoPartialFile FileLockExclusive TempFileKept
PROPERTY ImplementsAtomicStore
