\* Calls through the Coordinator or on the BlobCache itself: reader failures,
\* I/O failures, expiry, crashes.
CONSTANTS
  User = {p1, p2}
  Digest = {d1, d2}
  MaxCount = 2
  IOFails = TRUE
  ReaderFails = TRUE
  NoRef = NoRef
  NoProc = NoProc
SPECIFICATION BlobSpec
SYMMETRY Symmetry
INVARIANTS GetReturnsWhole AcceptedBlobStays
PROPERTY ReferencesAreSound
