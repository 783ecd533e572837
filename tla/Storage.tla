------------------------------ MODULE Storage ------------------------------
(***************************************************************************)
(* oci/internal/cache/storage.go: files written through a temporary file   *)
(* and a rename, under a per-path mutex, with a checksum line in front of  *)
(* the data.  globalLock guards single filesystem calls, so each such call *)
(* is one action and other goroutines run between two of them; only        *)
(* NewStreamWriter holds it from TempDir to Create.                        *)
(***************************************************************************)
CONSTANTS Proc,     \* goroutines
          Path,     \* final paths
          Data,     \* contents handed to a write
          TempDir,  \* names fs.TempDir can hand out: bounds the leftovers
          Faults,   \* the filesystem calls that may fail in this instance
          NoData, Torn, Free, Leaked, NoTemp, NoReq

FaultNames == {"tempdir", "create", "write", "rename", "remove", "close"}

ASSUME StorageAssumption ==
  /\ NoData \notin Data /\ Torn \notin Data /\ Torn # NoData
  /\ Free \notin Proc /\ Leaked \notin Proc /\ Free # Leaked
  /\ NoTemp \notin TempDir
  /\ Faults \subseteq FaultNames

VARIABLES files,    \* files[q]: the file at path q
          temps,    \* temps[t]: the directory .temp/t and the file in it
          lock,     \* lock[q]: holder of fileLocks[q]
          pc, req, tmp,
          out,      \* data a read that succeeded returns
          damaged   \* paths whose file a power loss has torn

vars == <<files, temps, lock, pc, req, tmp, out, damaged>>

(* A file is its checksum line (the data the digest was computed from) and *)
(* its data.  It is valid when the two agree.                              *)
File == [sum : Data \cup {NoData}, data : Data \cup {NoData, Torn}]
EmptyFile == [sum |-> NoData, data |-> NoData]
Complete(d) == [sum |-> d, data |-> d]
Absent == [sum |-> Torn, data |-> NoData]          \* no file at the path
EmptyDir == [sum |-> Torn, data |-> Torn]          \* temp directory, no file
NoDir == Absent                                    \* temp directory is free

Valid(f) == f.sum \in Data /\ f.data = f.sum

Request == [op : {"write", "stream"}, path : Path, data : Data]
           \cup [op : {"read", "remove"}, path : Path, data : {NoData}]

ASSUME NoReqAssumption == NoReq \notin Request

(* Program points at which the goroutine holds the lock of its path. *)
Writing == {"create", "sum", "data", "rename", "streaming"}
Critical == Writing \cup {"tempdir", "read", "remove", "done", "fail", "leak"}

TypeOK ==
  /\ files \in [Path -> File \cup {Absent}]
  /\ temps \in [TempDir -> File \cup {EmptyDir, NoDir}]
  /\ lock \in [Path -> Proc \cup {Free, Leaked}]
  /\ pc \in [Proc -> Critical \cup {"idle", "lock", "cancelled"}]
  /\ req \in [Proc -> Request \cup {NoReq}]
  /\ tmp \in [Proc -> TempDir \cup {NoTemp}]
  /\ out \in [Proc -> Data \cup {NoData}]
  /\ damaged \in SUBSET Path

Init ==
  /\ files = [q \in Path |-> Absent]
  /\ temps = [t \in TempDir |-> NoDir]
  /\ lock = [q \in Path |-> Free]
  /\ pc = [p \in Proc |-> "idle"]
  /\ req = [p \in Proc |-> NoReq]
  /\ tmp = [p \in Proc |-> NoTemp]
  /\ out = [p \in Proc |-> NoData]
  /\ damaged = {}
----------------------------------------------------------------------------
Goto(p, l) == pc' = [pc EXCEPT ![p] = l]
MayFail(f) == f \in Faults

(* A failed step of WriteAtomically runs its deferred cleanup and unlock;  *)
(* a failed step of StreamWriter.Close returns without unlocking.          *)
FailWrite(p) == Goto(p, IF req[p].op = "stream" THEN "leak" ELSE "fail")

(* Every operation starts with ctx.Err(). *)
Begin(p, r) ==
  /\ pc[p] = "idle"
  /\ req' = [req EXCEPT ![p] = r]
  /\ \E l \in {"lock", "cancelled"} : Goto(p, l)
  /\ UNCHANGED <<files, temps, lock, tmp, out, damaged>>

(* Broken: each call makes a mutex of its own. *)
AcquireOwnLock(p) ==
  /\ pc[p] = "lock"
  /\ lock' = [lock EXCEPT ![req[p].path] = p]
  /\ Goto(p, IF req[p].op \in {"write", "stream"} THEN "tempdir" ELSE req[p].op)
  /\ UNCHANGED <<files, temps, req, tmp, out, damaged>>

AcquireFileLock(p) ==
  /\ pc[p] = "lock"
  /\ lock[req[p].path] = Free
  /\ lock' = [lock EXCEPT ![req[p].path] = p]
  /\ Goto(p, IF req[p].op \in {"write", "stream"} THEN "tempdir" ELSE req[p].op)
  /\ UNCHANGED <<files, temps, req, tmp, out, damaged>>

(* fs.TempDir hands out random names: never one in use or once in use by   *)
(* an operation still running.  No name left stands for a full disk.       *)
FreshNames == {t \in TempDir : temps[t] = NoDir /\ \A p \in Proc : tmp[p] # t}

(* MkdirAll(dir) and TempDir(.temp, ...). *)
MakeTempDir(p) ==
  /\ pc[p] = "tempdir"
  /\ \/ \E t \in FreshNames :
          /\ temps' = [temps EXCEPT ![t] = EmptyDir]
          /\ tmp' = [tmp EXCEPT ![p] = t]
          /\ Goto(p, "create")
     \/ /\ MayFail("tempdir") \/ FreshNames = {}
        /\ Goto(p, "fail")
        /\ UNCHANGED <<temps, tmp>>
  /\ UNCHANGED <<files, lock, req, out, damaged>>

(* fs.Create(tempFile); it makes the parent directory again if a cleanup   *)
(* has removed it.  NewStreamWriter unlocks when this Create fails.        *)
CreateTemp(p) ==
  /\ pc[p] = "create"
  /\ \/ /\ temps' = [temps EXCEPT ![tmp[p]] = EmptyFile]
        /\ Goto(p, IF req[p].op = "stream" THEN "streaming" ELSE "sum")
     \/ /\ MayFail("create")
        /\ Goto(p, "fail")
        /\ UNCHANGED temps
  /\ UNCHANGED <<files, lock, req, tmp, out, damaged>>

(* StreamWriter.Close: writeWithChecksum creates the temp file anew.  The  *)
(* writes of the caller up to here only fill the buffer, req[p].data.      *)
CloseStream(p) ==
  /\ pc[p] = "streaming"
  /\ \/ /\ temps' = [temps EXCEPT ![tmp[p]] = EmptyFile]
        /\ Goto(p, "sum")
     \/ /\ MayFail("close")
        /\ Goto(p, "leak")
        /\ UNCHANGED temps
  /\ UNCHANGED <<files, lock, req, tmp, out, damaged>>

WriteChecksum(p) ==
  /\ pc[p] = "sum"
  /\ \/ /\ temps' = [temps EXCEPT ![tmp[p]].sum = req[p].data]
        /\ Goto(p, "data")
     \/ /\ MayFail(IF req[p].op = "stream" THEN "close" ELSE "write")
        /\ FailWrite(p)
        /\ UNCHANGED temps
  /\ UNCHANGED <<files, lock, req, tmp, out, damaged>>

(* Broken: the error of a short write is ignored. *)
WriteDataUnchecked(p) ==
  /\ pc[p] = "data"
  /\ \E d \in {req[p].data, Torn} : temps' = [temps EXCEPT ![tmp[p]].data = d]
  /\ Goto(p, "rename")
  /\ UNCHANGED <<files, lock, req, tmp, out, damaged>>

WriteData(p) ==
  /\ pc[p] = "data"
  /\ \/ /\ temps' = [temps EXCEPT ![tmp[p]].data = req[p].data]
        /\ Goto(p, "rename")
     \/ /\ MayFail(IF req[p].op = "stream" THEN "close" ELSE "write")
        /\ temps' = [temps EXCEPT ![tmp[p]].data = Torn]
        /\ FailWrite(p)
  /\ UNCHANGED <<files, lock, req, tmp, out, damaged>>

Rename(p) ==
  /\ pc[p] = "rename"
  /\ \/ /\ files' = [files EXCEPT ![req[p].path] = temps[tmp[p]]]
        /\ temps' = [temps EXCEPT ![tmp[p]] = EmptyDir]
        /\ damaged' = damaged \ {req[p].path}
        /\ Goto(p, "done")
     \/ /\ MayFail(IF req[p].op = "stream" THEN "close" ELSE "rename")
        /\ FailWrite(p)
        /\ UNCHANGED <<files, temps, damaged>>
  /\ UNCHANGED <<lock, req, tmp, out>>

(* Broken: no checksum comparison. *)
ReadUnverified(p) ==
  /\ pc[p] = "read"
  /\ out' = [out EXCEPT ![p] = files[req[p].path].data]
  /\ Goto(p, IF files[req[p].path] = Absent THEN "fail" ELSE "done")
  /\ UNCHANGED <<files, temps, lock, req, tmp, damaged>>

(* Exists, Open, ReadAll and the checksum comparison: the path's lock is   *)
(* held, so nothing can change the file between them.                      *)
ReadFile(p) ==
  /\ pc[p] = "read"
  /\ LET f == files[req[p].path] IN
     \/ /\ f # Absent /\ Valid(f)
        /\ out' = [out EXCEPT ![p] = f.data]
        /\ Goto(p, "done")
     \/ /\ f = Absent \/ ~Valid(f)       \* not found, or ErrCacheCorrupted
        /\ Goto(p, "fail")
        /\ UNCHANGED out
  /\ UNCHANGED <<files, temps, lock, req, tmp, damaged>>

RemoveFile(p) ==
  /\ pc[p] = "remove"
  /\ \/ /\ files' = [files EXCEPT ![req[p].path] = Absent]
        /\ damaged' = damaged \ {req[p].path}
        /\ Goto(p, "done")
     \/ /\ MayFail("remove")
        /\ Goto(p, "fail")
        /\ UNCHANGED <<files, damaged>>
  /\ UNCHANGED <<temps, lock, req, tmp, out>>

(* The temp directory is removed when WriteAtomically returns and when a   *)
(* StreamWriter has been renamed into place; Remove refuses a directory    *)
(* that still has a file in it, and the error is ignored.                  *)
RemovesTempDir(p) ==
  /\ tmp[p] # NoTemp
  /\ req[p].op = "write" \/ (req[p].op = "stream" /\ pc[p] = "done")
  /\ temps[tmp[p]] = EmptyDir

(* Deferred cleanup, unlock and return. *)
Return(p) ==
  /\ pc[p] \in {"done", "fail"}
  /\ temps' = IF RemovesTempDir(p) THEN [temps EXCEPT ![tmp[p]] = NoDir] ELSE temps
  /\ lock' = [lock EXCEPT ![req[p].path] = Free]
  /\ Goto(p, "idle")
  /\ req' = [req EXCEPT ![p] = NoReq]
  /\ tmp' = [tmp EXCEPT ![p] = NoTemp]
  /\ out' = [out EXCEPT ![p] = NoData]
  /\ UNCHANGED <<files, damaged>>

(* StreamWriter.Close returns an error: no unlock, no cleanup. *)
ReturnLocked(p) ==
  /\ pc[p] = "leak"
  /\ lock' = [lock EXCEPT ![req[p].path] = Leaked]
  /\ Goto(p, "idle")
  /\ req' = [req EXCEPT ![p] = NoReq]
  /\ tmp' = [tmp EXCEPT ![p] = NoTemp]
  /\ out' = [out EXCEPT ![p] = NoData]
  /\ UNCHANGED <<files, temps, damaged>>

ReturnCancelled(p) ==
  /\ pc[p] = "cancelled"
  /\ Goto(p, "idle")
  /\ req' = [req EXCEPT ![p] = NoReq]
  /\ out' = [out EXCEPT ![p] = NoData]
  /\ UNCHANGED <<files, temps, lock, tmp, damaged>>

(* Broken: removes the directories with all that is in them. *)
CleanupRemoveAll ==
  /\ temps' = [t \in TempDir |-> NoDir]
  /\ UNCHANGED <<files, lock, pc, req, tmp, out, damaged>>

(* cleanupTempDirectory walks .temp under globalLock.  The walk visits a   *)
(* directory before its file, so it aborts at the first directory that is  *)
(* not empty; the names are random, so that may be at any point.           *)
CleanupTempFiles ==
  /\ \A p \in Proc : pc[p] = "create" => req[p].op # "stream"
  /\ LET empties == {t \in TempDir : temps[t] = EmptyDir}
         blocked == \E t \in TempDir : temps[t] \notin {EmptyDir, NoDir}
     IN \E removed \in SUBSET empties :
          /\ blocked \/ removed = empties
          /\ temps' = [t \in TempDir |-> IF t \in removed THEN NoDir ELSE temps[t]]
  /\ UNCHANGED <<files, lock, pc, req, tmp, out, damaged>>

(* The process dies and starts again: locks and calls are gone, the disk   *)
(* stays.                                                                  *)
Restart ==
  /\ pc' = [p \in Proc |-> "idle"]
  /\ lock' = [q \in Path |-> Free]
  /\ tmp' = [p \in Proc |-> NoTemp]
  /\ req' = [p \in Proc |-> NoReq]
  /\ out' = [p \in Proc |-> NoData]

Crash == Restart /\ UNCHANGED <<files, temps, damaged>>

(* writeWithChecksum does not fsync: a power loss may leave any file short.*)
PowerLoss ==
  /\ Restart
  /\ \E short \in SUBSET {q \in Path : files[q] # Absent} :
       /\ files' = [q \in Path |-> IF q \in short THEN [files[q] EXCEPT !.data = Torn]
                                                ELSE files[q]]
       /\ damaged' = damaged \cup short
  /\ UNCHANGED temps

Step(p) ==
  \/ AcquireFileLock(p) \/ MakeTempDir(p) \/ CreateTemp(p) \/ CloseStream(p)
  \/ WriteChecksum(p) \/ WriteData(p) \/ Rename(p) \/ ReadFile(p)
  \/ RemoveFile(p) \/ Return(p) \/ ReturnLocked(p) \/ ReturnCancelled(p)

Next ==
  \/ \E p \in Proc : \E r \in Request : Begin(p, r)
  \/ \E p \in Proc : Step(p)
  \/ CleanupTempFiles
  \/ Crash
  \/ PowerLoss

Spec == Init /\ [][Next]_vars
----------------------------------------------------------------------------
(* What the abstract store holds at a path: the data of a valid file. *)
StoredData(f) == IF Valid(f) THEN f.data ELSE NoData

PhaseOf(l) ==
  CASE l = "idle" -> "idle"
    [] l = "done" -> "ok"
    [] l \in {"fail", "leak", "cancelled"} -> "err"
    [] OTHER -> "pending"

Abstract == INSTANCE AtomicStore WITH
  store <- [q \in Path |-> StoredData(files[q])],
  phase <- [p \in Proc |-> PhaseOf(pc[p])]

(* Storage implements AtomicStore: every call of WriteAtomically,          *)
(* StreamWriter, ReadWithIntegrity and Remove takes effect once, between   *)
(* its call and its return, or not at all when it returns an error.        *)
ImplementsAtomicStore == Abstract!Spec

(* A file that no power loss has torn is complete and carries the digest   *)
(* of its data: "preventing partial/corrupted files from being visible".   *)
NoPartialFile ==
  \A q \in Path : q \notin damaged => files[q] = Absent \/ Valid(files[q])

(* Per-file locking: two goroutines are never both between the lock and    *)
(* the unlock of one path, though StreamWriter unlocks in another call     *)
(* than it locks in.                                                       *)
FileLockExclusive ==
  \A p1, p2 \in Proc :
    /\ pc[p1] \in Critical /\ pc[p2] \in Critical
    /\ req[p1].path = req[p2].path
    => p1 = p2

(* CleanupTempFiles never takes away the temporary file of a write that is *)
(* still running, so a write that got to its rename finds the file whole.  *)
TempFileKept ==
  \A p \in Proc : pc[p] = "rename" => temps[tmp[p]] = Complete(req[p].data)
============================================================================
