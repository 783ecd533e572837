----------------------------- MODULE BlobCache -----------------------------
(***************************************************************************)
(* oci/internal/cache/blob.go: blobs stored once, with a reference file    *)
(* that carries a creation time, a TTL and a count.  Each Storage call is  *)
(* one action (AtomicStore is what Storage promises); goroutines           *)
(* interleave between them.  When serialized the calls come through the    *)
(* Coordinator, which holds its RWMutex shared around GetBlob and          *)
(* exclusively around PutBlob and offers no DeleteBlob; otherwise the      *)
(* callers use the BlobCache interface itself.                             *)
(***************************************************************************)
EXTENDS Naturals

CONSTANTS User, Digest,
          MaxCount,      \* bound on the reference count explored
          IOFails,       \* Storage calls may fail
          ReaderFails,   \* the reader handed to PutBlob may fail midway
          NoRef, NoProc

ASSUME BlobAssumption ==
  /\ IOFails \in BOOLEAN /\ ReaderFails \in BOOLEAN
  /\ MaxCount \in Nat \ {0}
  /\ NoProc \notin User

VARIABLES serialized,  \* never changes: calls come through the Coordinator
          refs,      \* refs[d]: the reference file of d, or NoRef
          blobs,     \* blobs[d]: the blob file of d
          blobLock,  \* blobLock[d]: holder of the blob file's lock
          refMutex,  \* holder of refCountMutex
          at, op, dig,
          seen,      \* seen[p]: the reference p has read
          copied,    \* copied[p]: what p's StreamWriter has buffered
          got,       \* got[p]: what p's GetBlob returned
          promised   \* digests a PutBlob has accepted that are still due

blobVars == <<serialized, refs, blobs, blobLock, refMutex, at, op, dig, seen, copied, got, promised>>

(* A reference's age: just written, older, or past its TTL. *)
Ages == {"fresh", "old", "expired"}
Ref == [age : Ages, count : 1..MaxCount]
Contents == {"none", "partial", "whole"}

ASSUME NoRefAssumption == NoRef \notin [age : Ages, count : Nat]

HasBlobPoints == {"refExists", "refRead", "refDrop", "blobExists"}
AddPoints == {"addLock", "addRead", "addWrite"}
DelPoints == {"delLock", "delRead", "delRef", "delBlob", "delWrite"}
Points == HasBlobPoints \cup AddPoints \cup DelPoints
          \cup {"idle", "open", "copy", "close", "read", "ok", "err"}

BlobTypeOK ==
  /\ serialized \in BOOLEAN
  /\ refs \in [Digest -> Ref \cup {NoRef}]
  /\ blobs \in [Digest -> Contents]
  /\ blobLock \in [Digest -> User \cup {NoProc}]
  /\ refMutex \in User \cup {NoProc}
  /\ at \in [User -> Points]
  /\ op \in [User -> {"none", "get", "put", "delete"}]
  /\ dig \in [User -> Digest]
  /\ seen \in [User -> Ref \cup {NoRef}]
  /\ copied \in [User -> Contents]
  /\ got \in [User -> Contents]
  /\ promised \in SUBSET Digest

BlobInit ==
  /\ serialized \in BOOLEAN
  /\ refs = [d \in Digest |-> NoRef]
  /\ blobs = [d \in Digest |-> "none"]
  /\ blobLock = [d \in Digest |-> NoProc]
  /\ refMutex = NoProc
  /\ at = [p \in User |-> "idle"]
  /\ op = [p \in User |-> "none"]
  /\ \E d \in Digest : dig = [p \in User |-> d]
  /\ seen = [p \in User |-> NoRef]
  /\ copied = [p \in User |-> "none"]
  /\ got = [p \in User |-> "none"]
  /\ promised = {}
----------------------------------------------------------------------------
Move(p, l) == at' = [at EXCEPT ![p] = l]
disk == <<refs, blobs>>
locks == <<serialized, blobLock, refMutex>>
call == <<op, dig>>

(* Broken: the Coordinator takes no lock. *)
AdmittedAlways(o) == serialized => o # "delete"

(* The Coordinator's RWMutex, as far as the blob cache can see it. *)
Admitted(o) ==
  serialized =>
    CASE o = "get" -> \A q \in User : op[q] # "put"
      [] o = "put" -> \A q \in User : op[q] = "none"
      [] OTHER -> FALSE

BeginCall(p, o, d) ==
  /\ at[p] = "idle" /\ Admitted(o)
  /\ op' = [op EXCEPT ![p] = o]
  /\ dig' = [dig EXCEPT ![p] = d]
  /\ Move(p, IF o = "delete" THEN "delLock" ELSE "refExists")
  /\ promised' = IF o = "delete" THEN promised \ {d} ELSE promised
  /\ UNCHANGED <<disk, locks, seen, copied, got>>

(* HasBlob, called by GetBlob and PutBlob; it takes no refCountMutex. *)
Missing(p) == Move(p, IF op[p] = "get" THEN "err" ELSE "open")

RefExists(p) ==
  /\ at[p] = "refExists"
  /\ IF refs[dig[p]] = NoRef THEN Missing(p) ELSE Move(p, "refRead")
  /\ UNCHANGED <<disk, locks, call, seen, copied, got, promised>>

RefRead(p) ==
  /\ at[p] = "refRead"
  /\ \/ /\ refs[dig[p]] = NoRef           \* removed since: a read error
        /\ Move(p, "err")
     \/ /\ refs[dig[p]] # NoRef
        /\ Move(p, IF refs[dig[p]].age = "expired" THEN "refDrop" ELSE "blobExists")
  /\ UNCHANGED <<disk, locks, call, seen, copied, got, promised>>

(* The reference read was expired: remove the reference file that is there *)
(* now.                                                                    *)
RefDrop(p) ==
  /\ at[p] = "refDrop"
  /\ \/ /\ refs' = [refs EXCEPT ![dig[p]] = NoRef]
        /\ Missing(p)
     \/ /\ IOFails /\ Move(p, "err") /\ UNCHANGED refs
  /\ UNCHANGED <<blobs, locks, call, seen, copied, got, promised>>

BlobExists(p) ==
  /\ at[p] = "blobExists"
  /\ IF blobs[dig[p]] = "none" THEN Missing(p)
     ELSE Move(p, IF op[p] = "get" THEN "read" ELSE "addLock")
  /\ UNCHANGED <<disk, locks, call, seen, copied, got, promised>>

(* GetBlob's ReadWithIntegrity: the checksum of the file as it was stored. *)
ReadBlob(p) ==
  /\ at[p] = "read"
  /\ blobLock[dig[p]] = NoProc
  /\ got' = [got EXCEPT ![p] = blobs[dig[p]]]
  /\ Move(p, IF blobs[dig[p]] = "none" THEN "err" ELSE "ok")
  /\ UNCHANGED <<disk, locks, call, seen, copied, promised>>

(* PutBlob: NewStreamWriter takes the blob file's lock. *)
OpenStream(p) ==
  /\ at[p] = "open"
  /\ blobLock[dig[p]] = NoProc
  /\ blobLock' = [blobLock EXCEPT ![dig[p]] = p]
  /\ Move(p, "copy")
  /\ UNCHANGED <<serialized, disk, refMutex, call, seen, copied, got, promised>>

CopyData(p) ==
  /\ at[p] = "copy"
  /\ \E c \in {"whole"} \cup (IF ReaderFails THEN {"partial"} ELSE {}) :
       copied' = [copied EXCEPT ![p] = c]
  /\ Move(p, "close")
  /\ UNCHANGED <<disk, locks, call, seen, got, promised>>

(* Broken: the error of the rename is ignored. *)
CloseBlobUnrenamed(p) ==
  /\ at[p] = "close"
  /\ blobLock' = [blobLock EXCEPT ![dig[p]] = NoProc]
  /\ Move(p, "addLock")
  /\ UNCHANGED <<serialized, disk, refMutex, call, seen, copied, got, promised>>

(* Broken: a failed copy is not told from a whole one. *)
CloseBlobUnchecked(p) ==
  /\ at[p] = "close"
  /\ blobs' = [blobs EXCEPT ![dig[p]] = copied[p]]
  /\ blobLock' = [blobLock EXCEPT ![dig[p]] = NoProc]
  /\ Move(p, "addLock")
  /\ UNCHANGED <<serialized, refs, refMutex, call, seen, copied, got, promised>>

(* Close renames whatever was buffered into place, also when PutBlob calls *)
(* it only to clean up after a failed copy.  (The Close that fails itself, *)
(* and leaks the lock, is in Storage.)                                     *)
CloseBlob(p) ==
  /\ at[p] = "close"
  /\ blobs' = [blobs EXCEPT ![dig[p]] = copied[p]]
  /\ blobLock' = [blobLock EXCEPT ![dig[p]] = NoProc]
  /\ Move(p, IF copied[p] = "whole" THEN "addLock" ELSE "err")
  /\ UNCHANGED <<serialized, refs, refMutex, call, seen, copied, got, promised>>

(* A Storage call that only reads, or the opening of the stream, fails,    *)
(* also because the context has been cancelled meanwhile.                  *)
ReadFails(p) ==
  /\ IOFails
  /\ at[p] \in {"refExists", "refRead", "blobExists", "read", "open", "addRead", "delRead"}
  /\ Move(p, "err")
  /\ UNCHANGED <<disk, locks, call, seen, copied, got, promised>>

(* addReference. *)
AddLock(p) ==
  /\ at[p] = "addLock" /\ refMutex = NoProc
  /\ refMutex' = p
  /\ seen' = [seen EXCEPT ![p] = NoRef]
  /\ Move(p, IF refs[dig[p]] = NoRef THEN "addWrite" ELSE "addRead")
  /\ UNCHANGED <<serialized, disk, blobLock, call, copied, got, promised>>

AddRead(p) ==
  /\ at[p] = "addRead"
  /\ seen' = [seen EXCEPT ![p] = refs[dig[p]]]
  /\ Move(p, IF refs[dig[p]] = NoRef THEN "err" ELSE "addWrite")
  /\ UNCHANGED <<disk, locks, call, copied, got, promised>>

(* A new reference starts now; an existing one keeps its creation time. *)
NewRef(s) == IF s = NoRef THEN [age |-> "fresh", count |-> 1]
             ELSE [s EXCEPT !.count = @ + 1]

BeingDeleted(d) == \E q \in User : op[q] = "delete" /\ dig[q] = d

AddWrite(p) ==
  /\ at[p] = "addWrite"
  /\ seen[p] # NoRef => seen[p].count < MaxCount
  /\ \/ /\ refs' = [refs EXCEPT ![dig[p]] = NewRef(seen[p])]
        /\ promised' = IF NewRef(seen[p]).age = "expired" \/ BeingDeleted(dig[p])
                       THEN promised ELSE promised \cup {dig[p]}
        /\ Move(p, "ok")
     \/ /\ IOFails /\ Move(p, "err") /\ UNCHANGED <<refs, promised>>
  /\ UNCHANGED <<blobs, locks, call, seen, copied, got>>

(* removeReference. *)
DelLock(p) ==
  /\ at[p] = "delLock" /\ refMutex = NoProc
  /\ refMutex' = p
  /\ Move(p, IF refs[dig[p]] = NoRef THEN "ok" ELSE "delRead")
  /\ UNCHANGED <<serialized, disk, blobLock, call, seen, copied, got, promised>>

DelRead(p) ==
  /\ at[p] = "delRead"
  /\ seen' = [seen EXCEPT ![p] = refs[dig[p]]]
  /\ Move(p, IF refs[dig[p]] = NoRef THEN "err"
             ELSE IF refs[dig[p]].count <= 1 THEN "delRef" ELSE "delWrite")
  /\ UNCHANGED <<disk, locks, call, copied, got, promised>>

DelRef(p) ==
  /\ at[p] = "delRef"
  /\ \/ refs' = [refs EXCEPT ![dig[p]] = NoRef] /\ Move(p, "delBlob")
     \/ IOFails /\ Move(p, "err") /\ UNCHANGED refs
  /\ UNCHANGED <<blobs, locks, call, seen, copied, got, promised>>

DelBlob(p) ==
  /\ at[p] = "delBlob" /\ blobLock[dig[p]] = NoProc
  /\ \/ blobs' = [blobs EXCEPT ![dig[p]] = "none"] /\ Move(p, "ok")
     \/ IOFails /\ Move(p, "err") /\ UNCHANGED blobs
  /\ UNCHANGED <<refs, locks, call, seen, copied, got, promised>>

DelWrite(p) ==
  /\ at[p] = "delWrite"
  /\ \/ /\ refs' = [refs EXCEPT ![dig[p]] = [seen[p] EXCEPT !.count = @ - 1]]
        /\ Move(p, "ok")
     \/ IOFails /\ Move(p, "err") /\ UNCHANGED refs
  /\ UNCHANGED <<blobs, locks, call, seen, copied, got, promised>>

(* Return: the deferred unlocks. *)
BlobReturn(p) ==
  /\ at[p] \in {"ok", "err"}
  /\ Move(p, "idle")
  /\ op' = [op EXCEPT ![p] = "none"]
  /\ refMutex' = IF refMutex = p THEN NoProc ELSE refMutex
  /\ seen' = [seen EXCEPT ![p] = NoRef]
  /\ copied' = [copied EXCEPT ![p] = "none"]
  /\ got' = [got EXCEPT ![p] = "none"]
  /\ UNCHANGED <<serialized, disk, blobLock, dig, promised>>

(* Time passes, for the reference file of d and for every copy of it read. *)
Older(r) == IF r = NoRef THEN r
            ELSE [r EXCEPT !.age = IF @ = "fresh" THEN "old" ELSE "expired"]

Age(d) ==
  /\ refs[d] # NoRef /\ refs[d].age # "expired"
  /\ refs' = [refs EXCEPT ![d] = Older(@)]
  /\ seen' = [p \in User |-> IF dig[p] = d THEN Older(seen[p]) ELSE seen[p]]
  /\ promised' = IF refs[d].age = "old" THEN promised \ {d} ELSE promised
  /\ UNCHANGED <<blobs, locks, at, call, copied, got>>

(* The process dies: memory is gone, files stay. *)
BlobCrash ==
  /\ blobLock' = [d \in Digest |-> NoProc]
  /\ refMutex' = NoProc
  /\ at' = [p \in User |-> "idle"]
  /\ op' = [p \in User |-> "none"]
  /\ seen' = [p \in User |-> NoRef]
  /\ copied' = [p \in User |-> "none"]
  /\ got' = [p \in User |-> "none"]
  /\ UNCHANGED <<serialized, disk, dig, promised>>

BlobStep(p) ==
  \/ RefExists(p) \/ RefRead(p) \/ RefDrop(p) \/ BlobExists(p) \/ ReadBlob(p)
  \/ ReadFails(p) \/ OpenStream(p) \/ CopyData(p) \/ CloseBlob(p)
  \/ AddLock(p) \/ AddRead(p) \/ AddWrite(p)
  \/ DelLock(p) \/ DelRead(p) \/ DelRef(p) \/ DelBlob(p) \/ DelWrite(p)
  \/ BlobReturn(p)

BlobNext ==
  \/ \E p \in User, o \in {"get", "put", "delete"}, d \in Digest : BeginCall(p, o, d)
  \/ \E p \in User : BlobStep(p)
  \/ \E d \in Digest : Age(d)
  \/ BlobCrash

BlobSpec == BlobInit /\ [][BlobNext]_blobVars
----------------------------------------------------------------------------
(* Through the Coordinator, GetBlob never hands out a blob whose copy      *)
(* failed midway, although the "Cleanup on error" of PutBlob renames       *)
(* exactly such a blob into place.                                         *)
GetReturnsWhole ==
  serialized => \A p \in User : at[p] = "ok" /\ op[p] = "get" => got[p] = "whole"

(* Through the Coordinator, what PutBlob accepted stays there, whole and   *)
(* with a live reference, until its TTL is over: no other call, no expiry  *)
(* check and no crash takes it away.                                       *)
AcceptedBlobStays ==
  serialized =>
    \A d \in promised : refs[d] # NoRef /\ refs[d].age # "expired" /\ blobs[d] = "whole"

(* A reference never outlives its blob: whoever finds a reference and no   *)
(* operation running finds the blob.                                       *)
NoDanglingRef ==
  serialized /\ (\A p \in User : at[p] = "idle")
    => \A d \in Digest : refs[d] # NoRef => blobs[d] # "none"

(* refCountMutex makes read-modify-write of a count atomic, also for those *)
(* who use the BlobCache itself: a count that addReference or              *)
(* removeReference writes was computed from the count it replaces, unless  *)
(* an expiry check dropped the file in between.                            *)
NoLostCount ==
  [][\A p \in User :
       (AddWrite(p) \/ DelWrite(p)) /\ at'[p] = "ok" /\ refs[dig[p]] # NoRef
         => seen[p] # NoRef /\ refs[dig[p]].count = seen[p].count]_blobVars

(* What the disk and the counts go through: the types, no reference to a   *)
(* blob that is not there, and no count lost between two callers.          *)
ReferencesAreSound == [](BlobTypeOK /\ NoDanglingRef) /\ NoLostCount
============================================================================
