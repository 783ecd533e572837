------------------------------ MODULE TagCache ------------------------------
(***************************************************************************)
(* oci/internal/cache/tags.go: one file per tag reference that holds the   *)
(* digest the tag points at and the digests it pointed at before.  Every   *)
(* operation is a read, a change in memory and a write of the whole file,  *)
(* without a lock across them; each Storage call is one action.  History   *)
(* is enabled.                                                             *)
(***************************************************************************)
EXTENDS Naturals, Sequences

CONSTANTS Proc, Reference, Digest, Path,
          TagPath,         \* TagPath[r]: the file name of reference r (tagPath)
          MaxHistorySize,
          MaxPuts,         \* bound on the puts explored
          None             \* no entry, reference or digest

ASSUME TagAssumption ==
  /\ TagPath \in [Reference -> Path]
  /\ None \notin Reference \cup Digest
  /\ MaxHistorySize \in Nat /\ MaxPuts \in Nat

(* No entry is told from every entry.                                      *)
ASSUME NoEntryAssumption ==
  None \notin [reference : Reference, digest : Digest, history : Seq(Digest), expired : BOOLEAN]

VARIABLES tags,     \* tags[q]: the tag entry in file q, or None
          puts,     \* puts begun
          pc, op, ref, dgst,
          seen,     \* seen[p]: the entry p has read
          latest,   \* latest[q]: the digest of the last put or delete of file q
                    \* that returned, "none" if none or removed, "race" while two
                    \* overlap
          stirred   \* files with calls that overlapped since the last put or
                    \* delete that began alone

tagVars == <<tags, puts, pc, op, ref, dgst, seen, latest, stirred>>

(* A "look" is HasTagMapping or GetTagHistory: both read and may drop. *)
Ops == {"get", "put", "look", "delete"}
Points == {"idle", "read", "drop", "write", "remove", "ok", "err"}

IsEntry(e) ==
  /\ e.reference \in Reference /\ e.digest \in Digest
  /\ e.expired \in BOOLEAN
  /\ e.history \in Seq(Digest)

TypeOK ==
  /\ \A q \in Path : tags[q] # None => IsEntry(tags[q])
  /\ puts \in 0..MaxPuts
  /\ ref \in [Proc -> Reference \cup {None}] /\ dgst \in [Proc -> Digest \cup {None}]
  /\ pc \in [Proc -> Points]
  /\ op \in [Proc -> Ops \cup {"none"}]
  /\ \A p \in Proc : seen[p] # None => IsEntry(seen[p])
  /\ stirred \in SUBSET Path

Init ==
  /\ tags = [q \in Path |-> None]
  /\ puts = 0
  /\ pc = [p \in Proc |-> "idle"]
  /\ op = [p \in Proc |-> "none"]
  /\ ref = [p \in Proc |-> None]
  /\ dgst = [p \in Proc |-> None]
  /\ seen = [p \in Proc |-> None]
  /\ latest = [q \in Path |-> "none"]
  /\ stirred = {}
----------------------------------------------------------------------------
Goto(p, l) == pc' = [pc EXCEPT ![p] = l]
FileOf(p) == TagPath[ref[p]]

Changing(p) == op[p] \in {"put", "delete"}
Overlapped(p) == \E q \in Proc \ {p} : Changing(q) /\ FileOf(q) = FileOf(p)

(* Every call names a reference, a put also a digest.  A cancelled context *)
(* or an invalid name ends the call at once.                               *)
Begin(p, o, r, d) ==
  /\ pc[p] = "idle"
  /\ o = "put" <=> d # None
  /\ op' = [op EXCEPT ![p] = o]
  /\ ref' = [ref EXCEPT ![p] = r]
  /\ dgst' = [dgst EXCEPT ![p] = d]
  /\ o = "put" => puts < MaxPuts
  /\ puts' = IF o = "put" THEN puts + 1 ELSE puts
  /\ latest' = IF o \in {"put", "delete"} THEN [latest EXCEPT ![TagPath[r]] = "race"] ELSE latest
  /\ LET alone == \A q \in Proc \ {p} : op[q] # "none" => FileOf(q) # TagPath[r] IN
     stirred' = IF ~alone THEN stirred \cup {TagPath[r]}
                ELSE IF o \in {"put", "delete"} THEN stirred \ {TagPath[r]} ELSE stirred
  /\ \E l \in {"err", IF o = "delete" THEN "remove" ELSE "read"} : Goto(p, l)
  /\ UNCHANGED <<tags, seen>>

(* readTagEntry and isExpired; a read that fails is taken for no entry.  A *)
(* put starts a new entry when it finds none or an expired one.            *)
ReadEntry(p) ==
  /\ pc[p] = "read"
  /\ \E e \in {tags[FileOf(p)], None} :
     \/ /\ op[p] = "put"
        /\ seen' = [seen EXCEPT ![p] = IF e # None /\ ~e.expired THEN e ELSE None]
        /\ Goto(p, "write")
     \/ /\ op[p] # "put"
        /\ seen' = [seen EXCEPT ![p] = e]
        /\ Goto(p, CASE e = None -> "err"
                    [] e # None /\ e.expired -> "drop"
                    [] OTHER -> IF op[p] = "get" THEN "write" ELSE "ok")
  /\ UNCHANGED <<tags, puts, op, ref, dgst, latest, stirred>>

(* An expired entry: remove the file that is there now, its error ignored. *)
DropExpired(p) ==
  /\ pc[p] = "drop"
  /\ \/ tags' = [tags EXCEPT ![FileOf(p)] = None]
     \/ UNCHANGED tags
  /\ Goto(p, "err")
  /\ UNCHANGED <<puts, op, ref, dgst, seen, latest, stirred>>

KeepLast(h, n) == IF Len(h) > n THEN SubSeq(h, Len(h) - n + 1, Len(h)) ELSE h

(* What PutTagMapping writes when it has found no live entry. *)
NewEntry(p) ==
  [reference |-> ref[p], digest |-> dgst[p], history |-> <<>>, expired |-> FALSE]

(* Broken: records every put, also of the digest the tag points at. *)
UpdatedAlways(p, e) ==
  IF e = None THEN NewEntry(p)
  ELSE [e EXCEPT !.digest = dgst[p],
                 !.history = KeepLast(Append(@, e.digest), MaxHistorySize)]

(* The entry PutTagMapping writes, from the one it read. *)
Updated(p, e) ==
  IF e = None THEN NewEntry(p)
  ELSE [e EXCEPT !.digest = dgst[p],
                 !.history = IF e.digest = dgst[p] THEN @
                             ELSE KeepLast(Append(@, e.digest), MaxHistorySize)]

(* writeTagEntry: of the updated mapping, or by GetTagMapping of the entry *)
(* it read, with its access count.  A get ignores a failed write.          *)
WriteEntry(p) ==
  /\ pc[p] = "write"
  /\ IF op[p] = "put"
     THEN \/ /\ tags' = [tags EXCEPT ![FileOf(p)] = Updated(p, seen[p])]
             /\ Goto(p, "ok")
          \/ Goto(p, "err") /\ UNCHANGED tags
     ELSE /\ \/ tags' = [tags EXCEPT ![FileOf(p)] = seen[p]]
             \/ UNCHANGED tags
          /\ Goto(p, "ok")
  /\ UNCHANGED <<puts, op, ref, dgst, seen, latest, stirred>>

(* Broken: reports success when the file could not be removed. *)
RemoveEntryUnchecked(p) ==
  /\ pc[p] = "remove"
  /\ \/ tags' = [tags EXCEPT ![FileOf(p)] = None]
     \/ UNCHANGED tags
  /\ Goto(p, "ok")
  /\ UNCHANGED <<puts, op, ref, dgst, seen, latest, stirred>>

RemoveEntry(p) ==
  /\ pc[p] = "remove"
  /\ \/ tags' = [tags EXCEPT ![FileOf(p)] = None] /\ Goto(p, "ok")
     \/ Goto(p, "err") /\ UNCHANGED tags
  /\ UNCHANGED <<puts, op, ref, dgst, seen, latest, stirred>>

Return(p) ==
  /\ pc[p] \in {"ok", "err"}
  /\ Goto(p, "idle")
  /\ op' = [op EXCEPT ![p] = "none"]
  /\ ref' = [ref EXCEPT ![p] = None]
  /\ dgst' = [dgst EXCEPT ![p] = None]
  /\ seen' = [seen EXCEPT ![p] = None]
  /\ latest' = IF Changing(p) /\ pc[p] = "ok" /\ ~Overlapped(p)
               THEN [latest EXCEPT ![FileOf(p)] = IF op[p] = "put" THEN dgst[p] ELSE "none"]
               ELSE latest
  /\ UNCHANGED <<tags, puts, stirred>>

(* The TTL of an entry passes, on disk and in every copy read of it; an    *)
(* update does not prolong it.                                             *)
Expire(q) ==
  /\ tags[q] # None /\ ~tags[q].expired
  /\ tags' = [tags EXCEPT ![q].expired = TRUE]
  /\ seen' = [p \in Proc |-> IF seen[p] # None /\ FileOf(p) = q
                             THEN [seen[p] EXCEPT !.expired = TRUE] ELSE seen[p]]
  /\ UNCHANGED <<puts, pc, op, ref, dgst, latest, stirred>>

TagStep(p) ==
  ReadEntry(p) \/ DropExpired(p) \/ WriteEntry(p) \/ RemoveEntry(p)

Next ==
  \/ \E p \in Proc, o \in Ops, r \in Reference, d \in Digest \cup {None} : Begin(p, o, r, d)
  \/ \E p \in Proc : TagStep(p) \/ Return(p)
  \/ \E q \in Path : Expire(q)

Spec == Init /\ [][Next]_tagVars
----------------------------------------------------------------------------
(* The history never grows past MaxHistorySize, and records changes only:  *)
(* neighbours differ and the last differs from the current digest, however *)
(* puts, gets and expiries of the same tag interleave.                     *)
HistoryWellFormed ==
  \A q \in Path : tags[q] # None =>
    LET h == tags[q].history IN
    /\ Len(h) <= MaxHistorySize
    /\ \A i \in 1..(Len(h) - 1) : h[i] # h[i + 1]
    /\ h # <<>> => h[Len(h)] # tags[q].digest

(* Between calls that change a mapping file, it holds what the last of     *)
(* them stored and nothing after a DeleteTagMapping, or has expired.       *)
Latest(q) ==
  LET e == tags[q] IN
  latest[q] # "race" /\ e # None /\ ~e.expired => e.digest = latest[q]

(* Calls on one mapping file that do not overlap, whatever fails in them   *)
(* and whatever calls on other files run meanwhile, leave the latest       *)
(* mapping: a lookup that counts its access by writing the file loses      *)
(* nothing.  References that tagPath gives one name share a file.          *)
UnstirredIsLatest == \A q \in Path \ stirred : Latest(q)
============================================================================
