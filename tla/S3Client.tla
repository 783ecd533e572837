------------------------------ MODULE S3Client ------------------------------
(***************************************************************************)
(* aws/s3: the operations of Client on the objects of a bucket, run by     *)
(* clients side by side.  Each request to the service is one action; large *)
(* contents are transferred in parts (S3Multipart).  The clients share one *)
(* local file, which DownloadFile writes and UploadFile reads.             *)
(***************************************************************************)
EXTENDS S3Multipart, SequencesExt

CONSTANTS File,        \* the local file, as a source or destination
          Work,        \* Work[p]: the operations client p performs
          Contents,    \* Contents[p]: what client p stores
          MaxCalls,    \* MaxCalls[p]: bound on the calls of client p
          Threshold,   \* the length from which contents are sent in parts
          Cancels      \* clients whose context may be cancelled

ASSUME ClientAssumption ==
  File \notin Key \cup {None} /\ \A p \in Client : Contents[p] \subseteq Data

VARIABLES calls,     \* calls begun by each client
          op, src, dst,
          data,      \* data[p]: the content p sends or has received
          original,  \* original[p]: the source of the call when it was looked at
          file,      \* the content of the local file
          listed,    \* listed[p]: the keys sent on the channel of p's ListAll
          page,      \* page[p]: keys of the page still to send, and whether more follow
          stable,    \* keys present since the ListAll of p began
          disturbed, \* clients whose source or destination another call changed
          orphaned   \* uploads whose abort, or whose answer to the create, failed

callVars == <<calls, op, src, dst, data, original, file, listed, page, stable, disturbed, orphaned>>
vars == <<objects, uploads, alive, pc, up, cancelled, partVars, callVars>>

NoPage == [keys |-> {}, more |-> FALSE, after |-> 0]

Init ==
  /\ ServiceInit /\ PartInit
  /\ alive = TRUE
  /\ pc = [p \in Client |-> "idle"]
  /\ calls = [p \in Client |-> 0]
  /\ op = [p \in Client |-> "none"]
  /\ up = [p \in Client |-> None]
  /\ src = [p \in Client |-> None] /\ dst = [p \in Client |-> None]
  /\ data = [p \in Client |-> << >>] /\ original = [p \in Client |-> None]
  /\ file \in {Whole(d) : d \in Stored}
  /\ listed = [p \in Client |-> << >>]
  /\ page = [p \in Client |-> NoPage]
  /\ stable = [p \in Client |-> {}]
  /\ cancelled = {} /\ disturbed = {} /\ orphaned = {}
----------------------------------------------------------------------------
At(p, l) == alive /\ pc[p] = l
Goto(p, l) == pc' = [pc EXCEPT ![p] = l]
Outcomes(p) == Outcome(p \in cancelled)

(* Ghosts: a call changes location l; the keys it removes. *)
Disturb(p, l) ==
  disturbed' = disturbed \cup {q \in Client \ {p} : pc[q] # "idle" /\ l \in {src[q], dst[q]}}
Gone(K) == stable' = [q \in Client |-> stable[q] \ K]

Store(p, k, c) == PutObject(k, c) /\ Disturb(p, k) /\ UNCHANGED stable
Erase(p, k) == PutObject(k, None) /\ Disturb(p, k) /\ Gone({k})
Untouched == UNCHANGED <<objects, stable, disturbed>>

Storing == {"put", "upload", "uploadFile", "copy", "move"}

(* A call begins with source s, target d and the content c in hand, at the *)
(* point at; a call with invalid inputs returns at once.                   *)
Call(p, o, s, d, c, at) ==
  /\ At(p, "idle") /\ calls[p] < MaxCalls[p] /\ o \in Work[p]
  /\ calls' = [calls EXCEPT ![p] = @ + 1]
  /\ op' = [op EXCEPT ![p] = o]
  /\ src' = [src EXCEPT ![p] = s]
  /\ dst' = [dst EXCEPT ![p] = d]
  /\ data' = [data EXCEPT ![p] = c]
  /\ original' = [original EXCEPT ![p] = IF o \in {"copy", "move"} THEN objects[s] ELSE c]
  /\ stable' = [stable EXCEPT ![p] = IF o = "listAll" THEN {k \in Key : objects[k] # None} ELSE {}]
  /\ Goto(p, at)
  /\ UNCHANGED <<objects, uploads, alive, up, cancelled, partVars, file, listed, page,
                 disturbed, orphaned>>

Upload(p) ==
  \E d \in Key, x \in Contents[p] :
    Call(p, "upload", None, d, Whole(x), IF Size[x] >= Threshold THEN "create" ELSE "put")
UploadFile(p) == \E d \in Key : Call(p, "uploadFile", File, d, << >>, "stat")
PutData(p) ==
  \E d \in Key, x \in Contents[p] : Call(p, "put", None, d, Whole(x), "put")
Download(p) == \E s \in Key : Call(p, "download", s, None, << >>, "get")
DownloadFile(p) == \E s \in Key : Call(p, "downloadFile", s, File, << >>, "truncate")
List(p) == Call(p, "list", None, None, << >>, "listPage")
ListAll(p) == Call(p, "listAll", None, None, << >>, "list")
Delete(p) == \E d \in Key : Call(p, "delete", None, d, << >>, "delete")
DeleteMany(p) == Call(p, "deleteMany", None, None, << >>, "deleteMany")
Exists(p) == \E s \in Key : Call(p, "exists", s, None, << >>, "head")
GetMetadata(p) == \E s \in Key : Call(p, "getMetadata", s, None, << >>, "head")

(* A copy or a move onto itself is refused. *)
Copy(p) == \E s, d \in Key : Call(p, "copy", s, d, << >>, IF s = d THEN "err" ELSE "head")
Move(p) == \E s, d \in Key : Call(p, "move", s, d, << >>, IF s = d THEN "err" ELSE "head")

Begin(p) ==
  \/ Upload(p) \/ UploadFile(p) \/ PutData(p) \/ Download(p) \/ DownloadFile(p) \/ List(p) \/ ListAll(p)
  \/ Delete(p) \/ DeleteMany(p) \/ Exists(p) \/ GetMetadata(p) \/ Copy(p) \/ Move(p)

Cancel(p) ==
  /\ alive /\ p \in Cancels
  /\ pc[p] \notin {"idle", "ok", "err"} /\ p \notin cancelled
  /\ cancelled' = cancelled \cup ({p, up[p]} \ {None})
  /\ UNCHANGED <<objects, uploads, alive, pc, up, partVars, callVars>>

(* UploadFile takes the size from Stat and reads the file afterwards. *)
Stat(p) ==
  /\ At(p, "stat")
  /\ \/ /\ original' = [original EXCEPT ![p] = file]
        /\ Goto(p, IF Len(file) >= Threshold THEN "create" ELSE "read")
     \/ Goto(p, "err") /\ UNCHANGED original
  /\ UNCHANGED <<objects, uploads, alive, up, cancelled, partVars, calls, op, src, dst, data, file,
                 listed, page, stable, disturbed, orphaned>>

ReadFile(p) ==
  /\ At(p, "read")
  /\ \/ data' = [data EXCEPT ![p] = file] /\ Goto(p, IF up[p] = None THEN "put" ELSE "start")
     \/ UNCHANGED data /\ Goto(p, IF up[p] = None THEN "err" ELSE "abort")
  /\ UNCHANGED <<objects, uploads, alive, up, cancelled, partVars, calls, op, src, dst, original, file,
                 listed, page, stable, disturbed, orphaned>>

UploadSimple(p) ==
  /\ At(p, "put")
  /\ \E r \in Outcomes(p) :
       /\ IF r = "refused" THEN Untouched ELSE Store(p, dst[p], data[p])
       /\ Goto(p, IF r = "ok" THEN "ok" ELSE "err")
  /\ UNCHANGED <<uploads, alive, up, cancelled, partVars, calls, op, src, dst, data, original, file,
                 listed, page, orphaned>>

(* Exists and GetMetadata only look; Copy looks at the size of its source  *)
(* to choose how to copy, and fails without one.                           *)
HeadObject(p) ==
  /\ At(p, "head")
  /\ \/ Goto(p, "err")
     \/ /\ p \notin cancelled
        /\ objects[src[p]] = None => op[p] = "exists"
        /\ Goto(p, IF op[p] \in {"exists", "getMetadata"} THEN "ok"
                   ELSE IF Len(objects[src[p]]) > Threshold THEN "create" ELSE "copy")
  /\ data' = [data EXCEPT ![p] = IF op[p] \in {"copy", "move"} /\ objects[src[p]] # None
                                 THEN objects[src[p]] ELSE @]
  /\ UNCHANGED <<objects, uploads, alive, up, cancelled, partVars, calls, op, src, dst, original, file,
                 listed, page, stable, disturbed, orphaned>>

(* Broken: moves on to the delete whatever became of the copy. *)
CopiedAnyway(p, ok) == IF op[p] = "move" THEN "delete" ELSE IF ok THEN "ok" ELSE "err"

(* Where a copy goes on: Move deletes the source of a copy that succeeded. *)
Copied(p, ok) == IF ~ok THEN "err" ELSE IF op[p] = "move" THEN "delete" ELSE "ok"

(* simpleCopy: the service copies what the source holds now. *)
SimpleCopy(p) ==
  /\ At(p, "copy")
  /\ \E r \in IF objects[src[p]] = None THEN {"refused"} ELSE Outcomes(p) :
       /\ IF r = "refused" THEN Untouched ELSE Store(p, dst[p], objects[src[p]])
       /\ Goto(p, Copied(p, r = "ok"))
  /\ UNCHANGED <<uploads, alive, up, cancelled, partVars, calls, op, src, dst, data, original, file,
                 listed, page, orphaned>>

(* createMultipartUpload: without an answer the caller has no id to abort. *)
CreateUpload(p) ==
  /\ At(p, "create")
  /\ \E r \in Outcomes(p) :
       \/ /\ r = "refused" /\ Goto(p, "err")
          /\ UNCHANGED <<uploads, up, orphaned>>
       \/ /\ r # "refused"
          /\ \E u \in UploadId :
               /\ uploads[u].state = "unused"
               /\ uploads' = [uploads EXCEPT ![u] = NewUpload(dst[p])]
               /\ up' = [up EXCEPT ![p] = IF r = "ok" THEN u ELSE None]
               /\ orphaned' = IF r = "ok" THEN orphaned ELSE orphaned \cup {u}
          /\ Goto(p, IF r = "lost" THEN "err" ELSE IF op[p] = "uploadFile" THEN "read" ELSE "start")
  /\ UNCHANGED <<objects, alive, cancelled, partVars, calls, op, src, dst, data, original, file,
                 listed, page, stable, disturbed>>

(* UploadFile knows the size it was told by Stat, whatever it has read. *)
StartUploadParts(p) ==
  /\ At(p, "start") /\ op[p] \in {"upload", "uploadFile"}
  /\ StartParts(up[p], Len(original[p]), data[p], None, data[p] # original[p])
  /\ cancelled' = IF p \in cancelled THEN cancelled \cup {up[p]} ELSE cancelled
  /\ Goto(p, "collect")
  /\ UNCHANGED <<objects, uploads, alive, up, results, callVars>>

(* A copy knows the size its source had when it was looked at. *)
StartCopyParts(p) ==
  /\ At(p, "start") /\ op[p] \in {"copy", "move"}
  /\ StartParts(up[p], Len(data[p]), << >>, src[p], FALSE)
  /\ cancelled' = IF p \in cancelled THEN cancelled \cup {up[p]} ELSE cancelled
  /\ Goto(p, "collect")
  /\ UNCHANGED <<objects, uploads, alive, up, results, callVars>>

(* The loop over the results: the first failure ends it. *)
Collect(p) ==
  /\ At(p, "collect")
  /\ LET u == up[p] IN
     \/ /\ results[u] # << >>
        /\ results' = [results EXCEPT ![u] = Tail(@)]
        /\ Goto(p, IF results[u][1].ok THEN "collect" ELSE "abort")
     \/ /\ results[u] = << >> /\ AllDone(u)
        /\ Goto(p, "complete")
        /\ UNCHANGED results
  /\ UNCHANGED <<objects, uploads, alive, up, cancelled, plan, part, callVars>>

(* Broken: the failure of the complete is only reported. *)
CompleteWithoutAbort(p) ==
  /\ At(p, "complete")
  /\ \E r \in Outcomes(p) :
       /\ IF r = "refused" THEN Untouched /\ UNCHANGED uploads
          ELSE /\ Store(p, dst[p], Joined(up[p], Len(part[up[p]])))
               /\ uploads' = [uploads EXCEPT ![up[p]].state = "completed"]
       /\ Goto(p, IF r = "ok" THEN Copied(p, TRUE) ELSE "err")
  /\ UNCHANGED <<alive, up, cancelled, partVars, calls, op, src, dst, data, original, file,
                 listed, page, orphaned>>

CompleteUpload(p) ==
  /\ At(p, "complete")
  /\ \E r \in Outcomes(p) :
       /\ IF r = "refused" THEN Untouched /\ UNCHANGED uploads
          ELSE /\ Store(p, dst[p], Joined(up[p], Len(part[up[p]])))
               /\ uploads' = [uploads EXCEPT ![up[p]].state = "completed"]
       /\ Goto(p, IF r = "ok" THEN Copied(p, TRUE) ELSE "abort")
  /\ UNCHANGED <<alive, up, cancelled, partVars, calls, op, src, dst, data, original, file,
                 listed, page, orphaned>>

(* abortMultipartUpload: its error is ignored. *)
Abort(p) ==
  /\ At(p, "abort")
  /\ \E r \in Outcomes(p) :
       IF r = "refused" THEN UNCHANGED uploads /\ orphaned' = orphaned \cup {up[p]}
       ELSE AbortUpload(up[p]) /\ UNCHANGED orphaned
  /\ Goto(p, "err")
  /\ UNCHANGED <<objects, alive, up, cancelled, partVars, calls, op, src, dst, data, original, file,
                 listed, page, stable, disturbed>>

DeleteObject(p) ==
  /\ At(p, "delete")
  /\ LET k == IF op[p] = "move" THEN src[p] ELSE dst[p] IN
     \E r \in Outcomes(p) :
       /\ IF r = "refused" THEN Untouched ELSE Erase(p, k)
       /\ Goto(p, IF r = "ok" THEN "ok" ELSE "err")
  /\ UNCHANGED <<uploads, alive, up, cancelled, partVars, calls, op, src, dst, data, original, file,
                 listed, page, orphaned>>

(* One request for many keys: each is removed or reported on its own. *)
DeleteObjects(p) ==
  /\ At(p, "deleteMany")
  /\ \E r \in Outcomes(p), K \in SUBSET Key :
       /\ IF r = "refused" THEN Untouched
          ELSE /\ objects' = [k \in Key |-> IF k \in K THEN None ELSE objects[k]]
               /\ disturbed' = disturbed \cup {q \in Client \ {p} : pc[q] # "idle" /\ {src[q], dst[q]} \cap K # {}}
               /\ Gone(K)
       /\ Goto(p, IF r = "ok" THEN "ok" ELSE "err")
  /\ UNCHANGED <<uploads, alive, up, cancelled, partVars, calls, op, src, dst, data, original, file,
                 listed, page, orphaned>>

(* DownloadFile creates or empties the file before it asks for the object. *)
Truncate(p) ==
  /\ At(p, "truncate")
  /\ \/ file' = << >> /\ Disturb(p, File) /\ Goto(p, "get")
     \/ Goto(p, "err") /\ UNCHANGED <<file, disturbed>>
  /\ UNCHANGED <<objects, uploads, alive, up, cancelled, partVars, calls, op, src, dst, data, original,
                 listed, page, stable, orphaned>>

(* Download: a copy that fails midway leaves what it has written. *)
Get(p) ==
  /\ At(p, "get")
  /\ \/ /\ p \notin cancelled /\ objects[src[p]] # None
        /\ \E n \in {Len(objects[src[p]]), Len(objects[src[p]]) \div 2} :
             /\ data' = [data EXCEPT ![p] = SubSeq(objects[src[p]], 1, n)]
             /\ Goto(p, IF n < Len(objects[src[p]]) THEN "err" ELSE "ok")
     \/ Goto(p, "err") /\ UNCHANGED data
  /\ IF op[p] = "downloadFile" THEN file' = data'[p] /\ Disturb(p, File)
                               ELSE UNCHANGED <<file, disturbed>>
  /\ UNCHANGED <<objects, uploads, alive, up, cancelled, partVars, calls, op, src, dst, original,
                 listed, page, stable, orphaned>>

(* Broken: the next page starts at the key the last one started at. *)
SameToken(p) == page[p].after

(* The continuation token stands for the last key of the page. *)
NextToken(p) ==
  IF Page(page[p].after) = {} THEN page[p].after
  ELSE CHOOSE k \in Page(page[p].after) : \A x \in Page(page[p].after) : x <= k

(* List returns one page. *)
ListOnce(p) ==
  /\ At(p, "listPage")
  /\ \/ p \notin cancelled /\ Goto(p, "ok")
        /\ listed' = [listed EXCEPT ![p] = SetToSortSeq(Page(0), LAMBDA x, y : x < y)]
     \/ Goto(p, "err") /\ UNCHANGED listed
  /\ UNCHANGED <<objects, uploads, alive, up, cancelled, partVars, calls, op, src, dst, data, original,
                 file, page, stable, disturbed, orphaned>>

(* ListAll asks for a page ... *)
ListPage(p) ==
  /\ At(p, "list") /\ page[p].keys = {}
  /\ \/ /\ p \notin cancelled
        /\ page' = [page EXCEPT ![p] = [keys |-> Page(page[p].after), after |-> NextToken(p),
                                        more |-> After(page[p].after) # Page(page[p].after)]]
        /\ Goto(p, "send")
     \/ Goto(p, "err") /\ UNCHANGED page
  /\ UNCHANGED <<objects, uploads, alive, up, cancelled, partVars, calls, op, src, dst, data, original,
                 file, listed, stable, disturbed, orphaned>>

(* ... and sends its objects in order, to a consumer that takes them all. *)
ListSend(p) ==
  /\ At(p, "send")
  /\ \/ /\ page[p].keys # {}
        /\ LET k == CHOOSE x \in page[p].keys : \A y \in page[p].keys : x <= y IN
           /\ listed' = [listed EXCEPT ![p] = Append(@, k)]
           /\ page' = [page EXCEPT ![p].keys = @ \ {k}]
        /\ UNCHANGED pc
     \/ /\ page[p].keys = {} /\ Goto(p, IF page[p].more THEN "list" ELSE "ok")
        /\ UNCHANGED <<listed, page>>
     \/ p \in cancelled /\ page[p].keys # {} /\ Goto(p, "err") /\ UNCHANGED <<listed, page>>
  /\ UNCHANGED <<objects, uploads, alive, up, cancelled, partVars, calls, op, src, dst, data, original,
                 file, stable, disturbed, orphaned>>

Return(p) ==
  /\ alive /\ pc[p] \in {"ok", "err"}
  /\ Goto(p, "idle")
  /\ op' = [op EXCEPT ![p] = "none"] /\ up' = [up EXCEPT ![p] = None]
  /\ src' = [src EXCEPT ![p] = None] /\ dst' = [dst EXCEPT ![p] = None]
  /\ data' = [data EXCEPT ![p] = << >>] /\ original' = [original EXCEPT ![p] = None]
  /\ listed' = [listed EXCEPT ![p] = << >>] /\ page' = [page EXCEPT ![p] = NoPage]
  /\ stable' = [stable EXCEPT ![p] = {}]
  /\ cancelled' = cancelled \ {p} /\ disturbed' = disturbed \ {p}
  /\ UNCHANGED <<objects, uploads, alive, partVars, calls, file, orphaned>>

ClientStep(p) ==
  \/ Stat(p) \/ ReadFile(p) \/ UploadSimple(p) \/ HeadObject(p) \/ SimpleCopy(p)
  \/ CreateUpload(p) \/ StartUploadParts(p) \/ StartCopyParts(p) \/ Collect(p) \/ CompleteUpload(p) \/ Abort(p)
  \/ DeleteObject(p) \/ DeleteObjects(p) \/ Truncate(p) \/ Get(p) \/ ListOnce(p) \/ ListPage(p) \/ ListSend(p) \/ Return(p)

Transfer(u, i) == PartStep(u, i) /\ UNCHANGED callVars

Next ==
  \/ \E p \in Client : Begin(p) \/ Cancel(p) \/ ClientStep(p)
  \/ \E u \in UploadId : \E i \in DOMAIN part[u] : Transfer(u, i)

Spec == Init /\ [][Next]_vars

(* Requests are answered and goroutines are scheduled: something that can  *)
(* go on does.                                                             *)
Progress ==
  \/ \E p \in Client : ClientStep(p)
  \/ \E u \in UploadId : \E i \in DOMAIN part[u] : Transfer(u, i)
Fairness == WF_vars(Progress)
FairSpec == Spec /\ Fairness
----------------------------------------------------------------------------
(* Types: the client's program counter, the state of uploads and parts.    *)
TypeOK ==
  /\ alive \in BOOLEAN
  /\ \A p \in Client :
       /\ pc[p] \in {"idle", "deleteMany", "listPage", "stat", "read", "put", "head", "copy", "create", "start", "collect",
                     "complete", "abort", "delete", "truncate", "get", "list", "send", "ok", "err"}
       /\ up[p] \in UploadId \cup {None}
       /\ pc[p] \in {"start", "collect", "complete", "abort"} => up[p] # None
  /\ \A u \in UploadId :
       /\ uploads[u].state \in {"unused", "open", "completed", "aborted"}
       /\ \A i \in DOMAIN part[u] : part[u][i] \in {"waiting", "busy", "good", "bad", "done"}

(* A storing call that returned without an error, and beside which nobody  *)
(* touched its source or destination, has stored its whole source, in one  *)
(* piece or from parts; a move has removed the source.                     *)
StoredIsSource ==
  \A p \in Client : pc[p] = "ok" /\ op[p] \in Storing /\ p \notin disturbed =>
    /\ objects[dst[p]] = original[p]
    /\ op[p] = "move" => objects[src[p]] = None

(* Move: whatever fails, and wherever it is cancelled, the object is under *)
(* its old key or under its new one.                                       *)
MoveKeepsObject ==
  \A p \in Client : op[p] = "move" /\ pc[p] # "idle" /\ p \notin disturbed =>
    src[p] = dst[p] \/ original[p] \in {objects[src[p]], objects[dst[p]]}

(* An upload that its caller has left is open only when its abort, or the  *)
(* answer to its creation, failed: no other error path leaves its parts.   *)
LeftOpenOnlyIfOrphaned ==
  \A u \in UploadId :
    uploads[u].state = "open" /\ (\A p \in Client : up[p] # u) => u \in orphaned

(* uploadPart slices past its data only when the file changed after Stat.  *)
PanicOnlyAfterFileChanged == ~alive => \E u \in UploadId : plan[u].moved

(* ListAll that ran to its end sent no key twice, in order, and every key  *)
(* that was there all along; one that ended early closed the channel the   *)
(* same way, without what is missing.                                      *)
ListedOnceIfStable ==
  \A p \in Client : op[p] = "listAll" =>
    /\ \A i, j \in DOMAIN listed[p] : i < j => listed[p][i] < listed[p][j]
    /\ pc[p] = "ok" => \A k \in stable[p] : \E i \in DOMAIN listed[p] : listed[p][i] = k

(* What an upload leaves behind, on every path out of it: its source, an   *)
(* open upload only if it was orphaned, a panic only if its file changed.  *)
UploadsAreSound ==
  TypeOK /\ StoredIsSource /\ LeftOpenOnlyIfOrphaned /\ PanicOnlyAfterFileChanged

(* Every call returns, and the goroutines of an upload end, also those the *)
(* caller does not wait for after a failed part: the channel takes all of  *)
(* their results.  (A client makes finitely many calls.)                   *)
EverythingEnds ==
  []<>(alive => (\A p \in Client : pc[p] = "idle") /\ (\A u \in UploadId : AllDone(u)))
============================================================================
