------------------------------- MODULE S3Sync -------------------------------
(***************************************************************************)
(* aws/s3 Client.Sync and internal/sync: one synchronisation of a local    *)
(* directory with a bucket prefix, from the scans over the plan to the     *)
(* workers that upload and the batches that delete, while the directory    *)
(* and the bucket are changed by others and the context may be cancelled.  *)
(***************************************************************************)
EXTENDS S3Data

CONSTANTS Name,        \* relative paths
          Excluded,    \* those the patterns exclude
          Time, Now,   \* modification times; the time of what this run stores
          MaxTimeDiff,
          Comparators, \* comparators a run may be configured with
          StartLocal,  \* local directories a run may start with
          StartRemote, \* buckets a run may start with
          Parallelism, BatchSize,
          Edited,      \* names whose files and objects others change
          NewData,     \* contents they write
          MaxEdits     \* bound on changes by others during the run

(* The keys prefix+"name" and prefix+"/name": both stand for name.         *)
NameKey == Name \X {"plain", "slash"}
PlainKey(n) == <<n, "plain">>

LocalFile == [data : Data, time : Time]
Object == [data : Data, time : Time, etag : {"md5", "parts"}]

ASSUME SyncAssumption ==
  /\ Name \subseteq Nat /\ IsFiniteSet(Name) /\ Excluded \subseteq Name /\ Edited \subseteq Name
  /\ Time \subseteq Nat /\ Now \in Time /\ MaxTimeDiff \in Nat
  /\ NewData \subseteq Data
  /\ Comparators \subseteq {"smart", "size", "checksum", "time", "composite", "null"}
  /\ StartLocal \subseteq [Name -> LocalFile \cup {None}] /\ StartRemote \subseteq [NameKey -> Object \cup {None}]
  /\ None \notin NameKey \cup LocalFile \cup Object \cup [key : NameKey, object : Object]
  /\ Parallelism \in Nat \ {0} /\ BatchSize \in Nat \ {0}

VARIABLES local,     \* local[n]: the file of that name, or None
          remote,    \* remote[k]: the object of that key, or None
          config,    \* deleteExtra, dryRun, comparator
          abandoned, \* the context is cancelled
          phase,
          found,     \* found[n]: the file as the local scan has seen it
          unwalked,  \* names the local scan has still to look at
          seen,      \* seen[n]: the object taken for name n, with its key
          token,     \* the last key of the previous page
          planned,   \* uploads not yet handed to a worker
          deletes,   \* keys to delete, in batches
          skipped,   \* names of the skip operations
          unread,    \* names whose content the comparator could not read
          worker,    \* worker[n]: the goroutine that uploads n
          opened,    \* opened[n]: the content of the file worker n has open
          failed,    \* the first error of the upload phase is set
          stored, removed,  \* what PutObject and DeleteObjects have confirmed
          result,    \* the result of the call
          edits      \* changes others have made during the run

scanVars == <<found, unwalked, seen, token>>
planVars == <<planned, deletes, skipped, unread>>
workVars == <<worker, opened, failed, stored, removed>>
syncVars == <<local, remote, config, abandoned, phase, scanVars, planVars, workVars, result, edits>>

NoResult == [uploaded |-> 0, deleted |-> 0, skipped |-> 0, errors |-> {}]

SyncInit ==
  /\ local \in StartLocal /\ remote \in StartRemote
  /\ config \in [deleteExtra : BOOLEAN, dryRun : BOOLEAN, comparator : Comparators]
  /\ abandoned = FALSE /\ phase = "scanLocal"
  /\ found = [n \in Name |-> None] /\ unwalked = Name
  /\ seen = [n \in Name |-> None] /\ token = None
  /\ planned = {} /\ deletes = {} /\ skipped = {} /\ unread = {}
  /\ worker = [n \in Name |-> "none"] /\ opened = [n \in Name |-> None]
  /\ failed = FALSE /\ stored = {} /\ removed = {}
  /\ result = NoResult /\ edits = 0
----------------------------------------------------------------------------
(* Others change a file or an object; the caller gives up. *)
EditLocal ==
  /\ edits < MaxEdits /\ phase \notin {"done", "err"} /\ edits' = edits + 1
  /\ \E n \in Name, f \in {None} \cup [data : NewData, time : {Now}] :
       n \in Edited /\ local[n] # f /\ local' = [local EXCEPT ![n] = f]
  /\ UNCHANGED <<remote, config, abandoned, phase, scanVars, planVars, workVars, result>>

EditRemote ==
  /\ edits < MaxEdits /\ phase \notin {"done", "err"} /\ edits' = edits + 1
  /\ \E k \in NameKey, o \in {None} \cup [data : NewData, time : {Now}, etag : {"md5"}] :
       k[1] \in Edited /\ remote[k] # o /\ remote' = [remote EXCEPT ![k] = o]
  /\ UNCHANGED <<local, config, abandoned, phase, scanVars, planVars, workVars, result>>

GiveUp ==
  /\ ~abandoned /\ phase \notin {"done", "err"} /\ abandoned' = TRUE
  /\ UNCHANGED <<local, remote, config, phase, scanVars, planVars, workVars, result, edits>>

Fail == phase' = "err" /\ UNCHANGED <<local, remote, config, abandoned, scanVars, planVars, workVars, result, edits>>
----------------------------------------------------------------------------
ShouldIncludeFile(n) == n \notin Excluded

(* ScanLocal: the walk takes one file after the other. *)
ScanFile ==
  /\ phase = "scanLocal"
  /\ \E n \in unwalked :
       /\ \A x \in unwalked : n <= x
       /\ unwalked' = unwalked \ {n}
       /\ found' = [found EXCEPT ![n] = IF ShouldIncludeFile(n) THEN local[n] ELSE None]
       /\ abandoned => local[n] = None
  /\ UNCHANGED <<local, remote, config, abandoned, phase, seen, token, planVars, workVars, result, edits>>

ScanLocalEnds ==
  /\ phase = "scanLocal" /\ unwalked = {}
  /\ phase' = "scanRemote"
  /\ UNCHANGED <<local, remote, config, abandoned, scanVars, planVars, workVars, result, edits>>

ScanFails == phase \in {"scanLocal", "scanRemote"} /\ Fail

(* The order of a listing: "/" sorts before every name. *)
Before(k, l) == IF k[2] = l[2] THEN k[1] < l[1] ELSE k[2] = "slash"
Listable == {k \in NameKey : remote[k] # None /\ (token = None \/ Before(token, k))}
PageOf(K) == {k \in K : Cardinality({l \in K : Before(l, k)}) < PageSize}
LastOf(K) == CHOOSE k \in K : \A l \in K : l = k \/ Before(l, k)

(* ScanRemote asks for the next page; buildRemoteMap keeps, of the objects *)
(* that stand for one name, the last.                                      *)
ScanPage ==
  /\ phase = "scanRemote" /\ ~abandoned
  /\ LET P == PageOf(Listable) IN
     /\ seen' = [n \in Name |->
          LET K == {k \in P : k[1] = n} IN
          IF K = {} THEN seen[n] ELSE [key |-> LastOf(K), object |-> remote[LastOf(K)]]]
     /\ token' = IF P = {} THEN token ELSE LastOf(P)
     /\ phase' = IF P = Listable THEN "plan" ELSE "scanRemote"
  /\ UNCHANGED <<local, remote, config, abandoned, found, unwalked, planVars, workVars, result, edits>>
----------------------------------------------------------------------------
(* HasChanged of the comparators, for a file as scanned, with the content  *)
(* it has when it is read now, None when it cannot be.                     *)
CompareByTime(f, o) == f.time > o.time + MaxTimeDiff \/ o.time > f.time + MaxTimeDiff

SmartHasChanged(f, o, now) ==
  \/ Size[f.data] # Size[o.data]
  \/ o.etag = "md5" /\ now # None /\ now # o.data
  \/ (o.etag # "md5" \/ now = None) /\ CompareByTime(f, o)

SizeOnlyHasChanged(f, o) == Size[f.data] # Size[o.data]

ChecksumHasChanged(o, now) == o.etag # "md5" \/ now # o.data

(* A composite stops at the first of its comparators that sees a change,   *)
(* be it to require one or all of them.                                    *)
CompositeHasChanged(f, o, now) == SizeOnlyHasChanged(f, o) \/ ChecksumHasChanged(o, now)

HasChanged(f, o, now) ==
  CASE config.comparator = "smart" -> SmartHasChanged(f, o, now)
    [] config.comparator = "size" -> SizeOnlyHasChanged(f, o)
    [] config.comparator = "checksum" -> ChecksumHasChanged(o, now)
    [] config.comparator = "time" -> CompareByTime(f, o)
    [] config.comparator = "composite" -> CompositeHasChanged(f, o, now)
    [] config.comparator = "null" -> FALSE

(* Broken: a file the bucket has is taken for unchanged. *)
NewOnly(files, objs, now) == {n \in Name : files[n] # None /\ objs[n] = None}

PlanUploads(files, objs, now) ==
  {n \in Name : files[n] # None /\
     (objs[n] = None \/ HasChanged(files[n], objs[n].object, now[n]))}

PlanDeletes(files, objs) == {objs[n].key : n \in {x \in Name : objs[x] # None /\ files[x] = None}}

PlanSkips(files, objs) == {n \in Name : files[n] # None /\ objs[n] # None}

(* The content of each file as the comparator reads it. *)
Readable(n) == IF local[n] = None THEN {None} ELSE {None, local[n].data}

(* Comparators that fail for a file they cannot read. *)
Reading == {"checksum", "composite"}

PlanFails ==
  /\ phase = "plan" /\ config.comparator \in Reading
  /\ \E n \in Name : found[n] # None /\ seen[n] # None
  /\ Fail

PlanOperations(now) ==
  /\ planned' = PlanUploads(found, seen, now)
  /\ deletes' = IF config.deleteExtra THEN PlanDeletes(found, seen) ELSE {}
  /\ skipped' = PlanSkips(found, seen)

Plan ==
  /\ phase = "plan"
  /\ \E now \in [Name -> {None} \cup Data] :
       /\ \A n \in Name :
            IF found[n] # None /\ seen[n] # None
            THEN /\ now[n] \in Readable(n)
                 /\ config.comparator \in Reading => now[n] # None
            ELSE now[n] = None
       /\ PlanOperations(now)
       /\ unread' = {n \in PlanSkips(found, seen) : now[n] = None}
  /\ result' = [NoResult EXCEPT !.skipped = IF config.dryRun THEN 0 ELSE Cardinality(skipped')]
  /\ phase' = IF config.dryRun THEN "done" ELSE "upload"
  /\ UNCHANGED <<local, remote, config, abandoned, scanVars, workVars, edits>>
----------------------------------------------------------------------------
Busy == {n \in Name : worker[n] \notin {"none", "ended"}}

(* optimizePlan: the small files first. *)
Foremost(n) == n \in planned /\ \A x \in planned : Size[found[n].data] <= Size[found[x].data]

(* The loop of executeWithConcurrency: one slot and one goroutine per file. *)
Dispatch ==
  /\ phase = "upload" /\ Cardinality(Busy) < Parallelism
  /\ \E n \in Name :
       /\ Foremost(n)
       /\ planned' = planned \ {n}
       /\ worker' = [worker EXCEPT ![n] = "begun"]
  /\ UNCHANGED <<local, remote, config, abandoned, phase, scanVars, deletes, skipped, unread, opened, failed,
                 stored, removed, result, edits>>

AddError(e) == result' = [result EXCEPT !.errors = @ \cup e]

(* Cancelled while it waits for a slot, it returns at once, whatever is    *)
(* still running.                                                          *)
StopDispatch ==
  /\ phase = "upload" /\ planned # {} /\ abandoned
  /\ planned' = {}
  /\ AddError({"uploads"}) /\ phase' = "delete"
  /\ UNCHANGED <<local, remote, config, abandoned, scanVars, deletes, skipped, unread, workVars, edits>>

(* Broken: the deletes start without waiting for the workers. *)
NoWait ==
  /\ phase = "upload" /\ planned = {}
  /\ result' = IF failed THEN [result EXCEPT !.errors = @ \cup {"uploads"}]
               ELSE [result EXCEPT !.uploaded = Cardinality(stored)]
  /\ phase' = "delete"
  /\ UNCHANGED <<local, remote, config, abandoned, scanVars, planVars, workVars, edits>>

(* When all workers are done, the first error or the count is reported. *)
UploadsEnd ==
  /\ phase = "upload" /\ planned = {} /\ Busy = {}
  /\ result' = IF failed THEN [result EXCEPT !.errors = @ \cup {"uploads"}]
               ELSE [result EXCEPT !.uploaded = Cardinality(stored)]
  /\ phase' = "delete"
  /\ UNCHANGED <<local, remote, config, abandoned, scanVars, planVars, workVars, edits>>

(* A worker that finds the context cancelled ends without an error. *)
SeeCancelled(n) ==
  /\ worker[n] = "begun" /\ abandoned
  /\ worker' = [worker EXCEPT ![n] = "ended"]
  /\ UNCHANGED <<local, remote, config, abandoned, phase, scanVars, planVars, opened, failed, stored,
                 removed, result, edits>>

(* Broken: a file that cannot be opened keeps its slot. *)
OpenKeepsSlot(n) ==
  /\ worker[n] = "begun"
  /\ \/ local[n] # None /\ opened' = [opened EXCEPT ![n] = local[n].data]
        /\ worker' = [worker EXCEPT ![n] = "opened"] /\ UNCHANGED failed
     \/ worker' = [worker EXCEPT ![n] = "stuck"] /\ failed' = TRUE /\ UNCHANGED opened
  /\ UNCHANGED <<local, remote, config, abandoned, phase, scanVars, planVars, stored, removed, result, edits>>

(* uploadFile opens the file ... *)
Open(n) ==
  /\ worker[n] = "begun"
  /\ \/ local[n] # None /\ opened' = [opened EXCEPT ![n] = local[n].data]
        /\ worker' = [worker EXCEPT ![n] = "opened"] /\ UNCHANGED failed
     \/ worker' = [worker EXCEPT ![n] = "ended"] /\ failed' = TRUE /\ UNCHANGED opened
  /\ UNCHANGED <<local, remote, config, abandoned, phase, scanVars, planVars, stored, removed, result, edits>>

(* Broken: an upload that fails is not reported. *)
IgnoreFailure == UNCHANGED failed

UploadFailure == failed' = TRUE

(* ... and sends what the file holds then or what it held when opened.  A  *)
(* request that fails may have been served.                                *)
Send(n) ==
  /\ worker[n] = "opened"
  /\ worker' = [worker EXCEPT ![n] = "ended"]
  /\ LET Contents == {opened[n]} \cup (IF local[n] = None THEN {} ELSE {local[n].data})
         object(d) == [data |-> d, time |-> Now, etag |-> "md5"] IN
     \/ /\ ~abandoned
        /\ \E d \in Contents : remote' = [remote EXCEPT ![PlainKey(n)] = object(d)]
        /\ stored' = stored \cup {n} /\ UNCHANGED failed
     \/ /\ UploadFailure /\ UNCHANGED stored
        /\ \/ UNCHANGED remote
           \/ ~abandoned /\ \E d \in Contents : remote' = [remote EXCEPT ![PlainKey(n)] = object(d)]
  /\ UNCHANGED <<local, config, abandoned, phase, scanVars, planVars, opened, removed, result, edits>>

(* executeDeleteBatch: one request; some of its keys may be refused, which *)
(* only the discarded result says; a failed batch ends the phase.          *)
DeleteBatch ==
  /\ phase = "delete" /\ deletes # {}
  /\ \E B \in SUBSET deletes :
       /\ Cardinality(B) = IF Cardinality(deletes) < BatchSize THEN Cardinality(deletes) ELSE BatchSize
       /\ \/ /\ ~abandoned
             /\ \E D \in SUBSET B :
                  /\ remote' = [k \in NameKey |-> IF k \in D THEN None ELSE remote[k]]
                  /\ removed' = removed \cup D
             /\ deletes' = deletes \ B
             /\ UNCHANGED <<phase, result>>
          \/ /\ AddError({"deletes"}) /\ phase' = "done" /\ deletes' = {}
             /\ UNCHANGED removed
             /\ \/ UNCHANGED remote
                \/ ~abandoned /\ remote' = [k \in NameKey |-> IF k \in B THEN None ELSE remote[k]]
  /\ UNCHANGED <<local, config, abandoned, scanVars, planned, skipped, unread, worker, opened, failed, stored, edits>>

DeletesEnd ==
  /\ phase = "delete" /\ deletes = {}
  /\ result' = [result EXCEPT !.deleted = Cardinality(removed)]
  /\ phase' = "done"
  /\ UNCHANGED <<local, remote, config, abandoned, scanVars, planVars, workVars, edits>>

SyncStep ==
  \/ ScanFile \/ ScanLocalEnds \/ ScanFails \/ ScanPage \/ PlanFails \/ Plan
  \/ Dispatch \/ StopDispatch \/ UploadsEnd \/ DeleteBatch \/ DeletesEnd
WorkerStep(n) == SeeCancelled(n) \/ Open(n) \/ Send(n)

SyncNext == EditLocal \/ EditRemote \/ GiveUp \/ SyncStep \/ \E n \in Name : WorkerStep(n)

SyncSpec == SyncInit /\ [][SyncNext]_syncVars
FairSyncSpec == SyncSpec /\ WF_syncVars(SyncStep) /\ \A n \in Name : WF_syncVars(WorkerStep(n))
----------------------------------------------------------------------------
(* Types: keys come from the bucket, workers carry a content. *)
SyncTypeOK ==
  /\ phase \in {"scanLocal", "scanRemote", "plan", "upload", "delete", "done", "err"}
  /\ \A n \in Name :
       /\ worker[n] \in {"none", "begun", "opened", "ended"}
       /\ worker[n] = "opened" => opened[n] \in Data
       /\ seen[n] # None => seen[n].key[1] = n
  /\ planned \subseteq Name /\ stored \subseteq Name /\ deletes \subseteq NameKey /\ removed \subseteq NameKey

Calm == phase = "done" /\ result.errors = {} /\ ~abandoned /\ edits = 0 /\ ~config.dryRun
Aliased(n) == remote[<<n, "slash">>] # None
NameOf(k) == k[1]

(* The comparator cannot be deceived: it has read the contents, and no     *)
(* object carries the tag of a multipart upload.                           *)
Exact ==
  \/ config.comparator \in Reading
  \/ config.comparator = "smart" /\ unread = {} /\ \A k \in NameKey : remote[k] # None => remote[k].etag = "md5"

(* A sync that reports no error, undisturbed, leaves in the bucket the     *)
(* content of every file it includes.  (It takes an object under           *)
(* prefix+"/name" for that of name, and then may store nothing.)           *)
MirrorWhenCalm ==
  Calm /\ Exact => \A n \in Name :
    local[n] # None /\ ShouldIncludeFile(n) /\ ~Aliased(n) =>
      remote[PlainKey(n)] # None /\ remote[PlainKey(n)].data = local[n].data

(* ... and a second one would find nothing to upload, whatever the tags of *)
(* the objects were: the plan is idempotent.  (By time alone it is not:    *)
(* the objects are younger than their files.)                              *)
SecondSyncIsIdle ==
  Calm /\ unread = {} /\ config.comparator # "time" =>
    LET objs == [n \in Name |->
          LET K == {k \in NameKey : k[1] = n /\ remote[k] # None} IN
          IF K = {} THEN None ELSE [key |-> LastOf(K), object |-> remote[LastOf(K)]]]
        now == [n \in Name |-> IF local[n] = None THEN None ELSE local[n].data]
    IN PlanUploads(found, objs, now) = {}

(* Sync removes only objects that the plan found without an included file, *)
(* and never one of those it uploads or has skipped.                       *)
RemovedWasExtra ==
  \A k \in removed :
    /\ config.deleteExtra /\ ~config.dryRun
    /\ found[NameOf(k)] = None
    /\ NameOf(k) \notin stored \cup skipped

(* Objects are removed after the uploads: the workers a cancelled phase    *)
(* leaves running see no removal, for its requests are refused.            *)
NoRemovalDuringUploads == [][removed' # removed => Busy = {} /\ planned = {}]_syncVars

(* A sync that was not cancelled and reports no error for its uploads has  *)
(* stored every file planned and not skipped, and counts them.             *)
ReportedIsDone ==
  phase = "done" /\ ~config.dryRun /\ "uploads" \notin result.errors =>
    /\ result.uploaded = Cardinality(stored)
    /\ ~abandoned => \A n \in Name : found[n] # None => n \in stored \cup skipped

(* The call returns, and the workers it has left end. *)
SyncReturns == <>(phase \in {"done", "err"} /\ Busy = {})

(* A calm sync mirrors the files, and there is nothing left to do.         *)
SyncMirrors == SyncTypeOK /\ MirrorWhenCalm /\ SecondSyncIsIdle

(* What is removed was extra, and goes when nothing is uploaded any more.  *)
RemovalIsSafe == []RemovedWasExtra /\ NoRemovalDuringUploads
============================================================================
