------------------------------ MODULE OciClient ------------------------------
(***************************************************************************)
(* The OCI client: Push archives a directory and stores it in a registry,  *)
(* Pull fetches it, extracts it beside its target and moves it there.      *)
(* Processes share the registry, the source directory and the targets.    *)
(***************************************************************************)
EXTENDS OciArchive

CONSTANTS Proc, Dir, Work,
          Sources,    \* what the source directory may be at the start
          Stored,     \* archives the registry may hold at the start
          MaxCalls,   \* MaxCalls[p]: bound on the calls of p
          MaxRetries, \* of an operation on the registry
          MaxEdits    \* bound on the changes of the source while it is read

ASSUME ClientAssumption ==
  /\ Sources \subseteq [Name -> Size \cup {0, None}] /\ MaxRetries \in Nat
  /\ Stored \subseteq Archive /\ None \notin Archive \cup TarEntry

VARIABLES source,      \* source[n]: the size of n in the source directory, None if absent
          edits,
          blobs, manifests, \* archives whose layer, and whose manifest, the registry has
          tag,         \* the archive the reference names, None if it names none
          target,      \* target[d]: the entries of a target directory
          pc, calls, op, dir,
          pipe,        \* pipe[p]: the archive p is making
          archive,     \* archive[p]: the archive p pushes or pulls
          sent,        \* sent[p]: what an attempt of p stores of it
          attempt,     \* attempt[p]: registry attempts begun
          offset,      \* offset[p]: where the next read of the temporary file starts
          next,        \* next[p]: the entry to extract next
          temp,        \* temp[p]: entries in the temporary directory of p's pull
          doomed,      \* doomed[p]: entries of the target p is about to remove
          tempFile,    \* pushes whose temporary file is on the disk
          \* What the properties speak of:
          walked,      \* walked[p]: the entries of the source when p collected them
          excused,     \* pushes whose archive was damaged as it was made or sent
          broken,      \* pushes whose stream broke before all of it was read
          mishap,      \* pulls some file operation, request or context of which failed
          stuck,       \* calls that could not remove what they meant to
          crowded      \* pulls beside which another one had the same target

envVars == <<source, edits>>
registry == <<blobs, manifests, tag>>
callVars == <<calls, op, dir>>
pushVars == <<sent, offset, tempFile>>
pullVars == <<next, temp, doomed>>
ghosts == <<walked, excused, broken, mishap, stuck, crowded>>
vars == <<envVars, registry, target, pc, callVars, pipe, archive, attempt, pushVars, pullVars, ghosts>>

Init ==
  /\ source \in Sources /\ edits = 0
  /\ \/ tag = None /\ blobs = {} /\ manifests = {}
     \/ \E a \in Stored : tag = a /\ blobs = {a} /\ manifests = {a}
  /\ target = [d \in Dir |-> {}]
  /\ pc = [p \in Proc |-> "idle"] /\ calls = [p \in Proc |-> 0]
  /\ op = [p \in Proc |-> "none"] /\ dir = [p \in Proc |-> None]
  /\ pipe = [p \in Proc |-> NoPipe] /\ archive = [p \in Proc |-> NoArchive]
  /\ sent = [p \in Proc |-> NoArchive]
  /\ attempt = [p \in Proc |-> 0] /\ offset = [p \in Proc |-> 0] /\ next = [p \in Proc |-> 1]
  /\ temp = [p \in Proc |-> {}] /\ doomed = [p \in Proc |-> {}] /\ tempFile = {}
  /\ walked = [p \in Proc |-> {}] /\ excused = {} /\ broken = {} /\ mishap = {} /\ stuck = {} /\ crowded = {}
----------------------------------------------------------------------------
At(p, l) == pc[p] = l
Goto(p, l) == pc' = [pc EXCEPT ![p] = l]
Running(p) == pc[p] # "idle"
Pulls == {p \in Proc : Running(p) /\ op[p] # "push"}
Happens(p) == mishap' = mishap \cup {p}

Call(p, o, d) ==
  /\ At(p, "idle") /\ calls[p] < MaxCalls[p] /\ o \in Work[p]
  /\ calls' = [calls EXCEPT ![p] = @ + 1]
  /\ op' = [op EXCEPT ![p] = o] /\ dir' = [dir EXCEPT ![p] = d]
  /\ UNCHANGED <<envVars, registry, target, pipe, archive, attempt, pushVars, pullVars,
                 walked, excused, broken, stuck>>

(* Options and the source are checked, the temporary file made. *)
Push(p) ==
  /\ Call(p, "push", None)
  /\ \/ Goto(p, "walk")
     \/ Goto(p, "err")
  /\ UNCHANGED <<mishap, crowded>>

(* A target that has entries is refused. *)
Begin(p, d) ==
  LET beside == {q \in Pulls : dir[q] = d} IN
  /\ crowded' = IF beside = {} THEN crowded ELSE crowded \cup beside \cup {p}
  /\ \/ Goto(p, IF target[d] = {} THEN "fetch" ELSE "err") /\ UNCHANGED mishap
     \/ Goto(p, "err") /\ Happens(p)

Pull(p) == \E d \in Dir : Call(p, "pull", d) /\ Begin(p, d)

(* With any cache policy the lookup misses and nothing is stored. *)
PullWithCache(p) == \E d \in Dir : Call(p, "pullWithCache", d) /\ Begin(p, d)

(* A file changes, or goes, while a push reads the directory. *)
Edit ==
  /\ edits < MaxEdits /\ \E p \in Proc : pc[p] \in {"walk", "archive"}
  /\ edits' = edits + 1
  /\ \E n \in Regular, z \in Size \cup {None} :
       z # source[n] /\ source[n] # None /\ source' = [source EXCEPT ![n] = z]
  /\ UNCHANGED <<registry, target, pc, callVars, pipe, archive, attempt, pushVars, pullVars, ghosts>>

----------------------------------------------------------------------------
(* Push: the archive is made in the temporary file.  Here and below a      *)
(* cancelled context is one of the reasons for which a step may fail.      *)
Archiving(p) == UNCHANGED <<envVars, registry, target, callVars, attempt, sent, offset, pullVars,
                            broken, mishap, stuck, crowded>>

CollectFiles(p) ==
  /\ At(p, "walk") /\ Archiving(p)
  /\ pipe' = [pipe EXCEPT ![p] = StartPipe(source)]
  /\ walked' = [walked EXCEPT ![p] = Walked(source)]
  /\ tempFile' = tempFile \cup {p}
  /\ Goto(p, "archive")
  /\ UNCHANGED <<archive, excused>>

OpenFile(p) ==
  /\ At(p, "archive") /\ Archiving(p)
  /\ \E e \in pipe[p].jobs :
       \/ /\ source[e.name] # None
          /\ pipe' = [pipe EXCEPT ![p] = Opened(@, e)]
       \/ pipe' = [pipe EXCEPT ![p] = NotOpened(@, e)]
  /\ UNCHANGED <<pc, archive, tempFile, walked, excused>>

(* An entry longer than its header says, or after one that is shorter,     *)
(* ends the archive.  What the workers opened besides is not closed.       *)
WriteEntry(p) ==
  /\ At(p, "archive") /\ Archiving(p) /\ pipe[p].results # << >>
  /\ \/ /\ ~WriteFails(pipe[p], source)
        /\ pipe' = [pipe EXCEPT ![p] = Written(@, source)] /\ UNCHANGED pc
     \/ Goto(p, "cleanup") /\ UNCHANGED pipe
  /\ UNCHANGED <<archive, tempFile, walked, excused>>

AllWritten(p) == pipe[p].jobs = {} /\ pipe[p].results = << >>

(* The writers are closed on return and their errors dropped: a last entry *)
(* that is short, a last write that fails.                                 *)
FinishArchive(p) ==
  /\ At(p, "archive") /\ AllWritten(p) /\ Archiving(p)
  /\ \E good \in BOOLEAN :
       /\ archive' = [archive EXCEPT ![p] = [entries |-> pipe[p].out, whole |-> good]]
       /\ excused' = IF good /\ ~Short(pipe[p].out) THEN excused ELSE excused \cup {p}
  /\ Goto(p, "send")
  /\ pipe' = [pipe EXCEPT ![p] = [NoPipe EXCEPT !.open = pipe[p].open]]
  /\ UNCHANGED <<tempFile, walked>>
----------------------------------------------------------------------------
(* Push: the registry.  A request is served, refused, or served unanswered. *)
Sending(p) == UNCHANGED <<envVars, target, callVars, pipe, archive, pullVars, tempFile,
                          walked, excused, mishap, stuck, crowded>>

TriedEnough(p) == attempt[p] > MaxRetries

(* retryOperation: a network error is tried again, any other is returned. *)
Retry(p, again) == pc' \in {[pc EXCEPT ![p] = again], [pc EXCEPT ![p] = "cleanup"]}

Rewind(p) == offset' = [offset EXCEPT ![p] = 0]

Attempt(p) ==
  /\ At(p, "send") /\ Sending(p)
  /\ \/ Goto(p, "cleanup") /\ UNCHANGED <<attempt, offset, broken>>
     \/ /\ ~TriedEnough(p)
        /\ attempt' = [attempt EXCEPT ![p] = @ + 1]
        /\ Rewind(p) /\ broken' = broken \ {p}
        /\ Goto(p, "stream")
  /\ UNCHANGED <<registry, sent>>

(* What is read of the file from the offset on. *)
Rest(p) == [archive[p] EXCEPT !.whole = @ /\ offset[p] = 0]

(* pushStreamIfPossible: before it fails the file has been read not at all *)
(* (0), in part (1) or whole (2).                                          *)
PushStream(p) ==
  /\ At(p, "stream") /\ Sending(p)
  /\ \/ /\ blobs' = blobs \cup {Rest(p)} /\ sent' = [sent EXCEPT ![p] = Rest(p)]
        /\ offset' = [offset EXCEPT ![p] = 2]
        /\ Goto(p, "pack") /\ UNCHANGED broken
     \/ /\ \E k \in 0..2 :
             /\ offset' = [offset EXCEPT ![p] = k]
             /\ broken' = IF k = 0 THEN broken ELSE broken \cup {p}
             /\ blobs' \in IF k = 2 THEN {blobs, blobs \cup {Rest(p)}} ELSE {blobs}
        /\ Goto(p, "buffer") /\ UNCHANGED sent
  /\ UNCHANGED <<manifests, tag, attempt>>

(* Broken: a layer that could not be stored is packed all the same. *)
LayerFailsPacked(p) == Goto(p, "pack")

LayerFails(p) == Retry(p, "send")

(* The fallback reads on from where the stream stopped. *)
PushBuffered(p) ==
  /\ At(p, "buffer") /\ Sending(p)
  /\ IF offset[p] = 2 THEN Goto(p, "cleanup") /\ UNCHANGED <<blobs, sent, offset>>
     ELSE /\ sent' = [sent EXCEPT ![p] = Rest(p)]
          /\ offset' = [offset EXCEPT ![p] = 2]
          /\ \/ /\ blobs' = blobs \cup {Rest(p)}
                /\ Goto(p, "pack")
             \/ blobs' \in {blobs, blobs \cup {Rest(p)}} /\ LayerFails(p)
  /\ UNCHANGED <<manifests, tag, attempt, broken>>

PackManifest(p) ==
  /\ At(p, "pack") /\ Sending(p)
  /\ \/ manifests' = manifests \cup {sent[p]} /\ Goto(p, "tag")
     \/ manifests' \in {manifests, manifests \cup {sent[p]}} /\ Retry(p, "send")
  /\ UNCHANGED <<blobs, tag, attempt, sent, offset, broken>>

Tag(p) ==
  /\ At(p, "tag") /\ Sending(p)
  /\ \/ tag' = sent[p] /\ Goto(p, "ok")
     \/ tag' \in {tag, sent[p]} /\ Retry(p, "send")
  /\ UNCHANGED <<blobs, manifests, attempt, sent, offset, broken>>

(* A push that failed removes its file; one that succeeded leaves it. *)
RemoveTempFile(p) ==
  /\ At(p, "cleanup")
  /\ \/ tempFile' = tempFile \ {p} /\ UNCHANGED stuck
     \/ UNCHANGED tempFile /\ stuck' = stuck \cup {p}
  /\ Goto(p, "err")
  /\ pipe' = [pipe EXCEPT ![p] = NoPipe] /\ archive' = [archive EXCEPT ![p] = NoArchive]
  /\ sent' = [sent EXCEPT ![p] = NoArchive] /\ attempt' = [attempt EXCEPT ![p] = 0]
  /\ offset' = [offset EXCEPT ![p] = 0] /\ walked' = [walked EXCEPT ![p] = {}]
  /\ excused' = excused \ {p} /\ broken' = broken \ {p}
  /\ UNCHANGED <<envVars, registry, target, callVars, pullVars, mishap, crowded>>
----------------------------------------------------------------------------
(* Pull.                                                                   *)
Pulling(p) == UNCHANGED <<envVars, registry, callVars, pipe, pushVars, walked, excused, broken, crowded>>

(* The manifest of the reference and, at "layer", its first layer. *)
FetchManifest(p) ==
  /\ At(p, "fetch") /\ Pulling(p)
  /\ \/ Goto(p, "err") /\ Happens(p) /\ UNCHANGED <<archive, attempt>>
     \/ /\ ~TriedEnough(p)
        /\ attempt' = [attempt EXCEPT ![p] = @ + 1]
        /\ \/ /\ tag \in manifests
              /\ archive' = [archive EXCEPT ![p] = tag] /\ Goto(p, "layer") /\ UNCHANGED mishap
           \/ tag \notin manifests /\ Goto(p, "err") /\ UNCHANGED <<archive, mishap>>
           \/ pc' \in {pc, [pc EXCEPT ![p] = "err"]} /\ Happens(p) /\ UNCHANGED archive
  /\ UNCHANGED <<target, pullVars, stuck>>

FetchLayer(p) ==
  /\ At(p, "layer") /\ Pulling(p)
  /\ \/ archive[p] \in blobs /\ Goto(p, "extract") /\ UNCHANGED mishap
     \/ archive[p] \notin blobs /\ Goto(p, "err") /\ UNCHANGED mishap
     \/ pc' \in {[pc EXCEPT ![p] = "fetch"], [pc EXCEPT ![p] = "err"]} /\ Happens(p)
  /\ UNCHANGED <<target, archive, attempt, pullVars, stuck>>

(* handleHeader, entry after entry, into the temporary directory.  What is *)
(* no archive at all is refused when it is opened.                         *)
ExtractEntry(p) ==
  LET entries == archive[p].entries  i == next[p] IN
  /\ At(p, "extract") /\ Pulling(p) /\ UNCHANGED <<target, archive, attempt, doomed, stuck>>
  /\ \/ /\ archive[p].whole /\ i > Len(entries)
        /\ Goto(p, "mkdir") /\ UNCHANGED <<next, temp, mishap>>
     \/ /\ archive[p].whole /\ i <= Len(entries) /\ Extractable(entries, i)
        /\ temp' = [temp EXCEPT ![p] = {e \in @ : e.name # entries[i].name} \cup {entries[i]}]
        /\ next' = [next EXCEPT ![p] = i + 1]
        /\ UNCHANGED <<pc, mishap>>
     \/ /\ ~archive[p].whole \/ (i <= Len(entries) /\ ~Extractable(entries, i))
        /\ Goto(p, "clean") /\ UNCHANGED <<next, temp, mishap>>
     \/ Goto(p, "clean") /\ Happens(p) /\ UNCHANGED <<next, temp>>

Moving(p) == Pulling(p) /\ UNCHANGED <<archive, attempt, next>>

MakeTarget(p) ==
  /\ At(p, "mkdir") /\ Moving(p)
  /\ \/ Goto(p, "move") /\ UNCHANGED mishap
     \/ Goto(p, "clean") /\ Happens(p)
  /\ UNCHANGED <<target, temp, doomed, stuck>>

(* Broken: what was moved before the failure stays. *)
KeepMoved(p) == {}

ToRemove(p) == target[dir[p]]

(* moveFiles: a directory is made, a file renamed over what is there. *)
MoveFile(p) ==
  /\ At(p, "move") /\ Moving(p)
  /\ \/ \E e \in temp[p] :
          /\ target' = [target EXCEPT ![dir[p]] = {f \in @ : f.name # e.name} \cup {e}]
          /\ temp' = [temp EXCEPT ![p] = @ \ {e}]
          /\ UNCHANGED <<pc, doomed, mishap>>
     \/ temp[p] = {} /\ Goto(p, "moved") /\ UNCHANGED <<target, temp, doomed, mishap>>
     \/ /\ temp[p] # {} /\ Goto(p, "undo") /\ Happens(p)
        /\ doomed' = [doomed EXCEPT ![p] = ToRemove(p)] /\ UNCHANGED <<target, temp>>
  /\ UNCHANGED stuck

(* removeAllFS: what the walk found is removed, what fails passed over. *)
UndoMove(p) ==
  /\ At(p, "undo") /\ Moving(p)
  /\ \/ doomed[p] = {} /\ Goto(p, "clean") /\ UNCHANGED <<target, doomed, stuck>>
     \/ \E e \in doomed[p] :
          /\ doomed' = [doomed EXCEPT ![p] = @ \ {e}]
          /\ \/ target' = [target EXCEPT ![dir[p]] = {f \in @ : f.name # e.name}] /\ UNCHANGED stuck
             \/ UNCHANGED target /\ stuck' = stuck \cup {p}
          /\ UNCHANGED pc
  /\ UNCHANGED <<temp, mishap>>

RemoveTemp(p) ==
  \/ temp' = [temp EXCEPT ![p] = {}] /\ UNCHANGED stuck
  \/ UNCHANGED temp /\ stuck' = stuck \cup {p}

RemoveTempDir(p) ==
  /\ pc[p] \in {"clean", "moved"} /\ Moving(p)
  /\ RemoveTemp(p)
  /\ Goto(p, IF At(p, "moved") THEN "ok" ELSE "err")
  /\ UNCHANGED <<target, doomed, mishap>>

Return(p) ==
  /\ pc[p] \in {"ok", "err"}
  /\ Goto(p, "idle")
  /\ op' = [op EXCEPT ![p] = "none"] /\ dir' = [dir EXCEPT ![p] = None]
  /\ pipe' = [pipe EXCEPT ![p] = NoPipe] /\ archive' = [archive EXCEPT ![p] = NoArchive]
  /\ sent' = [sent EXCEPT ![p] = NoArchive] /\ temp' = [temp EXCEPT ![p] = {}]
  /\ attempt' = [attempt EXCEPT ![p] = 0] /\ offset' = [offset EXCEPT ![p] = 0]
  /\ next' = [next EXCEPT ![p] = 1] /\ walked' = [walked EXCEPT ![p] = {}]
  /\ excused' = excused \ {p} /\ broken' = broken \ {p}
  /\ mishap' = mishap \ {p} /\ crowded' = crowded \ {p} /\ stuck' = stuck \ {p}
  /\ tempFile' = tempFile \ {p}
  /\ UNCHANGED <<envVars, registry, target, calls, doomed>>

Step(p) ==
  \/ CollectFiles(p) \/ OpenFile(p) \/ WriteEntry(p) \/ FinishArchive(p)
  \/ Attempt(p) \/ PushStream(p) \/ PushBuffered(p) \/ PackManifest(p) \/ Tag(p) \/ RemoveTempFile(p)
  \/ FetchManifest(p) \/ FetchLayer(p) \/ ExtractEntry(p) \/ MakeTarget(p) \/ MoveFile(p)
  \/ UndoMove(p) \/ RemoveTempDir(p) \/ Return(p)

Next == Edit \/ \E p \in Proc : Push(p) \/ Pull(p) \/ PullWithCache(p) \/ Step(p)

Spec == Init /\ [][Next]_vars
FairSpec == Spec /\ WF_vars(\E p \in Proc : Step(p))
----------------------------------------------------------------------------
(* Types, and: no operation on the registry is tried too often. *)
TypeOK ==
  /\ source \in [Name -> Size \cup {0, None}] /\ blobs \subseteq Archive
  /\ \A p \in Proc : attempt[p] \in 0..(MaxRetries + 1) /\ offset[p] \in 0..2
  /\ \A p \in Proc : temp[p] \cup doomed[p] \subseteq TarEntry

(* A push that returned success stored the whole of what it found in the   *)
(* source, each file with the bytes its header promises, unless the source *)
(* or the disk failed it unnoticed or its stream broke after it had begun. *)
PushedIsWhole ==
  \A p \in Proc : At(p, "ok") /\ op[p] = "push" /\ p \notin excused \cup broken =>
    /\ sent[p].whole /\ ~Short(sent[p].entries)
    /\ {[sent[p].entries[i] EXCEPT !.data = 0] : i \in DOMAIN sent[p].entries} = walked[p]

(* The reference never names an archive whose manifest or layer is not     *)
(* there, whatever request of a push failed before.                        *)
TaggedIsBacked == tag # None => tag \in manifests \cap blobs

(* The files that the first n entries make: of two with one name the later *)
(* one replaces the other.                                                 *)
Unpacked(entries, n) ==
  {entries[i] : i \in {j \in 1..n : \A k \in 1..n : k > j => entries[k].name # entries[j].name}}

(* A pull puts all of an archive in its target or nothing, whatever fails  *)
(* in between, unless a removal fails or another pull has the same target. *)
PullIsAllOrNothing ==
  \A p \in Proc \ (crowded \cup stuck) :
    LET a == archive[p] IN
    /\ At(p, "ok") /\ op[p] # "push" => target[dir[p]] = Unpacked(a.entries, Len(a.entries))
    /\ At(p, "err") /\ op[p] # "push" /\ a # NoArchive => target[dir[p]] = {}

SizeOf(entries, K) == SumFunctionOnSet([i \in K |-> entries[i].size], K)

Acceptable(a) ==
  LET E == {a.entries[i] : i \in DOMAIN a.entries} IN
  /\ a.whole /\ \A e \in E : Kind[e.name] \in {"file", "dir"} /\ e.data = e.size
  /\ MaxFileSize > 0 => \A e \in E : e.size <= MaxFileSize
  /\ MaxFiles > 0 => Len(a.entries) <= MaxFiles
  /\ MaxSize > 0 => SizeOf(a.entries, DOMAIN a.entries) <= MaxSize

(* The checks made entry by entry accept the archives that are whole, of   *)
(* plain files and directories, and within the limits, and no others: such *)
(* an archive is pulled if nothing fails, any other never.                 *)
RefusedForCause ==
  \A p \in Proc \ crowded :
    op[p] # "push" /\ archive[p] # NoArchive =>
      /\ At(p, "err") /\ p \notin mishap => ~Acceptable(archive[p])
      /\ At(p, "ok") => Acceptable(archive[p])

Bytes(E) == SumFunctionOnSet([e \in E |-> e.data], E)

(* What a pull writes never exceeds the limits of its options, not even    *)
(* before the entry that breaks them is refused.                           *)
WithinLimits ==
  \A p \in Proc :
    /\ MaxFiles > 0 => Cardinality(temp[p]) <= MaxFiles
    /\ MaxSize > 0 => Bytes(temp[p]) <= MaxSize

(* A call that failed leaves no temporary file, and a pull none at all,    *)
(* unless the removal fails; a push that succeeded has closed every file.  *)
CleansUp ==
  \A p \in Proc \ stuck :
    /\ At(p, "err") => temp[p] = {} /\ p \notin tempFile
    /\ At(p, "ok") => temp[p] = {} /\ pipe[p].open = {}

(* Every push and pull returns, cancelled or not.                          *)
CallsReturn == []<>(\A p \in Proc : ~Running(p))

(* What reaches the registry is whole and complete, whatever failed before.*)
RegistryIsSound == TypeOK /\ PushedIsWhole /\ TaggedIsBacked

(* A pull that fails leaves no trace, one that succeeds the whole archive. *)
PullsAreAtomic == PullIsAllOrNothing /\ CleansUp

(* The limits refuse what exceeds them, before it is written, and no more. *)
LimitsAreExact == WithinLimits /\ RefusedForCause
============================================================================
