----------------------------- MODULE OciArchive -----------------------------
(***************************************************************************)
(* The tar.gz archiver of the OCI client: the workers that open the files  *)
(* of a directory, the loop that writes what they opened, and the checks   *)
(* an entry passes before it is extracted.  Operators on the state of one  *)
(* archive; OciClient runs them.                                           *)
(***************************************************************************)
EXTENDS Integers, Sequences, FiniteSets, Functions

CONSTANTS Name,        \* names of files and directories
          Kind,        \* Kind[n]: "file", "dir", "link", or a file that is "hidden" or "setuid"
          Size,        \* sizes a file may have
          MaxFiles, MaxFileSize, MaxSize, \* ExtractOptions, 0 for no limit
          None

Regular == {n \in Name : Kind[n] \in {"file", "hidden", "setuid"}}

ASSUME ArchiveAssumption ==
  /\ Kind \in [Name -> {"file", "dir", "link", "hidden", "setuid"}] /\ Size \subseteq Nat /\ None \notin Size
  /\ MaxFiles \in Nat /\ MaxFileSize \in Nat /\ MaxSize \in Nat

(* An entry has the size of its header and the bytes that follow it. *)
TarEntry == [name : Name, size : Size \cup {0}, data : Size \cup {0}]

(* collectFileInfos: the sizes are those of the walk. *)
Walked(source) == {[name |-> n, size |-> source[n], data |-> 0] : n \in {m \in Name : source[m] # None}}

(* An archive is a sequence of entries; a push may lose its first bytes. *)
Archive == [entries : Seq(TarEntry), whole : BOOLEAN]
NoArchive == [entries |-> << >>, whole |-> TRUE]
NoPipe == [jobs |-> {}, results |-> << >>, open |-> {}, out |-> << >>]

StartPipe(source) == [NoPipe EXCEPT !.jobs = Walked(source)]

(* A worker passes on the header of an entry, and a regular file opened.   *)
(* There are as many workers as entries, up to 8: any entry may be next.   *)
Opened(pipe, e) ==
  [pipe EXCEPT !.jobs = @ \ {e}, !.results = Append(@, e),
               !.open = IF e.name \in Regular THEN @ \cup {e.name} ELSE @]

(* Broken: a worker that cannot open its file reports nothing. *)
NotReported(pipe, e) == pipe

NotOpened(pipe, e) ==
  [pipe EXCEPT !.jobs = @ \ {e}, !.results = Append(@, None)]

(* The entry before has fewer bytes than its header says. *)
Short(entries) == entries # << >> /\ entries[Len(entries)].data # entries[Len(entries)].size

(* writeArchiveEntry: what a file has now follows the header made before. *)
Holds(source, e) ==
  IF e.name \notin Regular \/ source[e.name] = None THEN e.size ELSE source[e.name]

Written(pipe, source) ==
  LET e == pipe.results[1] IN
  [pipe EXCEPT !.results = Tail(@), !.open = @ \ {e.name},
               !.out = Append(@, [e EXCEPT !.data = Holds(source, e)])]

WriteFails(pipe, source) ==
  LET e == pipe.results[1] IN e = None \/ Short(pipe.out) \/ Holds(source, e) > e.size
----------------------------------------------------------------------------
(* The checks of an entry: its name, its size, the number of entries and   *)
(* the bytes so far, this entry included.                                  *)
Total(entries, i) ==
  LET upTo[k \in 0..i] == IF k = 0 THEN 0 ELSE upTo[k - 1] + entries[k].size IN upTo[i]

RefusedName(e) == Kind[e.name] = "hidden"

Privileged(e) == Kind[e.name] = "setuid"

FileTooLarge(e) == MaxFileSize > 0 /\ e.size > MaxFileSize

TooManyFiles(i) == MaxFiles > 0 /\ i > MaxFiles

(* Broken: the bytes so far are those of the entries before. *)
TooMuchDataLate(entries, i) == MaxSize > 0 /\ Total(entries, i - 1) > MaxSize

TooMuchData(entries, i) == MaxSize > 0 /\ Total(entries, i) > MaxSize

OverLimits(entries, i) == FileTooLarge(entries[i]) \/ TooManyFiles(i) \/ TooMuchData(entries, i)

Refused(entries, i) == RefusedName(entries[i]) \/ Privileged(entries[i]) \/ OverLimits(entries, i)

(* A symbolic link is archived without its target and cannot be made. *)
Extractable(entries, i) ==
  ~Refused(entries, i) /\ Kind[entries[i].name] # "link" /\ entries[i].data = entries[i].size
============================================================================
