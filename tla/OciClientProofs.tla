-------------------------- MODULE OciClientProofs --------------------------
(***************************************************************************)
(* Proofs about OciClient for any processes, directories, targets and      *)
(* archives, any limits, and any number of retries and edits.  The facts   *)
(* about sums over finite sets are those of EvictionOrderProofs.           *)
(***************************************************************************)
EXTENDS OciClient, EvictionOrderProofs

(* The values of the variables.                                            *)
PushPoints == {"walk", "archive", "send", "stream", "buffer", "pack", "tag", "cleanup"}
PullPoints == {"fetch", "layer", "extract", "mkdir", "move", "undo", "clean", "moved"}
Pipe == [jobs : SUBSET TarEntry, results : Seq(TarEntry \cup {None}), open : SUBSET Name, out : Seq(TarEntry)]

Shapes ==
  /\ source \in [Name -> Size \cup {0, None}]
  /\ blobs \subseteq Archive /\ manifests \subseteq Archive /\ tag \in Archive \cup {None}
  /\ target \in [Dir -> SUBSET TarEntry]
  /\ pc \in [Proc -> {"idle", "ok", "err"} \cup PushPoints \cup PullPoints]
  /\ op \in [Proc -> {"none", "push", "pull", "pullWithCache"}] /\ dir \in [Proc -> Dir \cup {None}]
  /\ pipe \in [Proc -> Pipe] /\ walked \in [Proc -> SUBSET TarEntry]
  /\ archive \in [Proc -> Archive] /\ sent \in [Proc -> Archive]
  /\ attempt \in [Proc -> 0..(MaxRetries + 1)] /\ offset \in [Proc -> 0..2] /\ next \in [Proc -> Nat \ {0}]
  /\ temp \in [Proc -> SUBSET TarEntry] /\ doomed \in [Proc -> SUBSET TarEntry]

(* The points of a call belong to its operation, which keeps to its own    *)
(* variables.                                                              *)
Pulled(p) == op[p] \in {"pull", "pullWithCache"}

Belongs(p) ==
  /\ pc[p] = "idle" <=> op[p] = "none"
  /\ pc[p] \in PushPoints => op[p] = "push"
  /\ pc[p] \in PullPoints => Pulled(p)
  /\ Pulled(p) => dir[p] \in Dir
  /\ op[p] # "push" => pipe[p] = NoPipe /\ p \notin tempFile
  /\ ~Pulled(p) => next[p] = 1 /\ temp[p] = {}
  /\ pc[p] = "idle" => archive[p] = NoArchive

(* Push: what was walked is still to do, in the channel or written.        *)
Zeroed(entries) == {[entries[i] EXCEPT !.data = 0] : i \in DOMAIN entries}
Names(results) == {results[i].name : i \in {j \in DOMAIN results : results[j] # None}}

Piped(p) ==
  pc[p] = "archive" =>
    /\ \A e \in walked[p] : e.data = 0
    /\ pipe[p].open \subseteq Names(pipe[p].results)
    /\ None \notin Range(pipe[p].results) =>
         walked[p] = pipe[p].jobs \cup Range(pipe[p].results) \cup Zeroed(pipe[p].out)

(* ... and what was written is in the archive, which is sent whole.        *)
Stands(p, points) == pc[p] \in points \/ (pc[p] = "ok" /\ op[p] = "push")

Pushed(p) ==
  /\ Stands(p, {"send", "stream", "buffer", "pack", "tag"}) =>
       /\ pipe[p].open = {}
       /\ p \notin excused =>
            archive[p].whole /\ ~Short(archive[p].entries) /\ Zeroed(archive[p].entries) = walked[p]
  /\ pc[p] \in {"stream", "buffer"} /\ p \notin broken => offset[p] = 0
  /\ Stands(p, {"pack", "tag"}) /\ p \notin broken => sent[p] = archive[p]
  /\ pc[p] \in {"pack", "tag"} => sent[p] \in blobs
  /\ pc[p] = "tag" => sent[p] \in manifests

(* Pull: what is in the temporary directory comes from the entries so far, *)
(* each of which has passed its checks.                                    *)
Whole(p) == Unpacked(archive[p].entries, Len(archive[p].entries))

Fetched(p) ==
  /\ pc[p] \in {"fetch", "layer"} => next[p] = 1 /\ temp[p] = {}
  /\ pc[p] = "fetch" => archive[p] = NoArchive \/ p \in mishap
  /\ pc[p] = "layer" => archive[p] \in blobs
  /\ next[p] <= Len(archive[p].entries) + 1
  /\ \A i \in 1..(next[p] - 1) : Extractable(archive[p].entries, i)
  /\ pc[p] = "extract" => temp[p] = Unpacked(archive[p].entries, next[p] - 1)
  /\ pc[p] \in {"mkdir", "move", "undo", "moved"} \/ (pc[p] = "ok" /\ Pulled(p)) =>
       archive[p].whole /\ next[p] = Len(archive[p].entries) + 1
  /\ pc[p] = "mkdir" => temp[p] = Whole(p)
  /\ pc[p] = "moved" => temp[p] = {}
  /\ pc[p] = "undo" => p \in mishap
  /\ pc[p] = "clean" \/ (pc[p] = "err" /\ Pulled(p) /\ archive[p] # NoArchive) =>
       p \in mishap \/ ~Acceptable(archive[p])

(* Its size is bounded by theirs.                                          *)
Bounded(p) ==
  /\ IsFiniteSet(temp[p]) /\ Cardinality(temp[p]) < next[p]
  /\ Bytes(temp[p]) <= Total(archive[p].entries, next[p] - 1)

(* A pull that no other has met and whose removals succeed: nothing is in  *)
(* the target before the moves, and what has left the temporary directory  *)
(* is there.                                                               *)
Moved(p) ==
  Pulled(p) /\ p \notin crowded \cup stuck =>
    /\ pc[p] \in {"fetch", "layer", "extract", "mkdir", "clean"} => target[dir[p]] = {}
    /\ pc[p] = "err" => archive[p] = NoArchive \/ target[dir[p]] = {}
    /\ pc[p] = "move" => temp[p] \subseteq Whole(p) /\ target[dir[p]] = Whole(p) \ temp[p]
    /\ pc[p] = "moved" \/ pc[p] = "ok" => target[dir[p]] = Whole(p)
    /\ pc[p] = "undo" => target[dir[p]] = doomed[p] /\ doomed[p] \subseteq Whole(p)

Apart(p) == p \in Pulls \ crowded => \A q \in Pulls \ {p} : dir[q] # dir[p]

Cleaned(p) ==
  pc[p] \in {"ok", "err"} /\ p \notin stuck => temp[p] = {} /\ (pc[p] = "err" => p \notin tempFile)

Each(p) == Belongs(p) /\ Piped(p) /\ Pushed(p) /\ Fetched(p) /\ Bounded(p) /\ Moved(p) /\ Apart(p) /\ Cleaned(p)

Inv == Shapes /\ TaggedIsBacked /\ \A p \in Proc : Each(p)
----------------------------------------------------------------------------
(* Entries and sums.                                                       *)
LEMMA EntryFacts ==
  /\ \A e \in TarEntry : e.name \in Name /\ e.size \in Nat /\ e.data \in Nat
  /\ \A a \in Archive : /\ a.entries \in Seq(TarEntry) /\ a.whole \in BOOLEAN
                        /\ \A i \in 1..Len(a.entries) : a.entries[i] \in TarEntry
  /\ NoArchive \in Archive /\ NoPipe \in Pipe /\ None \notin Archive /\ None \notin TarEntry
  /\ MaxFiles \in Nat /\ MaxFileSize \in Nat /\ MaxSize \in Nat
<1>1. ASSUME NEW e \in TarEntry PROVE e.name \in Name /\ e.size \in Nat /\ e.data \in Nat
  <2>1. e.name \in Name /\ e.size \in Size \cup {0} /\ e.data \in Size \cup {0}
    BY DEF TarEntry
  <2>2. Size \subseteq Nat /\ 0 \in Nat
    BY ArchiveAssumption
  <2> QED BY <2>1, <2>2
<1> QED BY <1>1, ArchiveAssumption, ClientAssumption DEF Archive, NoArchive, NoPipe, Pipe

(* The bytes of the first n entries, as the extraction adds them up.       *)
LEMMA SizeFacts ==
  ASSUME NEW entries \in Seq(TarEntry), NEW K \in SUBSET (1..Len(entries))
  PROVE  /\ Sizes(entries, K) /\ IsFiniteSet(K)
         /\ SizeOf(entries, K) = TotalSize(entries, K) /\ SizeOf(entries, K) \in Nat
         /\ \A i \in K : SizeOf(entries, K) = entries[i].size + SizeOf(entries, K \ {i})
         /\ SizeOf(entries, {}) = 0
<1>1. \A i \in 1..Len(entries) : entries[i].size \in Nat
  <2>1. \A i \in 1..Len(entries) : entries[i] \in TarEntry
    OBVIOUS
  <2> QED BY <2>1, EntryFacts
<1>2. IsFiniteSet(K)
  <2>1. Len(entries) \in Int /\ 1 \in Int
    OBVIOUS
  <2>2. IsFiniteSet(1..Len(entries))
    BY <2>1, FS_Interval
  <2> QED BY <2>2, FS_Subset
<1>3. Sizes(entries, K)
  BY <1>1 DEF Sizes
<1>4. \A J : SizeOf(entries, J) = TotalSize(entries, J)
  BY DEF SizeOf, TotalSize
<1> QED BY <1>2, <1>3, <1>4, TotalSizeFacts

LEMMA SizeStep ==
  ASSUME NEW entries \in Seq(TarEntry), NEW k \in 1..Len(entries)
  PROVE  SizeOf(entries, 1..k) = SizeOf(entries, 1..(k - 1)) + entries[k].size
<1>1. 1..k \in SUBSET (1..Len(entries)) /\ k \in 1..k /\ (1..k) \ {k} = 1..(k - 1)
  OBVIOUS
<1>2. (1..k) \ {k} \in SUBSET (1..Len(entries))
  BY <1>1
<1>3. entries[k].size \in Nat
  BY EntryFacts
<1> DEFINE before == SizeOf(entries, (1..k) \ {k})
           after == SizeOf(entries, 1..k)
<1>4. before \in Nat /\ after = entries[k].size + before
  BY <1>1, <1>2, SizeFacts
<1>5. before = SizeOf(entries, 1..(k - 1))
  BY <1>1
<1> HIDE DEF before
<1> QED BY <1>3, <1>4, <1>5

LEMMA TotalIsSize ==
  ASSUME NEW entries \in Seq(TarEntry), NEW n \in 0..Len(entries)
  PROVE  Total(entries, n) = SizeOf(entries, 1..n)
<1> DEFINE upTo[k \in 0..n] == IF k = 0 THEN 0 ELSE upTo[k - 1] + entries[k].size
           sum == [k \in 0..n |-> SizeOf(entries, 1..k)]
           Adds(f) == f = [k \in 0..n |-> IF k = 0 THEN 0 ELSE f[k - 1] + entries[k].size]
<1>1. ASSUME NEW k \in 0..n
      PROVE  sum[k] = IF k = 0 THEN 0 ELSE sum[k - 1] + entries[k].size
  <2>1. CASE k = 0
    <3>1. 1..k = {}
      BY <2>1
    <3> QED BY <2>1, <3>1, SizeFacts
  <2>2. CASE k # 0
    <3>1. k \in 1..Len(entries) /\ k - 1 \in 0..n
      BY <2>2
    <3> QED BY <2>2, <3>1, SizeStep
  <2> QED BY <2>1, <2>2
<1>2. Adds(sum)
  <2>1. sum = [k \in 0..n |-> sum[k]]
    OBVIOUS
  <2> HIDE DEF sum
  <2> QED BY <1>1, <2>1
<1>3. Adds(upTo)
  <2>1. \E f : Adds(f)
    BY <1>2
  <2>2. upTo = CHOOSE f : Adds(f)
    BY DEF upTo
  <2> HIDE DEF upTo, Adds
  <2> QED BY <2>1, <2>2
<1>4. Total(entries, n) = upTo[n]
  BY DEF Total
<1> DEFINE Wrong == {k \in 0..n : upTo[k] # sum[k]}
<1> HIDE DEF upTo, sum
<1>5. ASSUME Wrong # {} PROVE FALSE
  <2>1. PICK k \in Wrong : \A j \in Wrong : k <= j
    <3>1. Wrong \in SUBSET Nat
      OBVIOUS
    <3> HIDE DEF Wrong
    <3> QED BY <1>5, <3>1, Least
  <2>2. k # 0
    BY <1>1, <1>3, <2>1
  <2>3. k - 1 \in 0..n /\ k - 1 \notin Wrong
    BY <2>1, <2>2
  <2> QED BY <1>1, <1>3, <2>1, <2>2, <2>3
<1>6. upTo[n] = sum[n]
  BY <1>5
<1> QED BY <1>4, <1>6 DEF sum

LEMMA TotalFacts ==
  ASSUME NEW entries \in Seq(TarEntry)
  PROVE  /\ Total(entries, 0) = 0
         /\ \A n \in 0..Len(entries) : Total(entries, n) \in Nat /\ Total(entries, n) <= SizeOf(entries, DOMAIN entries)
         /\ \A n \in 1..Len(entries) : Total(entries, n) = Total(entries, n - 1) + entries[n].size
         /\ Total(entries, Len(entries)) = SizeOf(entries, DOMAIN entries)
<1>1. Total(entries, 0) = 0
  <2>1. 1..0 = {} /\ 0 \in 0..Len(entries)
    OBVIOUS
  <2> QED BY <2>1, TotalIsSize, SizeFacts
<1>2. ASSUME NEW n \in 0..Len(entries)
      PROVE  Total(entries, n) \in Nat /\ Total(entries, n) <= SizeOf(entries, DOMAIN entries)
  <2> DEFINE all == 1..Len(entries)
             some == 1..n
  <2>1. all \in SUBSET all /\ some \in SUBSET all /\ all \ some \in SUBSET all /\ all = DOMAIN entries
    OBVIOUS
  <2>2. SizeOf(entries, some) \in Nat /\ SizeOf(entries, all \ some) \in Nat
    BY <2>1, SizeFacts
  <2>3. SizeOf(entries, all) = SizeOf(entries, some) + SizeOf(entries, all \ some)
    <3>1. /\ SizeOf(entries, some) = TotalSize(entries, some)
          /\ SizeOf(entries, all \ some) = TotalSize(entries, all \ some)
      BY <2>1, SizeFacts
    <3>2. /\ SizeOf(entries, all) = TotalSize(entries, all)
          /\ Sizes(entries, all) /\ IsFiniteSet(all)
      BY <2>1, SizeFacts
    <3> HIDE DEF all, some
    <3>3. TotalSize(entries, all) = TotalSize(entries, some) + TotalSize(entries, all \ some)
      BY <2>1, <3>2, TotalSizeSplits
    <3> QED BY <3>1, <3>2, <3>3
  <2>4. Total(entries, n) = SizeOf(entries, some)
    BY TotalIsSize
  <2> HIDE DEF all, some
  <2> QED BY <2>1, <2>2, <2>3, <2>4
<1>3. ASSUME NEW n \in 1..Len(entries)
      PROVE  Total(entries, n) = Total(entries, n - 1) + entries[n].size
  <2>1. n \in 0..Len(entries) /\ n - 1 \in 0..Len(entries)
    OBVIOUS
  <2> QED BY <2>1, TotalIsSize, SizeStep
<1>4. Total(entries, Len(entries)) = SizeOf(entries, DOMAIN entries)
  <2>1. Len(entries) \in 0..Len(entries) /\ DOMAIN entries = 1..Len(entries)
    OBVIOUS
  <2> QED BY <2>1, TotalIsSize
<1> QED BY <1>1, <1>2, <1>3, <1>4

(* The bytes of a set of files.                                            *)
LEMMA BytesFacts ==
  ASSUME NEW E \in SUBSET TarEntry, IsFiniteSet(E)
  PROVE  /\ Bytes(E) \in Nat /\ Bytes({}) = 0
         /\ \A D \in SUBSET E : Bytes(D) \in Nat /\ Bytes(D) <= Bytes(E)
         /\ \A e \in TarEntry : Bytes(E \cup {e}) <= Bytes(E) + e.data
<1> DEFINE f == [e \in TarEntry |-> [size |-> e.data]]
<1>1. ASSUME NEW D \in SUBSET TarEntry, IsFiniteSet(D)
      PROVE  Sizes(f, D) /\ Bytes(D) = TotalSize(f, D)
  <2>1. \A e \in D : f[e].size = e.data /\ e.data \in Nat
    BY EntryFacts
  <2>2. [e \in D |-> e.data] = [e \in D |-> f[e].size]
    BY <2>1
  <2> HIDE DEF f
  <2> QED BY <2>1, <2>2 DEF Sizes, Bytes, TotalSize
<1>2. \A e \in TarEntry : f[e].size = e.data /\ e.data \in Nat
  BY EntryFacts
<1> HIDE DEF f
<1>3. ASSUME NEW D \in SUBSET TarEntry, IsFiniteSet(D)
      PROVE  /\ Bytes(D) \in Nat /\ Bytes({}) = 0
             /\ \A e \in D : Bytes(D) = e.data + Bytes(D \ {e})
  <2>1. /\ TotalSize(f, D) \in Nat /\ TotalSize(f, {}) = 0
        /\ \A e \in D : TotalSize(f, D) = f[e].size + TotalSize(f, D \ {e})
    BY <1>1, <1>3, TotalSizeFacts
  <2>2. IsFiniteSet({}) /\ \A e : IsFiniteSet(D \ {e})
    BY <1>3, FS_EmptySet, FS_RemoveElement
  <2>3. Bytes(D) = TotalSize(f, D) /\ Bytes({}) = TotalSize(f, {})
    BY <1>1, <1>3, <2>2
  <2>4. \A e \in D : Bytes(D \ {e}) = TotalSize(f, D \ {e})
    BY <1>1, <2>2
  <2> QED BY <1>2, <2>1, <2>3, <2>4
<1>4. ASSUME NEW D \in SUBSET E PROVE Bytes(D) \in Nat /\ Bytes(D) <= Bytes(E)
  <2>1. IsFiniteSet(D) /\ IsFiniteSet(E \ D) /\ D \in SUBSET TarEntry /\ E \ D \in SUBSET TarEntry
    BY FS_Subset
  <2>2. TotalSize(f, E) = TotalSize(f, D) + TotalSize(f, E \ D)
    BY <1>1, TotalSizeSplits
  <2>3. Bytes(D) \in Nat /\ Bytes(E \ D) \in Nat
    BY <1>3, <2>1
  <2>4. Bytes(E) = Bytes(D) + Bytes(E \ D)
    BY <1>1, <2>1, <2>2
  <2> QED BY <2>3, <2>4
<1>5. ASSUME NEW e \in TarEntry PROVE Bytes(E \cup {e}) <= Bytes(E) + e.data
  <2>1. Bytes(E) \in Nat /\ e.data \in Nat
    BY <1>2, <1>3
  <2>2. CASE e \in E
    <3>1. E \cup {e} = E
      BY <2>2
    <3>2. Bytes(E \cup {e}) = Bytes(E)
      BY <3>1
    <3> QED BY <2>1, <3>2
  <2>3. CASE e \notin E
    <3> DEFINE D == E \cup {e}
    <3>1. D \in SUBSET TarEntry /\ IsFiniteSet(D) /\ e \in D /\ D \ {e} = E
      BY <2>3, FS_AddElement
    <3> HIDE DEF D
    <3>2. Bytes(D) = e.data + Bytes(E)
      BY <1>3, <3>1
    <3> QED BY <2>1, <3>2 DEF D
  <2> QED BY <2>2, <2>3
<1> QED BY <1>3, <1>4, <1>5

(* Unpacking one more entry replaces what has its name.                    *)
LEMMA UnpackedFacts ==
  ASSUME NEW entries \in Seq(TarEntry)
  PROVE  /\ Unpacked(entries, 0) = {}
         /\ \A n \in 0..Len(entries) :
              /\ Unpacked(entries, n) \subseteq TarEntry
              /\ \A e, f \in Unpacked(entries, n) : e.name = f.name => e = f
         /\ \A n \in 1..Len(entries) :
              Unpacked(entries, n) =
                {e \in Unpacked(entries, n - 1) : e.name # entries[n].name} \cup {entries[n]}
<1>1. Unpacked(entries, 0) = {}
  BY DEF Unpacked
<1>2. ASSUME NEW n \in 0..Len(entries)
      PROVE  /\ Unpacked(entries, n) \subseteq TarEntry
             /\ \A e, f \in Unpacked(entries, n) : e.name = f.name => e = f
  <2>1. \A i \in 1..n : entries[i] \in TarEntry
    OBVIOUS
  <2> QED BY <2>1 DEF Unpacked
<1>3. ASSUME NEW n \in 1..Len(entries)
      PROVE  Unpacked(entries, n) =
                {e \in Unpacked(entries, n - 1) : e.name # entries[n].name} \cup {entries[n]}
  <2> DEFINE Lasts(i, m) == \A k \in 1..m : k > i => entries[k].name # entries[i].name
  <2>1. 1..n = 1..(n - 1) \cup {n} /\ Lasts(n, n)
    OBVIOUS
  <2>2. \A i \in 1..(n - 1) : Lasts(i, n) <=> Lasts(i, n - 1) /\ entries[n].name # entries[i].name
    BY <2>1
  <2>3. \A m : Unpacked(entries, m) = {entries[i] : i \in {j \in 1..m : Lasts(j, m)}}
    BY DEF Unpacked
  <2> HIDE DEF Lasts
  <2> QED BY <2>1, <2>2, <2>3
<1> QED BY <1>1, <1>2, <1>3

(* The checks made entry by entry decide what Acceptable says of the whole.*)
LEMMA ExtractableFacts ==
  ASSUME NEW a \in Archive
  PROVE  /\ a.whole /\ (\A i \in 1..Len(a.entries) : Extractable(a.entries, i)) => Acceptable(a)
         /\ ~a.whole => ~Acceptable(a)
         /\ \A i \in 1..Len(a.entries) : ~Extractable(a.entries, i) => ~Acceptable(a)
         /\ \A i \in 1..Len(a.entries) : Extractable(a.entries, i) =>
              /\ a.entries[i].data = a.entries[i].size
              /\ MaxFiles > 0 => i <= MaxFiles
              /\ MaxSize > 0 => Total(a.entries, i) <= MaxSize
<1> DEFINE es == a.entries
           len == Len(es)
           sum == SizeOf(es, DOMAIN es)
<1>1. /\ es \in Seq(TarEntry) /\ len \in Nat /\ DOMAIN es = 1..len
      /\ MaxFiles \in Nat /\ MaxFileSize \in Nat /\ MaxSize \in Nat
  BY EntryFacts
<1>2. \A i \in 1..len : /\ es[i].name \in Name /\ es[i].size \in Nat
                        /\ Kind[es[i].name] \in {"file", "dir", "link", "hidden", "setuid"}
  <2>1. \A i \in 1..len : es[i] \in TarEntry
    BY <1>1, EntryFacts
  <2>2. Kind \in [Name -> {"file", "dir", "link", "hidden", "setuid"}]
    BY ArchiveAssumption
  <2> QED BY <2>1, <2>2, EntryFacts
<1>3. /\ sum \in Nat /\ Total(es, len) = sum
      /\ \A i \in 1..len : Total(es, i) \in Nat /\ Total(es, i) <= sum
  <2>1. \A n \in 0..len : Total(es, n) \in Nat /\ Total(es, n) <= sum
    BY <1>1, TotalFacts
  <2>2. Total(es, len) = sum
    BY <1>1, TotalFacts
  <2>3. len \in 0..len
    BY <1>1
  <2> HIDE DEF sum, len, es
  <2> QED BY <1>1, <2>1, <2>2, <2>3
<1>4. Acceptable(a) <=>
        /\ a.whole
        /\ \A i \in 1..len : Kind[es[i].name] \in {"file", "dir"} /\ es[i].data = es[i].size
        /\ MaxFileSize > 0 => \A i \in 1..len : es[i].size <= MaxFileSize
        /\ MaxFiles > 0 => len <= MaxFiles
        /\ MaxSize > 0 => sum <= MaxSize
  <2> DEFINE E == {es[i] : i \in DOMAIN es}
  <2>1. /\ (\A e \in E : Kind[e.name] \in {"file", "dir"} /\ e.data = e.size)
           <=> \A i \in 1..len : Kind[es[i].name] \in {"file", "dir"} /\ es[i].data = es[i].size
        /\ (\A e \in E : e.size <= MaxFileSize) <=> \A i \in 1..len : es[i].size <= MaxFileSize
    <3> HIDE DEF es, len
    <3> QED BY <1>1
  <2>2. Acceptable(a) <=>
          /\ a.whole /\ \A e \in E : Kind[e.name] \in {"file", "dir"} /\ e.data = e.size
          /\ MaxFileSize > 0 => \A e \in E : e.size <= MaxFileSize
          /\ MaxFiles > 0 => len <= MaxFiles
          /\ MaxSize > 0 => sum <= MaxSize
    BY DEF Acceptable
  <2> HIDE DEF E, sum, len, es
  <2> QED BY <2>1, <2>2
<1>5. \A i \in 1..len : Extractable(es, i) <=>
        /\ Kind[es[i].name] \in {"file", "dir"} /\ es[i].data = es[i].size
        /\ MaxFileSize > 0 => es[i].size <= MaxFileSize
        /\ MaxFiles > 0 => i <= MaxFiles
        /\ MaxSize > 0 => Total(es, i) <= MaxSize
  <2> HIDE DEF sum, len, es
  <2> QED BY <1>1, <1>2, <1>3
          DEF Extractable, Refused, RefusedName, Privileged, OverLimits, FileTooLarge, TooManyFiles, TooMuchData
<1> HIDE DEF sum, len, es
<1>6. a.whole /\ (\A i \in 1..len : Extractable(es, i)) => Acceptable(a)
  <2> SUFFICES ASSUME a.whole, \A i \in 1..len : Extractable(es, i) PROVE Acceptable(a)
    OBVIOUS
  <2>1. CASE len = 0
    <3>1. Total(es, 0) = 0
      BY <1>1, TotalFacts
    <3> QED BY <1>1, <1>3, <1>4, <2>1, <3>1
  <2>2. CASE len # 0
    <3>1. len \in 1..len
      BY <1>1, <2>2
    <3> QED BY <1>1, <1>3, <1>4, <1>5, <3>1
  <2> QED BY <2>1, <2>2
<1>7. \A i \in 1..len : ~Extractable(es, i) => ~Acceptable(a)
  BY <1>1, <1>2, <1>3, <1>4, <1>5
<1> QED BY <1>4, <1>5, <1>6, <1>7 DEF es, len

(* The sequences of the pipe.                                              *)
LEMMA RangeFacts ==
  ASSUME NEW S, NEW s \in Seq(S)
  PROVE  /\ Range(<< >>) = {} /\ Names(<< >>) = {} /\ Zeroed(<< >>) = {}
         /\ \A e \in S : /\ Append(s, e) \in Seq(S)
                         /\ Range(Append(s, e)) = Range(s) \cup {e}
                         /\ Names(s) \subseteq Names(Append(s, e))
                         /\ e # None => Names(Append(s, e)) = Names(s) \cup {e.name}
                         /\ Zeroed(Append(s, e)) = Zeroed(s) \cup {[e EXCEPT !.data = 0]}
         /\ s # << >> =>
              /\ Tail(s) \in Seq(S) /\ s[1] \in S /\ Range(s) = {s[1]} \cup Range(Tail(s))
              /\ s[1] # None => Names(s) = {s[1].name} \cup Names(Tail(s))
<1>1. Range(<< >>) = {} /\ Names(<< >>) = {} /\ Zeroed(<< >>) = {}
  BY DEF Range, Names, Zeroed
<1>2. ASSUME NEW e \in S
      PROVE  /\ Append(s, e) \in Seq(S)
             /\ Range(Append(s, e)) = Range(s) \cup {e}
             /\ Names(s) \subseteq Names(Append(s, e))
             /\ e # None => Names(Append(s, e)) = Names(s) \cup {e.name}
             /\ Zeroed(Append(s, e)) = Zeroed(s) \cup {[e EXCEPT !.data = 0]}
  <2> DEFINE t == Append(s, e)
             n == Len(s)
  <2>1. /\ n \in Nat /\ t \in Seq(S) /\ DOMAIN s = 1..n /\ DOMAIN t = 1..(n + 1)
        /\ t[n + 1] = e /\ \A i \in 1..n : t[i] = s[i]
    OBVIOUS
  <2> HIDE DEF t, n
  <2>2. DOMAIN t = DOMAIN s \cup {n + 1} /\ \A i \in DOMAIN s : t[i] = s[i]
    BY <2>1
  <2>3. Range(t) = Range(s) \cup {e}
    BY <2>1, <2>2 DEF Range
  <2>4. /\ Names(s) \subseteq Names(t)
        /\ e # None => Names(t) = Names(s) \cup {e.name}
    BY <2>1, <2>2 DEF Names
  <2>5. Zeroed(t) = Zeroed(s) \cup {[e EXCEPT !.data = 0]}
    BY <2>1, <2>2 DEF Zeroed
  <2> QED BY <2>1, <2>3, <2>4, <2>5 DEF t
<1>3. ASSUME s # << >>
      PROVE  /\ Tail(s) \in Seq(S) /\ s[1] \in S /\ Range(s) = {s[1]} \cup Range(Tail(s))
             /\ s[1] # None => Names(s) = {s[1].name} \cup Names(Tail(s))
  <2> DEFINE t == Tail(s)
             n == Len(s)
  <2>1. /\ n \in Nat /\ n > 0 /\ t \in Seq(S) /\ DOMAIN s = 1..n /\ DOMAIN t = 1..(n - 1) /\ s[1] \in S
        /\ \A i \in 1..(n - 1) : t[i] = s[i + 1]
    BY <1>3
  <2> HIDE DEF t, n
  <2>2. /\ DOMAIN s = {1} \cup {i + 1 : i \in DOMAIN t}
        /\ \A i \in DOMAIN t : t[i] = s[i + 1]
    <3>1. \A j \in 1..n : j # 1 => j - 1 \in 1..(n - 1) /\ j = (j - 1) + 1
      BY <2>1
    <3>2. \A j \in 1..n : j \in {1} \cup {i + 1 : i \in 1..(n - 1)}
      BY <3>1
    <3>3. 1 \in 1..n /\ \A i \in 1..(n - 1) : i + 1 \in 1..n
      BY <2>1
    <3>4. 1..n = {1} \cup {i + 1 : i \in 1..(n - 1)}
      BY <3>2, <3>3
    <3>5. DOMAIN s = 1..n /\ DOMAIN t = 1..(n - 1)
      BY <2>1
    <3> QED BY <2>1, <3>4, <3>5
  <2>3. Range(s) = {s[1]} \cup Range(t)
    BY <2>2 DEF Range
  <2>4. s[1] # None => Names(s) = {s[1].name} \cup Names(t)
    BY <2>2 DEF Names
  <2> QED BY <2>1, <2>3, <2>4 DEF t
<1> QED BY <1>1, <1>2, <1>3
----------------------------------------------------------------------------
(* A step of one process leaves alone the variables of another, which      *)
(* keeps what Each says of it as long as the registry only grows and its   *)
(* target is not touched.                                                  *)
Untouched(q) ==
  /\ pc'[q] = pc[q] /\ op'[q] = op[q] /\ dir'[q] = dir[q] /\ pipe'[q] = pipe[q]
  /\ archive'[q] = archive[q] /\ sent'[q] = sent[q] /\ offset'[q] = offset[q]
  /\ next'[q] = next[q] /\ temp'[q] = temp[q] /\ doomed'[q] = doomed[q] /\ walked'[q] = walked[q]
  /\ (q \in tempFile' <=> q \in tempFile) /\ (q \in excused' <=> q \in excused)
  /\ (q \in broken' <=> q \in broken) /\ (q \in mishap' <=> q \in mishap)
  /\ (q \in stuck' <=> q \in stuck)

Grows == blobs \subseteq blobs' /\ manifests \subseteq manifests'

LEMMA OthersKeep ==
  ASSUME NEW q, Each(q), Untouched(q), Grows, q \in crowded => q \in crowded', Apart(q)',
         Pulled(q) /\ q \notin crowded \cup stuck => target'[dir[q]] = target[dir[q]]
  PROVE  Each(q)'
<1> USE DEF Untouched
<1>1. Belongs(q)'
  BY DEF Each, Belongs, Pulled, PushPoints, PullPoints
<1>2. Piped(q)'
  BY DEF Each, Piped
<1>3. Pushed(q)'
  BY DEF Each, Pushed, Stands, Grows
<1>4. Fetched(q)'
  <2>1. Whole(q)' = Whole(q)
    BY DEF Whole
  <2> QED BY <2>1 DEF Each, Fetched, Grows, Pulled
<1>5. Bounded(q)'
  BY DEF Each, Bounded
<1>6. Moved(q)'
  <2>1. Whole(q)' = Whole(q)
    BY DEF Whole
  <2> QED BY <2>1 DEF Each, Moved, Pulled
<1>7. Cleaned(q)'
  BY DEF Each, Cleaned
<1> QED BY <1>1, <1>2, <1>3, <1>4, <1>5, <1>6, <1>7 DEF Each

(* The pulls are as they were but that p may be no longer one.             *)
LEMMA ApartKeeps ==
  ASSUME Inv, NEW p \in Proc, NEW q \in Proc, dir'[q] = dir[q], q \in crowded => q \in crowded',
         \A r \in Pulls' : r \in Pulls /\ dir'[r] = dir[r]
  PROVE  Apart(q)'
BY DEF Inv, Each, Apart

(* What Each says of a process that is not pulling, or not pushing.        *)
LEMMA NotPulling ==
  ASSUME NEW p, op'[p] \in {"push", "none"}, pc'[p] \notin PullPoints, pc'[p] = "idle" <=> op'[p] = "none",
         next'[p] = 1, temp'[p] = {}, archive'[p] \in Archive
  PROVE  Fetched(p)' /\ Bounded(p)' /\ Moved(p)' /\ Apart(p)'
<1>0. /\ Len(archive'[p].entries) \in Nat /\ archive'[p].entries \in Seq(TarEntry)
      /\ next'[p] - 1 = 0
  BY EntryFacts
<1>1. Fetched(p)'
  BY <1>0 DEF Fetched, Pulled, PullPoints
<1>2. Bounded(p)'
  <2>1. IsFiniteSet({}) /\ Cardinality({}) = 0
    BY FS_EmptySet
  <2>2. Bytes({}) = 0
    BY <2>1, BytesFacts
  <2>3. Total(archive'[p].entries, 0) = 0
    BY <1>0, TotalFacts
  <2> QED BY <1>0, <2>1, <2>2, <2>3 DEF Bounded
<1>3. Moved(p)'
  BY DEF Moved, Pulled
<1>4. Apart(p)'
  BY DEF Apart, Pulls, Running
<1> QED BY <1>1, <1>2, <1>3, <1>4

LEMMA NotPushing ==
  ASSUME NEW p, op'[p] # "push", pc'[p] \notin PushPoints
  PROVE  Piped(p)' /\ Pushed(p)'
BY DEF Piped, Pushed, Stands, PushPoints
----------------------------------------------------------------------------
(* The push makes its archive.                                             *)
LEMMA ArchivingFacts ==
  ASSUME Inv, NEW p \in Proc, pc[p] \in {"walk", "archive"}, Archiving(p), pc'[p] \in {"archive", "cleanup", "send"},
         \A q \in Proc \ {p} : Untouched(q), Shapes', Piped(p)', Pushed(p)'
  PROVE  Inv'
<1>1. op[p] = "push" /\ next[p] = 1 /\ temp[p] = {}
  BY DEF Inv, Each, Belongs, Pulled, PushPoints
<1>2. /\ op' = op /\ dir' = dir /\ next' = next /\ temp' = temp /\ target' = target
      /\ blobs' = blobs /\ manifests' = manifests /\ tag' = tag /\ crowded' = crowded
  BY DEF Archiving, registry, callVars, pullVars
<1>3. archive'[p] \in Archive
  BY DEF Shapes
<1>4. Fetched(p)' /\ Bounded(p)' /\ Moved(p)' /\ Apart(p)'
  BY <1>1, <1>2, <1>3, NotPulling DEF PullPoints
<1>5. Belongs(p)' /\ Cleaned(p)'
  BY <1>1, <1>2 DEF Belongs, Cleaned, Pulled, PushPoints, PullPoints
<1>6. \A q \in Proc \ {p} : Each(q)'
  <2> TAKE q \in Proc \ {p}
  <2>1. \A r \in Pulls' : r \in Pulls /\ dir'[r] = dir[r]
    <3>1. p \notin Pulls'
      BY <1>1, <1>2 DEF Pulls
    <3> QED BY <1>2, <3>1 DEF Pulls, Running, Untouched
  <2>2. Apart(q)'
    BY <1>2, <2>1, ApartKeeps
  <2> QED BY <1>2, <2>2, OthersKeep DEF Inv, Grows
<1>7. TaggedIsBacked'
  BY <1>2 DEF Inv, TaggedIsBacked
<1> QED BY <1>4, <1>5, <1>6, <1>7 DEF Inv, Each

(* The steps of the pipe, field by field.                                  *)
Fields(pp, jobs, results, open, out) ==
  /\ pp.jobs = jobs /\ pp.results = results /\ pp.open = open /\ pp.out = out
  /\ jobs \subseteq TarEntry /\ results \in Seq(TarEntry \cup {None}) /\ open \subseteq Name /\ out \in Seq(TarEntry)
       => pp \in Pipe

LEMMA PipeFacts ==
  ASSUME NEW x \in Pipe
  PROVE  /\ x.jobs \subseteq TarEntry /\ x.results \in Seq(TarEntry \cup {None})
         /\ x.open \subseteq Name /\ x.out \in Seq(TarEntry)
         /\ \A e : Fields(Opened(x, e), x.jobs \ {e}, Append(x.results, e),
                          IF e.name \in Regular THEN x.open \cup {e.name} ELSE x.open, x.out)
         /\ \A e : Fields(NotOpened(x, e), x.jobs \ {e}, Append(x.results, None), x.open, x.out)
         /\ Fields(Written(x, source), x.jobs, Tail(x.results), x.open \ {x.results[1].name},
                   Append(x.out, [x.results[1] EXCEPT !.data = Holds(source, x.results[1])]))
         /\ Fields([NoPipe EXCEPT !.open = x.open], {}, << >>, x.open, << >>)
<1> USE DEF Fields
<1>1. /\ x.jobs \subseteq TarEntry /\ x.results \in Seq(TarEntry \cup {None})
      /\ x.open \subseteq Name /\ x.out \in Seq(TarEntry)
  BY DEF Pipe
<1>2. ASSUME NEW e
      PROVE  Fields(Opened(x, e), x.jobs \ {e}, Append(x.results, e),
                    IF e.name \in Regular THEN x.open \cup {e.name} ELSE x.open, x.out)
  BY DEF Opened, Pipe
<1>3. ASSUME NEW e
      PROVE  Fields(NotOpened(x, e), x.jobs \ {e}, Append(x.results, None), x.open, x.out)
  BY DEF NotOpened, Pipe
<1>4. Fields(Written(x, source), x.jobs, Tail(x.results), x.open \ {x.results[1].name},
             Append(x.out, [x.results[1] EXCEPT !.data = Holds(source, x.results[1])]))
  BY DEF Written, Pipe
<1>5. Fields([NoPipe EXCEPT !.open = x.open], {}, << >>, x.open, << >>)
  BY DEF NoPipe, Pipe
<1> HIDE DEF Fields
<1> QED BY <1>1, <1>2, <1>3, <1>4, <1>5

LEMMA CollectFilesKeeps ==
  ASSUME Inv, NEW p \in Proc, CollectFiles(p)
  PROVE  Inv'
<1> USE DEF CollectFiles, At, Goto
<1>1. Walked(source) \subseteq TarEntry /\ \A e \in Walked(source) : e.data = 0
  BY DEF Inv, Shapes, Walked, TarEntry
<1>2. /\ Fields(pipe'[p], Walked(source), << >>, {}, << >>)
      /\ pc'[p] = "archive" /\ walked'[p] = Walked(source)
  <2>1. pipe'[p] = StartPipe(source) /\ pc'[p] = "archive" /\ walked'[p] = Walked(source)
    BY DEF Inv, Shapes
  <2>2. Fields(StartPipe(source), Walked(source), << >>, {}, << >>)
    BY DEF StartPipe, NoPipe, Fields, Pipe
  <2> QED BY <2>1, <2>2
<1>3. pipe'[p] \in Pipe
  BY <1>1, <1>2 DEF Fields
<1>4. Shapes'
  BY <1>1, <1>3 DEF Inv, Shapes, PushPoints, Archiving, envVars, registry, callVars, pullVars
<1>5. \A q \in Proc \ {p} : Untouched(q)
  BY DEF Inv, Shapes, Untouched, Archiving, callVars, pullVars
<1>6. Piped(p)'
  <2>1. Range(<< >>) = {} /\ Names(<< >>) = {} /\ Zeroed(<< >>) = {}
    BY DEF Range, Names, Zeroed
  <2> QED BY <1>1, <1>2, <2>1 DEF Piped, Fields
<1>7. Pushed(p)'
  BY <1>2 DEF Pushed, Stands
<1> QED BY <1>2, <1>4, <1>5, <1>6, <1>7, ArchivingFacts

LEMMA OpenFileKeeps ==
  ASSUME Inv, NEW p \in Proc, OpenFile(p)
  PROVE  Inv'
<1> USE DEF OpenFile, At
<1> DEFINE x == pipe[p]
           y == pipe'[p]
<1>1. PICK e \in x.jobs :
        pipe' = [pipe EXCEPT ![p] = Opened(@, e)] \/ pipe' = [pipe EXCEPT ![p] = NotOpened(@, e)]
  OBVIOUS
<1>2. x \in Pipe /\ pc[p] = "archive" /\ pc' = pc /\ walked' = walked
  BY DEF Inv, Shapes
<1>3. /\ x.jobs \subseteq TarEntry /\ x.results \in Seq(TarEntry \cup {None}) /\ x.open \subseteq Name
      /\ x.out \in Seq(TarEntry)
  BY <1>2 DEF Pipe
<1>4. e \in TarEntry /\ e.name \in Name /\ e # None
  BY <1>3, EntryFacts
<1>5. /\ \A f \in walked[p] : f.data = 0
      /\ x.open \subseteq Names(x.results)
      /\ None \notin Range(x.results) => walked[p] = x.jobs \cup Range(x.results) \cup Zeroed(x.out)
  BY <1>2 DEF Inv, Each, Piped
<1>6. \/ Fields(y, x.jobs \ {e}, Append(x.results, e),
                IF e.name \in Regular THEN x.open \cup {e.name} ELSE x.open, x.out)
      \/ Fields(y, x.jobs \ {e}, Append(x.results, None), x.open, x.out)
  <2>1. y = Opened(x, e) \/ y = NotOpened(x, e)
    BY <1>1 DEF Inv, Shapes
  <2> HIDE DEF x, y
  <2> QED BY <1>2, <2>1, PipeFacts
<1>7. y \in Pipe /\ Piped(p)'
  <2>1. CASE Fields(y, x.jobs \ {e}, Append(x.results, e),
                       IF e.name \in Regular THEN x.open \cup {e.name} ELSE x.open, x.out)
    <3>1. /\ Append(x.results, e) \in Seq(TarEntry \cup {None})
          /\ Range(Append(x.results, e)) = Range(x.results) \cup {e}
          /\ Names(Append(x.results, e)) = Names(x.results) \cup {e.name}
      BY <1>3, <1>4, RangeFacts
    <3>2. y.open \subseteq Names(x.results) \cup {e.name} /\ y.open \subseteq Name
      BY <1>3, <1>4, <1>5, <2>1 DEF Fields
    <3>3. None \notin Range(y.results) => walked[p] = y.jobs \cup Range(y.results) \cup Zeroed(y.out)
      BY <1>1, <1>5, <2>1, <3>1 DEF Fields
    <3>4. y \in Pipe
      BY <1>3, <2>1, <3>1, <3>2 DEF Fields
    <3> QED BY <1>2, <1>5, <2>1, <3>1, <3>2, <3>3, <3>4 DEF Piped, Fields
  <2>2. CASE Fields(y, x.jobs \ {e}, Append(x.results, None), x.open, x.out)
    <3>1. /\ Append(x.results, None) \in Seq(TarEntry \cup {None})
          /\ Range(Append(x.results, None)) = Range(x.results) \cup {None}
          /\ Names(x.results) \subseteq Names(Append(x.results, None))
      BY <1>3, RangeFacts
    <3>2. y \in Pipe
      BY <1>3, <2>2, <3>1 DEF Fields
    <3> QED BY <1>2, <1>5, <2>2, <3>1, <3>2 DEF Piped, Fields
  <2> QED BY <1>6, <2>1, <2>2
<1>8. Shapes'
  <2>1. pipe' = [pipe EXCEPT ![p] = y]
    BY <1>1, <1>2 DEF Inv, Shapes
  <2>2. pipe' \in [Proc -> Pipe]
    <3> HIDE DEF y
    <3> QED BY <1>7, <2>1 DEF Inv, Shapes
  <2> QED BY <2>2 DEF Inv, Shapes, Archiving, envVars, registry, callVars, pullVars
<1>9. \A q \in Proc \ {p} : Untouched(q)
  BY <1>1 DEF Inv, Shapes, Untouched, Archiving, callVars, pullVars
<1>10. Pushed(p)'
  BY <1>2 DEF Pushed, Stands
<1> QED BY <1>2, <1>7, <1>8, <1>9, <1>10, ArchivingFacts

LEMMA WriteEntryKeeps ==
  ASSUME Inv, NEW p \in Proc, WriteEntry(p)
  PROVE  Inv'
<1> USE DEF WriteEntry, At, Goto
<1> DEFINE x == pipe[p]
           y == pipe'[p]
           e == x.results[1]
           f == [e EXCEPT !.data = Holds(source, e)]
<1>1. x \in Pipe /\ pc[p] = "archive" /\ walked' = walked /\ x.results # << >>
  BY DEF Inv, Shapes
<1>2. /\ x.jobs \subseteq TarEntry /\ x.results \in Seq(TarEntry \cup {None}) /\ x.open \subseteq Name
      /\ x.out \in Seq(TarEntry)
  BY <1>1 DEF Pipe
<1>3. \A q \in Proc \ {p} : Untouched(q)
  BY DEF Inv, Shapes, Untouched, Archiving, callVars, pullVars
<1>4. CASE ~WriteFails(x, source) /\ pipe' = [pipe EXCEPT ![p] = Written(@, source)] /\ UNCHANGED pc
  <2>1. /\ \A g \in walked[p] : g.data = 0
        /\ x.open \subseteq Names(x.results)
        /\ None \notin Range(x.results) => walked[p] = x.jobs \cup Range(x.results) \cup Zeroed(x.out)
    BY <1>1 DEF Inv, Each, Piped
  <2>2. /\ Tail(x.results) \in Seq(TarEntry \cup {None}) /\ e \in TarEntry /\ e # None
        /\ Range(x.results) = {e} \cup Range(Tail(x.results))
        /\ Names(x.results) = {e.name} \cup Names(Tail(x.results))
    <3>1. e # None
      BY <1>4 DEF WriteFails
    <3> QED BY <1>1, <1>2, <3>1, RangeFacts
  <2>3. Holds(source, e) \in Size \cup {0} /\ f \in TarEntry
    <3>1. e.name \in Name /\ e.size \in Size \cup {0} /\ source \in [Name -> Size \cup {0, None}]
      BY <2>2 DEF TarEntry, Inv, Shapes
    <3>2. Holds(source, e) \in Size \cup {0}
      BY <3>1 DEF Holds
    <3> QED BY <2>2, <3>2 DEF TarEntry
  <2>4. Fields(y, x.jobs, Tail(x.results), x.open \ {e.name}, Append(x.out, f))
    <3>1. y = Written(x, source)
      BY <1>4 DEF Inv, Shapes
    <3> HIDE DEF x, y
    <3> QED BY <1>1, <3>1, PipeFacts
  <2>5. Append(x.out, f) \in Seq(TarEntry) /\ Zeroed(Append(x.out, f)) = Zeroed(x.out) \cup {[e EXCEPT !.data = 0]}
    <3>1. [f EXCEPT !.data = 0] = [e EXCEPT !.data = 0]
      BY <2>2 DEF TarEntry
    <3>2. Append(x.out, f) \in Seq(TarEntry) /\ Zeroed(Append(x.out, f)) = Zeroed(x.out) \cup {[f EXCEPT !.data = 0]}
      <4> HIDE DEF f
      <4> QED BY <1>2, <2>3, RangeFacts
    <3> QED BY <3>1, <3>2
  <2>6. y \in Pipe
    BY <1>2, <2>2, <2>4, <2>5 DEF Fields
  <2>7. None \notin Range(y.results) => walked[p] = y.jobs \cup Range(y.results) \cup Zeroed(y.out)
    <3> SUFFICES ASSUME None \notin Range(Tail(x.results))
                 PROVE  walked[p] = x.jobs \cup Range(Tail(x.results)) \cup Zeroed(Append(x.out, f))
      BY <2>4 DEF Fields
    <3>1. e \in walked[p] /\ walked[p] = x.jobs \cup Range(x.results) \cup Zeroed(x.out)
      BY <2>1, <2>2
    <3>2. e.data = 0
      BY <2>1, <3>1
    <3>3. [e EXCEPT !.data = 0] = e
      BY <2>2, <3>2 DEF TarEntry
    <3> HIDE DEF f, e
    <3> QED BY <2>2, <2>5, <3>1, <3>3
  <2>8. Piped(p)'
    <3>1. y.open \subseteq Names(y.results) /\ walked'[p] = walked[p]
      BY <1>1, <2>1, <2>2, <2>4 DEF Fields
    <3> QED BY <2>1, <2>7, <3>1 DEF Piped
  <2>9. pipe' \in [Proc -> Pipe]
    <3>1. pipe' = [pipe EXCEPT ![p] = y]
      BY <1>4 DEF Inv, Shapes
    <3> HIDE DEF y
    <3> QED BY <2>6, <3>1 DEF Inv, Shapes
  <2>10. Shapes'
    BY <1>4, <2>9 DEF Inv, Shapes, Archiving, envVars, registry, callVars, pullVars
  <2>11. Pushed(p)'
    BY <1>1, <1>4 DEF Pushed, Stands
  <2> QED BY <1>1, <1>3, <1>4, <2>8, <2>10, <2>11, ArchivingFacts
<1>5. CASE Goto(p, "cleanup") /\ UNCHANGED pipe
  <2>1. pc'[p] = "cleanup"
    BY <1>5 DEF Inv, Shapes
  <2>2. Shapes'
    BY <1>5 DEF Inv, Shapes, Archiving, envVars, registry, callVars, pullVars, PushPoints
  <2>3. Piped(p)' /\ Pushed(p)'
    BY <2>1 DEF Piped, Pushed, Stands
  <2> QED BY <1>1, <1>3, <2>1, <2>2, <2>3, ArchivingFacts
<1> QED BY <1>4, <1>5

LEMMA FinishArchiveKeeps ==
  ASSUME Inv, NEW p \in Proc, FinishArchive(p)
  PROVE  Inv'
<1> USE DEF FinishArchive, At, Goto
<1> DEFINE x == pipe[p]
<1>1. PICK good \in BOOLEAN :
        /\ archive' = [archive EXCEPT ![p] = [entries |-> x.out, whole |-> good]]
        /\ excused' = IF good /\ ~Short(x.out) THEN excused ELSE excused \cup {p}
  OBVIOUS
<1>2. x \in Pipe /\ pc[p] = "archive" /\ walked' = walked /\ x.jobs = {} /\ x.results = << >> /\ pc'[p] = "send"
  BY DEF Inv, Shapes, AllWritten
<1>3. x.open = {} /\ walked[p] = Zeroed(x.out)
  <2>1. /\ x.open \subseteq Names(x.results)
        /\ None \notin Range(x.results) => walked[p] = x.jobs \cup Range(x.results) \cup Zeroed(x.out)
    BY <1>2 DEF Inv, Each, Piped
  <2>2. Range(x.results) = {} /\ Names(x.results) = {}
    BY <1>2 DEF Range, Names
  <2> QED BY <1>2, <2>1, <2>2
<1>4. pipe'[p].open = {} /\ pipe'[p] \in Pipe
  <2>1. pipe'[p] = [NoPipe EXCEPT !.open = x.open]
    BY DEF Inv, Shapes
  <2>2. Fields(pipe'[p], {}, << >>, {}, << >>)
    BY <1>2, <1>3, <2>1, PipeFacts
  <2> QED BY <2>2 DEF Fields
<1>5. archive'[p] = [entries |-> x.out, whole |-> good] /\ archive'[p] \in Archive
  BY <1>1, <1>2 DEF Inv, Shapes, Archive, Pipe
<1>6. Shapes'
  <2>1. pipe' \in [Proc -> Pipe]
    BY <1>4 DEF Inv, Shapes
  <2>2. archive' \in [Proc -> Archive]
    BY <1>1, <1>5 DEF Inv, Shapes
  <2> QED BY <2>1, <2>2 DEF Inv, Shapes, Archiving, envVars, registry, callVars, pullVars, PushPoints
<1>7. \A q \in Proc \ {p} : Untouched(q)
  BY <1>1 DEF Inv, Shapes, Untouched, Archiving, callVars, pullVars
<1>8. Piped(p)'
  BY <1>2 DEF Piped
<1>9. Pushed(p)'
  BY <1>1, <1>2, <1>3, <1>4, <1>5 DEF Pushed, Stands
<1> QED BY <1>2, <1>6, <1>7, <1>8, <1>9, ArchivingFacts
----------------------------------------------------------------------------
(* The push sends its archive.                                             *)
Sends == {"send", "stream", "buffer", "pack", "tag"}

LEMMA SendingFacts ==
  ASSUME Inv, NEW p \in Proc, pc[p] \in Sends, Sending(p), pc'[p] \in Sends \cup {"cleanup", "ok"}, Grows,
         \A q \in Proc \ {p} : Untouched(q), Shapes', TaggedIsBacked', Pushed(p)'
  PROVE  Inv'
<1>1. op[p] = "push" /\ next[p] = 1 /\ temp[p] = {} /\ archive[p] \in Archive
  BY DEF Inv, Each, Belongs, Pulled, PushPoints, Sends, Shapes
<1>2. /\ op' = op /\ dir' = dir /\ next' = next /\ temp' = temp /\ target' = target
      /\ crowded' = crowded /\ archive' = archive
  BY DEF Sending, callVars, pullVars
<1>3. Fetched(p)' /\ Bounded(p)' /\ Moved(p)' /\ Apart(p)'
  BY <1>1, <1>2, NotPulling DEF PullPoints, Sends
<1>4. Belongs(p)' /\ Cleaned(p)' /\ Piped(p)'
  BY <1>1, <1>2 DEF Belongs, Cleaned, Piped, Pulled, PushPoints, PullPoints, Sends
<1>5. \A q \in Proc \ {p} : Each(q)'
  <2> TAKE q \in Proc \ {p}
  <2>1. \A r \in Pulls' : r \in Pulls /\ dir'[r] = dir[r]
    <3>1. p \notin Pulls'
      BY <1>1, <1>2 DEF Pulls
    <3> QED BY <1>2, <3>1 DEF Pulls, Running, Untouched
  <2>2. Apart(q)'
    BY <1>2, <2>1, ApartKeeps
  <2> QED BY <1>2, <2>2, OthersKeep DEF Inv
<1> QED BY <1>3, <1>4, <1>5 DEF Inv, Each

(* What a push that is sending has.                                        *)
LEMMA Sound ==
  ASSUME Inv, NEW p \in Proc, pc[p] \in Sends
  PROVE  /\ pipe[p].open = {}
         /\ p \notin excused =>
              archive[p].whole /\ ~Short(archive[p].entries) /\ Zeroed(archive[p].entries) = walked[p]
         /\ pc[p] \in {"stream", "buffer"} /\ p \notin broken => offset[p] = 0
         /\ pc[p] \in {"pack", "tag"} /\ p \notin broken => sent[p] = archive[p]
         /\ pc[p] \in {"pack", "tag"} => sent[p] \in blobs
         /\ pc[p] = "tag" => sent[p] \in manifests
         /\ Rest(p) \in Archive /\ (offset[p] = 0 => Rest(p) = archive[p])
         /\ sent[p] \in Archive /\ sent[p] # None /\ op[p] = "push"
<1>1. Pushed(p) /\ Belongs(p) /\ archive[p] \in Archive /\ offset[p] \in 0..2 /\ sent[p] \in Archive /\ None \notin Archive
  BY EntryFacts DEF Inv, Each, Shapes
<1>2. Rest(p) \in Archive /\ (offset[p] = 0 => Rest(p) = archive[p])
  BY <1>1 DEF Rest, Archive
<1> QED BY <1>1, <1>2 DEF Pushed, Stands, Sends, Belongs, PushPoints

LEMMA AttemptKeeps ==
  ASSUME Inv, NEW p \in Proc, Attempt(p)
  PROVE  Inv'
<1> USE DEF Attempt, At, Goto, Rewind
<1>1. pc[p] \in Sends /\ pc'[p] \in {"cleanup", "stream"} /\ Grows
  BY DEF Inv, Shapes, Sends, Grows, registry
<1>2. Shapes'
  <2>1. attempt' \in [Proc -> 0..(MaxRetries + 1)]
    <3>1. attempt[p] \in 0..(MaxRetries + 1) /\ ~TriedEnough(p) => attempt[p] + 1 \in 0..(MaxRetries + 1)
      BY ClientAssumption DEF TriedEnough
    <3> QED BY <3>1 DEF Inv, Shapes
  <2> QED BY <2>1 DEF Inv, Shapes, Sending, PushPoints, registry, callVars, pullVars, envVars
<1>3. \A q \in Proc \ {p} : Untouched(q)
  BY DEF Inv, Shapes, Untouched, Sending, callVars, pullVars
<1>4. TaggedIsBacked'
  BY DEF Inv, TaggedIsBacked, registry
<1>5. Pushed(p)'
  <2>1. pc'[p] = "stream" => offset'[p] = 0
    BY <1>1 DEF Inv, Shapes
  <2> QED BY <1>1, <2>1, Sound DEF Pushed, Stands, Sending
<1> QED BY <1>1, <1>2, <1>3, <1>4, <1>5, SendingFacts DEF Sends

LEMMA PushStreamKeeps ==
  ASSUME Inv, NEW p \in Proc, PushStream(p)
  PROVE  Inv'
<1> USE DEF PushStream, At, Goto
<1>1. pc[p] \in Sends /\ pc'[p] \in {"pack", "buffer"} /\ Grows
  BY DEF Inv, Shapes, Sends, Grows
<1>2. Rest(p) \in Archive /\ (p \notin broken => Rest(p) = archive[p])
  BY <1>1, Sound
<1>3. Shapes'
  BY <1>2 DEF Inv, Shapes, Sending, PushPoints, callVars, pullVars, envVars
<1>4. \A q \in Proc \ {p} : Untouched(q)
  BY DEF Inv, Shapes, Untouched, Sending, callVars, pullVars
<1>5. TaggedIsBacked'
  BY <1>1 DEF Inv, TaggedIsBacked, Grows
<1>6. Pushed(p)'
  <2>1. CASE pc'[p] = "pack"
    <3>1. sent'[p] = Rest(p) /\ Rest(p) \in blobs' /\ broken' = broken
      BY <2>1 DEF Inv, Shapes
    <3> QED BY <1>1, <1>2, <2>1, <3>1, Sound DEF Pushed, Stands, Sending
  <2>2. CASE pc'[p] = "buffer"
    <3>1. p \notin broken' => offset'[p] = 0
      BY <2>2 DEF Inv, Shapes
    <3> QED BY <1>1, <2>2, <3>1, Sound DEF Pushed, Stands, Sending
  <2> QED BY <1>1, <2>1, <2>2
<1> QED BY <1>1, <1>3, <1>4, <1>5, <1>6, SendingFacts DEF Sends

LEMMA PushBufferedKeeps ==
  ASSUME Inv, NEW p \in Proc, PushBuffered(p)
  PROVE  Inv'
<1> USE DEF PushBuffered, At, Goto, LayerFails, Retry
<1>1. pc[p] \in Sends /\ pc'[p] \in {"pack", "send", "cleanup"} /\ Grows
  BY DEF Inv, Shapes, Sends, Grows
<1>2. Rest(p) \in Archive /\ (p \notin broken => Rest(p) = archive[p])
  BY <1>1, Sound
<1>3. Shapes'
  BY <1>2 DEF Inv, Shapes, Sending, PushPoints, callVars, pullVars, envVars
<1>4. \A q \in Proc \ {p} : Untouched(q)
  BY DEF Inv, Shapes, Untouched, Sending, callVars, pullVars
<1>5. TaggedIsBacked'
  BY <1>1 DEF Inv, TaggedIsBacked, Grows
<1>6. Pushed(p)'
  <2>1. CASE pc'[p] = "pack"
    <3>1. sent'[p] = Rest(p) /\ Rest(p) \in blobs' /\ broken' = broken
      BY <2>1 DEF Inv, Shapes
    <3> QED BY <1>1, <1>2, <2>1, <3>1, Sound DEF Pushed, Stands, Sending
  <2>2. CASE pc'[p] \in {"send", "cleanup"}
    BY <1>1, <2>2, Sound DEF Pushed, Stands, Sending
  <2> QED BY <1>1, <2>1, <2>2
<1> QED BY <1>1, <1>3, <1>4, <1>5, <1>6, SendingFacts DEF Sends

LEMMA PackManifestKeeps ==
  ASSUME Inv, NEW p \in Proc, PackManifest(p)
  PROVE  Inv'
<1> USE DEF PackManifest, At, Goto, Retry
<1>1. pc[p] \in Sends /\ pc'[p] \in {"tag", "send", "cleanup"} /\ Grows
  BY DEF Inv, Shapes, Sends, Grows
<1>2. sent[p] \in Archive
  BY <1>1, Sound
<1>3. Shapes'
  BY <1>2 DEF Inv, Shapes, Sending, PushPoints, callVars, pullVars, envVars
<1>4. \A q \in Proc \ {p} : Untouched(q)
  BY DEF Inv, Shapes, Untouched, Sending, callVars, pullVars
<1>5. TaggedIsBacked'
  BY <1>1 DEF Inv, TaggedIsBacked, Grows
<1>6. Pushed(p)'
  <2>1. pc'[p] = "tag" => sent[p] \in manifests'
    BY DEF Inv, Shapes
  <2> QED BY <1>1, <2>1, Sound DEF Pushed, Stands, Sending
<1> QED BY <1>1, <1>3, <1>4, <1>5, <1>6, SendingFacts DEF Sends

LEMMA TagKeeps ==
  ASSUME Inv, NEW p \in Proc, Tag(p)
  PROVE  Inv'
<1> USE DEF Tag, At, Goto, Retry
<1>1. pc[p] \in Sends /\ pc'[p] \in {"ok", "send", "cleanup"} /\ Grows
  BY DEF Inv, Shapes, Sends, Grows
<1>2. sent[p] \in Archive /\ sent[p] \in blobs /\ sent[p] \in manifests
  BY <1>1, Sound
<1>3. Shapes'
  BY <1>2 DEF Inv, Shapes, Sending, PushPoints, callVars, pullVars, envVars
<1>4. \A q \in Proc \ {p} : Untouched(q)
  BY DEF Inv, Shapes, Untouched, Sending, callVars, pullVars
<1>5. TaggedIsBacked'
  BY <1>1, <1>2 DEF Inv, TaggedIsBacked, Grows
<1>6. Pushed(p)'
  BY <1>1, Sound DEF Pushed, Stands, Sending
<1> QED BY <1>1, <1>3, <1>4, <1>5, <1>6, SendingFacts DEF Sends

LEMMA RemoveTempFileKeeps ==
  ASSUME Inv, NEW p \in Proc, RemoveTempFile(p)
  PROVE  Inv'
<1> USE DEF RemoveTempFile, At, Goto
<1>1. /\ pc'[p] = "err" /\ archive'[p] = NoArchive /\ pipe'[p] = NoPipe
      /\ blobs' = blobs /\ manifests' = manifests /\ tag' = tag /\ target' = target /\ crowded' = crowded
      /\ op' = op /\ dir' = dir /\ next' = next /\ temp' = temp
  BY DEF Inv, Shapes, registry, callVars, pullVars
<1>2. op[p] = "push" /\ next[p] = 1 /\ temp[p] = {}
  BY DEF Inv, Each, Belongs, Pulled, PushPoints
<1>3. Shapes'
  <2>1. 0 \in 0..(MaxRetries + 1)
    BY ClientAssumption
  <2> QED BY <2>1, EntryFacts DEF Inv, Shapes, registry, callVars, pullVars, envVars
<1>4. \A q \in Proc \ {p} : Untouched(q)
  BY DEF Inv, Shapes, Untouched, callVars, pullVars
<1>5. TaggedIsBacked'
  BY <1>1 DEF Inv, TaggedIsBacked
<1>6. Fetched(p)' /\ Bounded(p)' /\ Moved(p)' /\ Apart(p)'
  BY <1>1, <1>2, EntryFacts, NotPulling DEF PullPoints
<1>7. Belongs(p)' /\ Cleaned(p)' /\ Piped(p)' /\ Pushed(p)'
  BY <1>1, <1>2 DEF Belongs, Cleaned, Piped, Pushed, Stands, Pulled, PushPoints, PullPoints
<1>8. \A q \in Proc \ {p} : Each(q)'
  <2> TAKE q \in Proc \ {p}
  <2>1. \A r \in Pulls' : r \in Pulls /\ dir'[r] = dir[r]
    <3>1. p \notin Pulls'
      BY <1>1, <1>2 DEF Pulls
    <3> QED BY <1>1, <1>4, <3>1 DEF Pulls, Running, Untouched
  <2>2. Apart(q)'
    BY <1>1, <2>1, ApartKeeps
  <2> QED BY <1>1, <1>4, <2>2, OthersKeep DEF Inv, Grows
<1> QED BY <1>3, <1>5, <1>6, <1>7, <1>8 DEF Inv, Each

(* The source changes, and nothing else.                                   *)
LEMMA EditKeeps ==
  ASSUME Inv, Edit
  PROVE  Inv'
<1>1. /\ UNCHANGED <<registry, target, pc, callVars, pipe, archive, attempt, pushVars, pullVars, ghosts>>
      /\ \E n \in Regular, z \in Size \cup {None} : source' = [source EXCEPT ![n] = z]
  BY DEF Edit
<1>2. Shapes'
  BY <1>1 DEF Inv, Shapes, registry, callVars, pushVars, pullVars, ghosts
<1>3. TaggedIsBacked'
  BY <1>1 DEF Inv, TaggedIsBacked, registry
<1>4. ASSUME NEW q \in Proc PROVE Each(q)'
  <2>1. Untouched(q) /\ Grows /\ crowded' = crowded /\ target' = target /\ dir' = dir
    BY <1>1 DEF Untouched, Grows, registry, callVars, pushVars, pullVars, ghosts
  <2>2. Apart(q)'
    BY <1>1, <1>4 DEF Inv, Each, Apart, Pulls, Running, callVars, ghosts
  <2> QED BY <2>1, <2>2, OthersKeep DEF Inv
<1> QED BY <1>2, <1>3, <1>4 DEF Inv
----------------------------------------------------------------------------
(* The pull.                                                               *)
LEMMA PullingFacts ==
  ASSUME Inv, NEW p \in Proc, pc[p] \in PullPoints, Pulling(p), pc'[p] \in PullPoints \cup {"ok", "err"},
         \A q \in Proc \ {p} : Untouched(q), Shapes',
         \A d \in Dir \ {dir[p]} : target'[d] = target[d],
         Fetched(p)', Bounded(p)', Moved(p)', Cleaned(p)'
  PROVE  Inv'
<1>1. /\ op' = op /\ dir' = dir /\ pipe' = pipe /\ tempFile' = tempFile /\ crowded' = crowded
      /\ blobs' = blobs /\ manifests' = manifests /\ tag' = tag
  BY DEF Pulling, registry, callVars, pushVars
<1>2. Pulled(p) /\ op[p] \notin {"none", "push"} /\ pipe[p] = NoPipe /\ p \notin tempFile /\ dir[p] \in Dir
  BY DEF Inv, Each, Belongs, Pulled
<1>3. Piped(p)' /\ Pushed(p)'
  BY <1>1, <1>2, NotPushing DEF PushPoints, PullPoints
<1>4. Belongs(p)'
  BY <1>1, <1>2 DEF Belongs, Pulled, PushPoints, PullPoints
<1>5. \A r \in Pulls' : r \in Pulls /\ dir'[r] = dir[r]
  BY <1>1 DEF Pulls, Running, Untouched, PullPoints
<1>6. Apart(p)'
  BY <1>1, <1>5, ApartKeeps
<1>7. \A q \in Proc \ {p} : Each(q)'
  <2> TAKE q \in Proc \ {p}
  <2>1. Apart(q)'
    BY <1>1, <1>5, ApartKeeps
  <2>2. Pulled(q) /\ q \notin crowded \cup stuck => target'[dir[q]] = target[dir[q]]
    <3>1. Belongs(q) /\ Apart(q)
      BY DEF Inv, Each
    <3>2. p \in Pulls
      BY <1>2 DEF Pulls, Running, PullPoints
    <3>3. Pulled(q) => q \in Pulls /\ dir[q] \in Dir
      BY <3>1 DEF Belongs, Pulled, Pulls, Running
    <3> QED BY <3>1, <3>2, <3>3 DEF Apart
  <2> QED BY <1>1, <2>1, <2>2, OthersKeep DEF Inv, Grows
<1>8. TaggedIsBacked'
  BY <1>1 DEF Inv, TaggedIsBacked
<1> QED BY <1>3, <1>4, <1>6, <1>7, <1>8 DEF Inv, Each

(* What a pull has.                                                        *)
LEMMA Pull1 ==
  ASSUME Inv, NEW p \in Proc, pc[p] \in PullPoints
  PROVE  /\ Pulled(p) /\ dir[p] \in Dir /\ archive[p] \in Archive /\ next[p] \in Nat /\ next[p] >= 1
         /\ temp[p] \subseteq TarEntry /\ doomed[p] \subseteq TarEntry /\ target[dir[p]] \subseteq TarEntry
         /\ archive[p].entries \in Seq(TarEntry) /\ Len(archive[p].entries) \in Nat
         /\ Fetched(p) /\ Bounded(p) /\ Moved(p)
BY EntryFacts DEF Inv, Each, Shapes, Belongs

LEMMA NothingWritten ==
  ASSUME NEW entries \in Seq(TarEntry), NEW n \in 0..Len(entries)
  PROVE  IsFiniteSet({}) /\ Cardinality({}) = 0 /\ Bytes({}) <= Total(entries, n)
<1>1. IsFiniteSet({}) /\ Cardinality({}) = 0
  BY FS_EmptySet
<1>2. Bytes({}) = 0
  BY <1>1, BytesFacts
<1>3. Total(entries, n) \in Nat
  BY TotalFacts
<1> QED BY <1>1, <1>2, <1>3

LEMMA FetchManifestKeeps ==
  ASSUME Inv, NEW p \in Proc, FetchManifest(p)
  PROVE  Inv'
<1> USE DEF FetchManifest, At, Goto, Happens
<1>1. /\ pc[p] = "fetch" /\ pc'[p] \in {"fetch", "layer", "err"}
      /\ next' = next /\ temp' = temp /\ doomed' = doomed /\ target' = target /\ stuck' = stuck
      /\ dir' = dir /\ op' = op /\ crowded' = crowded /\ blobs' = blobs /\ tempFile' = tempFile
  BY DEF Inv, Shapes, pullVars, Pulling, callVars, registry, pushVars
<1>2. /\ Pulled(p) /\ next[p] = 1 /\ temp[p] = {} /\ archive[p] \in Archive /\ p \notin tempFile
      /\ archive[p] = NoArchive \/ p \in mishap
      /\ p \notin crowded \cup stuck => target[dir[p]] = {}
  BY <1>1, Pull1 DEF PullPoints, Fetched, Moved, Inv, Each, Belongs, Pulled
<1>3. /\ pc'[p] = "layer" => archive'[p] = tag /\ tag \in blobs /\ tag \in Archive
      /\ pc'[p] # "layer" => archive'[p] = archive[p] /\ (archive[p] = NoArchive \/ p \in mishap')
  <2>1. tag \in manifests => tag \in blobs /\ tag \in Archive
    BY EntryFacts DEF Inv, Shapes, TaggedIsBacked
  <2> QED BY <1>2, <2>1 DEF Inv, Shapes
<1>4. archive'[p] \in Archive
  BY <1>1, <1>2, <1>3
<1>5. Shapes'
  <2>1. attempt' \in [Proc -> 0..(MaxRetries + 1)]
    <3>1. attempt[p] \in 0..(MaxRetries + 1) /\ ~TriedEnough(p) => attempt[p] + 1 \in 0..(MaxRetries + 1)
      BY ClientAssumption DEF TriedEnough
    <3> QED BY <3>1 DEF Inv, Shapes
  <2>2. archive' \in [Proc -> Archive]
    BY <1>3 DEF Inv, Shapes
  <2>3. pc' \in [Proc -> {"idle", "ok", "err"} \cup PushPoints \cup PullPoints]
    BY DEF Inv, Shapes, PullPoints
  <2> QED BY <2>1, <2>2, <2>3 DEF Inv, Shapes, Pulling, registry, callVars, pushVars, pullVars, envVars
<1>6. \A q \in Proc \ {p} : Untouched(q)
  BY DEF Inv, Shapes, Untouched, Pulling, callVars, pushVars, pullVars
<1>7. /\ archive'[p].entries \in Seq(TarEntry) /\ Len(archive'[p].entries) \in Nat
      /\ next'[p] = 1 /\ temp'[p] = {} /\ next'[p] - 1 = 0
  BY <1>1, <1>2, <1>4, EntryFacts
<1>8. Fetched(p)'
  BY <1>1, <1>3, <1>7 DEF Fetched, Pulled
<1>9. Bounded(p)'
  <2>1. IsFiniteSet({}) /\ Cardinality({}) = 0 /\ Bytes({}) <= Total(archive'[p].entries, 0)
    BY <1>7, NothingWritten
  <2> QED BY <1>7, <2>1 DEF Bounded
<1>10. Moved(p)'
  BY <1>1, <1>2 DEF Moved, Pulled
<1>11. Cleaned(p)'
  BY <1>1, <1>2 DEF Cleaned
<1> QED BY <1>1, <1>5, <1>6, <1>8, <1>9, <1>10, <1>11, PullingFacts DEF PullPoints

LEMMA FetchLayerKeeps ==
  ASSUME Inv, NEW p \in Proc, FetchLayer(p)
  PROVE  Inv'
<1> USE DEF FetchLayer, At, Goto, Happens
<1>1. /\ pc[p] = "layer" /\ pc'[p] \in {"fetch", "extract", "err"}
      /\ next' = next /\ temp' = temp /\ doomed' = doomed /\ target' = target /\ stuck' = stuck /\ archive' = archive
      /\ dir' = dir /\ op' = op /\ crowded' = crowded /\ blobs' = blobs /\ tempFile' = tempFile
  BY DEF Inv, Shapes, pullVars, Pulling, callVars, registry, pushVars
<1>2. /\ Pulled(p) /\ next[p] = 1 /\ temp[p] = {} /\ archive[p] \in blobs /\ p \notin tempFile
      /\ archive[p].entries \in Seq(TarEntry) /\ Len(archive[p].entries) \in Nat
      /\ p \notin crowded \cup stuck => target[dir[p]] = {}
  BY <1>1, Pull1 DEF PullPoints, Fetched, Moved, Inv, Each, Belongs, Pulled
<1>3. pc'[p] \in {"fetch", "err"} => p \in mishap'
  BY <1>2 DEF Inv, Shapes
<1>4. Shapes'
  BY DEF Inv, Shapes, PullPoints, Pulling, registry, callVars, pushVars, pullVars, envVars
<1>5. \A q \in Proc \ {p} : Untouched(q)
  BY DEF Inv, Shapes, Untouched, Pulling, callVars, pushVars, pullVars
<1>6. Fetched(p)'
  <2>1. Unpacked(archive[p].entries, 0) = {} /\ next[p] - 1 = 0
    BY <1>2, UnpackedFacts
  <2> QED BY <1>1, <1>2, <1>3, <2>1 DEF Fetched, Pulled
<1>7. Bounded(p)'
  BY <1>1, Pull1 DEF Bounded, PullPoints
<1>8. Moved(p)'
  BY <1>1, <1>2 DEF Moved, Pulled
<1>9. Cleaned(p)'
  BY <1>1, <1>2 DEF Cleaned
<1> QED BY <1>1, <1>4, <1>5, <1>6, <1>7, <1>8, <1>9, PullingFacts DEF PullPoints

(* One more entry in the temporary directory.                              *)
LEMMA OneMore ==
  ASSUME NEW a \in Archive, NEW i \in 1..Len(a.entries), Extractable(a.entries, i),
         NEW T, T = Unpacked(a.entries, i - 1), IsFiniteSet(T), Cardinality(T) < i,
         Bytes(T) <= Total(a.entries, i - 1),
         NEW U, U = {e \in T : e.name # a.entries[i].name} \cup {a.entries[i]}
  PROVE  /\ U = Unpacked(a.entries, i) /\ U \subseteq TarEntry
         /\ IsFiniteSet(U) /\ Cardinality(U) < i + 1 /\ Bytes(U) <= Total(a.entries, i)
<1> DEFINE es == a.entries
           x == es[i]
           K == {e \in T : e.name # x.name}
<1>1. es \in Seq(TarEntry) /\ x \in TarEntry /\ x.data \in Nat /\ x.data = x.size /\ i \in Nat
      /\ i - 1 \in 0..Len(es) /\ i \in 0..Len(es)
  BY EntryFacts, ExtractableFacts
<1>2. U = Unpacked(es, i) /\ U \subseteq TarEntry /\ T \subseteq TarEntry
  BY <1>1, UnpackedFacts
<1>3. /\ IsFiniteSet(K) /\ Cardinality(K) \in Nat /\ Cardinality(T) \in Nat /\ Cardinality(K) <= Cardinality(T)
      /\ K \subseteq T /\ x \notin K
  <2>1. K \subseteq T /\ x \notin K
    OBVIOUS
  <2> HIDE DEF K
  <2> QED BY <2>1, FS_Subset, FS_CardinalityType
<1>4. IsFiniteSet(K \cup {x}) /\ Cardinality(K \cup {x}) = Cardinality(K) + 1
  BY <1>3, FS_AddElement
<1>5. /\ Bytes(K) \in Nat /\ Bytes(T) \in Nat /\ Bytes(K) <= Bytes(T) /\ Bytes(K \cup {x}) <= Bytes(K) + x.data
      /\ Bytes(K \cup {x}) \in Nat
  <2>1. Bytes(K) \in Nat /\ Bytes(T) \in Nat /\ Bytes(K) <= Bytes(T)
    BY <1>2, <1>3, BytesFacts
  <2>2. K \in SUBSET TarEntry /\ K \cup {x} \in SUBSET TarEntry
    BY <1>1, <1>2, <1>3
  <2>3. Bytes(K \cup {x}) <= Bytes(K) + x.data
    BY <1>1, <1>3, <2>2, BytesFacts
  <2>4. Bytes(K \cup {x}) \in Nat
    BY <1>4, <2>2, BytesFacts
  <2> QED BY <2>1, <2>3, <2>4
<1>6. Total(es, i) = Total(es, i - 1) + x.size /\ Total(es, i) \in Nat /\ Total(es, i - 1) \in Nat
  BY <1>1, TotalFacts
<1>7. /\ U = K \cup {x} /\ Bytes(T) <= Total(es, i - 1) /\ Cardinality(T) < i
      /\ Cardinality(U) = Cardinality(K \cup {x}) /\ Bytes(U) = Bytes(K \cup {x})
  OBVIOUS
<1> HIDE DEF K, x, es
<1>8. Cardinality(U) < i + 1
  BY <1>1, <1>3, <1>4, <1>7
<1>9. Bytes(U) <= Total(es, i)
  BY <1>1, <1>5, <1>6, <1>7
<1> QED BY <1>2, <1>4, <1>7, <1>8, <1>9 DEF es

LEMMA ExtractEntryKeeps ==
  ASSUME Inv, NEW p \in Proc, ExtractEntry(p)
  PROVE  Inv'
<1> USE DEF ExtractEntry, At, Goto, Happens
<1> DEFINE es == archive[p].entries
           i == next[p]
<1>1. /\ pc[p] = "extract" /\ pc'[p] \in {"extract", "mkdir", "clean"}
      /\ doomed' = doomed /\ target' = target /\ stuck' = stuck /\ archive' = archive
      /\ dir' = dir /\ op' = op /\ crowded' = crowded
  BY DEF Inv, Shapes, Pulling, callVars
<1>2. /\ Pulled(p) /\ archive[p] \in Archive /\ i \in Nat /\ i >= 1 /\ i <= Len(es) + 1 /\ es \in Seq(TarEntry)
      /\ Len(es) \in Nat /\ \A j \in 1..(i - 1) : Extractable(es, j)
      /\ temp[p] = Unpacked(es, i - 1) /\ IsFiniteSet(temp[p]) /\ Cardinality(temp[p]) < i
      /\ Bytes(temp[p]) <= Total(es, i - 1)
      /\ p \notin crowded \cup stuck => target[dir[p]] = {}
  BY <1>1, Pull1 DEF PullPoints, Fetched, Moved, Bounded
<1>3. \A q \in Proc \ {p} : Untouched(q)
  BY DEF Inv, Shapes, Untouched, Pulling, callVars, pushVars
<1>4. Moved(p)' /\ Cleaned(p)'
  BY <1>1, <1>2 DEF Moved, Pulled, Cleaned
<1>5. CASE UNCHANGED <<next, temp>>
  <2>1. Shapes'
    BY <1>5 DEF Inv, Shapes, PullPoints, Pulling, registry, callVars, pushVars, envVars
  <2>2. Bounded(p)'
    BY <1>1, <1>2, <1>5 DEF Bounded
  <2>3. /\ pc'[p] = "mkdir" => archive[p].whole /\ i > Len(es)
        /\ pc'[p] = "clean" => p \in mishap' \/ ~archive[p].whole \/ (i <= Len(es) /\ ~Extractable(es, i))
        /\ pc'[p] # "extract"
    <3>1. next[p] # next[p] + 1
      BY <1>2
    <3> QED BY <1>5, <3>1 DEF Inv, Shapes
  <2>4. pc'[p] = "clean" => p \in mishap' \/ ~Acceptable(archive[p])
    <3>1. i <= Len(es) => i \in 1..Len(es)
      BY <1>2
    <3> QED BY <1>2, <2>3, <3>1, ExtractableFacts
  <2>5. pc'[p] = "mkdir" => i = Len(es) + 1 /\ temp[p] = Unpacked(es, Len(es))
    <3>1. pc'[p] = "mkdir" => i = Len(es) + 1
      BY <1>2, <2>3
    <3>2. pc'[p] = "mkdir" => i - 1 = Len(es)
      BY <1>2, <3>1
    <3> QED BY <1>2, <3>1, <3>2
  <2>6. Fetched(p)'
    BY <1>1, <1>2, <1>5, <2>3, <2>4, <2>5 DEF Fetched, Pulled, Whole
  <2> QED BY <1>1, <1>3, <1>4, <2>1, <2>2, <2>6, PullingFacts DEF PullPoints
<1>6. CASE /\ archive[p].whole /\ i <= Len(es) /\ Extractable(es, i)
           /\ temp' = [temp EXCEPT ![p] = {e \in @ : e.name # es[i].name} \cup {es[i]}]
           /\ next' = [next EXCEPT ![p] = i + 1]
           /\ UNCHANGED <<pc, mishap>>
  <2>1. /\ temp'[p] = {e \in temp[p] : e.name # es[i].name} \cup {es[i]} /\ next'[p] = i + 1
        /\ i \in 1..Len(es) /\ (i + 1) - 1 = i
    BY <1>2, <1>6 DEF Inv, Shapes
  <2>2. /\ temp'[p] = Unpacked(es, i) /\ temp'[p] \subseteq TarEntry
        /\ IsFiniteSet(temp'[p]) /\ Cardinality(temp'[p]) < i + 1 /\ Bytes(temp'[p]) <= Total(es, i)
    <3> HIDE DEF i
    <3> QED BY <1>2, <1>6, <2>1, OneMore
  <2>3. Shapes'
    <3>1. temp' = [temp EXCEPT ![p] = temp'[p]]
      BY <1>6 DEF Inv, Shapes
    <3>2. temp' \in [Proc -> SUBSET TarEntry]
      BY <2>2, <3>1 DEF Inv, Shapes
    <3>3. next' \in [Proc -> Nat \ {0}]
      <4>1. i + 1 \in Nat \ {0}
        BY <1>2
      <4> QED BY <1>6, <4>1 DEF Inv, Shapes
    <3> QED BY <1>6, <3>2, <3>3 DEF Inv, Shapes, Pulling, registry, callVars, pushVars, envVars
  <2>4. Bounded(p)'
    BY <1>1, <2>1, <2>2 DEF Bounded
  <2>5. \A j \in 1..i : Extractable(es, j)
    <3>1. \A j \in 1..i : j \in 1..(i - 1) \/ j = i
      BY <1>2
    <3> QED BY <1>2, <1>6, <3>1
  <2>6. Fetched(p)'
    <3>1. /\ pc'[p] = "extract" /\ archive'[p] = archive[p] /\ op'[p] = op[p] /\ next'[p] - 1 = i
          /\ i + 1 <= Len(es) + 1
      BY <1>1, <1>2, <1>6, <2>1
    <3> HIDE DEF ExtractEntry
    <3> QED BY <2>1, <2>2, <2>5, <3>1 DEF Fetched
  <2> QED BY <1>1, <1>3, <1>4, <2>3, <2>4, <2>6, PullingFacts DEF PullPoints
<1> QED BY <1>5, <1>6

LEMMA MakeTargetKeeps ==
  ASSUME Inv, NEW p \in Proc, MakeTarget(p)
  PROVE  Inv'
<1> USE DEF MakeTarget, At, Goto, Happens
<1>1. /\ pc[p] = "mkdir" /\ pc'[p] \in {"move", "clean"} /\ (pc'[p] = "clean" => p \in mishap')
      /\ next' = next /\ temp' = temp /\ doomed' = doomed /\ target' = target /\ stuck' = stuck /\ archive' = archive
      /\ dir' = dir /\ op' = op /\ crowded' = crowded
  BY DEF Inv, Shapes, Moving, Pulling, callVars
<1>2. /\ Pulled(p) /\ Fetched(p) /\ Bounded(p) /\ Moved(p) /\ Whole(p)' = Whole(p)
  BY <1>1, Pull1 DEF PullPoints, Whole
<1>3. Shapes'
  BY DEF Inv, Shapes, PullPoints, Moving, Pulling, registry, callVars, pushVars, envVars
<1>4. \A q \in Proc \ {p} : Untouched(q)
  BY DEF Inv, Shapes, Untouched, Moving, Pulling, callVars, pushVars
<1> HIDE DEF MakeTarget
<1>5. Fetched(p)' /\ Bounded(p)'
  BY <1>1, <1>2 DEF Fetched, Bounded
<1>6. Moved(p)'
  BY <1>1, <1>2 DEF Moved, Pulled, Fetched
<1>7. Cleaned(p)'
  BY <1>1 DEF Cleaned
<1> QED BY <1>1, <1>3, <1>4, <1>5, <1>6, <1>7, PullingFacts DEF PullPoints, MakeTarget, Moving

(* Fewer entries in the temporary directory.                               *)
LEMMA OneLess ==
  ASSUME NEW T \in SUBSET TarEntry, IsFiniteSet(T), NEW n \in Nat, Cardinality(T) < n,
         NEW m \in Nat, Bytes(T) <= m, NEW U \in SUBSET T
  PROVE  IsFiniteSet(U) /\ Cardinality(U) < n /\ Bytes(U) <= m
<1>1. IsFiniteSet(U) /\ Cardinality(U) \in Nat /\ Cardinality(T) \in Nat /\ Cardinality(U) <= Cardinality(T)
  BY FS_Subset, FS_CardinalityType
<1>2. Bytes(U) \in Nat /\ Bytes(T) \in Nat /\ Bytes(U) <= Bytes(T)
  BY BytesFacts
<1>3. Cardinality(U) < n
  BY <1>1
<1>4. Bytes(U) <= m
  BY <1>2
<1> QED BY <1>1, <1>3, <1>4

LEMMA BoundedKeeps ==
  ASSUME Inv, NEW p \in Proc, pc[p] \in PullPoints, archive'[p] = archive[p], next'[p] = next[p],
         temp'[p] \subseteq temp[p]
  PROVE  Bounded(p)'
<1>1. /\ temp[p] \in SUBSET TarEntry /\ next[p] \in Nat /\ next[p] >= 1 /\ Bounded(p) /\ next[p] <= Len(archive[p].entries) + 1
      /\ archive[p].entries \in Seq(TarEntry) /\ Len(archive[p].entries) \in Nat
  BY Pull1 DEF Fetched
<1>2. next[p] - 1 \in 0..Len(archive[p].entries)
  BY <1>1
<1>3. Total(archive[p].entries, next[p] - 1) \in Nat
  BY <1>1, <1>2, TotalFacts
<1> QED BY <1>1, <1>3, OneLess DEF Bounded

LEMMA MoveFileKeeps ==
  ASSUME Inv, NEW p \in Proc, MoveFile(p)
  PROVE  Inv'
<1> USE DEF MoveFile, At, Goto, Happens
<1>1. /\ pc[p] = "move" /\ pc'[p] \in {"move", "moved", "undo"} /\ (pc'[p] = "undo" => p \in mishap')
      /\ next' = next /\ stuck' = stuck /\ archive' = archive /\ dir' = dir /\ op' = op /\ crowded' = crowded
  BY DEF Inv, Shapes, Moving, Pulling, callVars
<1>2. /\ Pulled(p) /\ Fetched(p) /\ Moved(p) /\ Whole(p)' = Whole(p) /\ dir[p] \in Dir
      /\ temp[p] \subseteq TarEntry /\ target[dir[p]] \subseteq TarEntry
      /\ archive[p].entries \in Seq(TarEntry) /\ Len(archive[p].entries) \in 0..Len(archive[p].entries)
  BY <1>1, Pull1 DEF PullPoints, Whole
<1>3. \A q \in Proc \ {p} : Untouched(q)
  BY DEF Inv, Shapes, Untouched, Moving, Pulling, callVars, pushVars
<1>4. /\ Moving(p) /\ Pulling(p)
      /\ \/ \E e \in temp[p] :
              /\ target' = [target EXCEPT ![dir[p]] = {f \in @ : f.name # e.name} \cup {e}]
              /\ temp' = [temp EXCEPT ![p] = @ \ {e}]
              /\ UNCHANGED <<pc, doomed, mishap>>
         \/ temp[p] = {} /\ pc'[p] = "moved" /\ UNCHANGED <<target, temp, doomed>>
         \/ /\ pc'[p] = "undo" /\ doomed'[p] = target[dir[p]] /\ UNCHANGED <<target, temp>>
            /\ doomed' \in [Proc -> SUBSET TarEntry]
  <2>1. ToRemove(p) = target[dir[p]]
    BY DEF ToRemove
  <2>2. target[dir[p]] \in SUBSET TarEntry
    BY <1>2
  <2> QED BY <2>1, <2>2 DEF Moving, Inv, Shapes
<1>5. pc' \in [Proc -> {"idle", "ok", "err"} \cup PushPoints \cup PullPoints]
  BY DEF Inv, Shapes, PullPoints
<1> HIDE DEF MoveFile
<1>6. CASE \E e \in temp[p] :
              /\ target' = [target EXCEPT ![dir[p]] = {f \in @ : f.name # e.name} \cup {e}]
              /\ temp' = [temp EXCEPT ![p] = @ \ {e}]
              /\ UNCHANGED <<pc, doomed, mishap>>
  <2>1. PICK e \in temp[p] :
              /\ target' = [target EXCEPT ![dir[p]] = {f \in @ : f.name # e.name} \cup {e}]
              /\ temp' = [temp EXCEPT ![p] = @ \ {e}]
              /\ UNCHANGED <<pc, doomed, mishap>>
    BY <1>6
  <2>2. /\ target'[dir[p]] = {f \in target[dir[p]] : f.name # e.name} \cup {e} /\ temp'[p] = temp[p] \ {e}
        /\ \A d \in Dir \ {dir[p]} : target'[d] = target[d]
        /\ target' \in [Dir -> SUBSET TarEntry] /\ temp' \in [Proc -> SUBSET TarEntry]
    BY <1>2, <2>1 DEF Inv, Shapes
  <2>3. Shapes'
    BY <1>4, <1>5, <2>1, <2>2 DEF Inv, Shapes, Moving, Pulling, registry, callVars, pushVars, envVars
  <2>4. Bounded(p)'
    BY <1>1, <2>2, BoundedKeeps DEF PullPoints
  <2>5. Fetched(p)'
    BY <1>1, <1>2, <2>1 DEF Fetched
  <2>6. Moved(p)'
    <3> SUFFICES ASSUME p \notin crowded \cup stuck
                 PROVE  temp'[p] \subseteq Whole(p) /\ target'[dir[p]] = Whole(p) \ temp'[p]
      BY <1>1, <1>2, <2>1 DEF Moved
    <3>1. temp[p] \subseteq Whole(p) /\ target[dir[p]] = Whole(p) \ temp[p]
      BY <1>1, <1>2 DEF Moved
    <3>2. \A f, g \in Whole(p) : f.name = g.name => f = g
      BY <1>2, UnpackedFacts DEF Whole
    <3> QED BY <2>2, <3>1, <3>2
  <2>7. Cleaned(p)'
    BY <1>1, <2>1 DEF Cleaned
  <2> QED BY <1>1, <1>3, <1>4, <2>2, <2>3, <2>4, <2>5, <2>6, <2>7, PullingFacts DEF PullPoints
<1>7. CASE temp[p] = {} /\ pc'[p] = "moved" /\ UNCHANGED <<target, temp, doomed>>
  <2>1. Shapes'
    BY <1>4, <1>5, <1>7 DEF Inv, Shapes, Moving, Pulling, registry, callVars, pushVars, envVars
  <2>2. Bounded(p)'
    BY <1>1, <1>7, BoundedKeeps DEF PullPoints
  <2>3. Fetched(p)'
    BY <1>1, <1>2, <1>7 DEF Fetched
  <2>4. Moved(p)'
    BY <1>1, <1>2, <1>7 DEF Moved
  <2>5. Cleaned(p)'
    BY <1>7 DEF Cleaned
  <2> QED BY <1>1, <1>3, <1>4, <1>7, <2>1, <2>2, <2>3, <2>4, <2>5, PullingFacts DEF PullPoints
<1>8. CASE /\ pc'[p] = "undo" /\ doomed'[p] = target[dir[p]] /\ UNCHANGED <<target, temp>>
           /\ doomed' \in [Proc -> SUBSET TarEntry]
  <2>1. Shapes'
    BY <1>4, <1>5, <1>8 DEF Inv, Shapes, Moving, Pulling, registry, callVars, pushVars, envVars
  <2>2. Bounded(p)'
    BY <1>1, <1>8, BoundedKeeps DEF PullPoints
  <2>3. Fetched(p)'
    BY <1>1, <1>2, <1>8 DEF Fetched
  <2>4. Moved(p)'
    BY <1>1, <1>2, <1>8 DEF Moved
  <2>5. Cleaned(p)'
    BY <1>8 DEF Cleaned
  <2> QED BY <1>1, <1>3, <1>4, <1>8, <2>1, <2>2, <2>3, <2>4, <2>5, PullingFacts DEF PullPoints
<1> QED BY <1>4, <1>6, <1>7, <1>8

LEMMA UndoMoveKeeps ==
  ASSUME Inv, NEW p \in Proc, UndoMove(p)
  PROVE  Inv'
<1> USE DEF UndoMove, At, Goto
<1>1. /\ pc[p] = "undo" /\ pc'[p] \in {"undo", "clean"} /\ mishap' = mishap /\ temp' = temp
      /\ next' = next /\ archive' = archive /\ dir' = dir /\ op' = op /\ crowded' = crowded
  BY DEF Inv, Shapes, Moving, Pulling, callVars
<1>2. /\ Pulled(p) /\ Fetched(p) /\ Moved(p) /\ Whole(p)' = Whole(p) /\ dir[p] \in Dir
      /\ doomed[p] \subseteq TarEntry /\ target[dir[p]] \subseteq TarEntry
      /\ archive[p].entries \in Seq(TarEntry) /\ Len(archive[p].entries) \in 0..Len(archive[p].entries)
  BY <1>1, Pull1 DEF PullPoints, Whole
<1>3. \A q \in Proc \ {p} : Untouched(q)
  BY DEF Inv, Shapes, Untouched, Moving, Pulling, callVars, pushVars
<1>4. /\ Moving(p) /\ Pulling(p)
      /\ \/ doomed[p] = {} /\ pc'[p] = "clean" /\ UNCHANGED <<target, doomed, stuck>>
         \/ \E e \in doomed[p] :
              /\ doomed' = [doomed EXCEPT ![p] = @ \ {e}]
              /\ \/ target' = [target EXCEPT ![dir[p]] = {f \in @ : f.name # e.name}] /\ UNCHANGED stuck
                 \/ UNCHANGED target /\ stuck' = stuck \cup {p}
              /\ UNCHANGED pc
  BY DEF Moving, Inv, Shapes
<1>5. pc' \in [Proc -> {"idle", "ok", "err"} \cup PushPoints \cup PullPoints]
  BY DEF Inv, Shapes, PullPoints
<1> HIDE DEF UndoMove
<1>6. Bounded(p)' /\ Fetched(p)' /\ Cleaned(p)'
  <2>1. Bounded(p)'
    BY <1>1, BoundedKeeps DEF PullPoints
  <2>2. Fetched(p)'
    BY <1>1, <1>2 DEF Fetched
  <2>3. Cleaned(p)'
    BY <1>1 DEF Cleaned
  <2> QED BY <2>1, <2>2, <2>3
<1>7. CASE doomed[p] = {} /\ pc'[p] = "clean" /\ UNCHANGED <<target, doomed, stuck>>
  <2>1. Shapes'
    BY <1>1, <1>4, <1>5, <1>7 DEF Inv, Shapes, Moving, Pulling, registry, callVars, pushVars, envVars
  <2>2. Moved(p)'
    BY <1>1, <1>2, <1>7 DEF Moved
  <2> QED BY <1>1, <1>3, <1>4, <1>6, <1>7, <2>1, <2>2, PullingFacts DEF PullPoints
<1>8. CASE \E e \in doomed[p] :
              /\ doomed' = [doomed EXCEPT ![p] = @ \ {e}]
              /\ \/ target' = [target EXCEPT ![dir[p]] = {f \in @ : f.name # e.name}] /\ UNCHANGED stuck
                 \/ UNCHANGED target /\ stuck' = stuck \cup {p}
              /\ UNCHANGED pc
  <2>1. PICK e \in doomed[p] :
              /\ doomed' = [doomed EXCEPT ![p] = @ \ {e}]
              /\ \/ target' = [target EXCEPT ![dir[p]] = {f \in @ : f.name # e.name}] /\ UNCHANGED stuck
                 \/ UNCHANGED target /\ stuck' = stuck \cup {p}
              /\ UNCHANGED pc
    BY <1>8
  <2>2. /\ doomed'[p] = doomed[p] \ {e} /\ doomed' \in [Proc -> SUBSET TarEntry]
        /\ target' \in [Dir -> SUBSET TarEntry]
        /\ \A d \in Dir \ {dir[p]} : target'[d] = target[d]
        /\ p \notin stuck' => p \notin stuck /\ target'[dir[p]] = {f \in target[dir[p]] : f.name # e.name}
    BY <1>2, <2>1 DEF Inv, Shapes
  <2>3. Shapes'
    BY <1>1, <1>4, <1>5, <2>2 DEF Inv, Shapes, Moving, Pulling, registry, callVars, pushVars, envVars
  <2>4. Moved(p)'
    <3> SUFFICES ASSUME p \notin crowded, p \notin stuck'
                 PROVE  target'[dir[p]] = doomed'[p] /\ doomed'[p] \subseteq Whole(p)
      BY <1>1, <1>2, <2>1 DEF Moved
    <3>1. target[dir[p]] = doomed[p] /\ doomed[p] \subseteq Whole(p)
      BY <1>1, <1>2, <2>2 DEF Moved
    <3>2. \A f, g \in Whole(p) : f.name = g.name => f = g
      BY <1>2, UnpackedFacts DEF Whole
    <3> QED BY <2>2, <3>1, <3>2
  <2> QED BY <1>1, <1>3, <1>4, <1>6, <2>2, <2>3, <2>4, PullingFacts DEF PullPoints
<1> QED BY <1>4, <1>7, <1>8

LEMMA RemoveTempDirKeeps ==
  ASSUME Inv, NEW p \in Proc, RemoveTempDir(p)
  PROVE  Inv'
<1> USE DEF RemoveTempDir, At, Goto
<1>1. /\ pc[p] \in {"clean", "moved"} /\ (pc[p] = "clean" => pc'[p] = "err") /\ (pc[p] = "moved" => pc'[p] = "ok")
      /\ mishap' = mishap /\ target' = target /\ doomed' = doomed /\ Moving(p) /\ Pulling(p)
      /\ next' = next /\ archive' = archive /\ dir' = dir /\ op' = op /\ crowded' = crowded /\ tempFile' = tempFile
      /\ temp' \in [Proc -> SUBSET TarEntry] /\ temp'[p] \subseteq temp[p] /\ stuck \subseteq stuck'
      /\ p \notin stuck' => temp'[p] = {}
  BY DEF Inv, Shapes, Moving, Pulling, callVars, pushVars, RemoveTemp
<1>2. /\ Pulled(p) /\ Fetched(p) /\ Moved(p) /\ Whole(p)' = Whole(p) /\ p \notin tempFile
  BY <1>1, Pull1 DEF PullPoints, Whole, Inv, Each, Belongs, Pulled
<1>3. \A q \in Proc \ {p} : Untouched(q)
  BY DEF Inv, Shapes, Untouched, Moving, Pulling, RemoveTemp, callVars, pushVars
<1>4. pc' \in [Proc -> {"idle", "ok", "err"} \cup PushPoints \cup PullPoints]
  BY DEF Inv, Shapes, PullPoints
<1> HIDE DEF RemoveTempDir
<1>5. Shapes'
  BY <1>1, <1>4 DEF Inv, Shapes, Moving, Pulling, registry, callVars, pushVars, envVars
<1>6. Bounded(p)'
  BY <1>1, BoundedKeeps DEF PullPoints
<1>7. Fetched(p)'
  BY <1>1, <1>2 DEF Fetched, Pulled
<1>8. Moved(p)'
  BY <1>1, <1>2 DEF Moved, Pulled
<1>9. Cleaned(p)'
  BY <1>1, <1>2 DEF Cleaned
<1> QED BY <1>1, <1>3, <1>5, <1>6, <1>7, <1>8, <1>9, PullingFacts DEF PullPoints
----------------------------------------------------------------------------
(* The start and the end of a call.                                        *)
LEMMA PushKeeps ==
  ASSUME Inv, NEW p \in Proc, Push(p)
  PROVE  Inv'
<1> USE DEF Push, Call, At, Goto
<1>1. /\ pc[p] = "idle" /\ pc'[p] \in {"walk", "err"} /\ op'[p] = "push"
      /\ next' = next /\ temp' = temp /\ archive' = archive /\ pipe' = pipe /\ target' = target /\ crowded' = crowded
      /\ blobs' = blobs /\ manifests' = manifests /\ tag' = tag /\ tempFile' = tempFile
  BY DEF Inv, Shapes, registry, pushVars, pullVars
<1>2. next[p] = 1 /\ temp[p] = {} /\ archive[p] \in Archive /\ p \notin tempFile
  BY <1>1 DEF Inv, Each, Belongs, Shapes, Pulled
<1>3. Shapes'
  BY DEF Inv, Shapes, PushPoints, registry, envVars, pushVars, pullVars
<1>4. \A q \in Proc \ {p} : Untouched(q)
  BY DEF Inv, Shapes, Untouched, pushVars, pullVars
<1> HIDE DEF Push, Call
<1>5. TaggedIsBacked'
  BY <1>1 DEF Inv, TaggedIsBacked
<1>6. Fetched(p)' /\ Bounded(p)' /\ Moved(p)' /\ Apart(p)'
  BY <1>1, <1>2, NotPulling DEF PullPoints
<1>7. Belongs(p)' /\ Cleaned(p)' /\ Piped(p)' /\ Pushed(p)'
  BY <1>1, <1>2 DEF Belongs, Cleaned, Piped, Pushed, Stands, Pulled, PushPoints, PullPoints
<1>8. \A q \in Proc \ {p} : Each(q)'
  <2> TAKE q \in Proc \ {p}
  <2>1. \A r \in Pulls' : r \in Pulls /\ dir'[r] = dir[r]
    <3>1. p \notin Pulls'
      BY <1>1 DEF Pulls
    <3> QED BY <1>1, <1>4, <3>1 DEF Pulls, Running, Untouched
  <2>2. Apart(q)'
    BY <1>1, <1>4, <2>1, ApartKeeps DEF Untouched
  <2> QED BY <1>1, <1>4, <2>2, OthersKeep DEF Inv, Grows
<1> QED BY <1>3, <1>5, <1>6, <1>7, <1>8 DEF Inv, Each

LEMMA PullKeeps ==
  ASSUME Inv, NEW p \in Proc, NEW d \in Dir, NEW o \in {"pull", "pullWithCache"}, Call(p, o, d), Begin(p, d)
  PROVE  Inv'
<1> USE DEF Call, Begin, At, Goto, Happens
<1> DEFINE beside == {q \in Pulls : dir[q] = d}
<1>1. /\ pc[p] = "idle" /\ pc'[p] \in {"fetch", "err"} /\ op'[p] = o /\ dir'[p] = d /\ o # "push" /\ o # "none"
      /\ next' = next /\ temp' = temp /\ archive' = archive /\ pipe' = pipe /\ target' = target
      /\ blobs' = blobs /\ manifests' = manifests /\ tag' = tag /\ tempFile' = tempFile
      /\ pc'[p] = "fetch" => target[d] = {}
      /\ crowded' = IF beside = {} THEN crowded ELSE crowded \cup beside \cup {p}
  BY DEF Inv, Shapes, registry, pushVars, pullVars
<1>2. /\ next[p] = 1 /\ temp[p] = {} /\ archive[p] = NoArchive /\ p \notin tempFile /\ pipe[p] = NoPipe
      /\ p \notin Pulls /\ Bounded(p)
  BY <1>1 DEF Inv, Each, Belongs, Pulled, Pulls, Running
<1>3. Shapes'
  BY DEF Inv, Shapes, PullPoints, registry, envVars, pushVars, pullVars
<1>4. \A q \in Proc \ {p} : Untouched(q)
  BY DEF Inv, Shapes, Untouched, pushVars, pullVars
<1> HIDE DEF Call, Begin
<1>5. TaggedIsBacked'
  BY <1>1 DEF Inv, TaggedIsBacked
<1>6. Piped(p)' /\ Pushed(p)'
  BY <1>1, NotPushing DEF PushPoints
<1>7. Belongs(p)' /\ Cleaned(p)' /\ Bounded(p)' /\ Moved(p)'
  BY <1>1, <1>2 DEF Belongs, Cleaned, Bounded, Moved, Pulled, PushPoints, PullPoints
<1>8. Fetched(p)'
  <2>1. next'[p] = 1 /\ next'[p] - 1 = 0 /\ temp'[p] = {} /\ archive'[p] = NoArchive /\ Len(NoArchive.entries) \in Nat
    BY <1>1, <1>2, EntryFacts
  <2> QED BY <1>1, <2>1 DEF Fetched
<1>9. /\ \A r \in Pulls' \ {p} : r \in Pulls /\ dir'[r] = dir[r] /\ (r \notin beside => dir'[r] # d)
      /\ \A r \in Pulls : dir[r] = d => r \in beside
  BY <1>1, <1>4 DEF Pulls, Running, Untouched
<1>10. Apart(p)'
  BY <1>1, <1>9 DEF Apart
<1>11. \A q \in Proc \ {p} : Each(q)'
  <2> TAKE q \in Proc \ {p}
  <2>1. Apart(q)'
    <3> SUFFICES ASSUME q \in Pulls', q \notin crowded', NEW r \in Pulls' \ {q} PROVE dir'[r] # dir'[q]
      BY DEF Apart
    <3>1. q \in Pulls /\ q \notin crowded /\ q \notin beside /\ dir'[q] = dir[q] /\ dir[q] # d
      BY <1>1, <1>9
    <3>2. Apart(q)
      BY DEF Inv, Each
    <3>3. CASE r = p
      BY <1>1, <3>1, <3>3
    <3>4. CASE r # p
      BY <1>9, <3>1, <3>2, <3>4 DEF Apart
    <3> QED BY <3>3, <3>4
  <2>2. q \in crowded => q \in crowded'
    BY <1>1
  <2> QED BY <1>1, <1>4, <2>1, <2>2, OthersKeep DEF Inv, Grows
<1> QED BY <1>3, <1>5, <1>6, <1>7, <1>8, <1>10, <1>11 DEF Inv, Each

LEMMA ReturnKeeps ==
  ASSUME Inv, NEW p \in Proc, Return(p)
  PROVE  Inv'
<1> USE DEF Return, Goto
<1>1. /\ pc[p] \in {"ok", "err"} /\ pc'[p] = "idle" /\ op'[p] = "none" /\ next'[p] = 1 /\ temp'[p] = {}
      /\ archive'[p] = NoArchive /\ pipe'[p] = NoPipe /\ p \notin tempFile'
      /\ blobs' = blobs /\ manifests' = manifests /\ tag' = tag /\ target' = target /\ crowded' = crowded \ {p}
  BY DEF Inv, Shapes, registry
<1>2. Shapes'
  <2>1. 0 \in 0..(MaxRetries + 1) /\ 1 \in Nat \ {0}
    BY ClientAssumption
  <2> QED BY <2>1, EntryFacts DEF Inv, Shapes, registry, envVars
<1>3. \A q \in Proc \ {p} : Untouched(q)
  BY DEF Inv, Shapes, Untouched
<1> HIDE DEF Return
<1>4. TaggedIsBacked'
  BY <1>1 DEF Inv, TaggedIsBacked
<1>5. Fetched(p)' /\ Bounded(p)' /\ Moved(p)' /\ Apart(p)'
  BY <1>1, EntryFacts, NotPulling DEF PullPoints
<1>6. Belongs(p)' /\ Cleaned(p)' /\ Piped(p)' /\ Pushed(p)'
  BY <1>1 DEF Belongs, Cleaned, Piped, Pushed, Stands, Pulled, PushPoints, PullPoints
<1>7. \A q \in Proc \ {p} : Each(q)'
  <2> TAKE q \in Proc \ {p}
  <2>1. \A r \in Pulls' : r \in Pulls /\ dir'[r] = dir[r]
    <3>1. p \notin Pulls'
      BY <1>1 DEF Pulls, Running
    <3> QED BY <1>1, <1>3, <3>1 DEF Pulls, Running, Untouched
  <2>2. Apart(q)'
    BY <1>1, <1>3, <2>1, ApartKeeps DEF Untouched
  <2> QED BY <1>1, <1>3, <2>2, OthersKeep DEF Inv, Grows
<1> QED BY <1>2, <1>4, <1>5, <1>6, <1>7 DEF Inv, Each
----------------------------------------------------------------------------
LEMMA InitInv == Init => Inv
<1> SUFFICES ASSUME Init PROVE Inv
  OBVIOUS
<1> USE DEF Init
<1>1. Shapes
  <2>1. 0 \in 0..(MaxRetries + 1) /\ 1 \in Nat \ {0}
    BY ClientAssumption
  <2>2. source \in [Name -> Size \cup {0, None}] /\ blobs \subseteq Archive /\ manifests \subseteq Archive
        /\ tag \in Archive \cup {None}
    BY ClientAssumption
  <2> QED BY <2>1, <2>2, EntryFacts DEF Shapes
<1>2. TaggedIsBacked
  BY DEF TaggedIsBacked
<1>3. ASSUME NEW p \in Proc PROVE Each(p)
  <2>1. /\ pc[p] = "idle" /\ op[p] = "none" /\ next[p] = 1 /\ temp[p] = {} /\ archive[p] = NoArchive
        /\ pipe[p] = NoPipe /\ tempFile = {} /\ next[p] - 1 = 0 /\ \A q \in Proc : pc[q] = "idle"
    OBVIOUS
  <2>2. /\ NoArchive.entries \in Seq(TarEntry) /\ Len(NoArchive.entries) \in Nat
        /\ 0 \in 0..Len(NoArchive.entries)
    BY EntryFacts
  <2> HIDE DEF Init
  <2>3. Bounded(p)
    BY <2>1, <2>2, NothingWritten DEF Bounded
  <2>4. Belongs(p) /\ Piped(p) /\ Pushed(p) /\ Cleaned(p) /\ Moved(p)
    BY <2>1 DEF Belongs, Piped, Pushed, Stands, Cleaned, Moved, Pulled, PushPoints, PullPoints
  <2>5. Fetched(p) /\ Apart(p)
    BY <2>1, <2>2 DEF Fetched, Apart, Pulled, Pulls, Running
  <2> QED BY <2>3, <2>4, <2>5 DEF Each
<1> QED BY <1>1, <1>2, <1>3 DEF Inv

LEMMA StepInv == Inv /\ [Next]_vars => Inv'
<1> SUFFICES ASSUME Inv, [Next]_vars PROVE Inv'
  OBVIOUS
<1>1. CASE Edit
  BY <1>1, EditKeeps
<1>2. ASSUME NEW p \in Proc, Push(p) PROVE Inv'
  BY <1>2, PushKeeps
<1>3. ASSUME NEW p \in Proc, Pull(p) \/ PullWithCache(p) PROVE Inv'
  BY <1>3, PullKeeps DEF Pull, PullWithCache
<1>4. ASSUME NEW p \in Proc, Step(p) PROVE Inv'
  BY <1>4, CollectFilesKeeps, OpenFileKeeps, WriteEntryKeeps, FinishArchiveKeeps, AttemptKeeps,
     PushStreamKeeps, PushBufferedKeeps, PackManifestKeeps, TagKeeps, RemoveTempFileKeeps,
     FetchManifestKeeps, FetchLayerKeeps, ExtractEntryKeeps, MakeTargetKeeps, MoveFileKeeps,
     UndoMoveKeeps, RemoveTempDirKeeps, ReturnKeeps DEF Step
<1>5. CASE UNCHANGED vars
  <2>1. UNCHANGED <<source, blobs, manifests, tag, target, pc, op, dir, pipe, archive, sent, attempt, offset,
                    next, temp, doomed, tempFile, walked, excused, broken, mishap, stuck, crowded>>
    BY <1>5 DEF vars, envVars, registry, callVars, pushVars, pullVars, ghosts
  <2>2. Shapes' /\ TaggedIsBacked'
    BY <2>1 DEF Inv, Shapes, TaggedIsBacked
  <2>3. ASSUME NEW q \in Proc PROVE Each(q)'
    <3>1. Apart(q)'
      BY <2>1, <2>3 DEF Inv, Each, Apart, Pulls, Running
    <3> QED BY <2>1, <3>1, OthersKeep DEF Inv, Untouched, Grows
  <2> QED BY <2>2, <2>3 DEF Inv
<1> QED BY <1>1, <1>2, <1>3, <1>4, <1>5 DEF Next

LEMMA Invariant == Spec => []Inv
BY InitInv, StepInv, PTL DEF Spec

(* The reference names only what is stored, and a push that returned       *)
(* success stored the whole of what it found: Pusher.Push and              *)
(* retryOperation, whatever request failed or was tried again before.      *)
THEOREM RegistryStaysSound == Spec => []RegistryIsSound
<1>1. Inv => RegistryIsSound
  <2> SUFFICES ASSUME Inv PROVE RegistryIsSound
    OBVIOUS
  <2>1. TypeOK
    BY DEF Inv, Shapes, TypeOK
  <2>2. PushedIsWhole
    BY DEF Inv, Each, Pushed, Stands, PushedIsWhole, At, Zeroed
  <2> QED BY <2>1, <2>2 DEF Inv, RegistryIsSound
<1> QED BY <1>1, Invariant, PTL

(* All of an archive is in its target or nothing, and no temporary file is *)
(* left: ExtractAtomically and the deferred removals of Push and Pull, for *)
(* any failure but that of a removal itself.                               *)
THEOREM PullsStayAtomic == Spec => []PullsAreAtomic
<1>1. Inv => PullsAreAtomic
  <2> SUFFICES ASSUME Inv PROVE PullsAreAtomic
    OBVIOUS
  <2>1. PullIsAllOrNothing
    <3> SUFFICES ASSUME NEW p \in Proc, p \notin crowded, p \notin stuck, op[p] # "push", pc[p] \in {"ok", "err"}
                 PROVE  /\ pc[p] = "ok" => target[dir[p]] = Whole(p)
                        /\ pc[p] = "err" /\ archive[p] # NoArchive => target[dir[p]] = {}
      BY DEF PullIsAllOrNothing, At, Whole
    <3>1. Pulled(p)
      BY DEF Inv, Each, Belongs, Shapes, Pulled
    <3> QED BY <3>1 DEF Inv, Each, Moved
  <2>2. CleansUp
    <3> SUFFICES ASSUME NEW p \in Proc, p \notin stuck
                 PROVE  /\ pc[p] = "err" => temp[p] = {} /\ p \notin tempFile
                        /\ pc[p] = "ok" => temp[p] = {} /\ pipe[p].open = {}
      BY DEF CleansUp, At
    <3>1. pc[p] \in {"ok", "err"} => temp[p] = {} /\ (pc[p] = "err" => p \notin tempFile)
      BY DEF Inv, Each, Cleaned
    <3>2. pc[p] = "ok" => pipe[p].open = {}
      <4>1. op[p] # "push" => pipe[p].open = {}
        BY DEF Inv, Each, Belongs, NoPipe
      <4> QED BY <4>1 DEF Inv, Each, Pushed, Stands
    <3> QED BY <3>1, <3>2
  <2> QED BY <2>1, <2>2 DEF PullsAreAtomic
<1> QED BY <1>1, Invariant, PTL

(* The limits refuse what exceeds them before it is written, and nothing   *)
(* else: SecureTarGzArchiver's checks entry by entry, against the archive  *)
(* as a whole, for any limits and any archive.                             *)
THEOREM LimitsStayExact == Spec => []LimitsAreExact
<1>1. Inv => LimitsAreExact
  <2> SUFFICES ASSUME Inv PROVE LimitsAreExact
    OBVIOUS
  <2>1. ASSUME NEW p \in Proc
        PROVE  (MaxFiles > 0 => Cardinality(temp[p]) <= MaxFiles) /\ (MaxSize > 0 => Bytes(temp[p]) <= MaxSize)
    <3> DEFINE es == archive[p].entries
               i == next[p] - 1
    <3>1. /\ es \in Seq(TarEntry) /\ Len(es) \in Nat /\ i \in 0..Len(es) /\ archive[p] \in Archive
          /\ temp[p] \in SUBSET TarEntry
      BY EntryFacts DEF Inv, Shapes, Each, Fetched
    <3>2. /\ IsFiniteSet(temp[p]) /\ Cardinality(temp[p]) < i + 1 /\ Bytes(temp[p]) <= Total(es, i)
          /\ \A j \in 1..i : Extractable(es, j)
      BY <3>1 DEF Inv, Each, Bounded, Fetched, Shapes
    <3>3. Cardinality(temp[p]) \in Nat /\ Bytes(temp[p]) \in Nat /\ Total(es, i) \in Nat
      BY <3>1, <3>2, FS_CardinalityType, BytesFacts, TotalFacts
    <3>4. MaxFiles \in Nat /\ MaxSize \in Nat
      BY EntryFacts
    <3>5. CASE i = 0
      <4>1. Total(es, 0) = 0
        BY <3>1, TotalFacts
      <4> HIDE DEF es, i
      <4> QED BY <3>1, <3>2, <3>3, <3>4, <3>5, <4>1
    <3>6. CASE i # 0
      <4>1. i \in 1..i /\ i \in 1..Len(es)
        <5> HIDE DEF es, i
        <5> QED BY <3>1, <3>6
      <4>2. (MaxFiles > 0 => i <= MaxFiles) /\ (MaxSize > 0 => Total(es, i) <= MaxSize)
        BY <3>1, <3>2, <4>1, ExtractableFacts
      <4> HIDE DEF es, i
      <4> QED BY <3>1, <3>2, <3>3, <3>4, <4>1, <4>2
    <3> QED BY <3>5, <3>6
  <2>2. ASSUME NEW p \in Proc, op[p] # "push", archive[p] # NoArchive
        PROVE  /\ pc[p] = "err" /\ p \notin mishap => ~Acceptable(archive[p])
               /\ pc[p] = "ok" => Acceptable(archive[p])
    <3>1. pc[p] \in {"ok", "err"} => Pulled(p)
      BY <2>2 DEF Inv, Each, Belongs, Shapes, Pulled
    <3>2. Fetched(p) /\ archive[p] \in Archive /\ Len(archive[p].entries) \in Nat
      BY EntryFacts DEF Inv, Each, Shapes
    <3>3. pc[p] = "ok" => archive[p].whole /\ \A i \in 1..Len(archive[p].entries) : Extractable(archive[p].entries, i)
      <4>1. pc[p] = "ok" => archive[p].whole /\ next[p] = Len(archive[p].entries) + 1
        BY <3>1, <3>2 DEF Fetched
      <4>2. pc[p] = "ok" => next[p] - 1 = Len(archive[p].entries)
        BY <3>2, <4>1
      <4>3. \A i \in 1..(next[p] - 1) : Extractable(archive[p].entries, i)
        BY <3>2 DEF Fetched
      <4> QED BY <4>1, <4>2, <4>3
    <3>4. pc[p] = "ok" => Acceptable(archive[p])
      BY <3>2, <3>3, ExtractableFacts
    <3>5. pc[p] = "err" /\ p \notin mishap => ~Acceptable(archive[p])
      BY <2>2, <3>1, <3>2 DEF Fetched
    <3> QED BY <3>4, <3>5
  <2>3. WithinLimits
    BY <2>1 DEF WithinLimits
  <2>4. RefusedForCause
    BY <2>2 DEF RefusedForCause, At
  <2> QED BY <2>3, <2>4 DEF LimitsAreExact
<1> QED BY <1>1, Invariant, PTL
============================================================================
