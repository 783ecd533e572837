------------------------------ MODULE S3Proofs ------------------------------
(***************************************************************************)
(* Proofs about S3Client, for any clients, keys, contents and uploads, any *)
(* part size, page size and number of calls; and about S3Sync, for any     *)
(* finite set of names, any contents, files, objects and comparators, any  *)
(* page and batch sizes and parallelism, and any number of changes by      *)
(* others.                                                                 *)
(***************************************************************************)
EXTENDS S3Client, S3Sync, FiniteSetTheorems, SequenceTheorems, WellFoundedInduction, TLAPS

(* The values of the variables.                                            *)
Content == Seq(Data \cup {None})
Ops == {"upload", "uploadFile", "put", "download", "downloadFile", "list", "listAll", "delete",
        "deleteMany", "exists", "getMetadata", "copy", "move"}
Points == {"idle", "deleteMany", "listPage", "stat", "read", "put", "head", "copy", "create", "start", "collect",
           "complete", "abort", "delete", "truncate", "get", "list", "send", "ok", "err"}
PartPoints == {"waiting", "busy", "good", "bad", "done"}
Parts == UNION {[D -> Content] : D \in SUBSET (Nat \ {0})}
UploadState == [state : {"unused", "open", "completed", "aborted"}, key : Key \cup {None}, parts : Parts]
PlanState == [size : Nat, data : Content, from : Key \cup {None}, moved : BOOLEAN]
Result == [number : Nat, ok : BOOLEAN]
PageState == [keys : SUBSET Key, more : BOOLEAN, after : Nat]

Shapes ==
  /\ objects \in [Key -> Content \cup {None}] /\ uploads \in [UploadId -> UploadState]
  /\ plan \in [UploadId -> PlanState] /\ part \in [UploadId -> Seq(PartPoints)]
  /\ results \in [UploadId -> Seq(Result)]
  /\ alive \in BOOLEAN /\ pc \in [Client -> Points] /\ up \in [Client -> UploadId \cup {None}]
  /\ op \in [Client -> Ops \cup {"none"}]
  /\ src \in [Client -> Key \cup {File, None}] /\ dst \in [Client -> Key \cup {File, None}]
  /\ data \in [Client -> Content] /\ original \in [Client -> Content \cup {None}] /\ file \in Content
  /\ listed = [p \in Client |-> listed[p]] /\ page \in [Client -> PageState]
  /\ stable \in [Client -> SUBSET Key]

(* The operations that pass through a point, and their locations.          *)
Copies == {"copy", "move"}
Sends == {"upload", "uploadFile"} \cup Copies

OpsAt(l) ==
  CASE l = "idle" -> {"none"} [] l = "deleteMany" -> {"deleteMany"} [] l = "listPage" -> {"list"}
    [] l \in {"stat", "read"} -> {"uploadFile"} [] l = "put" -> {"upload", "put", "uploadFile"}
    [] l = "head" -> {"exists", "getMetadata"} \cup Copies [] l = "copy" -> Copies
    [] l \in {"create", "start", "collect", "complete", "abort"} -> Sends
    [] l = "delete" -> {"delete", "move"} [] l = "truncate" -> {"downloadFile"}
    [] l = "get" -> {"download", "downloadFile"} [] l \in {"list", "send"} -> {"listAll"}
    [] OTHER -> Ops

Belongs(p) ==
  /\ op[p] \in OpsAt(pc[p])
  /\ op[p] \in Copies => src[p] \in Key /\ dst[p] \in Key /\ (src[p] # dst[p] \/ pc[p] = "err")
  /\ op[p] \in {"upload", "put", "uploadFile", "delete"} => dst[p] \in Key
  /\ op[p] \in {"download", "downloadFile", "exists", "getMetadata"} => src[p] \in Key
  /\ op[p] = "uploadFile" => src[p] = File
  /\ op[p] \in {"upload", "put"} => data[p] = original[p]
  /\ pc[p] = "idle" => listed[p] = << >> /\ page[p] = NoPage
  /\ op[p] \in {"upload", "put", "uploadFile"} => original[p] # None

(* What a call whose source and destination nobody else changed knows.     *)
Undisturbed(p) ==
  p \notin disturbed =>
    /\ op[p] \in Copies /\ pc[p] \in {"head", "copy", "create", "start", "collect", "complete", "abort", "delete"}
         => objects[src[p]] = original[p]
    /\ op[p] \in Copies /\ pc[p] \in {"create", "start", "collect", "complete"} => data[p] = original[p]
    /\ op[p] = "move" /\ pc[p] = "delete" => objects[dst[p]] = original[p]
    /\ op[p] = "move" /\ pc[p] = "err" /\ src[p] # dst[p] => original[p] \in {objects[src[p]], objects[dst[p]]}
    /\ op[p] = "uploadFile" /\ pc[p] \in {"create", "read"} => file = original[p]
    /\ op[p] = "uploadFile" /\ pc[p] \in {"put", "start", "collect", "complete"} => data[p] = original[p]
    /\ pc[p] = "ok" /\ op[p] \in Storing => objects[dst[p]] = original[p]
    /\ pc[p] = "ok" /\ op[p] = "move" => objects[src[p]] = None

(* The upload of a call is its own, and open only as long as it runs.      *)
Owned(p) ==
  /\ pc[p] \in {"start", "collect", "complete", "abort"} => up[p] # None
  /\ up[p] # None =>
       /\ pc[p] \in {"read", "start", "collect", "complete", "abort", "delete", "ok", "err"}
       /\ uploads[up[p]].state # "unused"
       /\ \A q \in Client \ {p} : up[q] # up[p]
       /\ pc[p] \in {"read", "start"} => part[up[p]] = << >> /\ results[up[p]] = << >>
       /\ pc[p] \in {"delete", "ok", "err"} => uploads[up[p]].state # "open" \/ up[p] \in orphaned

(* Its parts are those of its source.  A part that is done was stored, or  *)
(* its failure is in the channel.                                          *)
Kept(p, i) ==
  /\ i \in DOMAIN uploads[up[p]].parts
  /\ p \notin disturbed =>
       uploads[up[p]].parts[i] = SubSeq(original[p], Lowest(i), Highest(i, Len(original[p])))

Failed(u, i) == \E j \in DOMAIN results[u] : results[u][j].number = i /\ ~results[u][j].ok

Transferred(p) ==
  /\ pc[p] \in {"collect", "complete"} =>
       LET w == plan[up[p]] IN
       /\ w.from = IF op[p] \in Copies THEN src[p] ELSE None
       /\ p \notin disturbed => w.size = Len(original[p]) /\ (w.from = None => w.data = original[p])
       /\ Len(part[up[p]]) = CalculateParts(w.size)
  /\ pc[p] = "collect" =>
       \A i \in DOMAIN part[up[p]] :
         /\ part[up[p]][i] = "good" => Kept(p, i)
         /\ part[up[p]][i] = "done" => Kept(p, i) \/ Failed(up[p], i)
  /\ pc[p] = "complete" => \A i \in DOMAIN part[up[p]] : Kept(p, i)

(* A listing has sent the keys up to some key in order, and has on its     *)
(* page, up to the key the next page starts after, what it has not sent.   *)
Elements(s) == {s[i] : i \in DOMAIN s}

Listing(p) ==
  /\ \A k \in stable[p] : objects[k] # None
  /\ op[p] = "listAll" =>
       /\ listed[p] \in Seq(Key)
       /\ \A i, j \in DOMAIN listed[p] : i < j => listed[p][i] < listed[p][j]
       /\ \A k \in Elements(listed[p]) : k <= page[p].after /\ \A l \in page[p].keys : k < l
       /\ \A k \in page[p].keys : k <= page[p].after
       /\ pc[p] \in {"list", "send"} =>
            \A k \in stable[p] : k <= page[p].after => k \in Elements(listed[p]) \cup page[p].keys
       /\ pc[p] = "list" => page[p].keys = {}
       /\ pc[p] = "send" /\ ~page[p].more => \A k \in stable[p] : k <= page[p].after
       /\ pc[p] = "ok" => stable[p] \subseteq Elements(listed[p])

Each(p) == Belongs(p) /\ Undisturbed(p) /\ Owned(p) /\ Transferred(p) /\ Listing(p)

(* Of every upload.                                                        *)
Unstarted(u) == uploads[u].state = "unused" => part[u] = << >> /\ results[u] = << >>
Sized(u) == plan[u].moved \/ plan[u].from # None \/ plan[u].size = Len(plan[u].data)

Inv ==
  /\ Shapes /\ (\A p \in Client : Each(p)) /\ (\A u \in UploadId : Unstarted(u) /\ Sized(u))
  /\ LeftOpenOnlyIfOrphaned /\ PanicOnlyAfterFileChanged
----------------------------------------------------------------------------
(* A set of numbers that is not empty has a least element.                 *)
LEMMA Least ==
  ASSUME NEW T \in SUBSET Nat, T # {}
  PROVE  \E x \in T : \A y \in T : x <= y
<1>1. PICK Less : IsWellFoundedOn(Less, Nat) /\ \A i, j \in Nat : i < j => <<i, j>> \in Less
  <2>1. IsWellFoundedOn(OpToRel(<, Nat), Nat)
    BY NatLessThanWellFounded
  <2>2. \A i, j \in Nat : i < j => <<i, j>> \in OpToRel(<, Nat)
    BY DEF OpToRel
  <2> QED BY <2>1, <2>2
<1>2. IsWellFoundedOn(Less, Nat) /\ T \subseteq Nat
  BY <1>1
<1>3. \E x \in T : \A y \in T : ~ (<<y, x>> \in Less)
  BY <1>2, WFMin
<1>4. PICK x \in T : \A y \in T : ~ (<<y, x>> \in Less)
  BY <1>3
<1>5. ASSUME NEW y \in T, y < x PROVE FALSE
  <2>1. <<y, x>> \in Less
    BY <1>1, <1>5
  <2> QED BY <2>1, <1>4
<1>6. \A y \in T : x <= y
  BY <1>5
<1> QED BY <1>6

(* And, when it is finite, a greatest.                                     *)
LEMMA Greatest ==
  ASSUME NEW T \in SUBSET Nat, T # {}, IsFiniteSet(T)
  PROVE  \E x \in T : \A y \in T : y <= x
<1> DEFINE above(x) == {y \in T : y > x}
           Counts == {Cardinality(above(x)) : x \in T}
<1>1. \A x \in T : IsFiniteSet(above(x)) /\ Cardinality(above(x)) \in Nat
  <2>1. \A x \in T : above(x) \subseteq T
    OBVIOUS
  <2> HIDE DEF above
  <2> QED BY <2>1, FS_Subset, FS_CardinalityType
<1> HIDE DEF above
<1>2. PICK x \in T : \A y \in T : Cardinality(above(x)) <= Cardinality(above(y))
  <2>1. Counts \in SUBSET Nat /\ Counts # {}
    BY <1>1
  <2>2. \E n \in Counts : \A m \in Counts : n <= m
    <3> HIDE DEF Counts
    <3> QED BY <2>1, Least
  <2> QED BY <2>2
<1>3. ASSUME NEW y \in T, ~(y <= x) PROVE FALSE
  <2>1. y > x
    BY <1>3
  <2>2. above(y) \subseteq above(x) /\ y \in above(x) /\ y \notin above(y)
    <3>1. \A z \in T : z \in Nat
      OBVIOUS
    <3>2. \A z \in T : z > y => z > x
      BY <2>1, <3>1
    <3>3. ~(y > y)
      BY <3>1
    <3> QED BY <2>1, <3>2, <3>3 DEF above
  <2>3. Cardinality(above(y)) < Cardinality(above(x))
    <3>1. Cardinality(above(y)) <= Cardinality(above(x)) /\ above(y) # above(x)
      BY <1>1, <2>2, FS_Subset
    <3>2. Cardinality(above(y)) # Cardinality(above(x))
      BY <1>1, <2>2, <3>1, FS_Subset
    <3> QED BY <1>1, <3>1, <3>2
  <2> QED BY <1>1, <1>2, <2>3
<1> QED BY <1>2, <1>3

(* Contents.                                                               *)
LEMMA ContentFacts ==
  /\ \A d \in Data : Whole(d) \in Content
  /\ << >> \in Content /\ None \notin Content /\ None \notin Key /\ None \notin UploadId /\ File # None /\ File \notin Key
  /\ Key \subseteq Nat /\ (\A k \in Key : k > 0) /\ IsFiniteSet(Key)
  /\ PartSize \in Nat /\ PartSize > 0 /\ PageSize \in Nat
  /\ \A n \in Nat : [j \in 1..n |-> None] \in Content
<1>1. ASSUME NEW d \in Data PROVE Whole(d) \in Content
  <2>1. Size[d] \in Nat
    BY DataAssumption, ServiceAssumption
  <2> QED BY <2>1 DEF Whole, Content
<1>2. ASSUME NEW n \in Nat PROVE [j \in 1..n |-> None] \in Content
  BY DEF Content
<1> QED BY <1>1, <1>2, DataAssumption, ServiceAssumption, MultipartAssumption, ClientAssumption DEF Content

(* The parts of a content follow one another, from its start to its end.   *)
LEMMA PartRanges ==
  ASSUME NEW size \in Nat
  PROVE  /\ CalculateParts(size) \in Nat /\ CalculateParts(size) >= 1
         /\ Highest(CalculateParts(size), size) = size
         /\ \A i \in 1..CalculateParts(size) :
              /\ Lowest(i) \in Nat /\ Lowest(i) >= 1 /\ Highest(i, size) \in Nat /\ Highest(i, size) <= size
              /\ Lowest(i) <= Highest(i, size) + 1
         /\ Lowest(1) = 1
         /\ \A i \in 1..CalculateParts(size) : i # 1 => Lowest(i) = Highest(i - 1, size) + 1
<1> DEFINE n == CalculateParts(size)
           b == PartSize
<1>0. b \in Nat /\ b > 0
  BY MultipartAssumption
<1>1. CASE size = 0
  <2>1. n = 1
    BY <1>1 DEF CalculateParts
  <2>2. Lowest(1) = 1 /\ Highest(1, size) = 0
    BY <1>0, <1>1 DEF Lowest, Highest
  <2> QED BY <1>1, <2>1, <2>2
<1>2. CASE size # 0
  <2>1. n = (size + b - 1) \div b
    BY <1>2 DEF CalculateParts
  <2> HIDE DEF n, b
  <2>2. n \in Nat /\ n * b <= size + b - 1 /\ size + b - 1 < n * b + b
    BY <1>0, <1>2, <2>1
  <2>3. n >= 1 /\ n * b >= size
    BY <1>0, <1>2, <2>2
  <2>4. (n - 1) * b = n * b - b
    BY <1>0, <2>2
  <2>5. (n - 1) * b < size /\ n - 1 \in Nat /\ n * b \in Nat /\ (n - 1) * b \in Nat
    BY <1>0, <1>2, <2>2, <2>3, <2>4
  <2>6. \A i \in 1..n : i * b \in Nat /\ (i - 1) * b \in Nat /\ (i - 1) * b <= (n - 1) * b
    BY <1>0, <2>2, <2>3
  <2>7. \A i \in 1..n : (i - 1) * b < size
    BY <2>5, <2>6
  <2>8. \A i : Lowest(i) = (i - 1) * b + 1 /\ Highest(i, size) = IF i * b > size THEN size ELSE i * b
    BY DEF Lowest, Highest, b
  <2>9. Highest(n, size) = size
    BY <2>3, <2>5, <2>8
  <2>10. \A i \in 1..n : /\ Lowest(i) \in Nat /\ Lowest(i) >= 1 /\ Highest(i, size) \in Nat /\ Highest(i, size) <= size
                         /\ Lowest(i) <= Highest(i, size) + 1
    <3> TAKE i \in 1..n
    <3>1. (i - 1) * b <= i * b
      BY <1>0, <2>2
    <3> QED BY <2>6, <2>7, <2>8, <3>1
  <2>11. Lowest(1) = 1
    BY <1>0, <2>8
  <2>12. \A i \in 1..n : i # 1 => Lowest(i) = Highest(i - 1, size) + 1
    <3> TAKE i \in 1..n
    <3>1. Highest(i - 1, size) = (i - 1) * b
      BY <2>6, <2>7, <2>8
    <3> QED BY <2>8, <3>1
  <2> QED BY <2>2, <2>3, <2>9, <2>10, <2>11, <2>12 DEF n
<1> QED BY <1>1, <1>2

(* Joined, by its equations: the parts one after the other.                *)
Joins(join, n, P) == join[0] = << >> /\ \A i \in 1..n : join[i] = join[i - 1] \o P[i]

LEMMA JoinExists ==
  ASSUME NEW n \in Nat, NEW P, \A i \in 1..n : P[i] \in Content
  PROVE  \E join \in [0..n -> Content] : Joins(join, n, P)
<1> DEFINE Bad == {k \in 0..n : ~\E join \in [0..k -> Content] : Joins(join, k, P)}
<1>1. ASSUME Bad # {} PROVE FALSE
  <2>1. PICK k \in Bad : \A m \in Bad : k <= m
    <3>1. Bad \in SUBSET Nat
      OBVIOUS
    <3> HIDE DEF Bad
    <3> QED BY <1>1, <3>1, Least
  <2>2. k # 0
    <3>1. [i \in 0..0 |-> << >>] \in [0..0 -> Content] /\ Joins([i \in 0..0 |-> << >>], 0, P)
      BY ContentFacts DEF Joins
    <3> QED BY <2>1, <3>1
  <2>3. k - 1 \in 0..n /\ k \in 1..n /\ k - 1 \notin Bad
    BY <2>1, <2>2
  <2>4. PICK f \in [0..(k - 1) -> Content] : Joins(f, k - 1, P)
    BY <2>3
  <2> DEFINE g == [i \in 0..k |-> IF i = k THEN f[k - 1] \o P[k] ELSE f[i]]
  <2>5. f[k - 1] \o P[k] \in Content
    <3>1. f[k - 1] \in Content /\ P[k] \in Content
      BY <2>3, <2>4
    <3> QED BY <3>1, ConcatProperties DEF Content
  <2>6. g \in [0..k -> Content]
    BY <2>3, <2>4, <2>5
  <2>7. Joins(g, k, P)
    <3>1. g[0] = << >>
      BY <2>2, <2>3, <2>4 DEF Joins
    <3>2. \A i \in 1..k : g[i] = g[i - 1] \o P[i]
      <4> TAKE i \in 1..k
      <4>1. CASE i = k
        BY <2>3, <4>1
      <4>2. CASE i # k
        <5>1. i \in 1..(k - 1) /\ i \in 0..k /\ i - 1 \in 0..k /\ i - 1 # k
          BY <2>3, <4>2
        <5>2. g[i] = f[i] /\ g[i - 1] = f[i - 1]
          BY <4>2, <5>1
        <5>3. f[i] = f[i - 1] \o P[i]
          BY <2>4, <5>1 DEF Joins
        <5> QED BY <5>2, <5>3
      <4> QED BY <4>1, <4>2
    <3> HIDE DEF g
    <3> QED BY <3>1, <3>2 DEF Joins
  <2> HIDE DEF g
  <2> QED BY <2>1, <2>6, <2>7
<1>2. n \notin Bad
  BY <1>1
<1> QED BY <1>2

LEMMA JoinUnique ==
  ASSUME NEW n \in Nat, NEW P, NEW f, NEW g, Joins(f, n, P), Joins(g, n, P)
  PROVE  \A i \in 0..n : f[i] = g[i]
<1> DEFINE Bad == {i \in 0..n : f[i] # g[i]}
<1>1. ASSUME Bad # {} PROVE FALSE
  <2>1. PICK k \in Bad : \A m \in Bad : k <= m
    <3>1. Bad \in SUBSET Nat
      OBVIOUS
    <3> HIDE DEF Bad
    <3> QED BY <1>1, <3>1, Least
  <2>2. k # 0
    BY <2>1 DEF Joins
  <2>3. k - 1 \in 0..n /\ k \in 1..n /\ f[k - 1] = g[k - 1]
    BY <2>1, <2>2
  <2> QED BY <2>1, <2>3 DEF Joins
<1> QED BY <1>1

LEMMA JoinedJoins ==
  ASSUME NEW u, NEW n \in Nat, \A i \in 1..n : uploads[u].parts[i] \in Content
  PROVE  \E join \in [0..n -> Content] : Joined(u, n) = join[n] /\ Joins(join, n, uploads[u].parts)
<1> DEFINE P == uploads[u].parts
           join[i \in 0..n] == IF i = 0 THEN << >> ELSE join[i - 1] \o uploads[u].parts[i]
           Eq(f) == f = [i \in 0..n |-> IF i = 0 THEN << >> ELSE f[i - 1] \o uploads[u].parts[i]]
<1>1. PICK f \in [0..n -> Content] : Joins(f, n, P)
  BY JoinExists
<1>2. Eq(f)
  <2>1. f = [i \in 0..n |-> f[i]]
    OBVIOUS
  <2>2. \A i \in 0..n : f[i] = IF i = 0 THEN << >> ELSE f[i - 1] \o uploads[u].parts[i]
    <3> TAKE i \in 0..n
    <3>1. CASE i = 0
      BY <1>1, <3>1 DEF Joins
    <3>2. CASE i # 0
      <4>1. i \in 1..n
        BY <3>2
      <4> QED BY <1>1, <3>2, <4>1 DEF Joins
    <3> QED BY <3>1, <3>2
  <2> QED BY <2>1, <2>2
<1>3. Eq(join)
  <2>1. join = CHOOSE g : Eq(g)
    BY DEF join
  <2> HIDE DEF join, Eq
  <2> QED BY <1>2, <2>1
<1>4. Joined(u, n) = join[n]
  BY DEF Joined
<1> HIDE DEF join
<1>5. Joins(join, n, P)
  <2>1. join[0] = << >>
    BY <1>3
  <2>2. \A i \in 1..n : join[i] = join[i - 1] \o P[i]
    <3> TAKE i \in 1..n
    <3>1. i \in 0..n /\ i # 0
      OBVIOUS
    <3> QED BY <1>3, <3>1
  <2> QED BY <2>1, <2>2 DEF Joins
<1>6. join[n] = f[n]
  <2>1. \A i \in 0..n : join[i] = f[i]
    BY <1>1, <1>5, JoinUnique
  <2> QED BY <2>1
<1> QED BY <1>1, <1>4, <1>6

(* Two slices that follow one another make one.                            *)
LEMMA SlicesJoin ==
  ASSUME NEW c \in Content, NEW a \in Nat, NEW b \in Nat, a <= b, b <= Len(c)
  PROVE  SubSeq(c, 1, a) \o SubSeq(c, a + 1, b) = SubSeq(c, 1, b)
<1>1. c \in Seq(Data \cup {None})
  BY DEF Content
<1> QED BY <1>1

(* The parts of a content, joined, are the content.                        *)
LEMMA PartsJoin ==
  ASSUME NEW c \in Content, NEW n \in Nat, n = CalculateParts(Len(c)),
         NEW P, \A i \in 1..n : P[i] = SubSeq(c, Lowest(i), Highest(i, Len(c))), NEW join, Joins(join, n, P)
  PROVE  join[n] = c
<1> DEFINE size == Len(c)
           h(i) == Highest(i, size)
           Bad == {i \in 1..n : join[i] # SubSeq(c, 1, h(i))}
<1>1. size \in Nat
  BY DEF Content
<1>2. /\ n >= 1 /\ h(n) = size /\ Lowest(1) = 1
      /\ \A i \in 1..n : /\ Lowest(i) \in Nat /\ Lowest(i) >= 1 /\ h(i) \in Nat /\ h(i) <= size
                         /\ Lowest(i) <= h(i) + 1
      /\ \A i \in 1..n : i # 1 => Lowest(i) = h(i - 1) + 1
  <2> HIDE DEF size
  <2>1. CalculateParts(size) = n
    BY DEF size
  <2> QED BY <1>1, <2>1, PartRanges
<1>3. \A i \in 1..n : join[i] = join[i - 1] \o SubSeq(c, Lowest(i), h(i))
  BY DEF Joins
<1>4. join[0] = << >>
  BY DEF Joins
<1> HIDE DEF size, h
<1>5. ASSUME Bad # {} PROVE FALSE
  <2>1. PICK k \in Bad : \A m \in Bad : k <= m
    <3>1. Bad \in SUBSET Nat
      OBVIOUS
    <3> HIDE DEF Bad
    <3> QED BY <1>5, <3>1, Least
  <2>2. k \in 1..n /\ join[k] # SubSeq(c, 1, h(k))
    BY <2>1
  <2>3. CASE k = 1
    <3>1. join[1] = << >> \o SubSeq(c, 1, h(1))
      <4>1. 1 \in 1..n
        BY <1>2
      <4>2. join[1] = join[1 - 1] \o SubSeq(c, Lowest(1), h(1))
        BY <1>3, <4>1
      <4>3. 1 - 1 = 0
        OBVIOUS
      <4> QED BY <1>2, <1>4, <4>2, <4>3
    <3>2. h(1) \in Nat /\ h(1) <= Len(c)
      BY <1>2, <2>2, <2>3 DEF size
    <3>3. SubSeq(c, 1, h(1)) \in Seq(Data \cup {None})
      BY <3>2 DEF Content
    <3>4. join[1] = SubSeq(c, 1, h(1))
      BY <3>1, <3>3, ConcatEmptySeq
    <3> QED BY <2>2, <2>3, <3>4
  <2>4. CASE k # 1
    <3>1. k - 1 \in 1..n /\ k - 1 < k
      BY <2>2, <2>4
    <3>2. join[k - 1] = SubSeq(c, 1, h(k - 1))
      <4>1. k - 1 \notin Bad
        BY <2>1, <2>2, <3>1
      <4> QED BY <3>1, <4>1
    <3>3. Lowest(k) = h(k - 1) + 1
      BY <1>2, <2>2, <2>4
    <3>4. join[k] = SubSeq(c, 1, h(k - 1)) \o SubSeq(c, h(k - 1) + 1, h(k))
      BY <1>3, <2>2, <3>2, <3>3
    <3>5. h(k - 1) \in Nat /\ h(k) \in Nat /\ h(k - 1) <= h(k) /\ h(k) <= Len(c)
      <4>1. Lowest(k) <= h(k) + 1 /\ h(k) <= size /\ h(k) \in Nat /\ h(k - 1) \in Nat
        BY <1>2, <2>2, <3>1
      <4> QED BY <3>3, <4>1 DEF size
    <3>6. join[k] = SubSeq(c, 1, h(k))
      BY <3>4, <3>5, SlicesJoin
    <3> QED BY <2>2, <3>6
  <2> QED BY <2>3, <2>4
<1>6. join[n] = SubSeq(c, 1, size)
  <2>1. n \in 1..n /\ n \notin Bad
    BY <1>2, <1>5
  <2>2. join[n] = SubSeq(c, 1, h(n))
    BY <2>1
  <2> QED BY <1>2, <2>2
<1>7. c \in Seq(Data \cup {None})
  BY DEF Content
<1> QED BY <1>6, <1>7, SubSeqFull DEF size

LEMMA JoinedIsContent ==
  ASSUME NEW u, NEW n \in Nat, \A i \in 1..n : uploads[u].parts[i] \in Content
  PROVE  /\ Joined(u, n) \in Content
         /\ \A c \in Content :
              n = CalculateParts(Len(c))
                /\ (\A i \in 1..n : uploads[u].parts[i] = SubSeq(c, Lowest(i), Highest(i, Len(c))))
              => Joined(u, n) = c
<1> DEFINE P == uploads[u].parts
<1>1. PICK join \in [0..n -> Content] : Joined(u, n) = join[n] /\ Joins(join, n, P)
  BY JoinedJoins
<1>2. join[n] \in Content
  <2>1. n \in 0..n
    OBVIOUS
  <2> QED BY <1>1, <2>1
<1> HIDE DEF P
<1>3. ASSUME NEW c \in Content, n = CalculateParts(Len(c)),
             \A i \in 1..n : P[i] = SubSeq(c, Lowest(i), Highest(i, Len(c)))
      PROVE  join[n] = c
  BY <1>1, <1>3, PartsJoin
<1> QED BY <1>1, <1>2, <1>3 DEF P

(* The bytes of a part are cut from the source, when they are in it.       *)
LEMMA BytesFacts ==
  ASSUME NEW u, NEW i \in Nat \ {0}, plan[u].size \in Nat, Source(u) \in Content
  PROVE  /\ Bytes(u, i) \in Content
         /\ Highest(i, plan[u].size) <= Len(Source(u)) =>
              Bytes(u, i) = SubSeq(Source(u), Lowest(i), Highest(i, plan[u].size))
<1> DEFINE s == Source(u)
           h == Highest(i, plan[u].size)
           l == Lowest(i)
           z == [j \in 1..h |-> None]
<1>1. /\ s \in Seq(Data \cup {None}) /\ h \in Nat /\ l \in Nat /\ l >= 1 /\ z \in Seq(Data \cup {None})
      /\ Bytes(u, i) = SubSeq(s \o z, l, h)
  <2>1. i * PartSize \in Nat /\ (i - 1) * PartSize \in Nat
    BY ContentFacts
  <2>2. h \in Nat /\ l \in Nat /\ l >= 1
    BY <2>1 DEF Lowest, Highest
  <2>3. z \in Seq(Data \cup {None})
    BY <2>2, ContentFacts DEF Content
  <2> QED BY <2>2, <2>3 DEF Content, Bytes
<1>2. Len(z) = h
  BY <1>1
<1> HIDE DEF s, h, l, z
<1>3. s \o z \in Seq(Data \cup {None}) /\ Len(s \o z) = Len(s) + h /\ Len(s) \in Nat
  <2>1. s \in Seq(Data \cup {None}) /\ z \in Seq(Data \cup {None})
    BY <1>1
  <2>2. s \o z \in Seq(Data \cup {None}) /\ Len(s \o z) = Len(s) + Len(z) /\ Len(s) \in Nat
    BY <2>1, ConcatProperties
  <2> QED BY <1>2, <2>2
<1>4. SubSeq(s \o z, l, h) \in Seq(Data \cup {None})
  BY <1>1, <1>3
<1>5. h <= Len(s) => SubSeq(s \o z, l, h) = SubSeq(s, l, h)
  BY <1>1, <1>3
<1> QED BY <1>1, <1>4, <1>5 DEF s, h, l, Content
----------------------------------------------------------------------------
(* What a step of one client leaves alone: the call of another, its        *)
(* upload, the locations it works on unless it counts as disturbed, and    *)
(* the keys that were there all along.                                     *)
Same(q) ==
  /\ pc'[q] = pc[q] /\ op'[q] = op[q] /\ up'[q] = up[q] /\ src'[q] = src[q] /\ dst'[q] = dst[q]
  /\ data'[q] = data[q] /\ original'[q] = original[q] /\ listed'[q] = listed[q] /\ page'[q] = page[q]

UploadSame(u) == uploads'[u] = uploads[u] /\ plan'[u] = plan[u] /\ part'[u] = part[u] /\ results'[u] = results[u]

PlacesSame(q) ==
  /\ q \notin disturbed' => q \notin disturbed
  /\ pc[q] # "idle" /\ q \notin disturbed' =>
       /\ \A k \in Key \cap {src[q], dst[q]} : objects'[k] = objects[k]
       /\ File \in {src[q], dst[q]} => file' = file

StableSame(q) ==
  /\ stable'[q] \subseteq stable[q]
  /\ \A k \in stable'[q] : objects[k] # None => objects'[k] # None

LEMMA OpFacts ==
  /\ \A l, o : o \in OpsAt(l) /\ o \in Copies \cup {"uploadFile"} \cup Storing => l # "idle"
  /\ OpsAt("idle") = {"none"} /\ OpsAt("ok") = Ops /\ OpsAt("err") = Ops /\ "none" \notin Ops
BY DEF OpsAt, Ops, Copies, Storing

LEMMA KeptKeeps ==
  ASSUME NEW q \in Client, NEW i, Same(q), PlacesSame(q), UploadSame(up[q]), Kept(q, i)
  PROVE  Kept(q, i)'
BY DEF Same, PlacesSame, UploadSame, Kept, Lowest, Highest

LEMMA OtherKeeps ==
  ASSUME NEW q \in Client, Each(q), Same(q), PlacesSame(q), StableSame(q), orphaned \subseteq orphaned',
         up[q] # None => UploadSame(up[q]) /\ \A r \in Client \ {q} : up'[r] # up[q]
  PROVE  Each(q)'
<1> USE DEF Each, Same
<1>1. Belongs(q)'
  BY DEF Belongs
<1>2. Undisturbed(q)'
  <2> SUFFICES ASSUME q \notin disturbed' PROVE Undisturbed(q)'
    BY DEF Undisturbed
  <2>1. q \notin disturbed /\ Undisturbed(q) /\ Belongs(q)
    BY DEF PlacesSame
  <2>2. pc[q] # "idle" => /\ \A k \in Key \cap {src[q], dst[q]} : objects'[k] = objects[k]
                          /\ File \in {src[q], dst[q]} => file' = file
    BY DEF PlacesSame
  <2>3. op[q] \in Copies => objects'[src[q]] = objects[src[q]] /\ objects'[dst[q]] = objects[dst[q]]
    BY <2>1, <2>2, OpFacts DEF Belongs
  <2>4. op[q] = "uploadFile" => file' = file
    BY <2>1, <2>2, OpFacts DEF Belongs
  <2>5. op[q] \in Storing => objects'[dst[q]] = objects[dst[q]]
    BY <2>1, <2>2, OpFacts DEF Belongs, Storing, Copies
  <2>6. op[q] = "move" => op[q] \in Copies
    BY DEF Copies
  <2> QED BY <2>1, <2>3, <2>4, <2>5, <2>6 DEF Undisturbed
<1>3. Owned(q)'
  BY DEF Owned, UploadSame
<1>4. Transferred(q)'
  <2>1. pc[q] \in {"collect", "complete"} => up[q] # None /\ UploadSame(up[q])
    BY DEF Owned
  <2>2. \A i : pc[q] \in {"collect", "complete"} /\ Kept(q, i) => Kept(q, i)'
    BY <2>1, KeptKeeps
  <2>3. \A i : pc[q] \in {"collect", "complete"} /\ Failed(up[q], i) => Failed(up[q], i)'
    BY <2>1 DEF Failed, UploadSame
  <2>4. q \notin disturbed' => q \notin disturbed
    BY DEF PlacesSame
  <2> QED BY <2>1, <2>2, <2>3, <2>4 DEF Transferred, UploadSame, CalculateParts
<1>5. Listing(q)'
  <2>1. \A k \in stable'[q] : objects'[k] # None
    BY DEF Listing, StableSame
  <2>2. stable'[q] \subseteq stable[q] /\ Listing(q)
    BY DEF StableSame
  <2> QED BY <2>1, <2>2 DEF Listing, Elements
<1> QED BY <1>1, <1>2, <1>3, <1>4, <1>5

(* A step of p that touches no upload.                                     *)
Passive(p) ==
  /\ \A q \in Client \ {p} : Same(q) /\ PlacesSame(q) /\ StableSame(q)
  /\ UNCHANGED <<uploads, plan, part, results, alive, up, orphaned>>

LEMMA PassiveKeeps ==
  ASSUME Inv, NEW p \in Client, Passive(p), Shapes', Each(p)'
  PROVE  Inv'
<1>1. ASSUME NEW q \in Client, q # p PROVE Each(q)'
  <2>1. Each(q) /\ Same(q) /\ PlacesSame(q) /\ StableSame(q)
    BY <1>1 DEF Inv, Passive
  <2>2. orphaned \subseteq orphaned'
    BY DEF Passive
  <2>3. up[q] # None => UploadSame(up[q]) /\ \A r \in Client \ {q} : up'[r] # up[q]
    BY <2>1 DEF Each, Owned, UploadSame, Passive
  <2> QED BY <2>1, <2>2, <2>3, OtherKeeps
<1>2. ASSUME NEW u \in UploadId PROVE Unstarted(u)' /\ Sized(u)'
  BY DEF Inv, Passive, Unstarted, Sized
<1>3. LeftOpenOnlyIfOrphaned' /\ PanicOnlyAfterFileChanged'
  BY DEF Inv, Passive, LeftOpenOnlyIfOrphaned, PanicOnlyAfterFileChanged
<1> QED BY <1>1, <1>2, <1>3 DEF Inv

(* A step of p that works on upload u, its own or one nobody has used.     *)
Active(p, u) ==
  /\ \A q \in Client \ {p} : Same(q) /\ PlacesSame(q) /\ StableSame(q) /\ up[q] # u
  /\ \A v \in UploadId \ {u} : UploadSame(v)
  /\ up[p] \in {None, u} /\ up'[p] \in {None, u}
  /\ orphaned \subseteq orphaned' /\ alive /\ alive'
  /\ uploads'[u].state = "open" /\ up'[p] # u => u \in orphaned'

LEMMA ActiveKeeps ==
  ASSUME Inv, NEW p \in Client, NEW u \in UploadId, Active(p, u), Shapes', Each(p)', Unstarted(u)', Sized(u)'
  PROVE  Inv'
<1>1. ASSUME NEW q \in Client, q # p PROVE Each(q)'
  <2>1. Each(q) /\ Same(q) /\ PlacesSame(q) /\ StableSame(q) /\ up[q] # u
    BY <1>1 DEF Inv, Active
  <2>2. orphaned \subseteq orphaned'
    BY DEF Active
  <2>3. up[q] # None => UploadSame(up[q])
    BY <2>1 DEF Inv, Shapes, Active
  <2>4. up[q] # None => \A r \in Client \ {q} : up'[r] # up[q]
    <3> SUFFICES ASSUME up[q] # None, NEW r \in Client \ {q} PROVE up'[r] # up[q]
      OBVIOUS
    <3>1. CASE r = p
      BY <2>1, <3>1 DEF Active
    <3>2. CASE r # p
      BY <2>1, <3>2 DEF Active, Same, Each, Owned
    <3> QED BY <3>1, <3>2
  <2> QED BY <2>1, <2>2, <2>3, <2>4, OtherKeeps
<1>2. ASSUME NEW v \in UploadId PROVE Unstarted(v)' /\ Sized(v)'
  BY DEF Inv, Active, UploadSame, Unstarted, Sized
<1>3. LeftOpenOnlyIfOrphaned'
  <2> SUFFICES ASSUME NEW v \in UploadId, uploads'[v].state = "open", \A q \in Client : up'[q] # v
               PROVE  v \in orphaned'
    BY DEF LeftOpenOnlyIfOrphaned
  <2>1. CASE v = u
    BY <2>1 DEF Active
  <2>2. CASE v # u
    <3>1. uploads[v].state = "open"
      BY <2>2 DEF Active, UploadSame
    <3>2. \A q \in Client : up[q] # v
      <4> TAKE q \in Client
      <4>1. CASE q = p
        BY <2>2, <4>1, ContentFacts DEF Active
      <4>2. CASE q # p
        BY <4>2 DEF Active, Same
      <4> QED BY <4>1, <4>2
    <3> QED BY <3>1, <3>2 DEF Inv, LeftOpenOnlyIfOrphaned, Active
  <2> QED BY <2>1, <2>2
<1>4. PanicOnlyAfterFileChanged'
  BY DEF Active, PanicOnlyAfterFileChanged
<1> QED BY <1>1, <1>2, <1>3, <1>4 DEF Inv
----------------------------------------------------------------------------
(* The beginning of a call: its operation, source, target and first point. *)
Opens(o, s, d, l) ==
  \/ o = "upload" /\ s = None /\ d \in Key /\ l \in {"create", "put"}
  \/ o = "put" /\ s = None /\ d \in Key /\ l = "put"
  \/ o = "uploadFile" /\ s = File /\ d \in Key /\ l = "stat"
  \/ o = "download" /\ s \in Key /\ d = None /\ l = "get"
  \/ o = "downloadFile" /\ s \in Key /\ d = File /\ l = "truncate"
  \/ o = "list" /\ s = None /\ d = None /\ l = "listPage"
  \/ o = "listAll" /\ s = None /\ d = None /\ l = "list"
  \/ o = "delete" /\ s = None /\ d \in Key /\ l = "delete"
  \/ o = "deleteMany" /\ s = None /\ d = None /\ l = "deleteMany"
  \/ o \in {"exists", "getMetadata"} /\ s \in Key /\ d = None /\ l = "head"
  \/ o \in Copies /\ s \in Key /\ d \in Key /\ l = IF s = d THEN "err" ELSE "head"

LEMMA BeginCalls ==
  ASSUME NEW p \in Client, Begin(p)
  PROVE  \E o, s, d, c, l : c \in Content /\ Opens(o, s, d, l) /\ Call(p, o, s, d, c, l)
<1>1. << >> \in Content /\ \A x \in Contents[p] : Whole(x) \in Content
  BY ContentFacts, ClientAssumption
<1>2. CASE Upload(p)
  BY <1>1, <1>2 DEF Upload, Opens
<1>3. CASE UploadFile(p)
  BY <1>1, <1>3 DEF UploadFile, Opens
<1>4. CASE PutData(p)
  BY <1>1, <1>4 DEF PutData, Opens
<1>5. CASE Download(p)
  BY <1>1, <1>5 DEF Download, Opens
<1>6. CASE DownloadFile(p)
  BY <1>1, <1>6 DEF DownloadFile, Opens
<1>7. CASE List(p)
  BY <1>1, <1>7 DEF List, Opens
<1>8. CASE ListAll(p)
  BY <1>1, <1>8 DEF ListAll, Opens
<1>9. CASE Delete(p)
  BY <1>1, <1>9 DEF Delete, Opens
<1>10. CASE DeleteMany(p)
  BY <1>1, <1>10 DEF DeleteMany, Opens
<1>11. CASE Exists(p)
  BY <1>1, <1>11 DEF Exists, Opens
<1>12. CASE GetMetadata(p)
  BY <1>1, <1>12 DEF GetMetadata, Opens
<1>13. CASE Copy(p)
  BY <1>1, <1>13 DEF Copy, Opens, Copies
<1>14. CASE Move(p)
  BY <1>1, <1>14 DEF Move, Opens, Copies
<1> QED
  BY <1>2, <1>3, <1>4, <1>5, <1>6, <1>7, <1>8, <1>9, <1>10, <1>11, <1>12, <1>13, <1>14 DEF Begin

LEMMA OpensFacts ==
  ASSUME NEW o, NEW s, NEW d, NEW l, Opens(o, s, d, l)
  PROVE  /\ o \in Ops /\ o \in OpsAt(l) /\ l \in Points \ {"idle", "ok", "start", "collect", "complete", "abort", "read"}
         /\ s \in Key \cup {File, None} /\ d \in Key \cup {File, None}
         /\ o \in Copies => s \in Key /\ d \in Key /\ l = IF s = d THEN "err" ELSE "head"
         /\ o \in {"upload", "put", "uploadFile", "delete"} => d \in Key
         /\ o \in {"download", "downloadFile", "exists", "getMetadata"} => s \in Key
         /\ o = "uploadFile" => s = File /\ l = "stat"
         /\ o = "listAll" => l = "list"
BY DEF Opens, Ops, OpsAt, Points, Copies, Sends

(* What is known of a client.                                              *)
LEMMA Known ==
  ASSUME Inv, NEW p \in Client
  PROVE  /\ Belongs(p) /\ Undisturbed(p) /\ Owned(p) /\ Transferred(p) /\ Listing(p)
         /\ pc[p] \in Points /\ up[p] \in UploadId \cup {None} /\ op[p] \in Ops \cup {"none"}
         /\ src[p] \in Key \cup {File, None} /\ dst[p] \in Key \cup {File, None} /\ data[p] \in Content
         /\ original[p] \in Content \cup {None} /\ page[p] \in PageState /\ stable[p] \in SUBSET Key
BY DEF Inv, Each, Shapes

LEMMA CallKeeps ==
  ASSUME Inv, NEW p \in Client, NEW o, NEW s, NEW d, NEW c \in Content, NEW l, Opens(o, s, d, l), Call(p, o, s, d, c, l)
  PROVE  Inv'
<1>1. /\ o \in Ops /\ o \in OpsAt(l) /\ l \in Points \ {"idle", "ok", "start", "collect", "complete", "abort", "read"}
      /\ s \in Key \cup {File, None} /\ d \in Key \cup {File, None}
      /\ o \in Copies => s \in Key /\ d \in Key /\ l = IF s = d THEN "err" ELSE "head"
      /\ o \in {"upload", "put", "uploadFile", "delete"} => d \in Key
      /\ o \in {"download", "downloadFile", "exists", "getMetadata"} => s \in Key
      /\ o = "uploadFile" => s = File /\ l = "stat"
      /\ o = "listAll" => l = "list"
  BY OpensFacts
<1>2. pc[p] = "idle" /\ up[p] = None /\ listed[p] = << >> /\ page[p] = NoPage
  <2>1. pc[p] = "idle"
    BY DEF Call, At
  <2> QED BY <2>1, Known DEF Belongs, Owned
<1> DEFINE before == IF o \in {"copy", "move"} THEN objects[s] ELSE c
           there == IF o = "listAll" THEN {k \in Key : objects[k] # None} ELSE {}
<1>3. before \in Content \cup {None} /\ there \in SUBSET Key
  BY <1>1 DEF Inv, Shapes, Copies
<1>4. /\ op' = [op EXCEPT ![p] = o] /\ src' = [src EXCEPT ![p] = s] /\ dst' = [dst EXCEPT ![p] = d]
      /\ data' = [data EXCEPT ![p] = c] /\ original' = [original EXCEPT ![p] = before]
      /\ stable' = [stable EXCEPT ![p] = there] /\ pc' = [pc EXCEPT ![p] = l]
      /\ UNCHANGED <<objects, uploads, alive, up, plan, part, results, file, listed, page, disturbed, orphaned>>
  BY DEF Call, Goto, partVars
<1> HIDE DEF before, there
<1>5. Shapes'
  BY <1>1, <1>3, <1>4 DEF Inv, Shapes
<1>6. Passive(p)
  BY <1>4 DEF Passive, Same, PlacesSame, StableSame, Inv, Shapes
<1>7. /\ pc'[p] = l /\ op'[p] = o /\ src'[p] = s /\ dst'[p] = d /\ data'[p] = c /\ original'[p] = before
      /\ stable'[p] = there /\ up'[p] = None /\ listed'[p] = << >> /\ page'[p] = NoPage /\ objects' = objects
  BY <1>2, <1>4 DEF Inv, Shapes
<1>8. Belongs(p)'
  <2>1. o \in {"upload", "put"} => before = c
    BY DEF before
  <2>2. o \in {"upload", "put", "uploadFile"} => before # None
    BY ContentFacts DEF before
  <2> QED BY <1>1, <1>7, <2>1, <2>2 DEF Belongs
<1>9. Undisturbed(p)'
  <2>1. o \in Copies => before = objects[s]
    BY DEF before, Copies
  <2> QED BY <1>1, <1>7, <2>1 DEF Undisturbed, Storing, Copies
<1>10. Owned(p)' /\ Transferred(p)'
  BY <1>1, <1>7 DEF Owned, Transferred
<1>11. Listing(p)'
  <2>1. \A k \in there : objects[k] # None /\ k \in Nat /\ k > 0
    BY ContentFacts DEF there
  <2>2. \A k \in there : ~(k <= 0)
    BY <2>1
  <2> QED BY <1>1, <1>7, <2>1, <2>2 DEF Listing, NoPage, Elements
<1> QED BY <1>5, <1>6, <1>8, <1>9, <1>10, <1>11, PassiveKeeps DEF Each

LEMMA BeginKeeps == ASSUME Inv, NEW p \in Client, Begin(p) PROVE Inv'
  BY BeginCalls, CallKeeps

LEMMA CancelKeeps == ASSUME Inv, NEW p \in Client, Cancel(p) PROVE Inv'
<1>1. UNCHANGED <<objects, uploads, alive, pc, up, partVars, callVars>>
  BY DEF Cancel
<1>2. Same(p) /\ PlacesSame(p) /\ StableSame(p) /\ Passive(p)
  BY <1>1 DEF Same, PlacesSame, StableSame, Passive, partVars, callVars
<1>3. Shapes'
  BY <1>1 DEF Inv, Shapes, partVars, callVars
<1>4. Each(p)'
  <2>1. up[p] # None => UploadSame(up[p]) /\ \A r \in Client \ {p} : up'[r] # up[p]
    BY <1>1, Known DEF UploadSame, Owned, partVars, callVars
  <2>2. orphaned \subseteq orphaned' /\ Each(p)
    BY <1>1 DEF callVars, Inv
  <2> QED BY <1>2, <2>1, <2>2, OtherKeeps
<1> QED BY <1>2, <1>3, <1>4, PassiveKeeps

(* The points of an operation.                                             *)
LEMMA PointFacts ==
  ASSUME Inv, NEW p \in Client
  PROVE  /\ pc[p] \in {"stat", "read"} => op[p] = "uploadFile"
         /\ pc[p] = "put" => op[p] \in {"upload", "put", "uploadFile"}
         /\ pc[p] = "head" => op[p] \in {"exists", "getMetadata", "copy", "move"}
         /\ pc[p] = "copy" => op[p] \in Copies
         /\ pc[p] \in {"create", "start", "collect", "complete", "abort"} => op[p] \in {"upload", "uploadFile", "copy", "move"}
         /\ pc[p] = "delete" => op[p] \in {"delete", "move"}
         /\ pc[p] = "truncate" => op[p] = "downloadFile"
         /\ pc[p] = "get" => op[p] \in {"download", "downloadFile"}
         /\ pc[p] \in {"list", "send"} => op[p] = "listAll"
         /\ pc[p] = "deleteMany" => op[p] = "deleteMany"
         /\ pc[p] = "listPage" => op[p] = "list"
BY DEF Inv, Each, Belongs, OpsAt, Sends, Copies

LEMMA StatKeeps == ASSUME Inv, NEW p \in Client, Stat(p) PROVE Inv'
<1>1. pc[p] = "stat" /\ op[p] = "uploadFile" /\ up[p] = None
  BY PointFacts, Known DEF Stat, At, Owned
<1>2. UNCHANGED <<objects, uploads, alive, up, plan, part, results, op, src, dst, data, file, listed, page, stable,
                  disturbed, orphaned>>
  BY DEF Stat, partVars
<1>3. PICK l \in {"create", "read", "err"}, c \in Content :
        /\ pc' = [pc EXCEPT ![p] = l] /\ original' = [original EXCEPT ![p] = c] /\ (l # "err" => c = file)
  <2>1. original[p] \in Content /\ original = [original EXCEPT ![p] = original[p]] /\ file \in Content
    BY <1>1, Known DEF Belongs, Inv, Shapes
  <2> QED BY <2>1 DEF Stat, Goto
<1>4. pc'[p] = l /\ original'[p] = c
  BY <1>3 DEF Inv, Shapes
<1>5. Shapes'
  BY <1>2, <1>3 DEF Inv, Shapes, Points
<1>6. Passive(p)
  BY <1>2, <1>3 DEF Passive, Same, PlacesSame, StableSame, Inv, Shapes
<1>7. Belongs(p)'
  BY <1>1, <1>2, <1>3, <1>4, Known, ContentFacts DEF Belongs, OpsAt, Ops, Sends, Copies
<1>8. Undisturbed(p)'
  BY <1>1, <1>2, <1>3, <1>4 DEF Undisturbed, Copies
<1>9. Owned(p)' /\ Transferred(p)' /\ Listing(p)'
  BY <1>1, <1>2, <1>3, <1>4, Known DEF Owned, Transferred, Listing
<1> QED BY <1>5, <1>6, <1>7, <1>8, <1>9, PassiveKeeps DEF Each

LEMMA ReadFileKeeps == ASSUME Inv, NEW p \in Client, ReadFile(p) PROVE Inv'
<1>1. pc[p] = "read" /\ op[p] = "uploadFile"
  BY PointFacts DEF ReadFile, At
<1>2. UNCHANGED <<objects, uploads, alive, up, plan, part, results, op, src, dst, original, file, listed, page, stable,
                  disturbed, orphaned>>
  BY DEF ReadFile, partVars
<1>3. PICK l \in {"put", "start", "err", "abort"}, c \in Content :
        /\ pc' = [pc EXCEPT ![p] = l] /\ data' = [data EXCEPT ![p] = c] /\ (l \in {"put", "start"} => c = file)
        /\ (up[p] = None <=> l \in {"put", "err"})
  <2>1. data[p] \in Content /\ data = [data EXCEPT ![p] = data[p]] /\ file \in Content
    BY <1>1, Known DEF Inv, Shapes
  <2> QED BY <2>1 DEF ReadFile, Goto
<1>4. pc'[p] = l /\ data'[p] = c
  BY <1>3 DEF Inv, Shapes
<1>5. Shapes'
  BY <1>2, <1>3 DEF Inv, Shapes, Points
<1>6. Passive(p)
  BY <1>2, <1>3 DEF Passive, Same, PlacesSame, StableSame, Inv, Shapes
<1>7. Belongs(p)'
  BY <1>1, <1>2, <1>3, <1>4, Known DEF Belongs, OpsAt, Ops, Sends, Copies
<1>8. Undisturbed(p)'
  BY <1>1, <1>2, <1>3, <1>4, Known DEF Undisturbed, Copies
<1>9. Owned(p)' /\ Transferred(p)' /\ Listing(p)'
  BY <1>1, <1>2, <1>3, <1>4, Known DEF Owned, Transferred, Listing
<1> QED BY <1>5, <1>6, <1>7, <1>8, <1>9, PassiveKeeps DEF Each

LEMMA HeadObjectKeeps == ASSUME Inv, NEW p \in Client, HeadObject(p) PROVE Inv'
<1>1. pc[p] = "head" /\ op[p] \in {"exists", "getMetadata", "copy", "move"} /\ up[p] = None /\ src[p] \in Key
  <2>1. pc[p] = "head" /\ op[p] \in {"exists", "getMetadata", "copy", "move"}
    BY PointFacts DEF HeadObject, At
  <2> QED BY <2>1, Known DEF Owned, Belongs, Copies
<1>2. UNCHANGED <<objects, uploads, alive, up, plan, part, results, op, src, dst, original, file, listed, page, stable,
                  disturbed, orphaned>>
  BY DEF HeadObject, partVars
<1>3. PICK l \in {"create", "copy", "ok", "err"}, c \in Content :
        /\ pc' = [pc EXCEPT ![p] = l] /\ data' = [data EXCEPT ![p] = c]
        /\ (l = "ok" => op[p] \in {"exists", "getMetadata"})
        /\ (l \in {"create", "copy"} => op[p] \in Copies /\ c = objects[src[p]])
  <2>1. data[p] \in Content /\ (objects[src[p]] # None => objects[src[p]] \in Content)
    BY <1>1, Known DEF Inv, Shapes
  <2> DEFINE got == IF op[p] \in {"copy", "move"} /\ objects[src[p]] # None THEN objects[src[p]] ELSE data[p]
  <2>2. data' = [data EXCEPT ![p] = got] /\ got \in Content
    BY <2>1 DEF HeadObject
  <2>3. op[p] \in Copies /\ objects[src[p]] # None => got = objects[src[p]]
    BY DEF Copies
  <2>4. CASE Goto(p, "err")
    BY <2>2, <2>4 DEF Goto
  <2>5. CASE ~Goto(p, "err")
    <3>1. /\ objects[src[p]] = None => op[p] = "exists"
          /\ Goto(p, IF op[p] \in {"exists", "getMetadata"} THEN "ok"
                     ELSE IF Len(objects[src[p]]) > Threshold THEN "create" ELSE "copy")
      BY <2>5 DEF HeadObject
    <3> HIDE DEF got
    <3>2. CASE op[p] \in {"exists", "getMetadata"}
      BY <2>2, <3>1, <3>2 DEF Goto
    <3>3. CASE op[p] \notin {"exists", "getMetadata"}
      <4>1. op[p] \in Copies /\ got = objects[src[p]]
        BY <1>1, <2>3, <3>1, <3>3 DEF Copies
      <4>2. Goto(p, "create") \/ Goto(p, "copy")
        BY <3>1, <3>3
      <4> QED BY <2>2, <4>1, <4>2 DEF Goto
    <3> QED BY <3>2, <3>3
  <2> QED BY <2>4, <2>5
<1>4. pc'[p] = l /\ data'[p] = c
  BY <1>3 DEF Inv, Shapes
<1>5. Shapes'
  BY <1>2, <1>3 DEF Inv, Shapes, Points
<1>6. Passive(p)
  BY <1>2, <1>3 DEF Passive, Same, PlacesSame, StableSame, Inv, Shapes
<1>7. Belongs(p)'
  BY <1>1, <1>2, <1>3, <1>4, Known DEF Belongs, OpsAt, Ops, Sends, Copies
<1>8. Undisturbed(p)'
  BY <1>1, <1>2, <1>3, <1>4, Known DEF Undisturbed, Copies, Storing
<1>9. Owned(p)' /\ Transferred(p)' /\ Listing(p)'
  BY <1>1, <1>2, <1>3, <1>4, Known DEF Owned, Transferred, Listing
<1> QED BY <1>5, <1>6, <1>7, <1>8, <1>9, PassiveKeeps DEF Each

LEMMA ListOnceKeeps == ASSUME Inv, NEW p \in Client, ListOnce(p) PROVE Inv'
<1>1. pc[p] = "listPage" /\ op[p] = "list" /\ up[p] = None
  BY PointFacts, Known DEF ListOnce, At, Owned
<1>2. UNCHANGED <<objects, uploads, alive, up, plan, part, results, op, src, dst, data, original, file, page, stable,
                  disturbed, orphaned>>
  BY DEF ListOnce, partVars
<1>3. PICK l \in {"ok", "err"} : pc' = [pc EXCEPT ![p] = l] /\ listed' = [listed EXCEPT ![p] = listed'[p]]
  <2>1. listed = [listed EXCEPT ![p] = listed[p]]
    BY DEF Inv, Shapes
  <2>2. \A c : listed' = [listed EXCEPT ![p] = c] => listed' = [listed EXCEPT ![p] = listed'[p]]
    BY <2>1
  <2> QED BY <2>1, <2>2 DEF ListOnce, Goto
<1>4. pc'[p] = l
  BY <1>3 DEF Inv, Shapes
<1>5. Shapes'
  <2>1. listed' = [q \in Client |-> listed'[q]]
    BY <1>3 DEF Inv, Shapes
  <2> QED BY <1>2, <1>3, <2>1 DEF Inv, Shapes, Points
<1>6. Passive(p)
  BY <1>2, <1>3 DEF Passive, Same, PlacesSame, StableSame, Inv, Shapes
<1>7. Belongs(p)'
  BY <1>1, <1>2, <1>3, <1>4, Known DEF Belongs, OpsAt, Ops, Sends, Copies
<1>8. Undisturbed(p)'
  BY <1>1, <1>2, <1>3, <1>4, Known DEF Undisturbed, Copies, Storing
<1>9. Owned(p)' /\ Transferred(p)' /\ Listing(p)'
  BY <1>1, <1>2, <1>3, <1>4, Known DEF Owned, Transferred, Listing
<1> QED BY <1>5, <1>6, <1>7, <1>8, <1>9, PassiveKeeps DEF Each
----------------------------------------------------------------------------
(* A page is an initial segment of the keys there are after its start, and *)
(* the next one starts after its last key.                                 *)
LEMMA PageFacts ==
  ASSUME Inv, NEW p \in Client
  PROVE  LET after == page[p].after
             P == Page(after)
             next == NextToken(p)
         IN  /\ next \in Nat /\ after <= next /\ P \in SUBSET Key
             /\ \A k \in P : after < k /\ k <= next
             /\ \A k \in Key : objects[k] # None /\ after < k /\ k <= next => k \in P
             /\ After(after) = P => \A k \in Key : objects[k] # None => k <= next
<1> DEFINE after == page[p].after
           A == After(after)
           P == Page(after)
           next == NextToken(p)
<1>1. after \in Nat
  BY Known DEF PageState
<1>2. A \subseteq Key /\ Key \subseteq Nat /\ IsFiniteSet(Key) /\ \A k \in Key : k \in A <=> objects[k] # None /\ k > after
  BY ContentFacts DEF After
<1>3. P \subseteq A /\ \A k \in A : k \in P <=> Cardinality({y \in A : y < k}) < PageSize
  BY DEF Page
<1>4. next = IF P = {} THEN after ELSE CHOOSE k \in P : \A x \in P : x <= k
  BY DEF NextToken
<1>5. IsFiniteSet(A) /\ PageSize \in Nat
  BY <1>2, FS_Subset, ContentFacts
<1> HIDE DEF after, A, P, next
<1>6. CASE P = {}
  <2>1. next = after
    BY <1>4, <1>6
  <2>2. ASSUME NEW k \in Key, objects[k] # None, after < k, k <= next PROVE FALSE
    BY <1>1, <1>2, <2>1, <2>2
  <2>3. A = P => \A k \in Key : objects[k] # None => k <= next
    BY <1>1, <1>2, <1>6, <2>1
  <2> QED BY <1>1, <1>6, <2>1, <2>2, <2>3 DEF after, A, P, next
<1>7. CASE P # {}
  <2>1. \E k \in P : \A x \in P : x <= k
    <3>1. P \in SUBSET A /\ P \in SUBSET Nat
      BY <1>2, <1>3
    <3>2. IsFiniteSet(P)
      BY <1>5, <3>1, FS_Subset
    <3> QED BY <1>7, <3>1, <3>2, Greatest
  <2>2. next \in P /\ \A x \in P : x <= next
    BY <1>4, <1>7, <2>1
  <2>3. next \in A /\ next \in Nat /\ after < next
    BY <1>1, <1>2, <1>3, <2>2
  <2>4. ASSUME NEW k \in A, k <= next PROVE k \in P
    <3> DEFINE below(x) == {y \in A : y < x}
    <3>1. below(k) \subseteq below(next)
      <4>1. k \in Nat /\ next \in Nat /\ \A y \in A : y \in Nat
        BY <1>2, <2>3
      <4>2. \A y \in A : y < k => y < next
        BY <2>4, <4>1
      <4> QED BY <4>2
    <3>2. IsFiniteSet(below(next))
      <4>1. below(next) \subseteq A
        OBVIOUS
      <4> QED BY <1>5, <4>1, FS_Subset
    <3>3. IsFiniteSet(below(k)) /\ Cardinality(below(k)) <= Cardinality(below(next))
      BY <3>1, <3>2, FS_Subset
    <3>4. Cardinality(below(k)) \in Nat /\ Cardinality(below(next)) \in Nat
      BY <3>2, <3>3, FS_CardinalityType
    <3>5. Cardinality(below(next)) < PageSize
      BY <1>3, <2>2, <2>3
    <3>6. Cardinality(below(k)) < PageSize
      <4> HIDE DEF below
      <4> QED BY <1>5, <3>3, <3>4, <3>5
    <3> QED BY <1>3, <3>6
  <2>5. A = P => \A k \in Key : objects[k] # None => k <= next
    <3> SUFFICES ASSUME A = P, NEW k \in Key, objects[k] # None PROVE k <= next
      OBVIOUS
    <3>1. CASE k > after
      BY <1>2, <2>2, <3>1
    <3>2. CASE ~(k > after)
      BY <1>1, <1>2, <2>3, <3>2
    <3> QED BY <3>1, <3>2
  <2>6. \A k \in P : after < k /\ k <= next
    BY <1>1, <1>2, <1>3, <2>2
  <2>7. P \in SUBSET Key
    BY <1>2, <1>3
  <2>8. \A k \in Key : objects[k] # None /\ after < k /\ k <= next => k \in P
    BY <1>1, <1>2, <2>4
  <2>9. after <= next
    BY <1>1, <2>3
  <2> QED BY <2>3, <2>5, <2>6, <2>7, <2>8, <2>9 DEF after, A, P, next
<1> QED BY <1>6, <1>7

LEMMA ListPageKeeps == ASSUME Inv, NEW p \in Client, ListPage(p) PROVE Inv'
<1>1. pc[p] = "list" /\ op[p] = "listAll" /\ up[p] = None /\ page[p].keys = {}
  BY PointFacts, Known DEF ListPage, At, Owned
<1>2. UNCHANGED <<objects, uploads, alive, up, plan, part, results, op, src, dst, data, original, file, listed, stable,
                  disturbed, orphaned>>
  BY DEF ListPage, partVars
<1> DEFINE after == page[p].after
           P == Page(after)
           next == NextToken(p)
           more == After(after) # P
           new == [keys |-> P, after |-> next, more |-> more]
<1>3. /\ after \in Nat /\ next \in Nat /\ after <= next /\ P \in SUBSET Key
      /\ \A k \in P : after < k /\ k <= next
      /\ \A k \in Key : objects[k] # None /\ after < k /\ k <= next => k \in P
      /\ ~more => \A k \in Key : objects[k] # None => k <= next
  <2>1. after \in Nat
    BY Known DEF PageState
  <2> QED BY <2>1, PageFacts
<1>4. \/ pc' = [pc EXCEPT ![p] = "send"] /\ page' = [page EXCEPT ![p] = new]
      \/ pc' = [pc EXCEPT ![p] = "err"] /\ page' = page
  BY DEF ListPage, Goto
<1>5. new \in PageState /\ new.keys = P /\ new.after = next /\ new.more = more
  BY <1>3 DEF PageState
<1> HIDE DEF P, next, more, new
<1>6. Shapes'
  BY <1>2, <1>4, <1>5 DEF Inv, Shapes, Points
<1>7. Passive(p)
  BY <1>2, <1>4 DEF Passive, Same, PlacesSame, StableSame, Inv, Shapes
<1>8. \/ pc'[p] = "send" /\ page'[p] = new
      \/ pc'[p] = "err" /\ page'[p] = page[p]
  BY <1>4 DEF Inv, Shapes
<1>9. Belongs(p)'
  BY <1>1, <1>2, <1>8, Known DEF Belongs, OpsAt, Ops, Sends, Copies
<1>10. Undisturbed(p)'
  BY <1>1, <1>2, <1>8, Known DEF Undisturbed, Copies, Storing
<1>11. Owned(p)' /\ Transferred(p)'
  BY <1>1, <1>2, <1>8, Known DEF Owned, Transferred
<1>12. Listing(p)'
  <2>1. /\ \A k \in stable[p] : k \in Key /\ k \in Nat /\ objects[k] # None
        /\ listed[p] \in Seq(Key) /\ \A i, j \in DOMAIN listed[p] : i < j => listed[p][i] < listed[p][j]
        /\ \A k \in Elements(listed[p]) : k <= after
        /\ \A k \in stable[p] : k <= after => k \in Elements(listed[p])
    BY <1>1, Known, ContentFacts DEF Listing
  <2>2. \A k \in Elements(listed[p]) : k \in Nat
    <3>1. \A i \in DOMAIN listed[p] : listed[p][i] \in Key
      BY <2>1
    <3> QED BY <3>1, ContentFacts DEF Elements
  <2>3. \A k \in P : k \in Nat
    BY <1>3, ContentFacts
  <2>4. CASE pc'[p] = "err" /\ page'[p] = page[p]
    BY <1>1, <1>2, <2>4, Known DEF Listing, Elements
  <2>5. CASE pc'[p] = "send" /\ page'[p] = new
    <3>1. \A k \in Elements(listed[p]) : k <= next /\ \A l \in P : k < l
      BY <1>3, <2>1, <2>2, <2>3
    <3>2. \A k \in stable[p] : k <= next => k \in Elements(listed[p]) \cup P
      <4> TAKE k \in stable[p]
      <4>1. k <= after \/ after < k
        BY <1>3, <2>1
      <4> QED BY <1>3, <2>1, <4>1
    <3>3. ~more => \A k \in stable[p] : k <= next
      BY <1>3, <2>1
    <3>4. /\ page'[p].keys = P /\ page'[p].after = next /\ page'[p].more = more /\ pc'[p] = "send"
          /\ op'[p] = "listAll" /\ listed' = listed /\ stable' = stable /\ objects' = objects
      BY <1>1, <1>2, <1>5, <2>5
    <3> HIDE DEF after
    <3> QED BY <1>3, <2>1, <3>1, <3>2, <3>3, <3>4 DEF Listing, Elements
  <2> QED BY <1>8, <2>4, <2>5
<1> QED BY <1>6, <1>7, <1>9, <1>10, <1>11, <1>12, PassiveKeeps DEF Each

LEMMA ListSendKeeps == ASSUME Inv, NEW p \in Client, ListSend(p) PROVE Inv'
<1>1. pc[p] = "send" /\ op[p] = "listAll" /\ up[p] = None
  BY PointFacts, Known DEF ListSend, At, Owned
<1>2. UNCHANGED <<objects, uploads, alive, up, plan, part, results, op, src, dst, data, original, file, stable,
                  disturbed, orphaned>>
  BY DEF ListSend, partVars
<1> DEFINE keys == page[p].keys
           k == CHOOSE x \in keys : \A y \in keys : x <= y
           new == [page[p] EXCEPT !.keys = keys \ {k}]
<1>3. page[p] \in PageState /\ keys \in SUBSET Key /\ Key \subseteq Nat /\ page[p].after \in Nat
  BY Known, ContentFacts DEF PageState
<1>4. /\ listed[p] \in Seq(Key) /\ (\A x \in stable[p] : objects[x] # None)
      /\ \A i, j \in DOMAIN listed[p] : i < j => listed[p][i] < listed[p][j]
      /\ \A x \in Elements(listed[p]) : x <= page[p].after /\ \A y \in keys : x < y
      /\ \A x \in keys : x <= page[p].after
      /\ \A x \in stable[p] : x <= page[p].after => x \in Elements(listed[p]) \cup keys
      /\ ~page[p].more => \A x \in stable[p] : x <= page[p].after
  BY <1>1, Known DEF Listing
<1>5. CASE keys # {} /\ UNCHANGED pc /\ listed' = [listed EXCEPT ![p] = Append(@, k)] /\ page' = [page EXCEPT ![p].keys = @ \ {k}]
  <2>1. k \in keys /\ \A y \in keys : k <= y
    <3>1. \E x \in keys : \A y \in keys : x <= y
      <4>1. keys \in SUBSET Nat
        BY <1>3
      <4> HIDE DEF keys
      <4> QED BY <1>5, <4>1, Least
    <3> HIDE DEF keys
    <3> QED BY <3>1
  <2>2. listed'[p] = Append(listed[p], k) /\ page'[p] = new /\ pc'[p] = "send"
    BY <1>1, <1>5 DEF Inv, Shapes
  <2>3. new \in PageState /\ new.keys = keys \ {k} /\ new.after = page[p].after /\ new.more = page[p].more
    BY <1>3 DEF PageState
  <2>4. page' = [page EXCEPT ![p] = new]
    BY <1>5 DEF Inv, Shapes
  <2> HIDE DEF k, keys, new
  <2>5. Shapes'
    <3>1. listed' = [q \in Client |-> listed'[q]]
      BY <1>5 DEF Inv, Shapes
    <3>2. pc' = pc
      BY <1>5
    <3>3. page' \in [Client -> PageState]
      BY <2>3, <2>4 DEF Inv, Shapes
    <3> QED BY <1>2, <3>1, <3>2, <3>3 DEF Inv, Shapes
  <2>6. Passive(p)
    BY <1>2, <1>5, <2>4 DEF Passive, Same, PlacesSame, StableSame, Inv, Shapes
  <2>7. Belongs(p)' /\ Undisturbed(p)' /\ Owned(p)' /\ Transferred(p)'
    BY <1>1, <1>2, <2>2, Known DEF Belongs, Undisturbed, Owned, Transferred, OpsAt, Copies, Storing
  <2>8. Listing(p)'
    <3> DEFINE s == listed[p]
               t == Append(s, k)
    <3>1. s \in Seq(Key) /\ k \in Key
      BY <1>3, <1>4, <2>1
    <3>2. t \in Seq(Key) /\ Len(t) = Len(s) + 1 /\ t[Len(t)] = k /\ Len(s) \in Nat /\ \A i \in 1..Len(s) : t[i] = s[i]
      BY <3>1
    <3>3. DOMAIN s = 1..Len(s) /\ DOMAIN t = 1..(Len(s) + 1)
      BY <3>1, <3>2
    <3> HIDE DEF t
    <3>4. Elements(t) = Elements(s) \cup {k}
      <4>1. \A i \in DOMAIN t : i \in DOMAIN s \/ i = Len(t)
        BY <3>2, <3>3
      <4>2. \A i \in DOMAIN s : i \in DOMAIN t /\ t[i] = s[i]
        BY <3>2, <3>3
      <4>3. Len(t) \in DOMAIN t
        BY <3>2, <3>3
      <4> QED BY <3>2, <4>1, <4>2, <4>3 DEF Elements
    <3>5. \A i \in DOMAIN s : s[i] < k
      BY <1>4, <2>1 DEF Elements
    <3>6. \A i, j \in DOMAIN t : i < j => t[i] < t[j]
      <4> TAKE i, j \in DOMAIN t
      <4> HAVE i < j
      <4>1. i \in DOMAIN s /\ t[i] = s[i]
        BY <3>2, <3>3
      <4>2. CASE j \in DOMAIN s
        BY <1>4, <3>2, <3>3, <4>1, <4>2
      <4>3. CASE j \notin DOMAIN s
        <5>1. t[j] = k
          BY <3>2, <3>3, <4>3
        <5> QED BY <3>5, <4>1, <5>1
      <4> QED BY <4>2, <4>3
    <3>7. \A x \in Elements(t) : x <= page[p].after /\ \A y \in keys \ {k} : x < y
      <4>1. \A y \in keys \ {k} : k < y
        BY <1>3, <2>1
      <4> QED BY <1>4, <2>1, <3>4, <4>1
    <3>8. \A x \in stable[p] : x <= page[p].after => x \in Elements(t) \cup (keys \ {k})
      BY <1>4, <3>4
    <3>9. \A x \in keys \ {k} : x <= page[p].after
      BY <1>4
    <3>10. /\ listed'[p] = t /\ page'[p].keys = keys \ {k} /\ page'[p].after = page[p].after /\ page'[p].more = page[p].more
           /\ pc'[p] = "send" /\ op'[p] = "listAll" /\ stable' = stable /\ objects' = objects
      BY <1>1, <1>2, <2>2, <2>3 DEF t
    <3> HIDE DEF s
    <3> QED BY <1>4, <3>2, <3>6, <3>7, <3>8, <3>9, <3>10 DEF Listing, Elements
  <2> QED BY <2>5, <2>6, <2>7, <2>8, PassiveKeeps DEF Each
<1>6. CASE /\ listed' = listed /\ page' = page
           /\ \/ pc' = [pc EXCEPT ![p] = "err"]
              \/ keys = {} /\ pc' = [pc EXCEPT ![p] = IF page[p].more THEN "list" ELSE "ok"]
  <2>1. PICK l \in {"err", "list", "ok"} :
          /\ pc' = [pc EXCEPT ![p] = l] /\ (l # "err" => keys = {}) /\ (l = "ok" <=> l # "err" /\ ~page[p].more)
    BY <1>6
  <2>2. pc'[p] = l
    BY <2>1 DEF Inv, Shapes
  <2>3. Shapes'
    BY <1>2, <1>6, <2>1 DEF Inv, Shapes, Points
  <2>4. Passive(p)
    BY <1>2, <1>6, <2>1 DEF Passive, Same, PlacesSame, StableSame, Inv, Shapes
  <2>5. Belongs(p)'
    BY <1>1, <1>2, <1>6, <2>2, Known DEF Belongs, OpsAt, Ops, Sends, Copies
  <2>6. Undisturbed(p)'
    BY <1>1, <1>2, <1>6, <2>2, Known DEF Undisturbed, Copies, Storing
  <2>7. Owned(p)' /\ Transferred(p)'
    BY <1>1, <1>2, <1>6, <2>2, Known DEF Owned, Transferred
  <2>8. Listing(p)'
    <3>1. l = "ok" => \A x \in stable[p] : x \in Elements(listed[p])
      BY <1>4, <2>1
    <3>2. /\ page'[p] = page[p] /\ pc'[p] = l /\ op'[p] = "listAll" /\ listed' = listed /\ stable' = stable
          /\ objects' = objects
      BY <1>1, <1>2, <1>6, <2>2
    <3>3. l = "list" => page[p].keys = {}
      BY <2>1
    <3>4. /\ \A x \in stable[p] : objects[x] # None
          /\ listed[p] \in Seq(Key) /\ \A i, j \in DOMAIN listed[p] : i < j => listed[p][i] < listed[p][j]
          /\ \A x \in Elements(listed[p]) : x <= page[p].after /\ \A y \in page[p].keys : x < y
          /\ \A x \in page[p].keys : x <= page[p].after
          /\ \A x \in stable[p] : x <= page[p].after => x \in Elements(listed[p]) \cup page[p].keys
      BY <1>4
    <3> HIDE DEF keys
    <3> QED BY <2>1, <3>1, <3>2, <3>3, <3>4 DEF Listing, Elements
  <2> QED BY <2>3, <2>4, <2>5, <2>6, <2>7, <2>8, PassiveKeeps DEF Each
<1> QED BY <1>5, <1>6 DEF ListSend, Goto
----------------------------------------------------------------------------
(* What an object holds is a content or nothing, and storing one under a   *)
(* key disturbs the others that work on the key.                           *)
LEMMA StoreFacts ==
  ASSUME Inv, NEW p \in Client, NEW k \in Key, NEW c \in Content, Store(p, k, c),
         \A q \in Client \ {p} : Same(q), file' = file
  PROVE  /\ objects' \in [Key -> Content \cup {None}] /\ objects'[k] = c /\ \A j \in Key \ {k} : objects'[j] = objects[j]
         /\ stable' = stable /\ (p \in disturbed' <=> p \in disturbed)
         /\ \A q \in Client \ {p} : PlacesSame(q) /\ StableSame(q)
         /\ StableSame(p)
<1>1. objects' = [objects EXCEPT ![k] = c] /\ stable' = stable
      /\ disturbed' = disturbed \cup {q \in Client \ {p} : pc[q] # "idle" /\ k \in {src[q], dst[q]}}
  BY DEF Store, PutObject, Disturb
<1>2. objects' \in [Key -> Content \cup {None}] /\ objects'[k] = c /\ \A j \in Key \ {k} : objects'[j] = objects[j]
  BY <1>1 DEF Inv, Shapes
<1>3. c # None
  BY ContentFacts
<1>4. ASSUME NEW q \in Client \ {p} PROVE PlacesSame(q)
  BY <1>1, <1>2, <1>4 DEF PlacesSame
<1>5. ASSUME NEW q \in Client PROVE StableSame(q)
  <2>1. stable[q] \subseteq Key
    BY DEF Inv, Shapes
  <2> QED BY <1>1, <1>2, <1>3, <2>1 DEF StableSame
<1> QED BY <1>1, <1>2, <1>4, <1>5

(* Removing keys takes them from what was there all along.                 *)
LEMMA RemoveFacts ==
  ASSUME Inv, NEW p \in Client, NEW K \in SUBSET Key, objects' = [k \in Key |-> IF k \in K THEN None ELSE objects[k]],
         disturbed' = disturbed \cup {q \in Client \ {p} : pc[q] # "idle" /\ {src[q], dst[q]} \cap K # {}}, Gone(K),
         \A q \in Client \ {p} : Same(q), file' = file
  PROVE  /\ objects' \in [Key -> Content \cup {None}] /\ (p \in disturbed' <=> p \in disturbed)
         /\ \A k \in K : objects'[k] = None
         /\ \A k \in Key \ K : objects'[k] = objects[k]
         /\ stable' \in [Client -> SUBSET Key]
         /\ \A q \in Client \ {p} : PlacesSame(q) /\ StableSame(q)
         /\ StableSame(p)
<1>1. /\ objects' \in [Key -> Content \cup {None}] /\ \A k \in K : objects'[k] = None
      /\ \A k \in Key \ K : objects'[k] = objects[k]
  BY DEF Inv, Shapes
<1>2. stable' = [q \in Client |-> stable[q] \ K] /\ stable' \in [Client -> SUBSET Key]
  BY DEF Gone, Inv, Shapes
<1>3. ASSUME NEW q \in Client \ {p} PROVE PlacesSame(q)
  BY <1>1, <1>3 DEF PlacesSame
<1>4. ASSUME NEW q \in Client PROVE StableSame(q)
  <2>1. stable[q] \subseteq Key
    BY DEF Inv, Shapes
  <2> QED BY <1>1, <1>2, <2>1 DEF StableSame
<1> QED BY <1>1, <1>2, <1>3, <1>4

LEMMA UntouchedFacts ==
  ASSUME Inv, NEW p \in Client, Untouched, \A q \in Client \ {p} : Same(q), file' = file
  PROVE  /\ objects' = objects /\ stable' = stable /\ disturbed' = disturbed
         /\ \A q \in Client \ {p} : PlacesSame(q) /\ StableSame(q)
         /\ StableSame(p)
BY DEF Untouched, PlacesSame, StableSame

LEMMA UploadSimpleKeeps == ASSUME Inv, NEW p \in Client, UploadSimple(p) PROVE Inv'
<1>1. pc[p] = "put" /\ op[p] \in {"upload", "put", "uploadFile"} /\ up[p] = None /\ dst[p] \in Key /\ data[p] \in Content
  <2>1. pc[p] = "put" /\ op[p] \in {"upload", "put", "uploadFile"}
    BY PointFacts DEF UploadSimple, At
  <2> QED BY <2>1, Known DEF Owned, Belongs
<1>2. UNCHANGED <<uploads, alive, up, plan, part, results, op, src, dst, data, original, file, listed, page, orphaned>>
  BY DEF UploadSimple, partVars
<1>3. PICK l \in {"ok", "err"} :
        pc' = [pc EXCEPT ![p] = l] /\ ((Untouched /\ l = "err") \/ Store(p, dst[p], data[p]))
  BY DEF UploadSimple, Goto
<1>4. pc'[p] = l /\ \A q \in Client \ {p} : Same(q)
  BY <1>2, <1>3 DEF Inv, Shapes, Same
<1>5. CASE Untouched /\ l = "err"
  <2>1. /\ objects' = objects /\ stable' = stable /\ disturbed' = disturbed
        /\ \A q \in Client \ {p} : PlacesSame(q) /\ StableSame(q)
    BY <1>2, <1>4, <1>5, UntouchedFacts
  <2>2. Shapes'
    BY <1>2, <1>3, <2>1 DEF Inv, Shapes, Points
  <2>3. Passive(p)
    BY <1>2, <1>4, <2>1 DEF Passive
  <2>4. Belongs(p)' /\ Undisturbed(p)' /\ Owned(p)' /\ Transferred(p)' /\ Listing(p)'
    BY <1>1, <1>2, <1>4, <1>5, <2>1, Known
       DEF Belongs, Undisturbed, Owned, Transferred, Listing, OpsAt, Ops, Copies, Storing
  <2> QED BY <2>2, <2>3, <2>4, PassiveKeeps DEF Each
<1>6. CASE Store(p, dst[p], data[p])
  <2>1. /\ objects' \in [Key -> Content \cup {None}] /\ objects'[dst[p]] = data[p]
        /\ stable' = stable /\ (p \in disturbed' <=> p \in disturbed)
        /\ \A q \in Client \ {p} : PlacesSame(q) /\ StableSame(q)
        /\ StableSame(p)
    BY <1>1, <1>2, <1>4, <1>6, StoreFacts
  <2>2. Shapes'
    BY <1>2, <1>3, <2>1 DEF Inv, Shapes, Points
  <2>3. Passive(p)
    BY <1>2, <1>4, <2>1 DEF Passive
  <2>4. Belongs(p)'
    BY <1>1, <1>2, <1>4, Known DEF Belongs, OpsAt, Ops, Copies, Storing
  <2>5. Undisturbed(p)'
    <3>1. p \notin disturbed => data[p] = original[p]
      BY <1>1, Known DEF Undisturbed, Belongs
    <3> QED BY <1>1, <1>2, <1>4, <2>1, <3>1 DEF Undisturbed, Copies
  <2>6. Owned(p)' /\ Transferred(p)'
    BY <1>1, <1>2, <1>4 DEF Owned, Transferred
  <2>7. Listing(p)'
    BY <1>1, <1>2, <1>4, <2>1, Known DEF Listing, StableSame
  <2> QED BY <2>2, <2>3, <2>4, <2>5, <2>6, <2>7, PassiveKeeps DEF Each
<1> QED BY <1>3, <1>5, <1>6

(* What a successful copy goes on to.                                      *)
LEMMA CopiedFacts ==
  ASSUME NEW p
  PROVE  /\ Copied(p, FALSE) = "err" /\ Copied(p, TRUE) \in {"delete", "ok"}
         /\ Copied(p, TRUE) = "delete" <=> op[p] = "move"
BY DEF Copied

LEMMA SimpleCopyKeeps == ASSUME Inv, NEW p \in Client, SimpleCopy(p) PROVE Inv'
<1>1. pc[p] = "copy" /\ op[p] \in Copies /\ up[p] = None /\ src[p] \in Key /\ dst[p] \in Key /\ src[p] # dst[p]
  <2>1. pc[p] = "copy" /\ op[p] \in Copies
    BY PointFacts DEF SimpleCopy, At
  <2> QED BY <2>1, Known DEF Owned, Belongs
<1>2. UNCHANGED <<uploads, alive, up, plan, part, results, op, src, dst, data, original, file, listed, page, orphaned>>
  BY DEF SimpleCopy, partVars
<1>3. PICK l \in {"ok", "delete", "err"} :
        /\ pc' = [pc EXCEPT ![p] = l] /\ (l = "ok" => op[p] # "move") /\ (l = "delete" => op[p] = "move")
        /\ (Untouched /\ l = "err") \/ (Store(p, dst[p], objects[src[p]]) /\ objects[src[p]] # None)
  <2>1. PICK r \in {"ok", "refused", "lost"} :
          /\ objects[src[p]] = None => r = "refused"
          /\ IF r = "refused" THEN Untouched ELSE Store(p, dst[p], objects[src[p]])
          /\ Goto(p, Copied(p, r = "ok"))
    BY DEF SimpleCopy, Outcomes, Outcome
  <2>2. CASE r = "refused"
    BY <2>1, <2>2, CopiedFacts DEF Goto
  <2>3. CASE r # "refused"
    BY <2>1, <2>3, CopiedFacts DEF Goto
  <2> QED BY <2>2, <2>3
<1>4. pc'[p] = l /\ \A q \in Client \ {p} : Same(q)
  BY <1>2, <1>3 DEF Inv, Shapes, Same
<1>5. p \notin disturbed => objects[src[p]] = original[p]
  BY <1>1, Known DEF Undisturbed
<1>6. CASE Untouched /\ l = "err"
  <2>1. /\ objects' = objects /\ stable' = stable /\ disturbed' = disturbed
        /\ \A q \in Client \ {p} : PlacesSame(q) /\ StableSame(q)
    BY <1>2, <1>4, <1>6, UntouchedFacts
  <2>2. Shapes'
    BY <1>2, <1>3, <2>1 DEF Inv, Shapes, Points
  <2>3. Passive(p)
    BY <1>2, <1>4, <2>1 DEF Passive
  <2>4. Belongs(p)' /\ Undisturbed(p)' /\ Owned(p)' /\ Transferred(p)' /\ Listing(p)'
    BY <1>1, <1>2, <1>4, <1>5, <1>6, <2>1, Known
       DEF Belongs, Undisturbed, Owned, Transferred, Listing, OpsAt, Ops, Copies, Storing
  <2> QED BY <2>2, <2>3, <2>4, PassiveKeeps DEF Each
<1>7. CASE Store(p, dst[p], objects[src[p]]) /\ objects[src[p]] # None
  <2>1. objects[src[p]] \in Content
    BY <1>1, <1>7 DEF Inv, Shapes
  <2>2. /\ objects' \in [Key -> Content \cup {None}] /\ objects'[dst[p]] = objects[src[p]] /\ objects'[src[p]] = objects[src[p]]
        /\ stable' = stable /\ (p \in disturbed' <=> p \in disturbed)
        /\ \A q \in Client \ {p} : PlacesSame(q) /\ StableSame(q)
        /\ StableSame(p)
    BY <1>1, <1>2, <1>4, <1>7, <2>1, StoreFacts
  <2>3. Shapes'
    BY <1>2, <1>3, <2>2 DEF Inv, Shapes, Points
  <2>4. Passive(p)
    BY <1>2, <1>4, <2>2 DEF Passive
  <2>5. Belongs(p)'
    BY <1>1, <1>2, <1>3, <1>4, Known DEF Belongs, OpsAt, Ops, Copies, Storing
  <2>6. Undisturbed(p)'
    BY <1>1, <1>2, <1>3, <1>4, <1>5, <2>2 DEF Undisturbed, Copies, Storing
  <2>7. Owned(p)' /\ Transferred(p)'
    BY <1>1, <1>2, <1>4 DEF Owned, Transferred
  <2>8. Listing(p)'
    BY <1>1, <1>2, <1>4, <2>2, Known DEF Listing, StableSame, Copies
  <2> QED BY <2>3, <2>4, <2>5, <2>6, <2>7, <2>8, PassiveKeeps DEF Each
<1> QED BY <1>3, <1>6, <1>7

LEMMA DeleteObjectKeeps == ASSUME Inv, NEW p \in Client, DeleteObject(p) PROVE Inv'
<1> DEFINE k == IF op[p] = "move" THEN src[p] ELSE dst[p]
<1>1. /\ pc[p] = "delete" /\ op[p] \in {"delete", "move"} /\ k \in Key
      /\ op[p] = "move" => src[p] \in Key /\ dst[p] \in Key /\ src[p] # dst[p]
  <2>1. pc[p] = "delete" /\ op[p] \in {"delete", "move"}
    BY PointFacts DEF DeleteObject, At
  <2> QED BY <2>1, Known DEF Belongs, Copies
<1>2. UNCHANGED <<uploads, alive, up, plan, part, results, op, src, dst, data, original, file, listed, page, orphaned>>
  BY DEF DeleteObject, partVars
<1>3. PICK l \in {"ok", "err"} :
        pc' = [pc EXCEPT ![p] = l] /\ ((Untouched /\ l = "err") \/ Erase(p, k))
  BY DEF DeleteObject, Goto
<1>4. pc'[p] = l /\ \A q \in Client \ {p} : Same(q)
  BY <1>2, <1>3 DEF Inv, Shapes, Same
<1>5. op[p] = "move" /\ p \notin disturbed => objects[src[p]] = original[p] /\ objects[dst[p]] = original[p]
  BY <1>1, Known DEF Undisturbed, Copies
<1> HIDE DEF k
<1>6. CASE Untouched /\ l = "err"
  <2>1. /\ objects' = objects /\ stable' = stable /\ disturbed' = disturbed
        /\ \A q \in Client \ {p} : PlacesSame(q) /\ StableSame(q)
    BY <1>2, <1>4, <1>6, UntouchedFacts
  <2>2. Shapes'
    BY <1>2, <1>3, <2>1 DEF Inv, Shapes, Points
  <2>3. Passive(p)
    BY <1>2, <1>4, <2>1 DEF Passive
  <2>4. Belongs(p)' /\ Undisturbed(p)' /\ Owned(p)' /\ Transferred(p)' /\ Listing(p)'
    BY <1>1, <1>2, <1>4, <1>5, <1>6, <2>1, Known
       DEF Belongs, Undisturbed, Owned, Transferred, Listing, OpsAt, Ops, Copies, Storing
  <2> QED BY <2>2, <2>3, <2>4, PassiveKeeps DEF Each
<1>7. CASE Erase(p, k)
  <2>1. /\ objects' \in [Key -> Content \cup {None}] /\ (p \in disturbed' <=> p \in disturbed)
        /\ objects'[k] = None /\ \A j \in Key \ {k} : objects'[j] = objects[j]
        /\ stable' \in [Client -> SUBSET Key]
        /\ \A q \in Client \ {p} : PlacesSame(q) /\ StableSame(q)
        /\ StableSame(p)
    <3>1. objects' = [j \in Key |-> IF j \in {k} THEN None ELSE objects[j]]
      BY <1>1, <1>7 DEF Erase, PutObject, Inv, Shapes
    <3>2. disturbed' = disturbed \cup {q \in Client \ {p} : pc[q] # "idle" /\ {src[q], dst[q]} \cap {k} # {}} /\ Gone({k})
      <4>1. \A q : k \in {src[q], dst[q]} <=> {src[q], dst[q]} \cap {k} # {}
        OBVIOUS
      <4> QED BY <1>7, <4>1 DEF Erase, Disturb
    <3>3. {k} \in SUBSET Key
      BY <1>1
    <3> QED BY <1>2, <1>4, <3>1, <3>2, <3>3, RemoveFacts
  <2>2. Shapes'
    BY <1>2, <1>3, <2>1 DEF Inv, Shapes, Points
  <2>3. Passive(p)
    BY <1>2, <1>4, <2>1 DEF Passive
  <2>4. Belongs(p)'
    BY <1>1, <1>2, <1>4, Known DEF Belongs, OpsAt, Ops, Copies, Storing
  <2>5. Undisturbed(p)'
    BY <1>1, <1>2, <1>4, <1>5, <2>1 DEF Undisturbed, Copies, Storing, k
  <2>6. Owned(p)' /\ Transferred(p)'
    BY <1>1, <1>2, <1>4, Known DEF Owned, Transferred
  <2>7. Listing(p)'
    BY <1>1, <1>2, <1>4, <2>1, Known DEF Listing, StableSame
  <2> QED BY <2>2, <2>3, <2>4, <2>5, <2>6, <2>7, PassiveKeeps DEF Each
<1> QED BY <1>3, <1>6, <1>7

LEMMA DeleteObjectsKeeps == ASSUME Inv, NEW p \in Client, DeleteObjects(p) PROVE Inv'
<1>1. pc[p] = "deleteMany" /\ op[p] = "deleteMany" /\ up[p] = None
  BY PointFacts, Known DEF DeleteObjects, At, Owned
<1>2. UNCHANGED <<uploads, alive, up, plan, part, results, op, src, dst, data, original, file, listed, page, orphaned>>
  BY DEF DeleteObjects, partVars
<1>3. PICK l \in {"ok", "err"}, K \in SUBSET Key :
        /\ pc' = [pc EXCEPT ![p] = l]
        /\ \/ Untouched
           \/ /\ objects' = [k \in Key |-> IF k \in K THEN None ELSE objects[k]]
              /\ disturbed' = disturbed \cup {q \in Client \ {p} : pc[q] # "idle" /\ {src[q], dst[q]} \cap K # {}}
              /\ Gone(K)
  BY DEF DeleteObjects, Goto
<1>4. pc'[p] = l /\ \A q \in Client \ {p} : Same(q)
  BY <1>2, <1>3 DEF Inv, Shapes, Same
<1>5. /\ objects' \in [Key -> Content \cup {None}]
      /\ stable' \in [Client -> SUBSET Key]
      /\ \A q \in Client \ {p} : PlacesSame(q) /\ StableSame(q)
      /\ StableSame(p)
  <2>1. CASE Untouched
    BY <1>2, <1>4, <2>1, UntouchedFacts DEF Inv, Shapes
  <2>2. CASE /\ objects' = [k \in Key |-> IF k \in K THEN None ELSE objects[k]]
             /\ disturbed' = disturbed \cup {q \in Client \ {p} : pc[q] # "idle" /\ {src[q], dst[q]} \cap K # {}}
             /\ Gone(K)
    BY <1>2, <1>4, <2>2, RemoveFacts
  <2> QED BY <1>3, <2>1, <2>2
<1>6. Shapes'
  BY <1>2, <1>3, <1>5 DEF Inv, Shapes, Points
<1>7. Passive(p)
  BY <1>2, <1>4, <1>5 DEF Passive
<1>8. Belongs(p)' /\ Undisturbed(p)'
  BY <1>1, <1>2, <1>4, Known DEF Belongs, Undisturbed, OpsAt, Ops, Copies, Storing
<1>9. Owned(p)' /\ Transferred(p)'
  BY <1>1, <1>2, <1>4, Known DEF Owned, Transferred
<1>10. Listing(p)'
  BY <1>1, <1>2, <1>4, <1>5, Known DEF Listing, StableSame
<1> QED BY <1>6, <1>7, <1>8, <1>9, <1>10, PassiveKeeps DEF Each
----------------------------------------------------------------------------
(* A download writes the local file, and disturbs the uploads that read it. *)
LEMMA FileFacts ==
  ASSUME NEW p \in Client, Disturb(p, File), objects' = objects, stable' = stable
  PROVE  \A q \in Client \ {p} : PlacesSame(q) /\ StableSame(q)
BY DEF Disturb, PlacesSame, StableSame

LEMMA TruncateKeeps == ASSUME Inv, NEW p \in Client, Truncate(p) PROVE Inv'
<1>1. pc[p] = "truncate" /\ op[p] = "downloadFile" /\ up[p] = None
  BY PointFacts, Known DEF Truncate, At, Owned
<1>2. UNCHANGED <<objects, uploads, alive, up, plan, part, results, op, src, dst, data, original, listed, page, stable,
                  orphaned>>
  BY DEF Truncate, partVars
<1>3. PICK l \in {"get", "err"} : pc' = [pc EXCEPT ![p] = l]
  BY DEF Truncate, Goto
<1>4. pc'[p] = l /\ \A q \in Client \ {p} : Same(q)
  BY <1>2, <1>3 DEF Inv, Shapes, Same
<1>5. file' \in Content /\ \A q \in Client \ {p} : PlacesSame(q) /\ StableSame(q)
  <2>1. CASE file' = << >> /\ Disturb(p, File)
    BY <1>2, <2>1, FileFacts, ContentFacts
  <2>2. CASE UNCHANGED <<file, disturbed>>
    BY <1>2, <2>2 DEF Inv, Shapes, PlacesSame, StableSame
  <2> QED BY <2>1, <2>2 DEF Truncate
<1>6. Shapes'
  BY <1>2, <1>3, <1>5 DEF Inv, Shapes, Points
<1>7. Passive(p)
  BY <1>2, <1>4, <1>5 DEF Passive
<1>8. Belongs(p)' /\ Undisturbed(p)' /\ Owned(p)' /\ Transferred(p)' /\ Listing(p)'
  BY <1>1, <1>2, <1>4, Known DEF Belongs, Undisturbed, Owned, Transferred, Listing, OpsAt, Ops, Copies, Storing
<1> QED BY <1>6, <1>7, <1>8, PassiveKeeps DEF Each

LEMMA GetKeeps == ASSUME Inv, NEW p \in Client, Get(p) PROVE Inv'
<1>1. pc[p] = "get" /\ op[p] \in {"download", "downloadFile"} /\ up[p] = None /\ src[p] \in Key
  <2>1. pc[p] = "get" /\ op[p] \in {"download", "downloadFile"}
    BY PointFacts DEF Get, At
  <2> QED BY <2>1, Known DEF Owned, Belongs
<1>2. UNCHANGED <<objects, uploads, alive, up, plan, part, results, op, src, dst, original, listed, page, stable, orphaned>>
  BY DEF Get, partVars
<1>3. PICK l \in {"ok", "err"}, c \in Content : pc' = [pc EXCEPT ![p] = l] /\ data' = [data EXCEPT ![p] = c]
  <2>1. CASE Goto(p, "err") /\ UNCHANGED data
    <3>1. data[p] \in Content /\ data' = [data EXCEPT ![p] = data[p]]
      BY <2>1 DEF Inv, Shapes
    <3> QED BY <2>1, <3>1 DEF Goto
  <2>2. CASE /\ objects[src[p]] # None
             /\ \E n \in {Len(objects[src[p]]), Len(objects[src[p]]) \div 2} :
                  /\ data' = [data EXCEPT ![p] = SubSeq(objects[src[p]], 1, n)]
                  /\ Goto(p, IF n < Len(objects[src[p]]) THEN "err" ELSE "ok")
    <3> DEFINE s == objects[src[p]]
    <3>1. s \in Seq(Data \cup {None})
      BY <1>1, <2>2 DEF Inv, Shapes, Content
    <3>2. PICK n \in {Len(s), Len(s) \div 2} :
            data' = [data EXCEPT ![p] = SubSeq(s, 1, n)] /\ Goto(p, IF n < Len(s) THEN "err" ELSE "ok")
      BY <2>2
    <3> HIDE DEF s
    <3>3. n \in Nat /\ n <= Len(s)
      <4>1. Len(s) \in Nat
        BY <3>1
      <4> QED BY <4>1
    <3>4. SubSeq(s, 1, n) \in Content
      BY <3>1, <3>3 DEF Content
    <3> QED BY <3>2, <3>4 DEF Goto
  <2> QED BY <2>1, <2>2 DEF Get
<1>4. pc'[p] = l /\ data'[p] = c /\ \A q \in Client \ {p} : Same(q)
  BY <1>2, <1>3 DEF Inv, Shapes, Same
<1>5. file' \in Content /\ \A q \in Client \ {p} : PlacesSame(q) /\ StableSame(q)
  <2>1. CASE file' = data'[p] /\ Disturb(p, File)
    BY <1>2, <1>4, <2>1, FileFacts
  <2>2. CASE UNCHANGED <<file, disturbed>>
    BY <1>2, <2>2 DEF Inv, Shapes, PlacesSame, StableSame
  <2> QED BY <2>1, <2>2 DEF Get
<1>6. Shapes'
  BY <1>2, <1>3, <1>5 DEF Inv, Shapes, Points
<1>7. Passive(p)
  BY <1>2, <1>4, <1>5 DEF Passive
<1>8. Belongs(p)' /\ Undisturbed(p)' /\ Owned(p)' /\ Transferred(p)' /\ Listing(p)'
  BY <1>1, <1>2, <1>4, Known DEF Belongs, Undisturbed, Owned, Transferred, Listing, OpsAt, Ops, Copies, Storing
<1> QED BY <1>6, <1>7, <1>8, PassiveKeeps DEF Each

(* A call that is over leaves nothing behind but an upload that is         *)
(* finished, or orphaned.                                                  *)
LEMMA ReturnKeeps == ASSUME Inv, NEW p \in Client, Return(p) PROVE Inv'
<1>1. pc[p] \in {"ok", "err"}
  BY DEF Return
<1>2. UNCHANGED <<objects, uploads, alive, plan, part, results, file, orphaned>>
  BY DEF Return, partVars
<1>3. /\ pc' = [pc EXCEPT ![p] = "idle"] /\ op' = [op EXCEPT ![p] = "none"] /\ up' = [up EXCEPT ![p] = None]
      /\ src' = [src EXCEPT ![p] = None] /\ dst' = [dst EXCEPT ![p] = None]
      /\ data' = [data EXCEPT ![p] = << >>] /\ original' = [original EXCEPT ![p] = None]
      /\ listed' = [listed EXCEPT ![p] = << >>] /\ page' = [page EXCEPT ![p] = NoPage]
      /\ stable' = [stable EXCEPT ![p] = {}] /\ disturbed' = disturbed \ {p}
  BY DEF Return, Goto
<1>4. /\ pc'[p] = "idle" /\ op'[p] = "none" /\ up'[p] = None /\ listed'[p] = << >> /\ page'[p] = NoPage /\ stable'[p] = {}
      /\ \A q \in Client \ {p} : Same(q) /\ PlacesSame(q) /\ StableSame(q)
  BY <1>2, <1>3 DEF Inv, Shapes, Same, PlacesSame, StableSame
<1>5. Shapes'
  <2>1. NoPage \in PageState /\ << >> \in Content
    BY ContentFacts DEF NoPage, PageState
  <2> QED BY <1>2, <1>3, <2>1 DEF Inv, Shapes, Points
<1>6. Each(p)'
  BY <1>4 DEF Each, Belongs, Undisturbed, Owned, Transferred, Listing, OpsAt, Copies, Storing
<1>7. ASSUME NEW q \in Client, q # p PROVE Each(q)'
  <2>1. Each(q) /\ Same(q) /\ PlacesSame(q) /\ StableSame(q)
    BY <1>4, <1>7 DEF Inv
  <2>2. orphaned \subseteq orphaned'
    BY <1>2
  <2>3. up[q] # None => UploadSame(up[q]) /\ \A r \in Client \ {q} : up'[r] # up[q]
    <3> SUFFICES ASSUME up[q] # None PROVE UploadSame(up[q]) /\ \A r \in Client \ {q} : up'[r] # up[q]
      OBVIOUS
    <3>1. UploadSame(up[q])
      BY <1>2 DEF UploadSame
    <3>2. \A r \in Client \ {q} : up'[r] # up[q]
      BY <1>4, <2>1 DEF Each, Owned, Same
    <3> QED BY <3>1, <3>2
  <2> QED BY <2>1, <2>2, <2>3, OtherKeeps
<1>8. ASSUME NEW u \in UploadId PROVE Unstarted(u)' /\ Sized(u)'
  BY <1>2 DEF Inv, Unstarted, Sized
<1>9. LeftOpenOnlyIfOrphaned'
  <2> SUFFICES ASSUME NEW u \in UploadId, uploads[u].state = "open", \A q \in Client : up'[q] # u PROVE u \in orphaned
    BY <1>2 DEF LeftOpenOnlyIfOrphaned
  <2>1. CASE up[p] = u
    <3>1. u # None
      BY ContentFacts
    <3> QED BY <1>1, <2>1, <3>1, Known DEF Owned
  <2>2. CASE up[p] # u
    <3>1. \A q \in Client : up[q] # u
      BY <1>4, <2>2 DEF Same
    <3> QED BY <3>1 DEF Inv, LeftOpenOnlyIfOrphaned
  <2> QED BY <2>1, <2>2
<1>10. PanicOnlyAfterFileChanged'
  BY <1>2 DEF Inv, PanicOnlyAfterFileChanged
<1> QED BY <1>5, <1>6, <1>7, <1>8, <1>9, <1>10 DEF Inv
----------------------------------------------------------------------------
(* A step on an upload that is not about objects or the file.              *)
LEMMA ElsewhereFacts ==
  ASSUME Inv, NEW p \in Client, UNCHANGED <<objects, file, stable, disturbed>>
  PROVE  /\ \A q \in Client : PlacesSame(q) /\ StableSame(q)
         /\ Listing(p) /\ Same(p) => Listing(p)'
<1>1. \A q \in Client : PlacesSame(q) /\ StableSame(q)
  BY DEF PlacesSame, StableSame
<1>2. Listing(p) /\ Same(p) => Listing(p)'
  BY DEF Listing, Elements, Same
<1> QED BY <1>1, <1>2

(* The records of an upload.                                               *)
LEMMA UploadFacts ==
  ASSUME Inv, NEW u \in UploadId
  PROVE  /\ uploads[u] \in UploadState /\ plan[u] \in PlanState /\ part[u] \in Seq(PartPoints) /\ results[u] \in Seq(Result)
         /\ plan[u].size \in Nat /\ plan[u].data \in Content /\ plan[u].from \in Key \cup {None}
         /\ \A i \in DOMAIN uploads[u].parts : uploads[u].parts[i] \in Content
         /\ \A s \in {"unused", "open", "completed", "aborted"} :
              /\ [uploads[u] EXCEPT !.state = s] \in UploadState /\ [uploads[u] EXCEPT !.state = s].state = s
              /\ [uploads[u] EXCEPT !.state = s].parts = uploads[u].parts
              /\ [uploads EXCEPT ![u].state = s] = [uploads EXCEPT ![u] = [uploads[u] EXCEPT !.state = s]]
<1>1. uploads[u] \in UploadState /\ plan[u] \in PlanState /\ part[u] \in Seq(PartPoints) /\ results[u] \in Seq(Result)
  BY DEF Inv, Shapes
<1>2. uploads \in [UploadId -> UploadState]
  BY DEF Inv, Shapes
<1>3. plan[u].size \in Nat /\ plan[u].data \in Content /\ plan[u].from \in Key \cup {None}
  BY <1>1 DEF PlanState
<1>4. ASSUME NEW i \in DOMAIN uploads[u].parts PROVE uploads[u].parts[i] \in Content
  <2>1. uploads[u].parts \in Parts
    BY <1>1 DEF UploadState
  <2> QED BY <2>1, <1>4 DEF Parts
<1>5. ASSUME NEW s \in {"unused", "open", "completed", "aborted"}
      PROVE  /\ [uploads[u] EXCEPT !.state = s] \in UploadState /\ [uploads[u] EXCEPT !.state = s].state = s
             /\ [uploads[u] EXCEPT !.state = s].parts = uploads[u].parts
  BY <1>1 DEF UploadState
<1>6. \A s : [uploads EXCEPT ![u].state = s] = [uploads EXCEPT ![u] = [uploads[u] EXCEPT !.state = s]]
  BY <1>2
<1> QED BY <1>1, <1>3, <1>4, <1>5, <1>6

LEMMA NewUploadFacts ==
  ASSUME NEW k \in Key \cup {None}
  PROVE  NewUpload(k) \in UploadState /\ NewUpload(k).state = "open"
<1>1. << >> \in Parts
  <2>1. << >> \in [{} -> Content] /\ {} \in SUBSET (Nat \ {0})
    OBVIOUS
  <2> QED BY <2>1 DEF Parts
<1> QED BY <1>1 DEF NewUpload, UploadState

LEMMA CreateUploadKeeps == ASSUME Inv, NEW p \in Client, CreateUpload(p) PROVE Inv'
<1>1. pc[p] = "create" /\ op[p] \in {"upload", "uploadFile", "copy", "move"} /\ up[p] = None /\ dst[p] \in Key /\ alive
  <2>1. pc[p] = "create" /\ alive /\ op[p] \in {"upload", "uploadFile", "copy", "move"}
    BY PointFacts DEF CreateUpload, At
  <2> QED BY <2>1, Known DEF Owned, Belongs, Copies
<1>2. UNCHANGED <<objects, alive, plan, part, results, op, src, dst, data, original, file, listed, page, stable, disturbed>>
  BY DEF CreateUpload, partVars
<1>3. \A q \in Client : PlacesSame(q) /\ StableSame(q)
  BY <1>2, ElsewhereFacts
<1>4. PICK l \in {"err", "read", "start"} :
        /\ pc' = [pc EXCEPT ![p] = l] /\ (l = "read" => op[p] = "uploadFile") /\ (l = "start" => op[p] # "uploadFile")
        /\ \/ l = "err" /\ UNCHANGED <<uploads, up, orphaned>>
           \/ \E u \in UploadId :
                /\ uploads[u].state = "unused" /\ uploads' = [uploads EXCEPT ![u] = NewUpload(dst[p])]
                /\ \/ l = "err" /\ up' = [up EXCEPT ![p] = None] /\ orphaned' = orphaned \cup {u}
                   \/ l # "err" /\ up' = [up EXCEPT ![p] = u] /\ orphaned' = orphaned
  <2>1. PICK r \in {"ok", "refused", "lost"} :
       \/ /\ r = "refused" /\ Goto(p, "err")
          /\ UNCHANGED <<uploads, up, orphaned>>
       \/ /\ r # "refused"
          /\ \E u \in UploadId :
               /\ uploads[u].state = "unused"
               /\ uploads' = [uploads EXCEPT ![u] = NewUpload(dst[p])]
               /\ up' = [up EXCEPT ![p] = IF r = "ok" THEN u ELSE None]
               /\ orphaned' = IF r = "ok" THEN orphaned ELSE orphaned \cup {u}
          /\ Goto(p, IF r = "lost" THEN "err" ELSE IF op[p] = "uploadFile" THEN "read" ELSE "start")
    BY DEF CreateUpload, Outcomes, Outcome
  <2>2. CASE r = "refused"
    BY <2>1, <2>2 DEF Goto
  <2>3. CASE r = "ok"
    BY <2>1, <2>3 DEF Goto
  <2>4. CASE r = "lost"
    BY <2>1, <2>4 DEF Goto
  <2> QED BY <2>2, <2>3, <2>4
<1>5. pc'[p] = l
  BY <1>4 DEF Inv, Shapes
<1>6. Belongs(p)'
  BY <1>1, <1>2, <1>4, <1>5, Known DEF Belongs, OpsAt, Ops, Sends, Copies
<1>7. Undisturbed(p)'
  BY <1>1, <1>2, <1>4, <1>5, Known DEF Undisturbed, Copies, Storing
<1>8. Transferred(p)' /\ Listing(p)'
  BY <1>1, <1>2, <1>4, <1>5, Known DEF Transferred, Listing, Copies
<1>9. CASE l = "err" /\ UNCHANGED <<uploads, up, orphaned>>
  <2>1. Shapes'
    BY <1>2, <1>4, <1>9 DEF Inv, Shapes, Points
  <2>2. Passive(p)
    BY <1>2, <1>3, <1>4, <1>9 DEF Passive, Same, Inv, Shapes
  <2>3. Owned(p)'
    BY <1>1, <1>5, <1>9 DEF Owned
  <2> QED BY <1>6, <1>7, <1>8, <2>1, <2>2, <2>3, PassiveKeeps DEF Each
<1>10. ASSUME NEW u \in UploadId, uploads[u].state = "unused", uploads' = [uploads EXCEPT ![u] = NewUpload(dst[p])],
              \/ l = "err" /\ up' = [up EXCEPT ![p] = None] /\ orphaned' = orphaned \cup {u}
              \/ l # "err" /\ up' = [up EXCEPT ![p] = u] /\ orphaned' = orphaned
       PROVE  Inv'
  <2>1. uploads' \in [UploadId -> UploadState] /\ uploads'[u].state = "open" /\ \A v \in UploadId \ {u} : uploads'[v] = uploads[v]
    BY <1>1, <1>10, NewUploadFacts DEF Inv, Shapes
  <2>2. up' \in [Client -> UploadId \cup {None}] /\ (\A q \in Client \ {p} : up'[q] = up[q])
        /\ up'[p] = IF l = "err" THEN None ELSE u
    BY <1>10 DEF Inv, Shapes
  <2>3. Shapes'
    BY <1>2, <1>4, <2>1, <2>2 DEF Inv, Shapes, Points
  <2>4. \A q \in Client : up[q] # u
    <3>1. u # None
      BY ContentFacts
    <3> QED BY <1>10, <3>1 DEF Inv, Each, Owned
  <2>5. Active(p, u)
    <3>1. \A q \in Client \ {p} : Same(q)
      BY <1>2, <1>4, <2>2 DEF Same, Inv, Shapes
    <3>2. \A v \in UploadId \ {u} : UploadSame(v)
      BY <1>2, <2>1 DEF UploadSame
    <3>3. orphaned \subseteq orphaned' /\ (l = "err" => u \in orphaned')
      BY <1>10
    <3> QED BY <1>1, <1>2, <1>3, <2>2, <2>4, <3>1, <3>2, <3>3 DEF Active
  <2>6. part[u] = << >> /\ results[u] = << >>
    BY <1>10 DEF Inv, Unstarted
  <2>7. Owned(p)'
    <3>1. CASE l = "err"
      BY <1>5, <2>2, <3>1 DEF Owned
    <3>2. CASE l # "err"
      <4>1. up'[p] = u /\ u # None /\ (\A q \in Client \ {p} : up'[q] # u) /\ l \in {"read", "start"}
        BY <1>4, <2>2, <2>4, <3>2, ContentFacts
      <4>2. uploads'[u].state # "unused" /\ part'[u] = << >> /\ results'[u] = << >>
        BY <1>2, <2>1, <2>6
      <4> QED BY <1>5, <4>1, <4>2 DEF Owned
    <3> QED BY <3>1, <3>2
  <2>8. Unstarted(u)' /\ Sized(u)'
    BY <1>2, <2>1, <2>6 DEF Unstarted, Sized, Inv
  <2> QED BY <1>6, <1>7, <1>8, <2>3, <2>5, <2>7, <2>8, ActiveKeeps DEF Each
<1> QED BY <1>4, <1>9, <1>10

(* The parts of an upload are started.                                     *)
LEMMA StartKeeps ==
  ASSUME Inv, NEW p \in Client, At(p, "start"), NEW w \in PlanState,
         w.from = IF op[p] \in Copies THEN src[p] ELSE None,
         p \notin disturbed => w.size = Len(original[p]) /\ (w.from = None => w.data = original[p]),
         w.moved \/ w.from # None \/ w.size = Len(w.data),
         plan' = [plan EXCEPT ![up[p]] = w], part' = [part EXCEPT ![up[p]] = [i \in 1..CalculateParts(w.size) |-> "waiting"]],
         pc' = [pc EXCEPT ![p] = "collect"],
         UNCHANGED <<objects, uploads, alive, up, results, op, src, dst, data, original, file, listed, page, stable,
                     disturbed, orphaned>>
  PROVE  Inv'
<1>1. PICK u \in UploadId : u = up[p]
  BY Known DEF At, Owned
<1>2. /\ pc[p] = "start" /\ alive /\ results[u] = << >> /\ uploads[u].state # "unused"
      /\ op[p] \in {"upload", "uploadFile", "copy", "move"}
      /\ \A q \in Client \ {p} : up[q] # u
  <2>1. pc[p] = "start" /\ alive
    BY DEF At
  <2> QED BY <1>1, <2>1, Known, PointFacts DEF Owned
<1> DEFINE n == CalculateParts(w.size)
           s == [i \in 1..n |-> "waiting"]
<1>3. n \in Nat
  <2>1. w.size \in Nat
    BY DEF PlanState
  <2> QED BY <2>1, PartRanges
<1>4. s \in Seq(PartPoints) /\ Len(s) = n /\ \A i \in DOMAIN s : s[i] = "waiting"
  <2> HIDE DEF n
  <2> QED BY <1>3 DEF PartPoints
<1> HIDE DEF n, s
<1>5. part' = [part EXCEPT ![u] = s] /\ plan' = [plan EXCEPT ![u] = w]
  BY <1>1 DEF s, n
<1>6. /\ plan'[u] = w /\ part'[u] = s /\ pc'[p] = "collect"
      /\ \A v \in UploadId \ {u} : plan'[v] = plan[v] /\ part'[v] = part[v]
  BY <1>5 DEF Inv, Shapes
<1>7. Shapes'
  <2>1. part' \in [UploadId -> Seq(PartPoints)]
    BY <1>4, <1>5 DEF Inv, Shapes
  <2>2. plan' \in [UploadId -> PlanState]
    BY <1>5 DEF Inv, Shapes
  <2>3. pc' \in [Client -> Points]
    BY DEF Inv, Shapes, Points
  <2> QED BY <2>1, <2>2, <2>3 DEF Inv, Shapes
<1>8. Active(p, u)
  <2>1. \A q \in Client \ {p} : Same(q) /\ PlacesSame(q) /\ StableSame(q)
    BY ElsewhereFacts DEF Same, Inv, Shapes
  <2>2. \A v \in UploadId \ {u} : UploadSame(v)
    BY <1>6 DEF UploadSame
  <2> QED BY <1>1, <1>2, <2>1, <2>2 DEF Active
<1>9. Belongs(p)'
  BY <1>2, <1>6, Known DEF Belongs, OpsAt, Ops, Sends, Copies
<1>10. Undisturbed(p)'
  BY <1>2, <1>6, Known DEF Undisturbed, Copies, Storing
<1>11. Owned(p)'
  BY <1>1, <1>2, <1>6, Known DEF Owned
<1>12. Transferred(p)'
  <2>1. \A i \in DOMAIN s : s[i] # "good" /\ s[i] # "done"
    BY <1>4
  <2> QED BY <1>1, <1>4, <1>6, <2>1 DEF Transferred, CalculateParts, n
<1>13. Listing(p)'
  BY <1>2, <1>6, Known DEF Listing, Elements
<1>14. Unstarted(u)' /\ Sized(u)'
  BY <1>2, <1>6 DEF Unstarted, Sized
<1> QED BY <1>7, <1>8, <1>9, <1>10, <1>11, <1>12, <1>13, <1>14, ActiveKeeps DEF Each

LEMMA StartUploadPartsKeeps == ASSUME Inv, NEW p \in Client, StartUploadParts(p) PROVE Inv'
<1>1. At(p, "start") /\ op[p] \in {"upload", "uploadFile"} /\ pc[p] = "start"
  BY DEF StartUploadParts, At
<1>2. data[p] \in Content /\ original[p] \in Content /\ op[p] \notin Copies
  BY <1>1, Known DEF Belongs, Copies
<1>3. p \notin disturbed => data[p] = original[p]
  BY <1>1, Known DEF Belongs, Undisturbed
<1> DEFINE w == [size |-> Len(original[p]), data |-> data[p], from |-> None, moved |-> data[p] # original[p]]
<1>4. Len(original[p]) \in Nat
  BY <1>2 DEF Content
<1>5. w \in PlanState /\ w.from = None /\ w.size = Len(original[p]) /\ w.data = data[p] /\ (w.moved <=> data[p] # original[p])
  BY <1>2, <1>4 DEF PlanState
<1>6. /\ plan' = [plan EXCEPT ![up[p]] = w] /\ part' = [part EXCEPT ![up[p]] = [i \in 1..CalculateParts(w.size) |-> "waiting"]]
      /\ pc' = [pc EXCEPT ![p] = "collect"]
      /\ UNCHANGED <<objects, uploads, alive, up, results, op, src, dst, data, original, file, listed, page, stable,
                     disturbed, orphaned>>
  BY DEF StartUploadParts, StartParts, Goto, callVars
<1> HIDE DEF w
<1> QED BY <1>1, <1>2, <1>3, <1>5, <1>6, StartKeeps

LEMMA StartCopyPartsKeeps == ASSUME Inv, NEW p \in Client, StartCopyParts(p) PROVE Inv'
<1>1. At(p, "start") /\ op[p] \in Copies /\ pc[p] = "start"
  BY DEF StartCopyParts, At, Copies
<1>2. data[p] \in Content /\ src[p] \in Key /\ src[p] # None
  BY <1>1, Known, ContentFacts DEF Belongs
<1>3. p \notin disturbed => data[p] = original[p]
  BY <1>1, Known DEF Undisturbed
<1> DEFINE w == [size |-> Len(data[p]), data |-> << >>, from |-> src[p], moved |-> FALSE]
<1>4. Len(data[p]) \in Nat
  BY <1>2 DEF Content
<1>5. w \in PlanState /\ w.from = src[p] /\ w.size = Len(data[p])
  BY <1>2, <1>4, ContentFacts DEF PlanState
<1>6. /\ plan' = [plan EXCEPT ![up[p]] = w] /\ part' = [part EXCEPT ![up[p]] = [i \in 1..CalculateParts(w.size) |-> "waiting"]]
      /\ pc' = [pc EXCEPT ![p] = "collect"]
      /\ UNCHANGED <<objects, uploads, alive, up, results, op, src, dst, data, original, file, listed, page, stable,
                     disturbed, orphaned>>
  BY DEF StartCopyParts, StartParts, Goto, callVars
<1> HIDE DEF w
<1> QED BY <1>1, <1>2, <1>3, <1>5, <1>6, StartKeeps
----------------------------------------------------------------------------
(* The client reads the results, and completes its upload or aborts it.    *)
LEMMA TailFacts ==
  ASSUME NEW S, NEW s \in Seq(S), s # << >>
  PROVE  /\ Tail(s) \in Seq(S) /\ 1 \in DOMAIN s /\ s[1] \in S
         /\ \A i \in DOMAIN s : i # 1 => i - 1 \in DOMAIN Tail(s) /\ Tail(s)[i - 1] = s[i]
OBVIOUS

LEMMA CollectKeeps == ASSUME Inv, NEW p \in Client, Collect(p) PROVE Inv'
<1>1. PICK u \in UploadId : u = up[p]
  BY Known DEF Collect, At, Owned
<1>2. /\ pc[p] = "collect" /\ alive /\ uploads[u].state # "unused"
      /\ op[p] \in {"upload", "uploadFile", "copy", "move"}
      /\ \A q \in Client \ {p} : up[q] # u
  <2>1. pc[p] = "collect" /\ alive
    BY DEF Collect, At
  <2> QED BY <1>1, <2>1, Known, PointFacts DEF Owned
<1>3. UNCHANGED <<objects, uploads, alive, up, plan, part, op, src, dst, data, original, file, listed, page, stable,
                  disturbed, orphaned>>
  BY DEF Collect, callVars
<1>4. PICK l \in {"collect", "abort", "complete"} : pc' = [pc EXCEPT ![p] = l]
        /\ \/ /\ results[u] # << >> /\ results' = [results EXCEPT ![u] = Tail(@)]
              /\ l = IF results[u][1].ok THEN "collect" ELSE "abort"
           \/ results[u] = << >> /\ AllDone(u) /\ l = "complete" /\ results' = results
  BY <1>1 DEF Collect, Goto
<1>5. pc'[p] = l
  BY <1>4 DEF Inv, Shapes
<1>6. results[u] \in Seq(Result)
  BY DEF Inv, Shapes
<1>7. results' \in [UploadId -> Seq(Result)] /\ \A v \in UploadId \ {u} : results'[v] = results[v]
  <2>1. CASE results' = results
    BY <2>1 DEF Inv, Shapes
  <2>2. CASE results[u] # << >> /\ results' = [results EXCEPT ![u] = Tail(@)]
    <3>1. Tail(results[u]) \in Seq(Result)
      BY <1>6, <2>2, TailFacts
    <3> QED BY <2>2, <3>1 DEF Inv, Shapes
  <2> QED BY <1>4, <2>1, <2>2
<1>8. Shapes'
  <2>1. pc' \in [Client -> Points]
    BY <1>4 DEF Inv, Shapes, Points
  <2> QED BY <1>3, <1>7, <2>1 DEF Inv, Shapes
<1>9. Active(p, u)
  <2>1. \A q \in Client \ {p} : Same(q) /\ PlacesSame(q) /\ StableSame(q)
    BY <1>3, <1>4, ElsewhereFacts DEF Same, Inv, Shapes
  <2>2. \A v \in UploadId \ {u} : UploadSame(v)
    BY <1>3, <1>7 DEF UploadSame
  <2> QED BY <1>1, <1>2, <1>3, <2>1, <2>2 DEF Active
<1>10. Belongs(p)'
  BY <1>2, <1>3, <1>5, Known DEF Belongs, OpsAt, Ops, Sends, Copies
<1>11. Undisturbed(p)'
  BY <1>2, <1>3, <1>5, Known DEF Undisturbed, Copies, Storing
<1>12. Owned(p)'
  BY <1>1, <1>2, <1>3, <1>5, Known DEF Owned
<1>13. Transferred(p)'
  <2>1. \A i : Kept(p, i) => Kept(p, i)'
    BY <1>3 DEF Kept, Lowest, Highest
  <2>2. /\ plan[u].from = IF op[p] \in Copies THEN src[p] ELSE None
        /\ p \notin disturbed => plan[u].size = Len(original[p]) /\ (plan[u].from = None => plan[u].data = original[p])
        /\ Len(part[u]) = CalculateParts(plan[u].size)
        /\ \A i \in DOMAIN part[u] :
             /\ part[u][i] = "good" => Kept(p, i)
             /\ part[u][i] = "done" => Kept(p, i) \/ Failed(u, i)
    BY <1>1, <1>2, Known DEF Transferred
  <2>3. l = "collect" => \A i : Failed(u, i) => Failed(u, i)'
    <3> SUFFICES ASSUME l = "collect", NEW i, Failed(u, i) PROVE Failed(u, i)'
      OBVIOUS
    <3>1. results[u] # << >> /\ results[u][1].ok /\ results'[u] = Tail(results[u])
      BY <1>4 DEF Inv, Shapes
    <3>2. PICK j \in DOMAIN results[u] : results[u][j].number = i /\ ~results[u][j].ok
      BY DEF Failed
    <3>3. j # 1
      BY <3>1, <3>2
    <3>4. j - 1 \in DOMAIN Tail(results[u]) /\ Tail(results[u])[j - 1] = results[u][j]
      BY <1>6, <3>1, <3>3, TailFacts
    <3> QED BY <3>1, <3>2, <3>4 DEF Failed
  <2>4. l = "complete" => \A i \in DOMAIN part[u] : Kept(p, i)
    <3> SUFFICES ASSUME l = "complete", NEW i \in DOMAIN part[u] PROVE Kept(p, i)
      OBVIOUS
    <3>1. results[u] = << >> /\ part[u][i] = "done"
      BY <1>4 DEF AllDone
    <3>2. ~Failed(u, i)
      BY <3>1 DEF Failed
    <3> QED BY <2>2, <3>1, <3>2
  <2>5. /\ up'[p] = u /\ plan' = plan /\ part' = part /\ op' = op /\ src' = src /\ original' = original
        /\ disturbed' = disturbed
    BY <1>1, <1>3
  <2>6. CalculateParts(plan[u].size)' = CalculateParts(plan[u].size)
    BY <2>5 DEF CalculateParts
  <2> QED BY <1>5, <2>1, <2>2, <2>3, <2>4, <2>5, <2>6 DEF Transferred
<1>14. Listing(p)'
  BY <1>2, <1>3, <1>5, Known DEF Listing, Elements
<1>15. Unstarted(u)' /\ Sized(u)'
  BY <1>2, <1>3 DEF Unstarted, Sized, Inv
<1> QED BY <1>8, <1>9, <1>10, <1>11, <1>12, <1>13, <1>14, <1>15, ActiveKeeps DEF Each

(* The parts of an upload that is ready to be completed are its source.    *)
LEMMA JoinedFacts ==
  ASSUME Inv, NEW p \in Client, pc[p] = "complete"
  PROVE  /\ Joined(up[p], Len(part[up[p]])) \in Content
         /\ p \notin disturbed => Joined(up[p], Len(part[up[p]])) = original[p]
<1>1. PICK u \in UploadId : u = up[p]
  BY Known DEF Owned
<1>2. /\ p \notin disturbed => plan[u].size = Len(original[p])
      /\ Len(part[u]) = CalculateParts(plan[u].size)
      /\ \A i \in DOMAIN part[u] : Kept(p, i)
  BY <1>1, Known DEF Transferred
<1>3. part[u] \in Seq(PartPoints) /\ \A i \in DOMAIN uploads[u].parts : uploads[u].parts[i] \in Content
  BY UploadFacts
<1> DEFINE n == Len(part[u])
<1>4. n \in Nat /\ DOMAIN part[u] = 1..n
  BY <1>3
<1> HIDE DEF n
<1>5. \A i \in 1..n : uploads[u].parts[i] \in Content
  BY <1>1, <1>2, <1>3, <1>4 DEF Kept
<1>6. /\ Joined(u, n) \in Content
      /\ \A c \in Content :
              n = CalculateParts(Len(c))
                /\ (\A i \in 1..n : uploads[u].parts[i] = SubSeq(c, Lowest(i), Highest(i, Len(c))))
              => Joined(u, n) = c
  BY <1>4, <1>5, JoinedIsContent
<1>7. ASSUME p \notin disturbed PROVE Joined(u, n) = original[p]
  <2>1. original[p] \in Content
    <3>1. op[p] \in Copies => data[p] = original[p] /\ data[p] \in Content
      BY <1>7, Known DEF Undisturbed
    <3>2. op[p] \notin Copies => op[p] \in {"upload", "uploadFile"}
      BY PointFacts DEF Copies
    <3> QED BY <3>1, <3>2, Known DEF Belongs
  <2>2. n = CalculateParts(Len(original[p]))
    BY <1>2, <1>7 DEF n
  <2>3. \A i \in 1..n : uploads[u].parts[i] = SubSeq(original[p], Lowest(i), Highest(i, Len(original[p])))
    BY <1>1, <1>2, <1>4, <1>7 DEF Kept
  <2> QED BY <1>6, <2>1, <2>2, <2>3
<1> QED BY <1>1, <1>6, <1>7 DEF n

LEMMA CompleteUploadKeeps == ASSUME Inv, NEW p \in Client, CompleteUpload(p) PROVE Inv'
<1>1. PICK u \in UploadId : u = up[p]
  BY Known DEF CompleteUpload, At, Owned
<1>2. /\ pc[p] = "complete" /\ alive /\ uploads[u].state # "unused"
      /\ op[p] \in {"upload", "uploadFile", "copy", "move"} /\ dst[p] \in Key
      /\ op[p] \in Copies => src[p] \in Key /\ src[p] # dst[p]
      /\ \A q \in Client \ {p} : up[q] # u
  <2>1. pc[p] = "complete" /\ alive
    BY DEF CompleteUpload, At
  <2>2. op[p] \in {"upload", "uploadFile", "copy", "move"}
    BY <2>1, PointFacts
  <2> QED BY <1>1, <2>1, <2>2, Known DEF Owned, Belongs, Copies
<1>3. UNCHANGED <<alive, up, plan, part, results, op, src, dst, data, original, file, listed, page, orphaned>>
  BY DEF CompleteUpload, partVars
<1> DEFINE c == Joined(u, Len(part[u]))
<1>4. c \in Content /\ (p \notin disturbed => c = original[p])
  BY <1>1, <1>2, JoinedFacts
<1> HIDE DEF c
<1>5. PICK l \in {"ok", "delete", "abort"} :
        /\ pc' = [pc EXCEPT ![p] = l] /\ (l = "ok" => op[p] # "move") /\ (l = "delete" => op[p] = "move")
        /\ \/ Untouched /\ UNCHANGED uploads /\ l = "abort"
           \/ Store(p, dst[p], c) /\ uploads' = [uploads EXCEPT ![u].state = "completed"]
  <2>1. PICK r \in {"ok", "refused", "lost"} :
          /\ IF r = "refused" THEN Untouched /\ UNCHANGED uploads
             ELSE /\ Store(p, dst[p], Joined(up[p], Len(part[up[p]])))
                  /\ uploads' = [uploads EXCEPT ![up[p]].state = "completed"]
          /\ Goto(p, IF r = "ok" THEN Copied(p, TRUE) ELSE "abort")
    BY DEF CompleteUpload, Outcomes, Outcome
  <2>2. CASE r = "refused"
    BY <2>1, <2>2 DEF Goto
  <2>3. CASE r = "ok"
    BY <1>1, <2>1, <2>3, CopiedFacts DEF Goto, c
  <2>4. CASE r = "lost"
    BY <1>1, <2>1, <2>4 DEF Goto, c
  <2> QED BY <2>2, <2>3, <2>4
<1>6. pc'[p] = l /\ \A q \in Client \ {p} : Same(q)
  BY <1>3, <1>5 DEF Inv, Shapes, Same
<1>7. op[p] \in Copies /\ p \notin disturbed => objects[src[p]] = original[p]
  BY <1>2, Known DEF Undisturbed
<1>8. CASE Untouched /\ UNCHANGED uploads /\ l = "abort"
  <2>1. /\ objects' = objects /\ stable' = stable /\ disturbed' = disturbed
        /\ \A q \in Client \ {p} : PlacesSame(q) /\ StableSame(q)
    BY <1>3, <1>6, <1>8, UntouchedFacts
  <2>2. Shapes'
    BY <1>3, <1>5, <1>8, <2>1 DEF Inv, Shapes, Points
  <2>3. Passive(p)
    BY <1>3, <1>6, <1>8, <2>1 DEF Passive
  <2>4. Belongs(p)'
    BY <1>2, <1>3, <1>6, <1>8, Known DEF Belongs, OpsAt, Ops, Sends, Copies
  <2>5. Undisturbed(p)'
    BY <1>2, <1>3, <1>6, <1>7, <1>8, <2>1 DEF Undisturbed, Copies, Storing
  <2>6. Owned(p)' /\ Transferred(p)' /\ Listing(p)'
    BY <1>1, <1>2, <1>3, <1>6, <1>8, <2>1, Known DEF Owned, Transferred, Listing
  <2> QED BY <2>2, <2>3, <2>4, <2>5, <2>6, PassiveKeeps DEF Each
<1>9. CASE Store(p, dst[p], c) /\ uploads' = [uploads EXCEPT ![u].state = "completed"]
  <2>1. /\ objects' \in [Key -> Content \cup {None}] /\ objects'[dst[p]] = c /\ \A j \in Key \ {dst[p]} : objects'[j] = objects[j]
        /\ stable' = stable /\ (p \in disturbed' <=> p \in disturbed)
        /\ \A q \in Client \ {p} : PlacesSame(q) /\ StableSame(q)
        /\ StableSame(p)
    BY <1>2, <1>3, <1>4, <1>6, <1>9, StoreFacts
  <2>2. /\ uploads' \in [UploadId -> UploadState] /\ uploads'[u].state = "completed"
        /\ \A v \in UploadId \ {u} : uploads'[v] = uploads[v]
    <3> DEFINE new == [uploads[u] EXCEPT !.state = "completed"]
    <3>1. new \in UploadState /\ new.state = "completed" /\ uploads' = [uploads EXCEPT ![u] = new]
      BY <1>9, UploadFacts
    <3> HIDE DEF new
    <3>2. uploads \in [UploadId -> UploadState]
      BY DEF Inv, Shapes
    <3> QED BY <3>1, <3>2
  <2>3. Shapes'
    BY <1>3, <1>5, <2>1, <2>2 DEF Inv, Shapes, Points
  <2>4. Active(p, u)
    <3>1. \A v \in UploadId \ {u} : UploadSame(v)
      BY <1>3, <2>2 DEF UploadSame
    <3> QED BY <1>1, <1>2, <1>3, <1>6, <2>1, <2>2, <3>1 DEF Active
  <2>5. Belongs(p)'
    BY <1>2, <1>3, <1>5, <1>6, Known DEF Belongs, OpsAt, Ops, Sends, Copies
  <2>6. Undisturbed(p)'
    <3>1. p \notin disturbed' => objects'[dst[p]] = original[p]
      BY <1>4, <2>1
    <3>2. op[p] \in Copies /\ p \notin disturbed' => objects'[src[p]] = original[p]
      BY <1>2, <1>7, <2>1
    <3> QED BY <1>2, <1>3, <1>5, <1>6, <3>1, <3>2 DEF Undisturbed, Copies, Storing
  <2>7. Owned(p)'
    BY <1>1, <1>2, <1>3, <1>6, <2>2, Known DEF Owned
  <2>8. Transferred(p)' /\ Listing(p)'
    BY <1>2, <1>3, <1>6, <2>1, Known DEF Transferred, Listing, StableSame
  <2>9. Unstarted(u)' /\ Sized(u)'
    BY <1>3, <2>2 DEF Unstarted, Sized, Inv
  <2> QED BY <2>3, <2>4, <2>5, <2>6, <2>7, <2>8, <2>9, ActiveKeeps DEF Each
<1> QED BY <1>5, <1>8, <1>9

LEMMA AbortKeeps == ASSUME Inv, NEW p \in Client, Abort(p) PROVE Inv'
<1>1. PICK u \in UploadId : u = up[p]
  BY Known DEF Abort, At, Owned
<1>2. /\ pc[p] = "abort" /\ alive /\ uploads[u].state # "unused"
      /\ op[p] \in {"upload", "uploadFile", "copy", "move"}
      /\ \A q \in Client \ {p} : up[q] # u
  <2>1. pc[p] = "abort" /\ alive
    BY DEF Abort, At
  <2> QED BY <1>1, <2>1, Known, PointFacts DEF Owned
<1>3. UNCHANGED <<objects, alive, up, plan, part, results, op, src, dst, data, original, file, listed, page, stable,
                  disturbed>>
  BY DEF Abort, partVars
<1>4. pc' = [pc EXCEPT ![p] = "err"] /\ pc'[p] = "err"
  BY DEF Abort, Goto, Inv, Shapes
<1>5. /\ uploads' \in [UploadId -> UploadState] /\ \A v \in UploadId \ {u} : uploads'[v] = uploads[v]
      /\ uploads'[u].state # "unused" /\ (uploads'[u].state # "open" \/ u \in orphaned') /\ orphaned \subseteq orphaned'
  <2>1. uploads \in [UploadId -> UploadState]
    BY DEF Inv, Shapes
  <2>2. \/ uploads' = uploads /\ orphaned' = orphaned \cup {u}
        \/ AbortUpload(u) /\ orphaned' = orphaned
    BY <1>1 DEF Abort
  <2>3. CASE uploads' = uploads /\ orphaned' = orphaned \cup {u}
    BY <1>2, <2>1, <2>3
  <2>4. CASE AbortUpload(u) /\ orphaned' = orphaned /\ uploads[u].state # "open"
    BY <1>2, <2>1, <2>4 DEF AbortUpload
  <2>5. CASE AbortUpload(u) /\ orphaned' = orphaned /\ uploads[u].state = "open"
    <3> DEFINE new == [uploads[u] EXCEPT !.state = "aborted"]
    <3>1. uploads' = [uploads EXCEPT ![u].state = "aborted"]
      BY <2>5 DEF AbortUpload
    <3>2. new \in UploadState /\ new.state = "aborted" /\ uploads' = [uploads EXCEPT ![u] = new]
      BY <3>1, UploadFacts
    <3> HIDE DEF new
    <3> QED BY <2>1, <2>5, <3>2
  <2> QED BY <2>2, <2>3, <2>4, <2>5
<1>6. Shapes'
  BY <1>3, <1>4, <1>5 DEF Inv, Shapes, Points
<1>7. Active(p, u)
  <2>1. \A q \in Client \ {p} : Same(q) /\ PlacesSame(q) /\ StableSame(q)
    BY <1>3, <1>4, ElsewhereFacts DEF Same, Inv, Shapes
  <2>2. \A v \in UploadId \ {u} : UploadSame(v)
    BY <1>3, <1>5 DEF UploadSame
  <2> QED BY <1>1, <1>2, <1>3, <1>5, <2>1, <2>2 DEF Active
<1>8. Belongs(p)'
  BY <1>2, <1>3, <1>4, Known DEF Belongs, OpsAt, Ops, Sends, Copies
<1>9. Undisturbed(p)'
  BY <1>2, <1>3, <1>4, Known DEF Undisturbed, Copies, Storing
<1>10. Owned(p)'
  BY <1>1, <1>2, <1>3, <1>4, <1>5 DEF Owned
<1>11. Transferred(p)' /\ Listing(p)'
  BY <1>2, <1>3, <1>4, Known DEF Transferred, Listing, Elements
<1>12. Unstarted(u)' /\ Sized(u)'
  BY <1>3, <1>5 DEF Unstarted, Sized, Inv
<1> QED BY <1>6, <1>7, <1>8, <1>9, <1>10, <1>11, <1>12, ActiveKeeps DEF Each
----------------------------------------------------------------------------
(* A step of the goroutine of part i of upload u.                          *)
Moving(u, i) ==
  /\ UNCHANGED <<objects, pc, up, plan, op, src, dst, data, original, file, listed, page, stable, disturbed, orphaned>>
  /\ alive /\ i \in DOMAIN part[u] /\ uploads'[u].state = uploads[u].state
  /\ \A v \in UploadId \ {u} : UploadSame(v)
  /\ DOMAIN part'[u] = DOMAIN part[u] /\ Len(part'[u]) = Len(part[u])
  /\ \A j \in DOMAIN part[u] \ {i} : part'[u][j] = part[u][j]
  /\ \A j : Failed(u, j) => Failed(u, j)'

(* What the step owes to the call that runs the upload.                    *)
Owed(u, i) ==
  \A p \in Client : up[p] = u /\ pc[p] \in {"collect", "complete"} =>
    /\ \A j : Kept(p, j) => Kept(p, j)'
    /\ pc[p] = "collect" /\ part'[u][i] = "good" => Kept(p, i)'
    /\ pc[p] = "collect" /\ part'[u][i] = "done" => Kept(p, i)' \/ Failed(u, i)'

LEMMA MovingKeeps ==
  ASSUME Inv, NEW u \in UploadId, NEW i, Moving(u, i), Shapes', ~alive' => plan[u].moved, Owed(u, i)
  PROVE  Inv'
<1>1. \A q \in Client : Same(q) /\ PlacesSame(q) /\ StableSame(q)
  BY DEF Moving, Same, PlacesSame, StableSame
<1>2. part[u] # << >>
  BY DEF Moving
<1>3. ASSUME NEW q \in Client PROVE Each(q)'
  <2>1. Each(q) /\ Same(q) /\ PlacesSame(q) /\ StableSame(q)
    BY <1>1 DEF Inv
  <2>2. orphaned \subseteq orphaned' /\ up' = up /\ UNCHANGED <<objects, file, stable, disturbed>>
    BY DEF Moving
  <2>3. CASE up[q] # u
    <3>1. up[q] # None => UploadSame(up[q])
      BY <2>3 DEF Inv, Shapes, Moving
    <3>2. up[q] # None => \A r \in Client \ {q} : up'[r] # up[q]
      BY <2>1, <2>2 DEF Each, Owned
    <3> QED BY <2>1, <2>2, <3>1, <3>2, OtherKeeps
  <2>4. CASE up[q] = u
    <3>1. u # None
      BY ContentFacts
    <3>2. pc[q] \notin {"read", "start"}
      BY <1>2, <2>1, <2>4, <3>1 DEF Each, Owned
    <3>3. UNCHANGED <<pc, plan, op, src, dst, data, original, listed, page, orphaned>>
          /\ uploads'[u].state = uploads[u].state
      BY DEF Moving
    <3>4. Belongs(q)' /\ Undisturbed(q)'
      BY <2>1, <2>2, <3>3 DEF Each, Belongs, Undisturbed
    <3>5. Owned(q)'
      BY <2>1, <2>2, <2>4, <3>2, <3>3 DEF Each, Owned
    <3>6. Transferred(q)'
      <4>1. CASE pc[q] = "collect"
        <5>1. /\ \A j : Kept(q, j) => Kept(q, j)'
              /\ part'[u][i] = "good" => Kept(q, i)'
              /\ part'[u][i] = "done" => Kept(q, i)' \/ Failed(u, i)'
          BY <2>4, <4>1 DEF Owed
        <5>2. /\ DOMAIN part'[u] = DOMAIN part[u] /\ Len(part'[u]) = Len(part[u])
              /\ \A j \in DOMAIN part[u] \ {i} : part'[u][j] = part[u][j]
              /\ \A j : Failed(u, j) => Failed(u, j)'
          BY DEF Moving
        <5>3. ASSUME NEW j \in DOMAIN part'[u]
              PROVE  /\ part'[u][j] = "good" => Kept(q, j)'
                     /\ part'[u][j] = "done" => Kept(q, j)' \/ Failed(u, j)'
          <6>1. CASE j = i
            BY <5>1, <6>1
          <6>2. CASE j # i
            BY <2>1, <2>4, <4>1, <5>1, <5>2, <6>2, <5>3 DEF Each, Transferred
          <6> QED BY <6>1, <6>2
        <5>4. CalculateParts(plan[u].size)' = CalculateParts(plan[u].size)
          BY <3>3 DEF CalculateParts
        <5> QED BY <2>1, <2>2, <2>4, <3>3, <4>1, <5>2, <5>3, <5>4 DEF Each, Transferred
      <4>2. CASE pc[q] = "complete"
        <5>1. \A j : Kept(q, j) => Kept(q, j)'
          BY <2>4, <4>2 DEF Owed
        <5>2. DOMAIN part'[u] = DOMAIN part[u] /\ Len(part'[u]) = Len(part[u])
          BY DEF Moving
        <5>3. CalculateParts(plan[u].size)' = CalculateParts(plan[u].size)
          BY <3>3 DEF CalculateParts
        <5> QED BY <2>1, <2>2, <2>4, <3>3, <4>2, <5>1, <5>2, <5>3 DEF Each, Transferred
      <4>3. CASE pc[q] \notin {"collect", "complete"}
        BY <3>3, <4>3 DEF Transferred
      <4> QED BY <4>1, <4>2, <4>3
    <3>7. Listing(q)'
      BY <2>1, <2>2, <3>3 DEF Each, Listing, Elements
    <3> QED BY <3>4, <3>5, <3>6, <3>7 DEF Each
  <2> QED BY <2>3, <2>4
<1>4. ASSUME NEW v \in UploadId PROVE Unstarted(v)' /\ Sized(v)'
  BY <1>2 DEF Inv, Moving, UploadSame, Unstarted, Sized
<1>5. LeftOpenOnlyIfOrphaned'
  BY DEF Inv, Moving, UploadSame, LeftOpenOnlyIfOrphaned
<1>6. PanicOnlyAfterFileChanged'
  BY DEF Moving, PanicOnlyAfterFileChanged
<1> QED BY <1>3, <1>4, <1>5, <1>6 DEF Inv

(* The state of one part changes.                                          *)
LEMMA PartFacts ==
  ASSUME Inv, NEW u \in UploadId, NEW i \in DOMAIN part[u], NEW s \in PartPoints, part' = [part EXCEPT ![u][i] = s]
  PROVE  /\ part' \in [UploadId -> Seq(PartPoints)] /\ \A v \in UploadId \ {u} : part'[v] = part[v]
         /\ DOMAIN part'[u] = DOMAIN part[u] /\ Len(part'[u]) = Len(part[u])
         /\ part'[u][i] = s /\ \A j \in DOMAIN part[u] \ {i} : part'[u][j] = part[u][j]
         /\ i \in Nat \ {0}
<1>1. part \in [UploadId -> Seq(PartPoints)] /\ part[u] \in Seq(PartPoints)
  BY DEF Inv, Shapes
<1> DEFINE new == [part[u] EXCEPT ![i] = s]
<1>2. /\ new \in Seq(PartPoints) /\ DOMAIN new = DOMAIN part[u] /\ Len(new) = Len(part[u])
      /\ new[i] = s /\ \A j \in DOMAIN part[u] \ {i} : new[j] = part[u][j]
  BY <1>1, ExceptSeq
<1>3. part' = [part EXCEPT ![u] = new]
  BY <1>1
<1>4. i \in Nat \ {0}
  BY <1>1
<1> HIDE DEF new
<1> QED BY <1>1, <1>2, <1>3, <1>4

LEMMA AcquireSlotKeeps ==
  ASSUME Inv, NEW u \in UploadId, NEW i \in DOMAIN part[u], AcquireSlot(u, i), UNCHANGED callVars
  PROVE  Inv'
<1>1. /\ UNCHANGED <<objects, uploads, alive, pc, up, cancelled, plan, results>> /\ UNCHANGED callVars /\ alive
      /\ part' = [part EXCEPT ![u][i] = "busy"]
  BY DEF AcquireSlot
<1>2. "busy" \in PartPoints
  BY DEF PartPoints
<1>3. /\ part' \in [UploadId -> Seq(PartPoints)] /\ \A v \in UploadId \ {u} : part'[v] = part[v]
      /\ DOMAIN part'[u] = DOMAIN part[u] /\ Len(part'[u]) = Len(part[u])
      /\ part'[u][i] = "busy" /\ \A j \in DOMAIN part[u] \ {i} : part'[u][j] = part[u][j]
  BY <1>1, <1>2, PartFacts
<1>4. Shapes'
  BY <1>1, <1>3 DEF callVars, Inv, Shapes
<1>5. Moving(u, i)
  BY <1>1, <1>3 DEF Moving, callVars, UploadSame, Failed
<1>6. ASSUME NEW p \in Client PROVE \A j : Kept(p, j) => Kept(p, j)'
  BY <1>1 DEF callVars, Kept, Lowest, Highest
<1> QED BY <1>1, <1>3, <1>4, <1>5, <1>6, MovingKeeps DEF Owed

LEMMA PartPanicsKeeps ==
  ASSUME Inv, NEW u \in UploadId, NEW i \in DOMAIN part[u], PartPanics(u, i), UNCHANGED callVars
  PROVE  Inv'
<1>1. /\ UNCHANGED <<objects, uploads, pc, up, cancelled, plan, part, results>> /\ UNCHANGED callVars /\ alive
      /\ alive' = FALSE /\ part[u][i] = "busy" /\ plan[u].from = None /\ Highest(i, plan[u].size) > Len(plan[u].data)
  BY DEF PartPanics
<1>2. Shapes'
  BY <1>1 DEF callVars, Inv, Shapes
<1>3. Moving(u, i)
  BY <1>1 DEF Moving, callVars, UploadSame, Failed
<1>4. plan[u].moved
  <2>1. plan[u].size \in Nat /\ plan[u].data \in Content /\ part[u] \in Seq(PartPoints)
    BY UploadFacts
  <2>4. i \in Nat
    BY <2>1
  <2>2. Highest(i, plan[u].size) <= plan[u].size
    BY <2>1, <2>4, MultipartAssumption DEF Highest
  <2>3. plan[u].size # Len(plan[u].data)
    BY <1>1, <2>1, <2>2, <2>4, MultipartAssumption DEF Highest
  <2> QED BY <1>1, <2>3 DEF Inv, Sized
<1>5. ASSUME NEW p \in Client PROVE \A j : Kept(p, j) => Kept(p, j)'
  BY <1>1 DEF callVars, Kept, Lowest, Highest
<1> QED BY <1>1, <1>2, <1>3, <1>4, <1>5, MovingKeeps DEF Owed

(* A part that was accepted is a slice of the source of its call.          *)
LEMMA AcceptedFacts ==
  ASSUME Inv, NEW u \in UploadId, NEW i \in Nat \ {0}, Acceptable(u, i)
  PROVE  /\ Bytes(u, i) \in Content
         /\ \A p \in Client : up[p] = u /\ pc[p] \in {"collect", "complete"} /\ p \notin disturbed =>
              Bytes(u, i) = SubSeq(original[p], Lowest(i), Highest(i, Len(original[p])))
<1>1. plan[u].size \in Nat /\ plan[u].data \in Content /\ plan[u].from \in Key \cup {None}
  BY UploadFacts
<1>2. Source(u) \in Content
  <2>1. CASE plan[u].from = None
    BY <1>1, <2>1 DEF Source
  <2>2. CASE plan[u].from # None
    <3>1. Source(u) = objects[plan[u].from] /\ Source(u) # None /\ plan[u].from \in Key
      BY <1>1, <2>2 DEF Source, Acceptable
    <3> QED BY <3>1 DEF Inv, Shapes
  <2> QED BY <2>1, <2>2
<1>3. /\ Bytes(u, i) \in Content
      /\ Highest(i, plan[u].size) <= Len(Source(u)) =>
           Bytes(u, i) = SubSeq(Source(u), Lowest(i), Highest(i, plan[u].size))
  BY <1>1, <1>2, BytesFacts
<1>4. ASSUME NEW p \in Client, up[p] = u, pc[p] \in {"collect", "complete"}, p \notin disturbed
      PROVE  Bytes(u, i) = SubSeq(original[p], Lowest(i), Highest(i, Len(original[p])))
  <2>1. /\ plan[u].from = IF op[p] \in Copies THEN src[p] ELSE None
        /\ plan[u].size = Len(original[p]) /\ (plan[u].from = None => plan[u].data = original[p])
    BY <1>4, Known DEF Transferred
  <2>2. Source(u) = original[p]
    <3>1. CASE op[p] \in Copies
      <4>1. objects[src[p]] = original[p] /\ src[p] \in Key
        BY <1>4, <3>1, Known DEF Undisturbed, Belongs
      <4>2. src[p] # None
        BY <4>1, ContentFacts
      <4> QED BY <2>1, <3>1, <4>1, <4>2 DEF Source
    <3>2. CASE op[p] \notin Copies
      BY <2>1, <3>2 DEF Source
    <3> QED BY <3>1, <3>2
  <2>3. Highest(i, plan[u].size) <= Len(Source(u))
    <3>1. i * PartSize \in Nat
      BY MultipartAssumption
    <3> QED BY <1>1, <2>1, <2>2, <3>1 DEF Highest
  <2> QED BY <1>3, <2>1, <2>2, <2>3
<1> QED BY <1>3, <1>4

LEMMA PartStored ==
  ASSUME Inv, NEW u \in UploadId, NEW i \in Nat \ {0}, NEW c \in Content, UploadPart(u, i, c)
  PROVE  /\ uploads' \in [UploadId -> UploadState] /\ \A v \in UploadId \ {u} : uploads'[v] = uploads[v]
         /\ uploads'[u].state = uploads[u].state /\ DOMAIN uploads'[u].parts = DOMAIN uploads[u].parts \cup {i}
         /\ uploads'[u].parts[i] = c
         /\ \A j \in DOMAIN uploads[u].parts \ {i} : uploads'[u].parts[j] = uploads[u].parts[j]
<1> DEFINE old == uploads[u].parts
           all == [j \in DOMAIN old \cup {i} |-> IF j = i THEN c ELSE old[j]]
           new == [uploads[u] EXCEPT !.parts = all]
<1>1. uploads \in [UploadId -> UploadState] /\ uploads[u] \in UploadState
  BY DEF Inv, Shapes
<1>2. uploads' = [uploads EXCEPT ![u] = new]
  BY <1>1 DEF UploadPart
<1>3. old \in Parts
  BY <1>1 DEF UploadState
<1>4. PICK D \in SUBSET (Nat \ {0}) : old \in [D -> Content]
  BY <1>3 DEF Parts
<1>5. DOMAIN all = D \cup {i} /\ D = DOMAIN old /\ all[i] = c /\ \A j \in DOMAIN old \ {i} : all[j] = old[j]
  BY <1>4
<1>6. all \in [D \cup {i} -> Content]
  BY <1>4
<1>7. D \cup {i} \in SUBSET (Nat \ {0})
  OBVIOUS
<1> HIDE DEF all, old
<1>8. all \in Parts
  BY <1>6, <1>7 DEF Parts
<1>9. new \in UploadState /\ new.state = uploads[u].state /\ new.parts = all
  BY <1>1, <1>8 DEF UploadState
<1> HIDE DEF new
<1>10. uploads'[u] = new /\ uploads' \in [UploadId -> UploadState] /\ \A v \in UploadId \ {u} : uploads'[v] = uploads[v]
  BY <1>1, <1>2, <1>9
<1> QED BY <1>5, <1>9, <1>10 DEF old

LEMMA SendPartKeeps ==
  ASSUME Inv, NEW u \in UploadId, NEW i \in DOMAIN part[u], SendPart(u, i), UNCHANGED callVars
  PROVE  Inv'
<1>1. UNCHANGED <<objects, alive, pc, up, cancelled, plan, results>> /\ UNCHANGED callVars /\ alive
  BY DEF SendPart
<1>2. PICK s \in {"good", "bad"} :
        /\ part' = [part EXCEPT ![u][i] = s]
        /\ \/ uploads' = uploads /\ s = "bad"
           \/ Acceptable(u, i) /\ UploadPart(u, i, Bytes(u, i))
  <2>1. PICK r \in Outcome(u \in cancelled \/ ~Acceptable(u, i)) :
          /\ IF r = "refused" THEN UNCHANGED uploads ELSE UploadPart(u, i, Bytes(u, i))
          /\ part' = [part EXCEPT ![u][i] = IF r = "ok" THEN "good" ELSE "bad"]
    BY DEF SendPart
  <2>2. CASE r = "refused"
    BY <2>1, <2>2
  <2>3. CASE r # "refused"
    <3>1. Acceptable(u, i)
      BY <2>1, <2>3 DEF Outcome
    <3> QED BY <2>1, <2>3, <3>1
  <2> QED BY <2>2, <2>3
<1>3. s \in PartPoints
  BY DEF PartPoints
<1>4. /\ part' \in [UploadId -> Seq(PartPoints)] /\ \A v \in UploadId \ {u} : part'[v] = part[v]
      /\ DOMAIN part'[u] = DOMAIN part[u] /\ Len(part'[u]) = Len(part[u])
      /\ part'[u][i] = s /\ \A j \in DOMAIN part[u] \ {i} : part'[u][j] = part[u][j]
      /\ i \in Nat \ {0}
  BY <1>2, <1>3, PartFacts
<1>5. CASE uploads' = uploads /\ s = "bad"
  <2>1. Shapes'
    BY <1>1, <1>4, <1>5 DEF callVars, Inv, Shapes
  <2>2. Moving(u, i)
    BY <1>1, <1>4, <1>5 DEF Moving, callVars, UploadSame, Failed
  <2>3. ASSUME NEW p \in Client PROVE \A j : Kept(p, j) => Kept(p, j)'
    BY <1>1, <1>5 DEF callVars, Kept, Lowest, Highest
  <2> QED BY <1>1, <1>4, <1>5, <2>1, <2>2, <2>3, MovingKeeps DEF Owed
<1>6. CASE Acceptable(u, i) /\ UploadPart(u, i, Bytes(u, i))
  <2>1. /\ Bytes(u, i) \in Content
        /\ \A p \in Client : up[p] = u /\ pc[p] \in {"collect", "complete"} /\ p \notin disturbed =>
             Bytes(u, i) = SubSeq(original[p], Lowest(i), Highest(i, Len(original[p])))
    BY <1>4, <1>6, AcceptedFacts
  <2>2. /\ uploads' \in [UploadId -> UploadState] /\ \A v \in UploadId \ {u} : uploads'[v] = uploads[v]
        /\ uploads'[u].state = uploads[u].state /\ DOMAIN uploads'[u].parts = DOMAIN uploads[u].parts \cup {i}
        /\ uploads'[u].parts[i] = Bytes(u, i)
        /\ \A j \in DOMAIN uploads[u].parts \ {i} : uploads'[u].parts[j] = uploads[u].parts[j]
    BY <1>4, <1>6, <2>1, PartStored
  <2>3. Shapes'
    BY <1>1, <1>4, <2>2 DEF callVars, Inv, Shapes
  <2>4. Moving(u, i)
    BY <1>1, <1>4, <2>2 DEF Moving, callVars, UploadSame, Failed
  <2>5. ASSUME NEW p \in Client, up[p] = u, pc[p] \in {"collect", "complete"}
        PROVE  Kept(p, i)' /\ \A j : Kept(p, j) => Kept(p, j)'
    <3>1. up' = up /\ original' = original /\ disturbed' = disturbed
      BY <1>1 DEF callVars
    <3>2. Kept(p, i)'
      BY <2>1, <2>2, <2>5, <3>1 DEF Kept, Lowest, Highest
    <3>3. ASSUME NEW j, j # i, Kept(p, j) PROVE Kept(p, j)'
      BY <2>2, <2>5, <3>1, <3>3 DEF Kept, Lowest, Highest
    <3> QED BY <3>2, <3>3
  <2> QED BY <1>1, <2>3, <2>4, <2>5, MovingKeeps DEF Owed
<1> QED BY <1>2, <1>5, <1>6

LEMMA SendResultKeeps ==
  ASSUME Inv, NEW u \in UploadId, NEW i \in DOMAIN part[u], SendResult(u, i), UNCHANGED callVars
  PROVE  Inv'
<1> DEFINE r == [number |-> i, ok |-> part[u][i] = "good"]
           n == Len(results[u]) + 1
<1>1. /\ UNCHANGED <<objects, uploads, alive, pc, up, cancelled, plan>> /\ UNCHANGED callVars /\ alive
      /\ part[u][i] \in {"good", "bad"} /\ part' = [part EXCEPT ![u][i] = "done"]
      /\ results' = [results EXCEPT ![u] = Append(@, r)]
  BY DEF SendResult, Report
<1>2. "done" \in PartPoints
  BY DEF PartPoints
<1>3. /\ part' \in [UploadId -> Seq(PartPoints)] /\ \A v \in UploadId \ {u} : part'[v] = part[v]
      /\ DOMAIN part'[u] = DOMAIN part[u] /\ Len(part'[u]) = Len(part[u])
      /\ part'[u][i] = "done" /\ \A j \in DOMAIN part[u] \ {i} : part'[u][j] = part[u][j]
      /\ i \in Nat \ {0}
  BY <1>1, <1>2, PartFacts
<1>4. r \in Result /\ r.number = i /\ r.ok = (part[u][i] = "good")
  BY <1>3 DEF Result
<1>5. results \in [UploadId -> Seq(Result)] /\ results[u] \in Seq(Result)
  BY DEF Inv, Shapes
<1> HIDE DEF r
<1>6. /\ Append(results[u], r) \in Seq(Result) /\ n \in DOMAIN Append(results[u], r)
      /\ Append(results[u], r)[n] = r
      /\ \A j \in DOMAIN results[u] : j \in DOMAIN Append(results[u], r) /\ Append(results[u], r)[j] = results[u][j]
  BY <1>4, <1>5
<1> HIDE DEF n
<1>7. /\ results' \in [UploadId -> Seq(Result)] /\ \A v \in UploadId \ {u} : results'[v] = results[v]
      /\ results'[u] = Append(results[u], r)
  BY <1>1, <1>5, <1>6
<1>8. Shapes'
  BY <1>1, <1>3, <1>7 DEF callVars, Inv, Shapes
<1>9. \A j : Failed(u, j) => Failed(u, j)'
  BY <1>6, <1>7 DEF Failed
<1>10. Moving(u, i)
  BY <1>1, <1>3, <1>7, <1>9 DEF Moving, callVars, UploadSame
<1>11. ASSUME NEW p \in Client PROVE \A j : Kept(p, j) => Kept(p, j)'
  BY <1>1 DEF callVars, Kept, Lowest, Highest
<1>12. ASSUME NEW p \in Client, up[p] = u, pc[p] = "collect" PROVE Kept(p, i)' \/ Failed(u, i)'
  <2>1. CASE part[u][i] = "good"
    BY <1>11, <1>12, <2>1, Known DEF Transferred
  <2>2. CASE part[u][i] = "bad"
    <3>1. r.number = i /\ ~r.ok
      BY <1>4, <2>2
    <3> QED BY <1>6, <1>7, <3>1 DEF Failed
  <2> QED BY <1>1, <2>1, <2>2
<1> QED BY <1>1, <1>3, <1>8, <1>10, <1>11, <1>12, MovingKeeps DEF Owed

LEMMA TransferKeeps ==
  ASSUME Inv, NEW u \in UploadId, NEW i \in DOMAIN part[u], Transfer(u, i)
  PROVE  Inv'
BY AcquireSlotKeeps, SendPartKeeps, PartPanicsKeeps, SendResultKeeps DEF Transfer, PartStep
----------------------------------------------------------------------------
LEMMA InitInv == ASSUME Init PROVE Inv
<1> USE DEF Init, ServiceInit, PartInit
<1>1. << >> \in Parts /\ NoPage \in PageState /\ NoPlan \in PlanState
  <2>1. << >> \in [{} -> Content] /\ {} \in SUBSET (Nat \ {0})
    OBVIOUS
  <2>2. << >> \in Parts
    BY <2>1 DEF Parts
  <2> QED BY <2>2, ContentFacts DEF NoPage, PageState, NoPlan, PlanState
<1>2. \A d \in Stored : Whole(d) \in Content
  BY ContentFacts, ServiceAssumption
<1>3. Shapes
  <2>1. objects \in [Key -> Content \cup {None}] /\ file \in Content
    BY <1>2
  <2>2. uploads \in [UploadId -> UploadState]
    BY <1>1 DEF UploadState
  <2>3. plan \in [UploadId -> PlanState] /\ part \in [UploadId -> Seq(PartPoints)] /\ results \in [UploadId -> Seq(Result)]
    BY <1>1
  <2>4. pc \in [Client -> Points] /\ up \in [Client -> UploadId \cup {None}] /\ op \in [Client -> Ops \cup {"none"}]
        /\ src \in [Client -> Key \cup {File, None}] /\ dst \in [Client -> Key \cup {File, None}]
    BY DEF Points
  <2>5. data \in [Client -> Content] /\ original \in [Client -> Content \cup {None}]
        /\ listed = [p \in Client |-> listed[p]] /\ page \in [Client -> PageState] /\ stable \in [Client -> SUBSET Key]
    BY <1>1, ContentFacts
  <2> QED BY <2>1, <2>2, <2>3, <2>4, <2>5 DEF Shapes
<1>4. ASSUME NEW p \in Client PROVE Each(p)
  <2>1. pc[p] = "idle" /\ op[p] = "none" /\ up[p] = None /\ listed[p] = << >> /\ page[p] = NoPage /\ stable[p] = {}
    OBVIOUS
  <2>2. Belongs(p)
    BY <2>1, OpFacts DEF Belongs, Copies
  <2>3. Undisturbed(p) /\ Owned(p) /\ Transferred(p) /\ Listing(p)
    BY <2>1 DEF Undisturbed, Owned, Transferred, Listing, Copies, Storing
  <2> QED BY <2>2, <2>3 DEF Each
<1>5. ASSUME NEW u \in UploadId PROVE Unstarted(u) /\ Sized(u)
  BY DEF Unstarted, Sized, NoPlan
<1>6. LeftOpenOnlyIfOrphaned /\ PanicOnlyAfterFileChanged
  BY DEF LeftOpenOnlyIfOrphaned, PanicOnlyAfterFileChanged
<1> QED BY <1>3, <1>4, <1>5, <1>6 DEF Inv

LEMMA StutterKeeps == ASSUME Inv, UNCHANGED vars PROVE Inv'
<1>1. UNCHANGED <<objects, uploads, alive, pc, up, cancelled, plan, part, results, calls, op, src, dst, data, original,
                  file, listed, page, stable, disturbed, orphaned>>
  BY DEF vars, partVars, callVars
<1>2. Shapes'
  BY <1>1 DEF Inv, Shapes
<1>3. ASSUME NEW q \in Client PROVE Each(q)'
  <2>1. Each(q) /\ Same(q) /\ PlacesSame(q) /\ StableSame(q)
    BY <1>1 DEF Inv, Same, PlacesSame, StableSame
  <2>2. up[q] # None => UploadSame(up[q]) /\ \A r \in Client \ {q} : up'[r] # up[q]
    BY <1>1, <2>1 DEF UploadSame, Each, Owned
  <2> QED BY <1>1, <2>1, <2>2, OtherKeeps
<1>4. ASSUME NEW u \in UploadId PROVE Unstarted(u)' /\ Sized(u)'
  BY <1>1 DEF Inv, Unstarted, Sized
<1>5. LeftOpenOnlyIfOrphaned' /\ PanicOnlyAfterFileChanged'
  BY <1>1 DEF Inv, LeftOpenOnlyIfOrphaned, PanicOnlyAfterFileChanged
<1> QED BY <1>2, <1>3, <1>4, <1>5 DEF Inv

LEMMA ClientStepKeeps == ASSUME Inv, NEW p \in Client, ClientStep(p) PROVE Inv'
BY StatKeeps, ReadFileKeeps, UploadSimpleKeeps, HeadObjectKeeps, SimpleCopyKeeps, CreateUploadKeeps,
   StartUploadPartsKeeps, StartCopyPartsKeeps, CollectKeeps, CompleteUploadKeeps, AbortKeeps, DeleteObjectKeeps,
   DeleteObjectsKeeps, TruncateKeeps, GetKeeps, ListOnceKeeps, ListPageKeeps, ListSendKeeps, ReturnKeeps
   DEF ClientStep

LEMMA StepInv == ASSUME Inv, [Next]_vars PROVE Inv'
<1>1. CASE \E p \in Client : Begin(p) \/ Cancel(p) \/ ClientStep(p)
  BY <1>1, BeginKeeps, CancelKeeps, ClientStepKeeps
<1>2. CASE \E u \in UploadId : \E i \in DOMAIN part[u] : Transfer(u, i)
  BY <1>2, TransferKeeps
<1>3. CASE UNCHANGED vars
  BY <1>3, StutterKeeps
<1> QED BY <1>1, <1>2, <1>3 DEF Next

LEMMA Invariant == Spec => []Inv
<1>1. Init => Inv
  BY InitInv
<1>2. Inv /\ [Next]_vars => Inv'
  BY StepInv
<1> QED BY <1>1, <1>2, PTL DEF Spec
----------------------------------------------------------------------------
(* What an upload leaves behind, on every path out of it (multipart.go,    *)
(* copy.go): a call that stored a content without an error, and beside     *)
(* which nobody touched its source or destination, has stored its whole    *)
(* source, in one piece or from any number of parts; an upload is open     *)
(* after its caller left only if its abort or the answer to its creation   *)
(* failed; a part slices past its data only if the file changed.           *)
THEOREM UploadsStaySound == Spec => []UploadsAreSound
<1>1. Inv => UploadsAreSound
  <2> SUFFICES ASSUME Inv PROVE UploadsAreSound
    OBVIOUS
  <2>1. TypeOK
    <3>1. ASSUME NEW p \in Client
          PROVE  /\ pc[p] \in Points /\ up[p] \in UploadId \cup {None}
                 /\ pc[p] \in {"start", "collect", "complete", "abort"} => up[p] # None
      BY Known DEF Owned
    <3>2. ASSUME NEW u \in UploadId
          PROVE  /\ uploads[u].state \in {"unused", "open", "completed", "aborted"}
                 /\ \A i \in DOMAIN part[u] : part[u][i] \in PartPoints
      <4>1. uploads[u] \in UploadState /\ part[u] \in Seq(PartPoints)
        BY UploadFacts
      <4> QED BY <4>1 DEF UploadState
    <3>3. alive \in BOOLEAN
      BY DEF Inv, Shapes
    <3> QED BY <3>1, <3>2, <3>3 DEF TypeOK, Points, PartPoints
  <2>2. StoredIsSource
    BY Known DEF Undisturbed, StoredIsSource
  <2> QED BY <2>1, <2>2 DEF Inv, UploadsAreSound
<1> QED BY <1>1, Invariant, PTL

(* Move (copy.go): whatever request of it fails, and wherever it is        *)
(* cancelled, an object that nobody else touched is under its old key or   *)
(* under its new one, whole, copied in one request or in parts.            *)
THEOREM MovesKeepTheObject == Spec => []MoveKeepsObject
<1>1. Inv => MoveKeepsObject
  <2> SUFFICES ASSUME Inv, NEW p \in Client, op[p] = "move", pc[p] # "idle", p \notin disturbed, src[p] # dst[p]
               PROVE  original[p] \in {objects[src[p]], objects[dst[p]]}
    BY DEF MoveKeepsObject
  <2>1. op[p] \in OpsAt(pc[p]) /\ pc[p] \in Points
    BY Known DEF Belongs
  <2>2. pc[p] \in {"head", "copy", "create", "start", "collect", "complete", "abort", "delete", "ok", "err"}
    BY <2>1 DEF OpsAt, Points, Sends, Copies
  <2> QED BY <2>2, Known DEF Undisturbed, Copies, Storing
<1> QED BY <1>1, Invariant, PTL

(* ListAll (list.go): it sends no key twice and the keys in order, over    *)
(* any number of pages and while others store and delete; when it ran to   *)
(* its end it has sent every key that was there all along.                 *)
THEOREM ListingsStayComplete == Spec => []ListedOnceIfStable
<1>1. Inv => ListedOnceIfStable
  <2> SUFFICES ASSUME Inv, NEW p \in Client, op[p] = "listAll"
               PROVE  /\ \A i, j \in DOMAIN listed[p] : i < j => listed[p][i] < listed[p][j]
                      /\ pc[p] = "ok" => \A k \in stable[p] : \E i \in DOMAIN listed[p] : listed[p][i] = k
    BY DEF ListedOnceIfStable
  <2> QED BY Known DEF Listing, Elements
<1> QED BY <1>1, Invariant, PTL
----------------------------------------------------------------------------
(* S3Sync. *)
(* The values of the variables.                                            *)
SyncShapes ==
  /\ local \in [Name -> LocalFile \cup {None}] /\ remote \in [NameKey -> Object \cup {None}]
  /\ config \in [deleteExtra : BOOLEAN, dryRun : BOOLEAN, comparator : Comparators]
  /\ abandoned \in BOOLEAN /\ failed \in BOOLEAN /\ edits \in Nat
  /\ phase \in {"scanLocal", "scanRemote", "plan", "upload", "delete", "done", "err"}
  /\ found \in [Name -> LocalFile \cup {None}] /\ unwalked \subseteq Name
  /\ seen \in [Name -> [key : NameKey, object : Object] \cup {None}] /\ token \in NameKey \cup {None}
  /\ \A n \in Name : seen[n] # None => seen[n].key[1] = n
  /\ planned \subseteq Name /\ deletes \subseteq NameKey /\ skipped \subseteq Name /\ unread \subseteq Name
  /\ worker \in [Name -> {"none", "begun", "opened", "ended"}] /\ opened \in [Name -> Data \cup {None}]
  /\ \A n \in Name : worker[n] = "opened" => opened[n] \in Data
  /\ stored \subseteq Name /\ removed \subseteq NameKey
  /\ result \in [uploaded : Nat, deleted : Nat, skipped : Nat, errors : SUBSET {"uploads", "deletes"}]

(* Before the plan nothing is decided, and a dry run does nothing.         *)
Working == (\E n \in Name : worker[n] # "none") \/ stored # {} \/ removed # {} \/ failed

Begun ==
  /\ phase \in {"scanLocal", "scanRemote", "plan", "err"} =>
       planned = {} /\ deletes = {} /\ skipped = {} /\ unread = {} /\ ~Working /\ result = NoResult
  /\ config.dryRun => phase \notin {"upload", "delete"} /\ ~Working
  /\ config.comparator \in Reading => unread = {}

(* What is uploaded was found, what is removed was not.                    *)
Decided ==
  /\ \A n \in Name : n \in planned \cup skipped \cup stored \/ worker[n] # "none" => found[n] # None
  /\ \A k \in deletes \cup removed : config.deleteExtra /\ found[NameOf(k)] = None

(* When the deletes begin the workers are done, or the context is gone.    *)
Closed ==
  phase \in {"delete", "done"} /\ ~config.dryRun =>
    /\ planned = {} /\ (abandoned \/ Busy = {})
    /\ "uploads" \notin result.errors => Busy = {} /\ ~failed /\ result.uploaded = Cardinality(stored)

(* Every file found is uploaded, or the plan has left it as unchanged.     *)
ReadAs(n) == IF n \in unread THEN None ELSE found[n].data
Unchanged(n) == seen[n] # None /\ ~HasChanged(found[n], seen[n].object, ReadAs(n))

Accounted ==
  phase \in {"upload", "delete", "done"} =>
    \A n \in Name : found[n] # None =>
      \/ n \in planned \cup stored \cup Busy
      \/ failed \/ abandoned
      \/ n \in skipped /\ (edits = 0 => Unchanged(n))

(* Without edits: the files as they were scanned are those there are,      *)
Walked ==
  phase # "err" => \A n \in Name :
    phase # "scanLocal" \/ n \notin unwalked => found[n] = IF ShouldIncludeFile(n) THEN local[n] ELSE None

(* ... the objects seen are those the listing has passed,                  *)
Sight(n, K) ==
  LET slash == <<n, "slash">> IN
  IF PlainKey(n) \in K THEN [key |-> PlainKey(n), object |-> remote[PlainKey(n)]]
  ELSE IF slash \in K THEN [key |-> slash, object |-> remote[slash]] ELSE None

Present == {k \in NameKey : remote[k] # None}

Listed ==
  /\ phase = "scanLocal" => token = None /\ \A n \in Name : seen[n] = None
  /\ phase = "scanRemote" => \A n \in Name : seen[n] = Sight(n, Present \ Listable)
  /\ phase = "plan" => \A n \in Name : seen[n] = Sight(n, Present)

(* ... and a file found has the object it had then or the one stored now.  *)
Fresh(n) == [data |-> found[n].data, time |-> Now, etag |-> "md5"]

Mirrored(n) ==
  LET plain == remote[PlainKey(n)]  slash == remote[<<n, "slash">>] IN
  /\ worker[n] = "opened" => opened[n] = found[n].data
  /\ n \in stored => plain = Fresh(n)
  /\ seen[n] = None => slash = None /\ plain \in {None, Fresh(n)}
  /\ seen[n] # None =>
       \/ seen[n].key = PlainKey(n) /\ plain \in {seen[n].object, Fresh(n)}
       \/ seen[n].key # PlainKey(n) /\ slash = seen[n].object /\ plain \in {None, Fresh(n)}

Unedited ==
  edits = 0 =>
    /\ Walked /\ Listed
    /\ phase \in {"upload", "delete", "done"} => \A n \in Name : found[n] # None => Mirrored(n)

SyncInv == SyncShapes /\ Begun /\ Decided /\ Closed /\ Accounted /\ Unedited
----------------------------------------------------------------------------
(* Listings are in a total order.                                          *)
LEMMA BeforeFacts ==
  /\ \A k, l \in NameKey : k = l \/ Before(k, l) \/ Before(l, k)
  /\ \A k, l \in NameKey : ~(Before(k, l) /\ Before(l, k)) /\ ~Before(k, k)
  /\ \A k, l, m \in NameKey : Before(k, l) /\ Before(l, m) => Before(k, m)
  /\ \A n \in Name : Before(<<n, "slash">>, PlainKey(n))
<1>1. \A k \in NameKey : k = <<k[1], k[2]>> /\ k[1] \in Name /\ k[2] \in {"plain", "slash"}
  BY DEF NameKey
<1>2. \A k \in NameKey : k[1] \in Nat
  BY <1>1, SyncAssumption
<1> QED BY <1>1, <1>2 DEF Before, PlainKey

LEMMA KeyFacts ==
  /\ IsFiniteSet(NameKey)
  /\ \A n \in Name : PlainKey(n) \in NameKey /\ <<n, "slash">> \in NameKey /\ PlainKey(n) # <<n, "slash">>
  /\ \A n \in Name : PlainKey(n)[1] = n /\ <<n, "slash">>[1] = n
  /\ \A k \in NameKey : k[1] \in Name /\ (k = PlainKey(k[1]) \/ k = <<k[1], "slash">>)
<1>1. IsFiniteSet({"plain", "slash"})
  <2>1. IsFiniteSet({"plain"}) /\ {"plain"} \cup {"slash"} = {"plain", "slash"}
    BY FS_Singleton
  <2> QED BY <2>1, FS_AddElement
<1>2. IsFiniteSet(NameKey)
  BY <1>1, SyncAssumption, FS_Product DEF NameKey
<1> QED BY <1>2 DEF NameKey, PlainKey

(* A set of keys that is not empty has a last one.                         *)
LEMMA LastFacts ==
  ASSUME NEW K \in SUBSET NameKey, K # {}
  PROVE  LastOf(K) \in K /\ \A l \in K : l = LastOf(K) \/ Before(l, LastOf(K))
<1> DEFINE later(k) == {l \in K : Before(k, l)}
           T == {Cardinality(later(k)) : k \in K}
<1>1. IsFiniteSet(K)
  BY KeyFacts, FS_Subset
<1>2. \A k \in K : IsFiniteSet(later(k)) /\ Cardinality(later(k)) \in Nat
  BY <1>1, FS_Subset, FS_CardinalityType
<1>3. T \in SUBSET Nat /\ T # {}
  BY <1>2
<1>4. PICK x \in T : \A y \in T : x <= y
  <2> HIDE DEF T
  <2> QED BY <1>3, Least
<1>5. PICK k \in K : x = Cardinality(later(k))
  OBVIOUS
<1>6. ASSUME NEW l \in K, Before(k, l) PROVE FALSE
  <2>1. later(l) \subseteq later(k) /\ l \in later(k) /\ l \notin later(l)
    BY <1>6, BeforeFacts
  <2>2. Cardinality(later(l)) <= Cardinality(later(k)) /\ Cardinality(later(k)) # Cardinality(later(l))
    BY <2>1, <1>2, FS_Subset
  <2>3. Cardinality(later(k)) <= Cardinality(later(l))
    BY <1>4, <1>5
  <2>4. Cardinality(later(k)) \in Nat /\ Cardinality(later(l)) \in Nat
    BY <1>2
  <2> HIDE DEF later
  <2> QED BY <2>2, <2>3, <2>4
<1>7. k \in K /\ \A l \in K : l = k \/ Before(l, k)
  BY <1>6, BeforeFacts
<1> QED BY <1>7 DEF LastOf

LEMMA LastOfName ==
  ASSUME NEW n \in Name, NEW K \in SUBSET NameKey, K # {}, \A k \in K : k[1] = n
  PROVE  LastOf(K) \in K /\ LastOf(K) = IF PlainKey(n) \in K THEN PlainKey(n) ELSE <<n, "slash">>
<1>1. LastOf(K) \in K /\ \A l \in K : l = LastOf(K) \/ Before(l, LastOf(K))
  BY LastFacts
<1>2. LastOf(K) \in {PlainKey(n), <<n, "slash">>}
  BY <1>1, KeyFacts
<1>3. ASSUME PlainKey(n) \in K PROVE LastOf(K) = PlainKey(n)
  <2>1. CASE LastOf(K) = <<n, "slash">>
    BY <2>1, <1>1, <1>3, BeforeFacts, KeyFacts
  <2> QED BY <2>1, <1>2
<1> QED BY <1>1, <1>2, <1>3

(* A page is the beginning of what is still to be listed.                  *)
LEMMA SyncPageFacts ==
  ASSUME NEW K \in SUBSET NameKey, NEW P, P = PageOf(K), P # {}
  PROVE  /\ P \subseteq K /\ LastOf(P) \in P
         /\ \A l \in K : l \in P <=> ~Before(LastOf(P), l)
<1>1. P \subseteq K
  BY DEF PageOf
<1>2. LastOf(P) \in P /\ \A l \in P : l = LastOf(P) \/ Before(l, LastOf(P))
  BY <1>1, LastFacts
<1>3. ASSUME NEW k \in P, NEW l \in K, Before(l, k) PROVE l \in P
  <2> DEFINE before(x) == {y \in K : Before(y, x)}
  <2>1. before(l) \subseteq before(k)
    BY <1>1, <1>3, BeforeFacts
  <2>2. IsFiniteSet(before(k)) /\ IsFiniteSet(before(l))
    BY KeyFacts, FS_Subset
  <2>3. Cardinality(before(l)) <= Cardinality(before(k)) /\ Cardinality(before(l)) \in Nat /\ Cardinality(before(k)) \in Nat
    BY <2>1, <2>2, FS_Subset, FS_CardinalityType
  <2>4. Cardinality(before(k)) < PageSize /\ PageSize \in Nat
    BY DataAssumption DEF PageOf
  <2>5. Cardinality(before(l)) < PageSize
    BY <2>3, <2>4
  <2> QED BY <2>5 DEF PageOf
<1>4. ASSUME NEW l \in K PROVE l \in P <=> ~Before(LastOf(P), l)
  <2>1. l \in P => ~Before(LastOf(P), l)
    BY <1>1, <1>2, BeforeFacts
  <2>2. l \notin P => Before(LastOf(P), l)
    BY <1>1, <1>2, <1>3, BeforeFacts
  <2> QED BY <2>1, <2>2
<1> QED BY <1>1, <1>2, <1>4

(* The object taken for a name among the keys K of a listing.              *)
Taken(n, K) ==
  LET mine == {k \in K : k[1] = n} IN
  IF mine = {} THEN None ELSE [key |-> LastOf(mine), object |-> remote[LastOf(mine)]]

LEMMA TakenFacts ==
  ASSUME NEW n \in Name, NEW K \in SUBSET NameKey
  PROVE  Taken(n, K) = Sight(n, K)
<1> DEFINE mine == {k \in K : k[1] = n}
<1>1. mine \in SUBSET NameKey /\ \A k \in mine : k[1] = n
  OBVIOUS
<1>2. mine = {} <=> PlainKey(n) \notin K /\ <<n, "slash">> \notin K
  BY KeyFacts
<1>3. mine # {} => LastOf(mine) = IF PlainKey(n) \in mine THEN PlainKey(n) ELSE <<n, "slash">>
  <2> HIDE DEF mine
  <2> QED BY <1>1, LastOfName
<1>4. PlainKey(n) \in mine <=> PlainKey(n) \in K
  BY KeyFacts
<1> QED BY <1>2, <1>3, <1>4 DEF Taken, Sight

(* A page adds to what is seen what it lists.                              *)
LEMMA ScanPageFacts ==
  ASSUME SyncShapes, ScanPage,
         NEW P, P = PageOf(Listable), NEW old, old = Present \ Listable
  PROVE  /\ P \subseteq Present /\ P \subseteq Listable
         /\ token' \in NameKey \cup {None}
         /\ Present \ Listable' = old \cup P
         /\ \A n \in Name : seen'[n] = IF Sight(n, P) = None THEN seen[n] ELSE Sight(n, P)
         /\ \A n \in Name : Sight(n, P) # None => Sight(n, old \cup P) = Sight(n, P)
         /\ \A n \in Name : Sight(n, P) = None => Sight(n, old \cup P) = Sight(n, old)
<1> USE SyncAssumption
<1>1. Listable \in SUBSET NameKey /\ Listable \subseteq Present
  BY DEF Listable, Present
<1>2. P \subseteq Listable
  BY DEF PageOf
<1>3. token' = (IF P = {} THEN token ELSE LastOf(P)) /\ UNCHANGED remote
  BY DEF ScanPage
<1>4. token' \in NameKey \cup {None} /\ Present \ Listable' = old \cup P
  <2>1. CASE P = {}
    BY <2>1, <1>3 DEF Listable, SyncShapes
  <2>2. CASE P # {}
    <3>1. LastOf(P) \in P /\ \A l \in Listable : l \in P <=> ~Before(LastOf(P), l)
      BY <2>2, <1>1, SyncPageFacts
    <3>2. token' \in NameKey /\ token' = LastOf(P) /\ token' # None
      BY <3>1, <1>1, <1>2, <1>3, <2>2
    <3>3. Listable' = {k \in Present : Before(LastOf(P), k)}
      BY <3>2, <1>3 DEF Listable, Present
    <3>4. ASSUME NEW k \in Present, k \notin Listable PROVE ~Before(LastOf(P), k)
      <4>1. k \in NameKey /\ token \in NameKey /\ ~Before(token, k) /\ LastOf(P) \in NameKey
        BY <3>1, <3>4, <1>1, <1>2 DEF SyncShapes, Listable, Present
      <4>2. Before(token, LastOf(P))
        BY <4>1, <3>1, <1>2 DEF Listable
      <4> QED BY <4>1, <4>2, BeforeFacts
    <3> QED BY <3>1, <3>2, <3>3, <3>4, <1>1, <1>2
  <2> QED BY <2>1, <2>2
<1>5. \A n \in Name : seen'[n] = IF {k \in P : k[1] = n} = {} THEN seen[n] ELSE Taken(n, P)
  BY DEF ScanPage, Taken
<1>6. P \in SUBSET NameKey /\ \A k \in P : remote[k] \in Object
  BY <1>1, <1>2 DEF SyncShapes, Present
<1>7. ASSUME NEW n \in Name PROVE {k \in P : k[1] = n} = {} <=> Sight(n, P) = None
  BY <1>6, KeyFacts DEF Sight
<1>8. ASSUME NEW n \in Name, Sight(n, P) # None PROVE Sight(n, old \cup P) = Sight(n, P)
  <2>1. ASSUME PlainKey(n) \notin P PROVE PlainKey(n) \notin old
    <3>1. <<n, "slash">> \in P
      BY <1>8, <2>1 DEF Sight
    <3>2. <<n, "slash">> \in Listable /\ Before(<<n, "slash">>, PlainKey(n))
      BY <3>1, <1>2, BeforeFacts
    <3>3. CASE token = None
      BY <3>3 DEF Listable, Present
    <3>4. CASE token # None
      <4>1. token \in NameKey /\ Before(token, <<n, "slash">>) /\ <<n, "slash">> \in NameKey /\ PlainKey(n) \in NameKey
        BY <3>2, <3>4, KeyFacts DEF Listable, SyncShapes
      <4>2. Before(token, PlainKey(n))
        BY <4>1, <3>2, BeforeFacts
      <4> QED BY <4>2 DEF Listable, Present
    <3> QED BY <3>3, <3>4
  <2>2. PlainKey(n) \in P \/ <<n, "slash">> \in P
    BY <1>8 DEF Sight
  <2> QED BY <2>1, <2>2 DEF Sight
<1>9. ASSUME NEW n \in Name, Sight(n, P) = None PROVE Sight(n, old \cup P) = Sight(n, old)
  <2>1. PlainKey(n) \notin P /\ <<n, "slash">> \notin P
    BY <1>7, <1>9, KeyFacts
  <2> QED BY <2>1 DEF Sight
<1>10. \A n \in Name : seen'[n] = IF Sight(n, P) = None THEN seen[n] ELSE Sight(n, P)
  BY <1>5, <1>6, <1>7, TakenFacts
<1> QED BY <1>1, <1>2, <1>4, <1>8, <1>9, <1>10

LEMMA UnchangedKept ==
  ASSUME UNCHANGED <<config, found, seen, unread>>
  PROVE  \A n \in Name : Unchanged(n)' = Unchanged(n)
BY DEF Unchanged, ReadAs, HasChanged, SmartHasChanged, SizeOnlyHasChanged, ChecksumHasChanged,
       CompareByTime, CompositeHasChanged

(* What the plan decides.                                                  *)
LEMMA PlanFacts ==
  ASSUME SyncShapes, Plan
  PROVE  /\ planned' \subseteq {n \in Name : found[n] # None}
         /\ skipped' = {n \in Name : found[n] # None /\ seen[n] # None} /\ unread' \subseteq skipped'
         /\ deletes' \subseteq NameKey
         /\ \A k \in deletes' : config.deleteExtra /\ found[NameOf(k)] = None
         /\ config.comparator \in Reading => unread' = {}
         /\ \A n \in Name : found[n] # None /\ n \notin planned' =>
              n \in skipped' /\ (found[n] = local[n] => Unchanged(n)')
<1> USE SyncAssumption
<1>1. PICK now \in [Name -> {None} \cup Data] :
        /\ \A n \in Name :
             IF found[n] # None /\ seen[n] # None
             THEN /\ now[n] \in Readable(n)
                  /\ config.comparator \in Reading => now[n] # None
             ELSE now[n] = None
        /\ PlanOperations(now)
        /\ unread' = {n \in PlanSkips(found, seen) : now[n] = None}
  BY DEF Plan
<1>2. UNCHANGED <<config, found, seen, local>>
  BY DEF Plan, scanVars
<1>3. /\ planned' \subseteq {n \in Name : found[n] # None}
      /\ skipped' = {n \in Name : found[n] # None /\ seen[n] # None} /\ unread' \subseteq skipped'
  BY <1>1 DEF PlanOperations, PlanUploads, PlanSkips
<1>4. deletes' \subseteq NameKey /\ \A k \in deletes' : config.deleteExtra /\ found[NameOf(k)] = None
  <2>1. \A k \in deletes' : config.deleteExtra /\ \E n \in Name : k = seen[n].key /\ seen[n] # None /\ found[n] = None
    BY <1>1 DEF PlanOperations, PlanDeletes
  <2>2. \A n \in Name : seen[n] # None => seen[n].key \in NameKey /\ seen[n].key[1] = n
    BY DEF SyncShapes
  <2>3. ASSUME NEW k \in deletes' PROVE k \in NameKey /\ config.deleteExtra /\ found[k[1]] = None
    <3>1. PICK n \in Name : k = seen[n].key /\ seen[n] # None /\ found[n] = None
      BY <2>1
    <3>2. k \in NameKey /\ k[1] = n
      BY <2>2, <3>1
    <3> QED BY <2>1, <3>1, <3>2
  <2> QED BY <2>3 DEF NameOf
<1>5. config.comparator \in Reading => unread' = {}
  BY <1>1 DEF PlanSkips
<1>6. ASSUME NEW n \in Name, found[n] # None, n \notin planned'
      PROVE  n \in skipped' /\ (found[n] = local[n] => Unchanged(n)')
  <2>1. seen[n] # None /\ ~HasChanged(found[n], seen[n].object, now[n])
    BY <1>1, <1>6 DEF PlanOperations, PlanUploads
  <2>2. n \in skipped'
    BY <1>3, <1>6, <2>1
  <2>3. n \in unread' <=> now[n] = None
    BY <1>1, <1>6, <2>1 DEF PlanSkips
  <2>4. ASSUME found[n] = local[n] PROVE now[n] = IF n \in unread' THEN None ELSE found[n].data
    BY <1>1, <1>6, <2>1, <2>3, <2>4 DEF Readable
  <2>5. ASSUME found[n] = local[n] PROVE Unchanged(n)'
    <3>1. ReadAs(n)' = now[n]
      BY <2>4, <2>5, <1>2 DEF ReadAs
    <3>2. HasChanged(found[n], seen[n].object, now[n])' = HasChanged(found[n], seen[n].object, now[n])
      BY <1>2 DEF HasChanged, SmartHasChanged, SizeOnlyHasChanged, ChecksumHasChanged, CompareByTime, CompositeHasChanged
    <3> QED BY <2>1, <3>1, <3>2, <1>2 DEF Unchanged
  <2> QED BY <2>2, <2>5
<1> QED BY <1>3, <1>4, <1>5, <1>6

LEMMA EditLocalInv ==
  ASSUME SyncInv, EditLocal
  PROVE  SyncInv'
<1> USE SyncAssumption DEF SyncInv, EditLocal, scanVars, planVars, workVars
<1>1. SyncShapes'
  <2>1. PICK n \in Name, f \in {None} \cup [data : NewData, time : {Now}] : local' = [local EXCEPT ![n] = f]
    OBVIOUS
  <2>2. f \in LocalFile \cup {None}
    BY DEF LocalFile
  <2>3. local' \in [Name -> LocalFile \cup {None}]
    BY <2>1, <2>2 DEF SyncShapes
  <2>4. edits' \in Nat
    BY DEF SyncShapes
  <2> QED BY <2>3, <2>4 DEF SyncShapes
<1>2. Begun'
  BY DEF SyncShapes, Begun, Working, Reading
<1>3. Decided'
  BY DEF SyncShapes, Decided
<1>4. Closed'
  BY DEF SyncShapes, Closed, Busy
<1>5. Accounted'
  <2>1. edits' # 0
    BY DEF SyncShapes
  <2> QED BY <2>1 DEF SyncShapes, Accounted, Busy
<1>6. Unedited'
  BY DEF SyncShapes, Unedited, Walked, Listed, Mirrored, Fresh
<1> QED BY <1>1, <1>2, <1>3, <1>4, <1>5, <1>6

LEMMA EditRemoteInv ==
  ASSUME SyncInv, EditRemote
  PROVE  SyncInv'
<1> USE SyncAssumption DEF SyncInv, EditRemote, scanVars, planVars, workVars
<1>1. SyncShapes'
  <2>1. PICK k \in NameKey, o \in {None} \cup [data : NewData, time : {Now}, etag : {"md5"}] :
          remote' = [remote EXCEPT ![k] = o]
    OBVIOUS
  <2>2. o \in Object \cup {None}
    BY DEF Object
  <2>3. remote' \in [NameKey -> Object \cup {None}]
    BY <2>1, <2>2 DEF SyncShapes
  <2>4. edits' \in Nat
    BY DEF SyncShapes
  <2> QED BY <2>3, <2>4 DEF SyncShapes
<1>2. Begun'
  BY DEF SyncShapes, Begun, Working, Reading
<1>3. Decided'
  BY DEF SyncShapes, Decided
<1>4. Closed'
  BY DEF SyncShapes, Closed, Busy
<1>5. Accounted'
  BY UnchangedKept DEF SyncShapes, Accounted, Busy
<1>6. Unedited'
  BY DEF SyncShapes, Unedited, Walked, Listed, Mirrored, Fresh
<1> QED BY <1>1, <1>2, <1>3, <1>4, <1>5, <1>6

LEMMA GiveUpInv ==
  ASSUME SyncInv, GiveUp
  PROVE  SyncInv'
<1> USE SyncAssumption DEF SyncInv, GiveUp, scanVars, planVars, workVars
<1>1. SyncShapes'
  BY DEF SyncShapes
<1>2. Begun'
  BY DEF SyncShapes, Begun, Working, Reading
<1>3. Decided'
  BY DEF SyncShapes, Decided
<1>4. Closed'
  BY DEF SyncShapes, Closed, Busy
<1>5. Accounted'
  BY UnchangedKept DEF SyncShapes, Accounted, Busy
<1>6. Unedited'
  BY DEF SyncShapes, Unedited, Walked, Listed, Mirrored, Fresh, Sight, Present, Listable
<1> QED BY <1>1, <1>2, <1>3, <1>4, <1>5, <1>6

LEMMA FailInv ==
  ASSUME SyncInv, Fail, phase \in {"scanLocal", "scanRemote", "plan"}
  PROVE  SyncInv'
<1> USE SyncAssumption DEF SyncInv, Fail, scanVars, planVars, workVars
<1>1. SyncShapes'
  BY DEF SyncShapes
<1>2. Begun'
  BY DEF SyncShapes, Begun, Working, Reading
<1>3. Decided'
  BY DEF SyncShapes, Decided
<1>4. Closed'
  BY DEF SyncShapes, Closed, Busy
<1>5. Accounted'
  BY UnchangedKept DEF SyncShapes, Accounted, Busy
<1>6. Unedited'
  BY DEF SyncShapes, Unedited, Walked, Listed, Mirrored, Fresh
<1> QED BY <1>1, <1>2, <1>3, <1>4, <1>5, <1>6

LEMMA ScanFileInv ==
  ASSUME SyncInv, ScanFile
  PROVE  SyncInv'
<1> USE SyncAssumption DEF SyncInv, ScanFile, scanVars, planVars, workVars
<1>1. SyncShapes'
  BY DEF SyncShapes
<1>2. Begun'
  BY DEF SyncShapes, Begun, Working, Reading
<1>3. Decided'
  BY DEF SyncShapes, Decided, Begun, Working
<1>4. Closed'
  BY DEF SyncShapes, Closed, Busy
<1>5. Accounted'
  BY UnchangedKept DEF SyncShapes, Accounted, Busy
<1>6. Unedited'
  BY DEF SyncShapes, Unedited, Walked, Listed, Mirrored, Fresh
<1> QED BY <1>1, <1>2, <1>3, <1>4, <1>5, <1>6

LEMMA ScanLocalEndsInv ==
  ASSUME SyncInv, ScanLocalEnds
  PROVE  SyncInv'
<1> USE SyncAssumption DEF SyncInv, ScanLocalEnds, scanVars, planVars, workVars
<1>1. SyncShapes'
  BY DEF SyncShapes
<1>2. Begun'
  BY DEF SyncShapes, Begun, Working, Reading
<1>3. Decided'
  BY DEF SyncShapes, Decided
<1>4. Closed'
  BY DEF SyncShapes, Closed, Busy
<1>5. Accounted'
  BY UnchangedKept DEF SyncShapes, Accounted, Busy
<1>6. Unedited'
  BY DEF SyncShapes, Unedited, Walked, Listed, Mirrored, Fresh, Sight, Present, Listable
<1> QED BY <1>1, <1>2, <1>3, <1>4, <1>5, <1>6

LEMMA ScanPageInv ==
  ASSUME SyncInv, ScanPage
  PROVE  SyncInv'
<1> USE SyncAssumption DEF SyncInv, ScanPage, scanVars, planVars, workVars
<1>1. SyncShapes'
  <2>1. token' \in NameKey \cup {None}
    BY ScanPageFacts
  <2>2. \A n \in Name : seen'[n] = seen[n] \/ seen'[n] = Sight(n, PageOf(Listable))
    BY ScanPageFacts
  <2>3. ASSUME NEW n \in Name, NEW K, K \subseteq Present
        PROVE  Sight(n, K) # None => Sight(n, K) \in [key : NameKey, object : Object] /\ Sight(n, K).key[1] = n
    BY <2>3, KeyFacts DEF Sight, Present, SyncShapes
  <2>4. PageOf(Listable) \subseteq Present
    BY ScanPageFacts
  <2>5. ASSUME NEW n \in Name, seen'[n] # None
        PROVE  seen'[n] \in [key : NameKey, object : Object] /\ seen'[n].key[1] = n
    <3>1. CASE seen'[n] = seen[n]
      BY <3>1, <2>5 DEF SyncShapes
    <3>2. CASE seen'[n] = Sight(n, PageOf(Listable))
      BY <3>2, <2>3, <2>4, <2>5
    <3> QED BY <2>2, <3>1, <3>2
  <2>6. seen' \in [Name -> [key : NameKey, object : Object] \cup {None}]
    BY <2>5
  <2> QED BY <2>1, <2>5, <2>6 DEF SyncShapes
<1>2. Begun'
  BY DEF SyncShapes, Begun, Working, Reading
<1>3. Decided'
  BY DEF SyncShapes, Decided
<1>4. Closed'
  BY DEF SyncShapes, Closed, Busy
<1>5. Accounted'
  BY UnchangedKept DEF SyncShapes, Accounted, Busy
<1>6. Unedited'
  <2>1. ASSUME edits = 0 PROVE Listed'
    <3> DEFINE P == PageOf(Listable)
               old == Present \ Listable
    <3>1. \A n \in Name : seen[n] = Sight(n, old)
      BY <2>1 DEF Unedited, Listed
    <3>2. \A n \in Name : seen'[n] = Sight(n, old \cup P)
      <4>1. \A n \in Name : seen'[n] = IF Sight(n, P) = None THEN seen[n] ELSE Sight(n, P)
        BY ScanPageFacts
      <4>2. \A n \in Name : Sight(n, P) # None => Sight(n, old \cup P) = Sight(n, P)
        BY ScanPageFacts
      <4>3. \A n \in Name : Sight(n, P) = None => Sight(n, old \cup P) = Sight(n, old)
        BY ScanPageFacts
      <4> HIDE DEF P, old
      <4> QED BY <3>1, <4>1, <4>2, <4>3
    <3>3. Present \ Listable' = old \cup P /\ P \subseteq Listable
      BY ScanPageFacts
    <3>4. phase' = "plan" => old \cup P = Present
      <4>1. phase' = "plan" => P = Listable /\ Listable \subseteq Present
        BY DEF Listable, Present
      <4> QED BY <4>1
    <3>5. Present' = Present
      BY DEF Present
    <3> HIDE DEF old, P
    <3> QED BY <3>2, <3>3, <3>4, <3>5 DEF Listed, Sight
  <2> QED BY <2>1 DEF Unedited, Walked
<1> QED BY <1>1, <1>2, <1>3, <1>4, <1>5, <1>6

LEMMA PlanInv ==
  ASSUME SyncInv, Plan
  PROVE  SyncInv'
<1> USE SyncAssumption DEF SyncInv, Plan, scanVars, planVars, workVars
<1>1. SyncShapes'
  <2>1. planned' \subseteq Name /\ deletes' \subseteq NameKey /\ skipped' \subseteq Name /\ unread' \subseteq Name
    BY PlanFacts
  <2>2. result' \in [uploaded : Nat, deleted : Nat, skipped : Nat, errors : SUBSET {"uploads", "deletes"}]
    <3>1. Cardinality(skipped') \in Nat
      BY <2>1, FS_Subset, FS_CardinalityType
    <3> QED BY <3>1 DEF NoResult
  <2> QED BY <2>1, <2>2 DEF SyncShapes
<1>2. Begun'
  BY PlanFacts DEF SyncShapes, Begun, Working
<1>3. Decided'
  BY PlanFacts DEF SyncShapes, Begun, Working, Decided
<1>4. Closed'
  BY DEF SyncShapes, Closed, Busy
<1>5. Accounted'
  <2>1. ASSUME NEW n \in Name, found[n] # None, n \notin planned', edits = 0 PROVE found[n] = local[n]
    BY <2>1 DEF Unedited, Walked
  <2> QED BY PlanFacts, <2>1 DEF Accounted, Busy
<1>6. Unedited'
  <2>1. ASSUME edits = 0, NEW n \in Name, found[n] # None PROVE Mirrored(n)'
    <3>1. seen[n] = Sight(n, Present) /\ worker[n] = "none" /\ stored = {}
      BY <2>1 DEF Unedited, Listed, Begun, Working
    <3>2. PlainKey(n) \in Present <=> remote[PlainKey(n)] # None
      BY KeyFacts DEF Present
    <3>3. <<n, "slash">> \in Present <=> remote[<<n, "slash">>] # None
      BY KeyFacts DEF Present
    <3>4. \A k, o : [key |-> k, object |-> o].key = k /\ [key |-> k, object |-> o].object = o
      OBVIOUS
    <3>5. \A k \in Present : [key |-> k, object |-> remote[k]] # None
      BY DEF Present, SyncShapes
    <3> QED BY <3>1, <3>2, <3>3, <3>4, <3>5, KeyFacts DEF Mirrored, Sight
  <2> QED BY <2>1 DEF Unedited, Walked, Listed
<1> QED BY <1>1, <1>2, <1>3, <1>4, <1>5, <1>6

LEMMA DispatchInv ==
  ASSUME SyncInv, Dispatch
  PROVE  SyncInv'
<1> USE SyncAssumption DEF SyncInv, Dispatch, Foremost, scanVars, planVars, workVars
<1>1. SyncShapes'
  BY DEF SyncShapes
<1>2. Begun'
  BY DEF SyncShapes, Begun, Working, Reading
<1>3. Decided'
  BY DEF SyncShapes, Decided
<1>4. Closed'
  BY DEF SyncShapes, Closed, Busy
<1>5. Accounted'
  <2>1. PICK m \in Name : m \in planned /\ planned' = planned \ {m} /\ worker' = [worker EXCEPT ![m] = "begun"]
    OBVIOUS
  <2>2. worker' \in [Name -> {"none", "begun", "opened", "ended"}] /\ Busy' = Busy \cup {m}
    BY <2>1 DEF SyncShapes, Busy
  <2> QED BY <2>1, <2>2, UnchangedKept DEF Accounted
<1>6. Unedited'
  BY DEF SyncShapes, Unedited, Walked, Listed, Mirrored, Fresh
<1> QED BY <1>1, <1>2, <1>3, <1>4, <1>5, <1>6

LEMMA StopDispatchInv ==
  ASSUME SyncInv, StopDispatch
  PROVE  SyncInv'
<1> USE SyncAssumption DEF SyncInv, StopDispatch, AddError, scanVars, planVars, workVars
<1>1. SyncShapes'
  BY DEF SyncShapes
<1>2. Begun'
  BY DEF SyncShapes, Begun, Working, Reading
<1>3. Decided'
  BY DEF SyncShapes, Decided
<1>4. Closed'
  BY DEF SyncShapes, Closed, Busy
<1>5. Accounted'
  BY UnchangedKept DEF SyncShapes, Accounted, Busy
<1>6. Unedited'
  BY DEF SyncShapes, Unedited, Walked, Listed, Mirrored, Fresh
<1> QED BY <1>1, <1>2, <1>3, <1>4, <1>5, <1>6

LEMMA UploadsEndInv ==
  ASSUME SyncInv, UploadsEnd
  PROVE  SyncInv'
<1> USE SyncAssumption DEF SyncInv, UploadsEnd, scanVars, planVars, workVars
<1>1. SyncShapes'
  <2>1. Cardinality(stored) \in Nat
    BY FS_Subset, FS_CardinalityType DEF SyncShapes
  <2>2. result' \in [uploaded : Nat, deleted : Nat, skipped : Nat, errors : SUBSET {"uploads", "deletes"}]
    BY <2>1 DEF SyncShapes
  <2> QED BY <2>2 DEF SyncShapes
<1>2. Begun'
  BY DEF SyncShapes, Begun, Working, Reading
<1>3. Decided'
  BY DEF SyncShapes, Decided
<1>4. Closed'
  BY DEF SyncShapes, Closed, Busy
<1>5. Accounted'
  BY UnchangedKept DEF SyncShapes, Accounted, Busy
<1>6. Unedited'
  BY DEF SyncShapes, Unedited, Walked, Listed, Mirrored, Fresh
<1> QED BY <1>1, <1>2, <1>3, <1>4, <1>5, <1>6

LEMMA DeleteBatchInv ==
  ASSUME SyncInv, DeleteBatch
  PROVE  SyncInv'
<1> USE SyncAssumption DEF SyncInv, DeleteBatch, AddError, scanVars, planVars, workVars
<1>1. SyncShapes'
  <2>1. PICK D \in SUBSET deletes : remote' = remote \/ remote' = [k \in NameKey |-> IF k \in D THEN None ELSE remote[k]]
    OBVIOUS
  <2>2. remote' \in [NameKey -> Object \cup {None}]
    BY <2>1 DEF SyncShapes
  <2>3. result' \in [uploaded : Nat, deleted : Nat, skipped : Nat, errors : SUBSET {"uploads", "deletes"}]
    BY DEF SyncShapes
  <2>4. removed' \subseteq NameKey /\ deletes' \subseteq NameKey
    BY DEF SyncShapes
  <2> QED BY <2>2, <2>3, <2>4 DEF SyncShapes
<1>2. Begun'
  BY DEF SyncShapes, Begun, Working, Reading
<1>3. Decided'
  BY DEF SyncShapes, Decided
<1>4. Closed'
  BY DEF SyncShapes, Closed, Busy
<1>5. Accounted'
  BY UnchangedKept DEF SyncShapes, Accounted, Busy
<1>6. Unedited'
  <2>1. PICK D \in SUBSET deletes : remote' = remote \/ remote' = [k \in NameKey |-> IF k \in D THEN None ELSE remote[k]]
    OBVIOUS
  <2>2. ASSUME NEW n \in Name, found[n] # None
        PROVE  remote'[PlainKey(n)] = remote[PlainKey(n)] /\ remote'[<<n, "slash">>] = remote[<<n, "slash">>]
    <3>1. PlainKey(n) \notin deletes /\ <<n, "slash">> \notin deletes
      BY <2>2, KeyFacts DEF Decided, NameOf
    <3> QED BY <2>1, <3>1, KeyFacts
  <2>3. \A n \in Name : found[n] # None /\ Mirrored(n) => Mirrored(n)'
    BY <2>2 DEF Mirrored, Fresh
  <2>4. phase' \in {"delete", "done"} /\ phase = "delete"
    OBVIOUS
  <2> QED BY <2>3, <2>4 DEF Unedited, Walked, Listed
<1> QED BY <1>1, <1>2, <1>3, <1>4, <1>5, <1>6

LEMMA DeletesEndInv ==
  ASSUME SyncInv, DeletesEnd
  PROVE  SyncInv'
<1> USE SyncAssumption DEF SyncInv, DeletesEnd, scanVars, planVars, workVars
<1>1. SyncShapes'
  <2>1. Cardinality(removed) \in Nat
    BY KeyFacts, FS_Subset, FS_CardinalityType DEF SyncShapes
  <2>2. result' \in [uploaded : Nat, deleted : Nat, skipped : Nat, errors : SUBSET {"uploads", "deletes"}]
    BY <2>1 DEF SyncShapes
  <2> QED BY <2>2 DEF SyncShapes
<1>2. Begun'
  BY DEF SyncShapes, Begun, Working, Reading
<1>3. Decided'
  BY DEF SyncShapes, Decided
<1>4. Closed'
  BY DEF SyncShapes, Closed, Busy
<1>5. Accounted'
  BY UnchangedKept DEF SyncShapes, Accounted, Busy
<1>6. Unedited'
  BY DEF SyncShapes, Unedited, Walked, Listed, Mirrored, Fresh
<1> QED BY <1>1, <1>2, <1>3, <1>4, <1>5, <1>6

LEMMA SeeCancelledInv ==
  ASSUME SyncInv, NEW n \in Name, SeeCancelled(n)
  PROVE  SyncInv'
<1> USE SyncAssumption DEF SyncInv, SeeCancelled, scanVars, planVars, workVars
<1>1. SyncShapes'
  BY DEF SyncShapes
<1>2. Begun'
  BY DEF SyncShapes, Begun, Working, Reading
<1>3. Decided'
  BY DEF SyncShapes, Decided
<1>4. Closed'
  BY DEF SyncShapes, Closed, Busy
<1>5. Accounted'
  BY UnchangedKept DEF SyncShapes, Accounted, Busy
<1>6. Unedited'
  <2>1. \A m \in Name : Mirrored(m) => Mirrored(m)'
    BY DEF SyncShapes, Mirrored, Fresh
  <2> QED BY <2>1 DEF Unedited, Walked, Listed, Sight, Present, Listable
<1> QED BY <1>1, <1>2, <1>3, <1>4, <1>5, <1>6

LEMMA OpenInv ==
  ASSUME SyncInv, NEW n \in Name, Open(n)
  PROVE  SyncInv'
<1> USE SyncAssumption DEF SyncInv, Open, scanVars, planVars, workVars
<1>1. SyncShapes'
  <2>1. /\ worker \in [Name -> {"none", "begun", "opened", "ended"}] /\ opened \in [Name -> Data \cup {None}]
        /\ \A m \in Name : worker[m] = "opened" => opened[m] \in Data
        /\ failed \in BOOLEAN
    BY DEF SyncShapes
  <2>2. local[n] # None => local[n].data \in Data
    BY DEF SyncShapes, LocalFile
  <2>3. /\ worker' \in [Name -> {"none", "begun", "opened", "ended"}] /\ opened' \in [Name -> Data \cup {None}]
        /\ \A m \in Name : worker'[m] = "opened" => opened'[m] \in Data
        /\ failed' \in BOOLEAN
    <3>1. CASE /\ local[n] # None /\ opened' = [opened EXCEPT ![n] = local[n].data]
               /\ worker' = [worker EXCEPT ![n] = "opened"] /\ UNCHANGED failed
      <4> HIDE DEF SyncInv, Open
      <4> QED BY <2>1, <2>2, <3>1
    <3>2. CASE worker' = [worker EXCEPT ![n] = "ended"] /\ failed' = TRUE /\ UNCHANGED opened
      <4> HIDE DEF SyncInv, Open
      <4> QED BY <2>1, <3>2
    <3> QED BY <3>1, <3>2
  <2> QED BY <2>3 DEF SyncShapes
<1>2. Begun'
  BY DEF SyncShapes, Begun, Working, Reading
<1>3. Decided'
  BY DEF SyncShapes, Decided
<1>4. Closed'
  BY DEF SyncShapes, Closed, Busy
<1>5. Accounted'
  BY UnchangedKept DEF SyncShapes, Accounted, Busy
<1>6. Unedited'
  <2>1. ASSUME edits = 0, phase # "err" PROVE found[n] = local[n] /\ found[n] # None
    BY <2>1 DEF Unedited, Walked, Decided, Begun, Working
  <2>2. ASSUME NEW m \in Name, Mirrored(m), edits = 0, phase # "err" PROVE Mirrored(m)'
    BY <2>1, <2>2 DEF SyncShapes, Mirrored, Fresh
  <2> QED BY <2>2 DEF Unedited, Walked, Listed, Sight, Present, Listable
<1> QED BY <1>1, <1>2, <1>3, <1>4, <1>5, <1>6

LEMMA SendInv ==
  ASSUME SyncInv, NEW n \in Name, Send(n)
  PROVE  SyncInv'
<1> USE SyncAssumption DEF SyncInv, Send, UploadFailure, scanVars, planVars, workVars
<1>1. SyncShapes'
  <2> DEFINE object(d) == [data |-> d, time |-> Now, etag |-> "md5"]
  <2>1. remote' = remote \/ \E d \in Data : remote' = [remote EXCEPT ![PlainKey(n)] = object(d)]
    BY DEF SyncShapes, LocalFile
  <2>2. \A d \in Data : object(d) \in Object
    BY DEF Object
  <2>3. remote' \in [NameKey -> Object \cup {None}]
    <3>1. remote \in [NameKey -> Object \cup {None}]
      BY DEF SyncShapes
    <3>2. ASSUME NEW d \in Data, remote' = [remote EXCEPT ![PlainKey(n)] = object(d)]
          PROVE  remote' \in [NameKey -> Object \cup {None}]
      <4> HIDE DEF object
      <4> QED BY <2>2, <3>1, <3>2
    <3> QED BY <2>1, <3>1, <3>2
  <2>4. (stored' = stored \/ stored' = stored \cup {n}) /\ (failed' = failed \/ failed' = TRUE)
    OBVIOUS
  <2>5. worker' \in [Name -> {"none", "begun", "opened", "ended"}] /\ \A m \in Name : worker'[m] = "opened" => worker[m] = "opened"
    BY DEF SyncShapes
  <2>6. UNCHANGED <<local, config, abandoned, phase, found, unwalked, seen, token, planned, deletes, skipped,
                    unread, opened, removed, result, edits>>
    OBVIOUS
  <2>7. SyncShapes
    OBVIOUS
  <2> HIDE SyncAssumption DEF SyncInv, Send, UploadFailure, scanVars, planVars, workVars, object
  <2>8. stored' \subseteq Name /\ failed' \in BOOLEAN
    BY <2>4, <2>7 DEF SyncShapes
  <2> QED BY SMTT(30), <2>3, <2>5, <2>6, <2>7, <2>8 DEF SyncShapes
<1>2. Begun'
  BY DEF SyncShapes, Begun, Working, Reading
<1>3. Decided'
  BY DEF SyncShapes, Decided
<1>4. Closed'
  BY DEF SyncShapes, Closed, Busy
<1>5. Accounted'
  BY UnchangedKept DEF SyncShapes, Accounted, Busy
<1>6. Unedited'
  <2>1. found[n] # None /\ phase \in {"upload", "delete", "done"}
    BY DEF Decided, Begun, Working, SyncShapes
  <2>2. ASSUME edits = 0
        PROVE  /\ remote' = remote \/ remote' = [remote EXCEPT ![PlainKey(n)] = Fresh(n)]
               /\ stored' = stored \/ (stored' = stored \cup {n} /\ remote' = [remote EXCEPT ![PlainKey(n)] = Fresh(n)])
    <3>1. found[n] = local[n] /\ opened[n] = found[n].data
      BY <2>1, <2>2 DEF Unedited, Walked, Mirrored
    <3> QED BY <3>1, <2>1 DEF Fresh
  <2>3. ASSUME edits = 0, NEW m \in Name, found[m] # None PROVE Mirrored(m)'
    <3>1. Mirrored(m)
      BY <2>1, <2>3 DEF Unedited
    <3>2. remote \in [NameKey -> Object \cup {None}] /\ PlainKey(n) \in NameKey /\ PlainKey(m) \in NameKey /\ <<m, "slash">> \in NameKey
      BY KeyFacts DEF SyncShapes
    <3>3. <<m, "slash">> # PlainKey(n) /\ (m # n => PlainKey(m) # PlainKey(n))
      BY DEF PlainKey
    <3>4. Fresh(m)' = Fresh(m) /\ (worker'[m] = "opened" => worker[m] = "opened")
      BY DEF Fresh, SyncShapes
    <3>5. remote'[<<m, "slash">>] = remote[<<m, "slash">>]
      BY <2>2, <2>3, <3>2, <3>3
    <3>6. CASE m # n
      BY <3>1, <3>4, <3>5, <3>6, <2>2, <2>3, <3>2, <3>3 DEF Mirrored
    <3>7. CASE m = n
      <4>1. remote'[PlainKey(n)] \in {remote[PlainKey(n)], Fresh(n)}
        BY <2>2, <2>3, <3>2
      <4>2. n \in stored' => remote'[PlainKey(n)] = Fresh(n)
        BY <2>2, <2>3, <3>1, <3>2, <3>7 DEF Mirrored
      <4> QED BY <3>1, <3>4, <3>5, <3>7, <4>1, <4>2 DEF Mirrored
    <3> QED BY <3>6, <3>7
  <2> QED BY <2>1, <2>3 DEF Unedited, Walked, Listed
<1> QED BY <1>1, <1>2, <1>3, <1>4, <1>5, <1>6

LEMMA SyncInitInv == SyncInit => SyncInv
<1> SUFFICES ASSUME SyncInit PROVE SyncInv
  OBVIOUS
<1> USE SyncAssumption DEF SyncInit
<1>1. SyncShapes
  <2>1. local \in [Name -> LocalFile \cup {None}] /\ remote \in [NameKey -> Object \cup {None}]
    OBVIOUS
  <2> QED BY <2>1 DEF SyncShapes, NoResult
<1>2. Begun /\ Decided /\ Closed /\ Accounted
  BY DEF Begun, Working, Decided, Closed, Accounted
<1>3. Unedited
  BY DEF Unedited, Walked, Listed
<1> QED BY <1>1, <1>2, <1>3 DEF SyncInv

LEMMA SyncStepInv == SyncInv /\ [SyncNext]_syncVars => SyncInv'
<1> SUFFICES ASSUME SyncInv, [SyncNext]_syncVars PROVE SyncInv'
  OBVIOUS
<1>1. CASE UNCHANGED syncVars
  <2> USE <1>1 DEF syncVars, scanVars, planVars, workVars, SyncInv
  <2>1. SyncShapes' /\ Begun' /\ Decided' /\ Closed'
    BY DEF SyncShapes, Begun, Working, Decided, Closed, Busy
  <2>2. Accounted'
    BY UnchangedKept DEF Accounted, Busy
  <2>3. Unedited'
    BY DEF Unedited, Walked, Listed, Mirrored, Fresh, Sight, Present, Listable
  <2> QED BY <2>1, <2>2, <2>3
<1>2. CASE EditLocal \/ EditRemote \/ GiveUp
  BY <1>2, EditLocalInv, EditRemoteInv, GiveUpInv
<1>3. CASE SyncStep
  <2>1. CASE ScanFails \/ PlanFails
    BY <2>1, FailInv DEF ScanFails, PlanFails
  <2>2. CASE ScanFile \/ ScanLocalEnds \/ ScanPage \/ Plan
    BY <2>2, ScanFileInv, ScanLocalEndsInv, ScanPageInv, PlanInv
  <2>3. CASE Dispatch \/ StopDispatch \/ UploadsEnd \/ DeleteBatch \/ DeletesEnd
    BY <2>3, DispatchInv, StopDispatchInv, UploadsEndInv, DeleteBatchInv, DeletesEndInv
  <2> QED BY <1>3, <2>1, <2>2, <2>3 DEF SyncStep
<1>4. ASSUME NEW n \in Name, WorkerStep(n) PROVE SyncInv'
  BY <1>4, SeeCancelledInv, OpenInv, SendInv DEF WorkerStep
<1> QED BY <1>1, <1>2, <1>3, <1>4 DEF SyncNext

LEMMA SyncInvariant == SyncSpec => []SyncInv
<1>1. SyncInit => SyncInv
  BY SyncInitInv
<1>2. SyncInv /\ [SyncNext]_syncVars => SyncInv'
  BY SyncStepInv
<1> QED BY <1>1, <1>2, PTL DEF SyncSpec
----------------------------------------------------------------------------
(* At the end of a calm run every file it includes has been stored, or its *)
(* object is the one the comparator has seen and found the same.           *)
LEMMA CalmFacts ==
  ASSUME SyncInv, Calm, NEW n \in Name, found[n] # None
  PROVE  /\ found[n] = local[n] /\ found[n] \in LocalFile /\ Mirrored(n)
         /\ n \in stored \/ Unchanged(n)
<1> USE DEF SyncInv, Calm
<1>1. found[n] = local[n] /\ found[n] \in LocalFile /\ Mirrored(n)
  BY DEF Unedited, Walked, SyncShapes
<1>2. planned = {} /\ Busy = {} /\ ~failed
  BY DEF Closed
<1>3. n \in stored \/ Unchanged(n)
  BY <1>2 DEF Accounted
<1> QED BY <1>1, <1>3

(* A file just stored is taken for unchanged, whatever the comparator.     *)
LEMMA FreshIsUnchanged ==
  ASSUME SyncShapes, config.comparator # "time", NEW n \in Name, found[n] \in LocalFile
  PROVE  ~HasChanged(found[n], Fresh(n), found[n].data)
<1>1. found[n].data # None /\ Size[found[n].data] \in Nat
  BY DataAssumption, SyncAssumption DEF LocalFile
<1>2. config.comparator \in {"smart", "size", "checksum", "composite", "null"}
  BY DataAssumption, SyncAssumption DEF SyncShapes
<1>3. Fresh(n).data = found[n].data /\ Fresh(n).etag = "md5"
  BY DEF Fresh
<1>4. /\ ~SmartHasChanged(found[n], Fresh(n), found[n].data)
      /\ ~SizeOnlyHasChanged(found[n], Fresh(n)) /\ ~ChecksumHasChanged(Fresh(n), found[n].data)
      /\ ~CompositeHasChanged(found[n], Fresh(n), found[n].data)
  BY <1>1, <1>3 DEF SmartHasChanged, SizeOnlyHasChanged, ChecksumHasChanged, CompositeHasChanged
<1> HIDE DEF Fresh
<1> QED BY <1>2, <1>4 DEF HasChanged

LEMMA CalmIsMirrored == SyncInv => MirrorWhenCalm
<1> SUFFICES ASSUME SyncInv, Calm, Exact, NEW n \in Name,
                    local[n] # None, ShouldIncludeFile(n), ~Aliased(n)
             PROVE  remote[PlainKey(n)] # None /\ remote[PlainKey(n)].data = local[n].data
  BY DEF MirrorWhenCalm
<1> USE SyncAssumption
<1>1. found[n] = local[n] /\ found[n] # None
  BY DEF Calm, SyncInv, Unedited, Walked
<1>2. found[n] \in LocalFile /\ Mirrored(n) /\ (n \in stored \/ Unchanged(n))
  BY <1>1, CalmFacts
<1>3. Fresh(n) # None /\ Fresh(n).data = found[n].data
  <2>1. Fresh(n) \in Object
    BY <1>2 DEF Fresh, LocalFile, Object
  <2> QED BY <2>1 DEF Fresh
<1>4. CASE remote[PlainKey(n)] = Fresh(n)
  BY <1>1, <1>3, <1>4
<1>5. CASE remote[PlainKey(n)] # Fresh(n)
  <2>1. n \notin stored /\ Unchanged(n)
    BY <1>2, <1>5 DEF Mirrored
  <2> DEFINE o == seen[n].object
  <2>2. remote[<<n, "slash">>] = None /\ seen[n] # None
    BY <2>1 DEF Aliased, Unchanged
  <2>3. o \in Object /\ o # None /\ remote[PlainKey(n)] = o
    <3>1. seen[n] \in [key : NameKey, object : Object] /\ o # None
      BY <2>2 DEF SyncInv, SyncShapes
    <3> QED BY <3>1, <1>2, <1>5, <2>2 DEF Mirrored
  <2>4. o.data = found[n].data
    <3>1. found[n].data # None /\ ~HasChanged(found[n], o, ReadAs(n))
      BY <1>2, <2>1, DataAssumption DEF Unchanged, LocalFile
    <3>2. CASE config.comparator \in Reading
      <4>1. ReadAs(n) = found[n].data
        BY <3>2 DEF SyncInv, Begun, ReadAs
      <4>2. ~ChecksumHasChanged(o, found[n].data)
        BY <3>1, <3>2, <4>1 DEF Reading, HasChanged, CompositeHasChanged
      <4> QED BY <4>2 DEF ChecksumHasChanged
    <3>3. CASE config.comparator = "smart" /\ unread = {} /\ \A k \in NameKey : remote[k] # None => remote[k].etag = "md5"
      <4>1. ReadAs(n) = found[n].data
        BY <3>3 DEF ReadAs
      <4>2. o.etag = "md5"
        <5>1. PlainKey(n) \in NameKey
          BY KeyFacts
        <5>2. remote[PlainKey(n)] # None
          BY <2>3
        <5>3. remote[PlainKey(n)].etag = "md5"
          BY <3>3, <5>1, <5>2
        <5> QED BY <2>3, <5>3
      <4>3. ~SmartHasChanged(found[n], o, found[n].data)
        BY <3>1, <3>3, <4>1 DEF HasChanged
      <4> QED BY <4>2, <4>3, <3>1 DEF SmartHasChanged
    <3> QED BY <3>2, <3>3 DEF Exact
  <2> QED BY <1>1, <2>3, <2>4
<1> QED BY <1>4, <1>5

LEMMA CalmIsIdle == SyncInv => SecondSyncIsIdle
<1> DEFINE objs == [n \in Name |->
              LET K == {k \in NameKey : k[1] = n /\ remote[k] # None} IN
              IF K = {} THEN None ELSE [key |-> LastOf(K), object |-> remote[LastOf(K)]]]
           now == [n \in Name |-> IF local[n] = None THEN None ELSE local[n].data]
<1> SUFFICES ASSUME SyncInv, Calm, unread = {}, config.comparator # "time",
                    NEW n \in PlanUploads(found, objs, now)
             PROVE  FALSE
  BY DEF SecondSyncIsIdle
<1> USE SyncAssumption
<1>1. n \in Name /\ found[n] # None /\ (objs[n] = None \/ HasChanged(found[n], objs[n].object, now[n]))
  BY DEF PlanUploads
<1>2. found[n] = local[n] /\ found[n] \in LocalFile /\ Mirrored(n) /\ (n \in stored \/ Unchanged(n))
  BY <1>1, CalmFacts
<1>3. now[n] = found[n].data
  BY <1>1, <1>2
<1>4. objs[n] = Sight(n, Present)
  <2>1. {k \in NameKey : k[1] = n /\ remote[k] # None} = {k \in Present : k[1] = n}
    BY DEF Present
  <2>2. objs[n] = Taken(n, Present)
    BY <1>1, <2>1 DEF Taken
  <2> QED BY <1>1, <2>2, TakenFacts DEF Present
<1>5. PlainKey(n) \in Present <=> remote[PlainKey(n)] # None
  BY <1>1, KeyFacts DEF Present
<1>6. <<n, "slash">> \in Present <=> remote[<<n, "slash">>] # None
  BY <1>1, KeyFacts DEF Present
<1>7. \A k \in Present : [key |-> k, object |-> remote[k]] # None
  BY DEF Present, SyncInv, SyncShapes
<1>8. Fresh(n) # None /\ ~HasChanged(found[n], Fresh(n), found[n].data)
  <2>1. Fresh(n) \in Object
    BY <1>2 DEF Fresh, LocalFile, Object
  <2> QED BY <2>1, <1>1, <1>2, FreshIsUnchanged DEF SyncInv
<1>9. ASSUME remote[PlainKey(n)] = Fresh(n) PROVE FALSE
  <2>1. objs[n] # None /\ objs[n].object = Fresh(n)
    <3>1. objs[n] = [key |-> PlainKey(n), object |-> Fresh(n)] /\ objs[n] # None
      BY <1>4, <1>5, <1>7, <1>8, <1>9 DEF Sight
    <3> HIDE DEF objs
    <3> QED BY <3>1
  <2> HIDE DEF objs, now
  <2> QED BY <2>1, <1>1, <1>3, <1>8
<1>10. ASSUME remote[PlainKey(n)] # Fresh(n) PROVE FALSE
  <2>1. n \notin stored /\ Unchanged(n)
    BY <1>2, <1>10 DEF Mirrored
  <2>2. seen[n] # None /\ ~HasChanged(found[n], seen[n].object, found[n].data)
    BY <2>1 DEF Unchanged, ReadAs
  <2>3. seen[n].object # None
    BY <1>1, <2>2 DEF SyncInv, SyncShapes
  <2>4. objs[n] # None /\ objs[n].object = seen[n].object
    <3>1. \/ remote[PlainKey(n)] = seen[n].object
          \/ remote[PlainKey(n)] = None /\ remote[<<n, "slash">>] = seen[n].object
      BY <1>2, <1>10, <2>2 DEF Mirrored
    <3>2. objs[n] # None /\ \E k : objs[n] = [key |-> k, object |-> seen[n].object]
      BY <3>1, <2>3, <1>4, <1>5, <1>6, <1>7 DEF Sight
    <3> HIDE DEF objs
    <3> QED BY <3>2
  <2> HIDE DEF objs, now
  <2> QED BY <2>2, <2>4, <1>1, <1>3
<1> QED BY <1>9, <1>10

(* A calm run leaves the content of every included file in the bucket, and *)
(* a second run would upload nothing: whatever the pages, the batches and  *)
(* the order of the workers were (Client.Sync).                            *)
THEOREM CalmSyncMirrors == SyncSpec => []SyncMirrors
<1>1. SyncInv => SyncMirrors
  <2>1. SyncInv => SyncTypeOK
    BY DEF SyncInv, SyncShapes, SyncTypeOK
  <2> QED BY <2>1, CalmIsMirrored, CalmIsIdle DEF SyncMirrors
<1> QED BY <1>1, SyncInvariant, PTL

(* Without an error for the uploads, and not cancelled, the count returned *)
(* is that of the files stored, and none of those planned is missing       *)
(* (Executor.Execute).                                                     *)
THEOREM ReportIsTrue == SyncSpec => []ReportedIsDone
<1>1. SyncInv => ReportedIsDone
  BY DEF SyncInv, ReportedIsDone, Closed, Accounted
<1> QED BY <1>1, SyncInvariant, PTL

(* An object is removed only if its name was not found, and only once no   *)
(* upload is waiting or under way (executeDeletes after executeUploads).   *)
THEOREM RemovalsAreSafe == SyncSpec => RemovalIsSafe
<1>1. SyncInv => RemovedWasExtra
  BY DEF SyncInv, RemovedWasExtra, Decided, Begun, Working, SyncShapes, NameOf, NameKey
<1>2. SyncInv /\ [SyncNext]_syncVars => [removed' # removed => Busy = {} /\ planned = {}]_syncVars
  <2> SUFFICES ASSUME SyncInv, [SyncNext]_syncVars, removed' # removed PROVE Busy = {} /\ planned = {}
    OBVIOUS
  <2>1. DeleteBatch /\ ~abandoned
    BY DEF SyncNext, SyncStep, WorkerStep, EditLocal, EditRemote, GiveUp, ScanFile, ScanLocalEnds, ScanFails, Fail,
           ScanPage, PlanFails, Plan, Dispatch, StopDispatch, UploadsEnd, DeletesEnd, DeleteBatch,
           SeeCancelled, Open, Send, syncVars, scanVars, planVars, workVars
  <2> QED BY <2>1 DEF DeleteBatch, SyncInv, Begun, Closed
<1> QED BY <1>1, <1>2, SyncInvariant, PTL DEF SyncSpec, RemovalIsSafe, NoRemovalDuringUploads
============================================================================
