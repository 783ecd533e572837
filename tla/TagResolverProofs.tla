------------------------- MODULE TagResolverProofs -------------------------
(***************************************************************************)
(* Proofs about TagCache and TagResolver for any number of goroutines,     *)
(* references, digests and files, any limit of the history, any TTL and    *)
(* any bounds.  First the tag cache alone: what a goroutine has read is    *)
(* kept as carefully as what the files hold, because it is written back.   *)
(* Then the resolver, which uses the tag cache only through its calls, so  *)
(* that what is proved of the cache holds under it: a manifest is served   *)
(* young, a batch waits for its goroutines, and no digest that an          *)
(* invalidation has thrown away is answered again.                         *)
(***************************************************************************)
EXTENDS TagResolver, SequenceTheorems, FiniteSetTheorems, TLAPS

EntryType ==
  [reference : Reference, digest : Digest, history : Seq(Digest), expired : BOOLEAN]

(* Neighbours of a history differ. *)
Alternates(h) == \A i \in 1..(Len(h) - 1) : h[i] # h[i + 1]

WellFormed(e) ==
  LET h == e.history IN
  /\ Len(h) <= MaxHistorySize
  /\ Alternates(h)
  /\ h # <<>> => h[Len(h)] # e.digest

Good(e) == e # None => e \in EntryType /\ WellFormed(e)

Shapes ==
  /\ DOMAIN tags = Path /\ tags = [q \in Path |-> tags[q]]
  /\ DOMAIN seen = Proc /\ seen = [p \in Proc |-> seen[p]]
  /\ puts \in 0..MaxPuts
  /\ ref \in [Proc -> Reference \cup {None}] /\ dgst \in [Proc -> Digest \cup {None}]
  /\ pc \in [Proc -> Points]
  /\ op \in [Proc -> Ops \cup {"none"}]
  /\ stirred \in SUBSET Path /\ latest = [q \in Path |-> latest[q]]

(* Between its call and its return a goroutine has a reference, a put has  *)
(* a digest, and a lookup that succeeds or writes back has an entry.       *)
Calls ==
  \A p \in Proc :
    /\ pc[p] # "idle" => ref[p] \in Reference
    /\ op[p] = "put" => dgst[p] \in Digest
    /\ pc[p] = "remove" => op[p] # "get"
    /\ op[p] = "get" /\ pc[p] \in {"write", "ok"} => seen[p] \in EntryType /\ WellFormed(seen[p])

Inv ==
  /\ Shapes /\ Calls
  /\ \A q \in Path : Good(tags[q])
  /\ \A p \in Proc : Good(seen[p])
----------------------------------------------------------------------------
(* What KeepLast keeps: the end of the history, and no more than n of it.  *)
LEMMA KeepLastFacts ==
  ASSUME NEW h \in Seq(Digest), NEW n \in Nat, Alternates(h)
  PROVE  LET k == KeepLast(h, n) IN
         /\ k \in Seq(Digest) /\ Len(k) <= n /\ Alternates(k)
         /\ k # <<>> => k[Len(k)] = h[Len(h)]
<1>1. CASE Len(h) <= n
  BY <1>1 DEF KeepLast
<1>2. CASE Len(h) > n
  <2> DEFINE m == Len(h) - n + 1
             k == SubSeq(h, m, Len(h))
  <2>1. KeepLast(h, n) = k
    BY <1>2 DEF KeepLast
  <2>2. m \in 1..Len(h) + 1 /\ Len(h) \in Nat
    BY <1>2
  <2>3. k \in Seq(Digest) /\ Len(k) = n /\ \A i \in 1..n : k[i] = h[m + i - 1]
    <3>1. /\ k \in Seq(Digest)
          /\ Len(k) = IF m <= Len(h) THEN Len(h) - m + 1 ELSE 0
          /\ \A i \in 1..Len(k) : k[i] = h[m + i - 1]
      BY <2>2, SubSeqProperties
    <3> QED BY <3>1, <2>2, <1>2
  <2>4. Alternates(k)
    <3> SUFFICES ASSUME NEW i \in 1..(n - 1) PROVE k[i] # k[i + 1]
      BY <2>3 DEF Alternates
    <3>1. k[i] = h[m + i - 1] /\ k[i + 1] = h[m + i]
      BY <2>3, <2>2
    <3>2. m + i - 1 \in 1..(Len(h) - 1) /\ (m + i - 1) + 1 = m + i
      BY <2>2, <1>2
    <3> QED BY <3>1, <3>2 DEF Alternates
  <2>5. k # <<>> => k[Len(k)] = h[Len(h)]
    <3> SUFFICES ASSUME k # <<>> PROVE k[Len(k)] = h[Len(h)]
      OBVIOUS
    <3>1. n > 0
      BY <2>3
    <3> QED BY <3>1, <2>3, <2>2
  <2> QED BY <2>1, <2>3, <2>4, <2>5
<1> QED BY <1>1, <1>2

(* An append to an alternating history of something else alternates. *)
LEMMA AppendAlternates ==
  ASSUME NEW h \in Seq(Digest), NEW d \in Digest, Alternates(h),
         h # <<>> => h[Len(h)] # d
  PROVE  Append(h, d) \in Seq(Digest) /\ Alternates(Append(h, d))
         /\ Append(h, d)[Len(Append(h, d))] = d
<1>1. /\ Append(h, d) \in Seq(Digest)
      /\ Len(Append(h, d)) = Len(h) + 1 /\ Len(h) \in Nat
      /\ \A i \in 1..Len(h) : Append(h, d)[i] = h[i]
      /\ Append(h, d)[Len(h) + 1] = d
  BY AppendProperties
<1>2. ASSUME NEW i \in 1..Len(h) PROVE Append(h, d)[i] # Append(h, d)[i + 1]
  <2>1. CASE i = Len(h)
    BY <1>1, <2>1
  <2>2. CASE i < Len(h)
    <3>1. i \in 1..(Len(h) - 1) /\ i + 1 \in 1..Len(h)
      BY <1>1, <2>2
    <3> QED BY <1>1, <3>1 DEF Alternates
  <2> QED BY <1>1, <2>1, <2>2
<1> QED BY <1>1, <1>2 DEF Alternates

(* What PutTagMapping writes is an entry whose history is well formed if   *)
(* that of the entry it read was.                                          *)
LEMMA UpdatedFacts ==
  ASSUME NEW p \in Proc, ref[p] \in Reference, dgst[p] \in Digest, NEW e, Good(e)
  PROVE  Updated(p, e) \in EntryType /\ WellFormed(Updated(p, e))
<1> USE TagAssumption
<1>1. CASE e = None
  <2>1. Updated(p, e) = [reference |-> ref[p], digest |-> dgst[p], history |-> <<>>, expired |-> FALSE]
    BY <1>1 DEF Updated, NewEntry
  <2> QED BY <2>1 DEF EntryType, WellFormed, Alternates
<1>2. CASE e # None /\ e.digest = dgst[p]
  <2>1. e \in EntryType /\ WellFormed(e)
    BY <1>2 DEF Good
  <2>2. Updated(p, e) = [e EXCEPT !.digest = dgst[p], !.history = e.history]
    BY <1>2 DEF Updated
  <2>3. Updated(p, e) \in EntryType /\ Updated(p, e).history = e.history
        /\ Updated(p, e).digest = e.digest
    BY <1>2, <2>1, <2>2 DEF EntryType
  <2> QED BY <2>1, <2>3 DEF WellFormed
<1>3. CASE e # None /\ e.digest # dgst[p]
  <2>1. e \in EntryType /\ WellFormed(e)
    BY <1>3 DEF Good
  <2> DEFINE k == KeepLast(Append(e.history, e.digest), MaxHistorySize)
  <2>2. e.history \in Seq(Digest) /\ e.digest \in Digest
    BY <2>1 DEF EntryType
  <2>3. /\ Append(e.history, e.digest) \in Seq(Digest) /\ Alternates(Append(e.history, e.digest))
        /\ Append(e.history, e.digest)[Len(Append(e.history, e.digest))] = e.digest
    BY <2>1, <2>2, AppendAlternates DEF WellFormed
  <2>4. k \in Seq(Digest) /\ Len(k) <= MaxHistorySize /\ Alternates(k) /\ (k # <<>> => k[Len(k)] = e.digest)
    BY <2>3, KeepLastFacts
  <2>5. Updated(p, e) = [e EXCEPT !.digest = dgst[p], !.history = k]
    BY <1>3 DEF Updated
  <2> HIDE DEF k
  <2>6. Updated(p, e) \in EntryType /\ Updated(p, e).history = k /\ Updated(p, e).digest = dgst[p]
    BY <2>1, <2>4, <2>5 DEF EntryType
  <2> QED BY <1>3, <2>4, <2>6 DEF WellFormed
<1> QED BY <1>1, <1>2, <1>3
----------------------------------------------------------------------------
LEMMA InitInv == Init => Inv
BY TagAssumption DEF Init, Inv, Shapes, Calls, Good, Points

LEMMA BeginInv ==
  ASSUME Inv, NEW p \in Proc, NEW o \in Ops, NEW r \in Reference, NEW d \in Digest \cup {None},
         Begin(p, o, r, d)
  PROVE  Inv'
<1> USE DEF Begin, Goto, Inv
<1>1. Shapes'
  BY TagAssumption DEF Shapes, Ops, Points
<1>2. Calls'
  BY TagAssumption DEF Calls, Shapes
<1>3. (\A q \in Path : Good(tags[q])') /\ (\A q \in Proc : Good(seen[q])')
  BY DEF Good, WellFormed, Alternates
<1> QED BY <1>1, <1>2, <1>3

LEMMA ReadEntryInv == ASSUME Inv, NEW p \in Proc, ReadEntry(p) PROVE Inv'
<1> USE DEF Inv
<1>1. PICK e \in {tags[FileOf(p)], None} :
        \/ /\ op[p] = "put"
           /\ seen' = [seen EXCEPT ![p] = IF e # None /\ ~e.expired THEN e ELSE None]
           /\ Goto(p, "write")
        \/ /\ op[p] # "put"
           /\ seen' = [seen EXCEPT ![p] = e]
           /\ Goto(p, CASE e = None -> "err"
                       [] e # None /\ e.expired -> "drop"
                       [] OTHER -> IF op[p] = "get" THEN "write" ELSE "ok")
  BY DEF ReadEntry
<1>2. pc[p] = "read" /\ UNCHANGED <<tags, puts, op, ref, dgst, latest, stirred>>
  BY DEF ReadEntry
<1>3. Good(e)
  <2>1. FileOf(p) \in Path
    BY <1>2, TagAssumption DEF Calls, FileOf
  <2> QED BY <1>1, <2>1 DEF Good
<1>4. Shapes' /\ Good(seen'[p]) /\ (\A q \in Proc \ {p} : seen'[q] = seen[q] /\ pc'[q] = pc[q])
  BY <1>1, <1>2, <1>3 DEF Shapes, Goto, Points, Good
<1>5. op[p] = "get" /\ pc'[p] \in {"write", "ok"} => seen'[p] = e /\ e # None
  BY <1>1, <1>2 DEF Shapes, Goto
<1>6. pc'[p] \in {"write", "drop", "ok", "err"} /\ \A q \in Proc \ {p} : seen'[q] = seen[q] /\ pc'[q] = pc[q]
  BY <1>1, <1>2, <1>4 DEF Shapes, Goto
<1>7. ASSUME NEW q \in Proc
      PROVE  /\ pc'[q] # "idle" => ref'[q] \in Reference
             /\ op'[q] = "put" => dgst'[q] \in Digest
             /\ pc'[q] = "remove" => op'[q] # "get"
             /\ op'[q] = "get" /\ pc'[q] \in {"write", "ok"} => seen'[q] \in EntryType /\ WellFormed(seen'[q])
  <2>1. CASE q = p
    BY <2>1, <1>2, <1>3, <1>5, <1>6 DEF Calls, Good
  <2>2. CASE q # p
    BY <2>2, <1>2, <1>6 DEF Calls
  <2> QED BY <2>1, <2>2
<1>8. Calls'
  BY <1>7 DEF Calls, WellFormed, Alternates
<1>9. \A q \in Path : Good(tags'[q])
  BY <1>2
<1>10. \A q \in Proc : Good(seen'[q])
  BY <1>4
<1> QED BY <1>4, <1>8, <1>9, <1>10 DEF Good, WellFormed, Alternates

LEMMA DropExpiredInv == ASSUME Inv, NEW p \in Proc, DropExpired(p) PROVE Inv'
<1> USE DEF Inv, DropExpired, Goto
<1>1. Shapes'
  BY DEF Shapes, Points
<1>2. Calls'
  BY DEF Calls, Shapes, WellFormed, Alternates
<1>3. \A q \in Path : tags'[q] \in {None, tags[q]}
  BY DEF Shapes
<1>4. \A q \in Path : Good(tags'[q])
  BY <1>3 DEF Good
<1> QED BY <1>1, <1>2, <1>4 DEF Good, WellFormed, Alternates

LEMMA WriteEntryInv == ASSUME Inv, NEW p \in Proc, WriteEntry(p) PROVE Inv'
<1> USE DEF Inv, WriteEntry, Goto
<1>1. Shapes'
  BY DEF Shapes, Points
<1>2. Calls'
  BY DEF Calls, Shapes, WellFormed, Alternates
<1>3. ASSUME NEW q \in Path PROVE Good(tags'[q])
  <2>1. tags'[q] \in {tags[q], seen[p]} \/ (op[p] = "put" /\ tags'[q] = Updated(p, seen[p]))
    BY DEF Shapes
  <2>2. op[p] = "put" => Updated(p, seen[p]) \in EntryType /\ WellFormed(Updated(p, seen[p]))
    BY UpdatedFacts DEF Calls
  <2> QED BY <2>1, <2>2 DEF Good
<1> QED BY <1>1, <1>2, <1>3 DEF Good, WellFormed, Alternates

LEMMA RemoveEntryInv == ASSUME Inv, NEW p \in Proc, RemoveEntry(p) PROVE Inv'
<1> USE DEF Inv, RemoveEntry, Goto
<1>1. Shapes'
  BY DEF Shapes, Points
<1>2. Calls'
  BY DEF Calls, Shapes, WellFormed, Alternates
<1>3. \A q \in Path : tags'[q] \in {None, tags[q]}
  BY DEF Shapes
<1>4. \A q \in Path : Good(tags'[q])
  BY <1>3 DEF Good
<1> QED BY <1>1, <1>2, <1>4 DEF Good, WellFormed, Alternates

LEMMA ReturnInv == ASSUME Inv, NEW p \in Proc, Return(p) PROVE Inv'
<1> USE DEF Inv, Return, Goto
<1>1. Shapes'
  BY DEF Shapes, Points
<1>2. Calls'
  BY DEF Calls, Shapes, WellFormed, Alternates
<1>3. \A q \in Proc : seen'[q] = None \/ seen'[q] = seen[q]
  BY DEF Shapes
<1> QED BY <1>1, <1>2, <1>3 DEF Good, WellFormed, Alternates

(* Only whether an entry has expired changes, which no history depends on. *)
LEMMA ExpiredEntry ==
  ASSUME NEW e \in EntryType, WellFormed(e)
  PROVE  [e EXCEPT !.expired = TRUE] \in EntryType /\ WellFormed([e EXCEPT !.expired = TRUE])
<1>1. /\ [e EXCEPT !.expired = TRUE] \in EntryType
      /\ [e EXCEPT !.expired = TRUE].history = e.history
      /\ [e EXCEPT !.expired = TRUE].digest = e.digest
  BY DEF EntryType
<1> QED BY <1>1 DEF WellFormed

LEMMA ExpireInv == ASSUME Inv, NEW q \in Path, Expire(q) PROVE Inv'
<1> USE DEF Inv, Expire
<1>1. \A x \in Path : tags'[x] = IF x = q THEN [tags[q] EXCEPT !.expired = TRUE] ELSE tags[x]
  BY DEF Shapes
<1>2. \A p \in Proc :
        (seen'[p] = seen[p]) \/ (seen[p] # None /\ seen'[p] = [seen[p] EXCEPT !.expired = TRUE])
  OBVIOUS
<1>3. \A x \in Path : Good(tags'[x])
  BY <1>1, ExpiredEntry DEF Good
<1>4. \A p \in Proc : Good(seen'[p])
  BY <1>2, ExpiredEntry DEF Good
<1>5. Shapes'
  BY DEF Shapes
<1>6. Calls'
  BY <1>2, ExpiredEntry DEF Calls, Good
<1> QED BY <1>3, <1>4, <1>5, <1>6 DEF Good, WellFormed, Alternates

LEMMA StepInv == Inv /\ [Next]_tagVars => Inv'
<1> SUFFICES ASSUME Inv, [Next]_tagVars PROVE Inv'
  OBVIOUS
<1>1. CASE UNCHANGED tagVars
  BY <1>1 DEF tagVars, Inv, Shapes, Calls, Good, WellFormed, Alternates
<1>2. CASE Next
  BY <1>2, BeginInv, ReadEntryInv, DropExpiredInv, WriteEntryInv, RemoveEntryInv, ReturnInv,
     ExpireInv DEF Next, TagStep
<1> QED BY <1>1, <1>2

LEMMA Invariant == Spec => []Inv
BY InitInv, StepInv, PTL DEF Spec

LEMMA InvMeans == Inv => TypeOK /\ HistoryWellFormed
<1> SUFFICES ASSUME Inv PROVE TypeOK /\ HistoryWellFormed
  OBVIOUS
<1>1. TypeOK
  BY DEF Inv, Shapes, Good, EntryType, IsEntry, TypeOK
<1>2. HistoryWellFormed
  BY DEF Inv, Good, WellFormed, Alternates, HistoryWellFormed
<1> QED BY <1>1, <1>2

(* The tag cache keeps its shape, whoever calls it and however the calls   *)
(* interleave.                                                             *)
THEOREM TagCacheTyped == Spec => []TypeOK
BY Invariant, InvMeans, PTL

(* The history in a mapping file is bounded and records changes only,      *)
(* although every put and get writes back what it has read before.         *)
THEOREM HistoryIsWellFormed == Spec => []HistoryWellFormed
BY Invariant, InvMeans, PTL
----------------------------------------------------------------------------
(* What UnstirredIsLatest needs.  A goroutine is at the points of its      *)
(* operation only; on a file that is not stirred it is by itself; and      *)
(* what it has stored, removed or is about to write back is the latest.    *)
Route(p) ==
  /\ op[p] = "none" <=> pc[p] = "idle"
  /\ pc[p] = "write" => op[p] \in {"get", "put"}
  /\ pc[p] = "drop" => op[p] \in {"get", "look"}
  /\ pc[p] = "remove" => op[p] = "delete"
  /\ op[p] = "delete" => pc[p] \in {"remove", "ok", "err"}

ByItself(q) ==
  \A p1, p2 \in Proc :
    pc[p1] # "idle" /\ pc[p2] # "idle" /\ FileOf(p1) = q /\ FileOf(p2) = q => p1 = p2

Fits(e, q) == latest[q] # "race" /\ e # None /\ ~e.expired => e.digest = latest[q]

Kept(p) ==
  /\ Changing(p) => latest[FileOf(p)] = "race"
  /\ pc[p] = "ok" /\ op[p] = "put" =>
       (tags[FileOf(p)] # None /\ ~tags[FileOf(p)].expired => tags[FileOf(p)].digest = dgst[p])
  /\ pc[p] = "ok" /\ op[p] = "delete" => tags[FileOf(p)] = None
  /\ pc[p] = "write" /\ op[p] = "get" => Fits(seen[p], FileOf(p))

Fresh ==
  /\ \A p \in Proc : Route(p)
  /\ \A q \in Path \ stirred : ByItself(q) /\ Fits(tags[q], q)
  /\ \A p \in Proc : pc[p] # "idle" /\ FileOf(p) \notin stirred => Kept(p)

LEMMA InitFresh == Init => Fresh
BY TagAssumption DEF Init, Fresh, Route, ByItself, Fits, Changing

(* A call's own step disturbs the files of no other.                       *)
LEMMA OwnStep ==
  ASSUME Inv, Fresh, NEW p \in Proc, pc[p] # "idle", pc'[p] # "idle",
         UNCHANGED <<op, ref, dgst, latest, stirred>>,
         \A q \in Path \ {FileOf(p)} : tags'[q] = tags[q],
         \A x \in Proc \ {p} : pc'[x] = pc[x] /\ seen'[x] = seen[x],
         Route(p)',
         FileOf(p) \notin stirred => Kept(p)' /\ Fits(tags[FileOf(p)], FileOf(p))'
  PROVE  Fresh'
<1>1. \A x \in Proc : FileOf(x)' = FileOf(x) /\ (Changing(x)' <=> Changing(x))
  BY DEF FileOf, Changing
<1>2. \A x \in Proc : Route(x)'
  BY DEF Fresh, Route
<1>3. \A q \in Path \ stirred' : ByItself(q)'
  BY <1>1 DEF Fresh, ByItself
<1>4. ASSUME NEW q \in Path \ stirred' PROVE Fits(tags[q], q)'
  <2>1. CASE q = FileOf(p)
    <3>1. Fits(tags[FileOf(p)], FileOf(p))' /\ FileOf(p)' = FileOf(p)
      BY <1>1, <1>4, <2>1
    <3> QED BY <2>1, <3>1 DEF Fits
  <2>2. CASE q # FileOf(p)
    BY <1>4, <2>2 DEF Fresh, Fits
  <2> QED BY <2>1, <2>2
<1>5. ASSUME NEW x \in Proc, pc'[x] # "idle", FileOf(x)' \notin stirred' PROVE Kept(x)'
  <2>1. CASE x = p
    BY <1>1, <1>5, <2>1
  <2>2. CASE x # p
    <3>1. pc[x] # "idle" /\ FileOf(x) \notin stirred
      BY <1>1, <1>5, <2>2
    <3>2. Kept(x) /\ FileOf(x) \in Path
      BY <3>1, TagAssumption DEF Fresh, Inv, Calls, FileOf
    <3>3. FileOf(x) # FileOf(p)
      BY <2>2, <3>1, <3>2 DEF Fresh, ByItself
    <3>4. tags'[FileOf(x)] = tags[FileOf(x)] /\ pc'[x] = pc[x] /\ seen'[x] = seen[x]
      BY <2>2, <3>2, <3>3
    <3>5. Fits(seen[x], FileOf(x))' <=> Fits(seen[x], FileOf(x))
      BY <1>1, <3>4 DEF Fits
    <3> QED BY <1>1, <3>2, <3>4, <3>5 DEF Kept
  <2> QED BY <2>1, <2>2
<1> QED BY <1>2, <1>3, <1>4, <1>5 DEF Fresh

LEMMA BeginFresh ==
  ASSUME Inv, Fresh, NEW p \in Proc, NEW o \in Ops, NEW r \in Reference, NEW d \in Digest \cup {None},
         Begin(p, o, r, d)
  PROVE  Fresh'
<1> DEFINE f == TagPath[r]
<1> USE TagAssumption
<1>1. /\ pc[p] = "idle" /\ f \in Path
      /\ pc'[p] \in {"err", IF o = "delete" THEN "remove" ELSE "read"}
      /\ op'[p] = o /\ ref'[p] = r /\ dgst'[p] = d
      /\ \A x \in Proc \ {p} : pc'[x] = pc[x] /\ op'[x] = op[x] /\ ref'[x] = ref[x] /\ dgst'[x] = dgst[x]
      /\ UNCHANGED <<tags, seen>>
  BY DEF Begin, Goto, Inv, Shapes
<1>2. FileOf(p)' = f /\ \A x \in Proc \ {p} : FileOf(x)' = FileOf(x) /\ (Changing(x)' <=> Changing(x))
  BY <1>1 DEF FileOf, Changing
<1>3. \A q \in Path : latest'[q] = IF o \in {"put", "delete"} /\ q = f THEN "race" ELSE latest[q]
  BY DEF Begin, Inv, Shapes
<1>4. /\ \A q \in Path \ {f} : q \in stirred' <=> q \in stirred
      /\ f \notin stirred' =>
           /\ \A x \in Proc \ {p} : op[x] # "none" => FileOf(x) # f
           /\ o \in {"put", "delete"} \/ f \notin stirred
  BY DEF Begin
<1>5. \A x \in Proc : Route(x)'
  BY <1>1 DEF Fresh, Route, Ops
<1>6. ASSUME NEW q \in Path \ stirred' PROVE ByItself(q)'
  <2>1. ASSUME q = f, NEW x \in Proc \ {p}, pc'[x] # "idle" PROVE FileOf(x)' # f
    BY <1>1, <1>2, <1>4, <1>6, <2>1 DEF Fresh, Route
  <2>2. CASE q = f
    BY <2>1, <2>2 DEF ByItself
  <2>3. CASE q # f
    BY <1>1, <1>2, <1>4, <1>6, <2>3 DEF Fresh, ByItself
  <2> QED BY <2>2, <2>3
<1>7. ASSUME NEW q \in Path \ stirred' PROVE Fits(tags[q], q)'
  BY <1>1, <1>3, <1>4 DEF Fresh, Fits
<1>8. ASSUME NEW x \in Proc, pc'[x] # "idle", FileOf(x)' \notin stirred' PROVE Kept(x)'
  <2>1. CASE x = p
    BY <1>1, <1>2, <1>3, <2>1 DEF Kept, Changing
  <2>2. CASE x # p
    <3>1. pc[x] # "idle" /\ FileOf(x) \in Path
      BY <1>1, <1>8, <2>2 DEF Inv, Calls, FileOf
    <3>2. op[x] # "none"
      BY <3>1 DEF Fresh, Route
    <3>3. FileOf(x) # f
      BY <1>2, <1>4, <1>8, <2>2, <3>2
    <3>4. Kept(x) /\ latest'[FileOf(x)] = latest[FileOf(x)]
      BY <1>2, <1>3, <1>4, <1>8, <2>2, <3>1, <3>3 DEF Fresh
    <3>5. Fits(seen[x], FileOf(x))' <=> Fits(seen[x], FileOf(x))
      BY <1>1, <1>2, <2>2, <3>4 DEF Fits
    <3> QED BY <1>1, <1>2, <2>2, <3>4, <3>5 DEF Kept
  <2> QED BY <2>1, <2>2
<1> QED BY <1>5, <1>6, <1>7, <1>8 DEF Fresh

LEMMA ReadEntryFresh == ASSUME Inv, Fresh, NEW p \in Proc, ReadEntry(p) PROVE Fresh'
<1>1. PICK e \in {tags[FileOf(p)], None} :
        \/ /\ op[p] = "put"
           /\ seen' = [seen EXCEPT ![p] = IF e # None /\ ~e.expired THEN e ELSE None]
           /\ Goto(p, "write")
        \/ /\ op[p] # "put"
           /\ seen' = [seen EXCEPT ![p] = e]
           /\ Goto(p, CASE e = None -> "err"
                       [] e # None /\ e.expired -> "drop"
                       [] OTHER -> IF op[p] = "get" THEN "write" ELSE "ok")
  BY DEF ReadEntry
<1>2. pc[p] = "read" /\ UNCHANGED <<tags, puts, op, ref, dgst, latest, stirred>> /\ FileOf(p) \in Path
  BY TagAssumption DEF ReadEntry, Inv, Calls, FileOf
<1>3. \A x \in Proc \ {p} : pc'[x] = pc[x] /\ seen'[x] = seen[x]
  BY <1>1 DEF Inv, Shapes, Goto
<1>4. \/ op[p] = "put" /\ pc'[p] = "write"
      \/ op[p] \in {"get", "look"} /\ pc'[p] \in {"err", "drop"}
      \/ op[p] = "look" /\ pc'[p] = "ok"
      \/ op[p] = "get" /\ pc'[p] = "write" /\ seen'[p] = e
  BY <1>1, <1>2 DEF Inv, Shapes, Goto, Ops, Fresh, Route
<1>5. Route(p)' /\ pc'[p] # "idle"
  BY <1>2, <1>4 DEF Route
<1>6. ASSUME FileOf(p) \notin stirred PROVE Kept(p)' /\ Fits(tags[FileOf(p)], FileOf(p))'
  <2>1. Kept(p) /\ Fits(tags[FileOf(p)], FileOf(p)) /\ Fits(e, FileOf(p))
    BY <1>1, <1>2, <1>6 DEF Fresh, Fits
  <2>2. FileOf(p)' = FileOf(p) /\ (Changing(p)' <=> Changing(p))
    BY <1>2 DEF FileOf, Changing
  <2>3. Fits(tags[FileOf(p)], FileOf(p))'
    BY <1>2, <2>1, <2>2 DEF Fits
  <2>4. op[p] = "get" /\ pc'[p] = "write" => Fits(seen[p], FileOf(p))'
    BY <1>2, <1>4, <2>1, <2>2 DEF Fits
  <2> QED BY <1>2, <1>4, <2>1, <2>2, <2>3, <2>4 DEF Kept
<1> QED BY <1>2, <1>3, <1>5, <1>6, OwnStep

LEMMA DropExpiredFresh == ASSUME Inv, Fresh, NEW p \in Proc, DropExpired(p) PROVE Fresh'
<1>1. pc[p] = "drop" /\ UNCHANGED <<puts, op, ref, dgst, seen, latest, stirred>> /\ FileOf(p) \in Path
  BY TagAssumption DEF DropExpired, Inv, Calls, FileOf
<1>2. pc'[p] = "err" /\ (\A x \in Proc \ {p} : pc'[x] = pc[x]) /\ (\A q \in Path \ {FileOf(p)} : tags'[q] = tags[q])
  BY DEF DropExpired, Goto, Inv, Shapes
<1>3. tags'[FileOf(p)] \in {tags[FileOf(p)], None}
  BY <1>1 DEF DropExpired, Inv, Shapes
<1>4. Route(p)'
  BY <1>1, <1>2 DEF Route, Fresh
<1>5. ASSUME FileOf(p) \notin stirred PROVE Kept(p)' /\ Fits(tags[FileOf(p)], FileOf(p))'
  <2>1. Kept(p) /\ Fits(tags[FileOf(p)], FileOf(p)) /\ FileOf(p)' = FileOf(p) /\ (Changing(p)' <=> Changing(p))
    BY <1>1, <1>5 DEF Fresh, FileOf, Changing
  <2> QED BY <1>1, <1>2, <1>3, <2>1 DEF Kept, Fits
<1> QED BY <1>1, <1>2, <1>4, <1>5, OwnStep

LEMMA WriteEntryFresh == ASSUME Inv, Fresh, NEW p \in Proc, WriteEntry(p) PROVE Fresh'
<1>1. pc[p] = "write" /\ UNCHANGED <<puts, op, ref, dgst, seen, latest, stirred>> /\ FileOf(p) \in Path
  BY TagAssumption DEF WriteEntry, Inv, Calls, FileOf
<1>2. /\ pc'[p] \in {"ok", "err"} /\ (\A x \in Proc \ {p} : pc'[x] = pc[x])
      /\ \A q \in Path \ {FileOf(p)} : tags'[q] = tags[q]
  BY DEF WriteEntry, Goto, Inv, Shapes
<1>3. op[p] \in {"get", "put"}
  BY <1>1 DEF Fresh, Route
<1>4. /\ op[p] = "put" => (pc'[p] = "ok" /\ tags'[FileOf(p)] = Updated(p, seen[p])) \/ (pc'[p] = "err" /\ tags' = tags)
      /\ op[p] = "get" => tags'[FileOf(p)] \in {tags[FileOf(p)], seen[p]}
  BY <1>1 DEF WriteEntry, Goto, Inv, Shapes
<1>5. op[p] = "put" => Updated(p, seen[p]).digest = dgst[p]
  <2>1. CASE seen[p] = None
    BY <2>1 DEF Updated, NewEntry
  <2>2. CASE seen[p] # None
    <3>1. seen[p] \in EntryType
      BY <2>2 DEF Inv, Good
    <3> QED BY <2>2, <3>1 DEF Updated, EntryType
  <2> QED BY <2>1, <2>2
<1>6. Route(p)'
  BY <1>1, <1>2, <1>3 DEF Route
<1>7. ASSUME FileOf(p) \notin stirred PROVE Kept(p)' /\ Fits(tags[FileOf(p)], FileOf(p))'
  <2>1. Kept(p) /\ Fits(tags[FileOf(p)], FileOf(p)) /\ FileOf(p)' = FileOf(p) /\ (Changing(p)' <=> Changing(p))
    BY <1>1, <1>7 DEF Fresh, FileOf, Changing
  <2>2. op[p] = "put" => latest[FileOf(p)] = "race"
    BY <2>1 DEF Kept, Changing
  <2>3. op[p] = "get" => Fits(seen[p], FileOf(p))
    BY <1>1, <2>1 DEF Kept
  <2>4. Fits(tags[FileOf(p)], FileOf(p))'
    BY <1>1, <1>3, <1>4, <2>1, <2>2, <2>3 DEF Fits
  <2>5. pc'[p] = "ok" /\ op'[p] = "put" => tags'[FileOf(p)].digest = dgst'[p]
    BY <1>1, <1>4, <1>5
  <2> QED BY <1>1, <1>2, <1>3, <2>1, <2>4, <2>5 DEF Kept
<1> QED BY <1>1, <1>2, <1>6, <1>7, OwnStep

LEMMA RemoveEntryFresh == ASSUME Inv, Fresh, NEW p \in Proc, RemoveEntry(p) PROVE Fresh'
<1>1. pc[p] = "remove" /\ UNCHANGED <<puts, op, ref, dgst, seen, latest, stirred>> /\ FileOf(p) \in Path
  BY TagAssumption DEF RemoveEntry, Inv, Calls, FileOf
<1>2. /\ (pc'[p] = "ok" /\ tags'[FileOf(p)] = None) \/ (pc'[p] = "err" /\ tags'[FileOf(p)] = tags[FileOf(p)])
      /\ \A x \in Proc \ {p} : pc'[x] = pc[x]
      /\ \A q \in Path \ {FileOf(p)} : tags'[q] = tags[q]
  BY <1>1 DEF RemoveEntry, Goto, Inv, Shapes
<1>3. op[p] = "delete"
  BY <1>1 DEF Fresh, Route
<1>4. Route(p)'
  BY <1>1, <1>2, <1>3 DEF Route
<1>5. ASSUME FileOf(p) \notin stirred PROVE Kept(p)' /\ Fits(tags[FileOf(p)], FileOf(p))'
  <2>1. Kept(p) /\ Fits(tags[FileOf(p)], FileOf(p)) /\ FileOf(p)' = FileOf(p) /\ (Changing(p)' <=> Changing(p))
    BY <1>1, <1>5 DEF Fresh, FileOf, Changing
  <2> QED BY <1>1, <1>2, <1>3, <2>1 DEF Kept, Fits
<1> QED BY <1>1, <1>2, <1>4, <1>5, OwnStep

LEMMA ReturnFresh == ASSUME Inv, Fresh, NEW p \in Proc, Return(p) PROVE Fresh'
<1> DEFINE f == FileOf(p)
<1>1. /\ pc[p] \in {"ok", "err"} /\ f \in Path
      /\ pc'[p] = "idle" /\ op'[p] = "none"
      /\ \A x \in Proc \ {p} : pc'[x] = pc[x] /\ op'[x] = op[x] /\ ref'[x] = ref[x] /\ dgst'[x] = dgst[x]
                               /\ seen'[x] = seen[x]
      /\ UNCHANGED <<tags, stirred>>
  BY TagAssumption DEF Return, Goto, Inv, Shapes, Calls, FileOf
<1>2. \A x \in Proc \ {p} : FileOf(x)' = FileOf(x) /\ (Changing(x)' <=> Changing(x))
  BY <1>1 DEF FileOf, Changing
<1>3. /\ \A q \in Path \ {f} : latest'[q] = latest[q]
      /\ \/ latest' = latest
         \/ op[p] = "put" /\ pc[p] = "ok" /\ latest'[f] = dgst[p]
         \/ op[p] = "delete" /\ pc[p] = "ok" /\ latest'[f] = "none"
  BY <1>1 DEF Return, Changing, Inv, Shapes
<1>4. \A x \in Proc : Route(x)'
  BY <1>1 DEF Fresh, Route
<1>5. ASSUME NEW q \in Path \ stirred' PROVE ByItself(q)'
  BY <1>1, <1>2 DEF Fresh, ByItself
<1>6. ASSUME NEW q \in Path \ stirred' PROVE Fits(tags[q], q)'
  <2>1. CASE q # f
    BY <1>1, <1>3, <2>1 DEF Fresh, Fits
  <2>2. CASE q = f
    <3>1. Kept(p) /\ Fits(tags[f], f)
      BY <1>1, <1>6, <2>2 DEF Fresh
    <3> QED BY <1>1, <1>3, <2>2, <3>1 DEF Kept, Fits
  <2> QED BY <2>1, <2>2
<1>7. ASSUME NEW x \in Proc, pc'[x] # "idle", FileOf(x)' \notin stirred' PROVE Kept(x)'
  <2>1. x # p /\ pc[x] # "idle" /\ FileOf(x) \notin stirred /\ FileOf(x) \in Path
    BY <1>1, <1>2, <1>7, TagAssumption DEF Inv, Calls, FileOf
  <2>2. FileOf(x) # f
    BY <1>1, <2>1 DEF Fresh, ByItself
  <2>3. Kept(x) /\ latest'[FileOf(x)] = latest[FileOf(x)]
    BY <1>3, <2>1, <2>2 DEF Fresh
  <2>4. Fits(seen[x], FileOf(x))' <=> Fits(seen[x], FileOf(x))
    BY <1>1, <1>2, <2>1, <2>3 DEF Fits
  <2> QED BY <1>1, <1>2, <2>1, <2>3, <2>4 DEF Kept
<1> QED BY <1>4, <1>5, <1>6, <1>7 DEF Fresh

LEMMA ExpireFresh == ASSUME Inv, Fresh, NEW q \in Path, Expire(q) PROVE Fresh'
<1> DEFINE Older(e2, e1) == \/ e2 = e1
                            \/ e1 # None /\ e2 = [e1 EXCEPT !.expired = TRUE]
<1>1. UNCHANGED <<puts, pc, op, ref, dgst, latest, stirred>>
      /\ \A x \in Proc : FileOf(x)' = FileOf(x) /\ (Changing(x)' <=> Changing(x))
  BY DEF Expire, FileOf, Changing
<1>2. \A x \in Path : Older(tags'[x], tags[x])
  BY DEF Expire, Inv, Shapes
<1>3. \A x \in Proc : Older(seen'[x], seen[x])
  BY DEF Expire
<1>4. \A x \in Path : tags[x] = None => tags'[x] = None
  BY <1>2
<1>5. ASSUME NEW e1, NEW e2, Good(e1), Older(e2, e1), NEW x
      PROVE  /\ Fits(e1, x) => Fits(e2, x)'
             /\ e2 # None /\ ~e2.expired => e1 # None /\ ~e1.expired /\ e2.digest = e1.digest
  <2>1. CASE e2 = e1
    BY <1>1, <2>1 DEF Fits
  <2>2. CASE e2 # e1
    <3>1. e1 \in EntryType /\ e2 = [e1 EXCEPT !.expired = TRUE]
      BY <1>5, <2>2 DEF Good
    <3>2. e2.expired = TRUE
      BY <3>1 DEF EntryType
    <3> QED BY <3>2 DEF Fits
  <2> QED BY <2>1, <2>2
<1> HIDE DEF Older
<1>6. \A x \in Proc : Route(x)'
  BY <1>1 DEF Fresh, Route
<1>7. \A x \in Path \ stirred' : ByItself(x)' /\ Fits(tags[x], x)'
  <2>1. \A x \in Path \ stirred' : ByItself(x)'
    BY <1>1 DEF Fresh, ByItself
  <2>2. ASSUME NEW x \in Path \ stirred' PROVE Fits(tags[x], x)'
    <3>1. Fits(tags[x], x) /\ Good(tags[x]) /\ Older(tags'[x], tags[x])
      BY <1>1, <1>2 DEF Fresh, Inv
    <3>2. latest[x] # "race" /\ tags'[x] # None /\ ~tags'[x].expired => tags'[x].digest = latest[x]
      BY <3>1, <1>5 DEF Fits
    <3> QED BY <1>1, <3>2 DEF Fits
  <2> QED BY <2>1, <2>2
<1>8. ASSUME NEW x \in Proc, pc'[x] # "idle", FileOf(x)' \notin stirred' PROVE Kept(x)'
  <2>1. Kept(x) /\ FileOf(x) \in Path /\ Good(seen[x]) /\ Good(tags[FileOf(x)])
    BY <1>1, <1>8, TagAssumption DEF Fresh, Inv, Calls, FileOf
  <2>2. /\ tags'[FileOf(x)] # None /\ ~tags'[FileOf(x)].expired =>
             tags[FileOf(x)] # None /\ ~tags[FileOf(x)].expired /\ tags'[FileOf(x)].digest = tags[FileOf(x)].digest
        /\ seen'[x] # None /\ ~seen'[x].expired => seen[x] # None /\ ~seen[x].expired /\ seen'[x].digest = seen[x].digest
    BY <2>1, <1>2, <1>3, <1>5
  <2>3. Fits(seen[x], FileOf(x)) => Fits(seen[x], FileOf(x))'
    BY <1>1, <2>2 DEF Fits
  <2> QED BY <1>1, <1>4, <2>1, <2>2, <2>3 DEF Kept
<1> QED BY <1>6, <1>7, <1>8 DEF Fresh

LEMMA StepFresh == Inv /\ Fresh /\ [Next]_tagVars => Fresh'
<1> SUFFICES ASSUME Inv, Fresh, [Next]_tagVars PROVE Fresh'
  OBVIOUS
<1>1. CASE UNCHANGED tagVars
  BY <1>1 DEF tagVars, Fresh, Route, ByItself, FileOf, Kept, Fits, Changing
<1>2. CASE Next
  BY <1>2, BeginFresh, ReadEntryFresh, DropExpiredFresh, WriteEntryFresh, RemoveEntryFresh,
     ReturnFresh, ExpireFresh DEF Next, TagStep
<1> QED BY <1>1, <1>2

LEMMA FreshInvariant == Spec => []Fresh
BY InitFresh, StepFresh, Invariant, PTL DEF Spec

(* UnstirredIsLatest for any files and any names tagPath gives: a mapping  *)
(* file whose calls do not overlap holds what the last put or delete       *)
(* stored, although lookups write it back.                                 *)
THEOREM UnstirredStaysLatest == Spec => []UnstirredIsLatest
<1>1. Fresh => UnstirredIsLatest
  BY DEF Fresh, Fits, Latest, UnstirredIsLatest
<1> QED BY <1>1, FreshInvariant, PTL
----------------------------------------------------------------------------
Moment == 0..MaxTime

ResolverShapes ==
  /\ registry \in [Reference -> Digest \cup {None}]
  /\ manifests \in [Digest -> Moment \cup {None}]
  /\ now \in Moment /\ moves \in 0..MaxMoves /\ calls \in 0..MaxCalls
  /\ at \in [Proc -> Steps]
  /\ call \in [Proc -> TagCalls \cup ManifestCalls \cup {"batched", "none"}]
  /\ target \in [Proc -> Reference \cup {None}]
  /\ carried \in [Proc -> Digest \cup {None}]
  /\ entry \in [Proc -> Moment \cup {None}]
  /\ batch \in SUBSET Proc
  /\ putTimes \in [Digest -> SUBSET Moment]
  /\ began \in [Proc -> Moment]

(* The steps of a call that names a reference, and those that work on a    *)
(* digest.                                                                 *)
ReferenceSteps == {"lookup", "lookedUp", "head", "store", "stored", "forget", "forgotten"}
DigestSteps == {"entry", "drop", "touch", "create", "served"}

Linked(p) ==
  /\ at[p] \in ReferenceSteps => call[p] \in TagCalls \cup {"batched"}
  /\ call[p] \in TagCalls \cup {"batched"} => target[p] \in Reference
  /\ at[p] \in DigestSteps => carried[p] \in Digest
  /\ at[p] = "lookedUp" /\ Resolving(p) => op[p] = "get"
  /\ call[p] = "batched" => p \in batch

(* Put at time t, a manifest was young when a call began at time b. *)
YoungAt(t, b) == DefaultTTL > 0 => b - t <= DefaultTTL

(* Every entry of the manifest cache has the time of a put, those read and *)
(* about to be written back included.                                      *)
Stamped ==
  /\ \A d \in Digest : manifests[d] # None => manifests[d] \in putTimes[d]
  /\ \A p \in Proc : began[p] <= now
  /\ \A p \in Proc : at[p] = "touch" =>
       entry[p] \in putTimes[carried[p]] /\ YoungAt(entry[p], began[p])
  /\ \A p \in Proc : at[p] = "served" =>
       \E t \in putTimes[carried[p]] : YoungAt(t, began[p])

ResolverInv == Inv /\ ResolverShapes /\ (\A p \in Proc : Linked(p)) /\ Stamped
----------------------------------------------------------------------------
(* What the resolver does to the tag cache is a step of the tag cache.     *)
LEMMA TagPart == ResolverInv /\ [ResolverNext]_allVars => [Next]_tagVars
<1> SUFFICES ASSUME ResolverInv, [ResolverNext]_allVars PROVE [Next]_tagVars
  OBVIOUS
<1>1. CASE UNCHANGED allVars
  BY <1>1 DEF allVars
<1>2. ASSUME NEW p \in Proc, ResolverStep(p) PROVE [Next]_tagVars
  <2>1. CASE LookUp(p)
    <3>1. target[p] \in Reference
      BY <2>1 DEF LookUp, ResolverInv, Linked, ReferenceSteps
    <3>2. Begin(p, IF Resolving(p) THEN "get" ELSE "look", target[p], None)
      BY <2>1 DEF LookUp
    <3> QED BY <3>1, <3>2 DEF Next, Ops
  <2>2. CASE LookedUp(p) \/ Stored(p) \/ Forgotten(p)
    BY <2>2 DEF LookedUp, Stored, Forgotten, Next
  <2>3. CASE Store(p)
    <3>1. target[p] \in Reference /\ carried[p] \in Digest \cup {None}
      BY <2>3 DEF Store, ResolverInv, ResolverShapes, Linked, ReferenceSteps
    <3> QED BY <2>3, <3>1 DEF Store, Next, Ops
  <2>4. CASE Forget(p)
    <3>1. target[p] \in Reference
      BY <2>4 DEF Forget, ResolverInv, Linked, ReferenceSteps
    <3> QED BY <2>4, <3>1 DEF Forget, Next, Ops
  <2>5. CASE TagStep(p)
    BY <2>5 DEF Next
  <2>6. CASE ReadManifest(p) \/ DropManifest(p) \/ TouchManifest(p) \/ PutManifest(p)
             \/ AskRegistry(p) \/ Finish(p)
    BY <2>6 DEF ReadManifest, DropManifest, TouchManifest, PutManifest, AskRegistry, Finish, Leave
  <2> QED BY <1>2, <2>1, <2>2, <2>3, <2>4, <2>5, <2>6 DEF ResolverStep
<1>3. ASSUME NEW q \in Path, Expire(q) PROVE [Next]_tagVars
  BY <1>3 DEF Next
<1>4. CASE ResolverNext
  BY <1>2, <1>3, <1>4 DEF ResolverNext, CallResolver, CallManifestCache, BatchResolveTags, MoveTag, Tick
<1> QED BY <1>1, <1>4

LEMMA InvStep == ResolverInv /\ [ResolverNext]_allVars => Inv'
BY TagPart, StepInv DEF ResolverInv

LEMMA ResolverInitInv == ResolverInit => ResolverInv
<1> SUFFICES ASSUME ResolverInit PROVE ResolverInv
  OBVIOUS
<1> USE ResolverAssumption, TagAssumption DEF ResolverInit
<1>1. Inv
  BY InitInv
<1>2. ResolverShapes
  BY DEF ResolverShapes, Moment, Steps
<1>3. \A p \in Proc : Linked(p)
  BY DEF Linked, ReferenceSteps, DigestSteps, TagCalls, Resolving
<1>4. Stamped
  BY DEF Stamped
<1> QED BY <1>1, <1>2, <1>3, <1>4 DEF ResolverInv
----------------------------------------------------------------------------
(* The rest of the invariant, action by action. *)
Rest == ResolverShapes /\ (\A p \in Proc : Linked(p)) /\ Stamped

LEMMA Bounds == MaxTime \in Nat /\ DefaultTTL \in Nat /\ MaxMoves \in Nat /\ MaxCalls \in Nat /\ MaxPuts \in Nat
                /\ Moment \subseteq Nat /\ IsFiniteSet(Proc) /\ Cardinality(Proc) \in Nat
BY ResolverAssumption, TagAssumption, FS_CardinalityType DEF Moment

LEMMA CallResolverRest ==
  ASSUME ResolverInv, NEW p \in Proc, NEW c \in TagCalls, NEW r \in Reference, NEW d \in Digest \cup {None},
         CallResolver(p, c, r, d)
  PROVE  Rest'
<1> USE Bounds DEF ResolverInv, CallResolver, Step, Carry, world
<1>1. ResolverShapes'
  BY DEF ResolverShapes, Steps, TagCalls, ManifestCalls, Moment
<1>2. at'[p] \in {"forget", "head", "lookup"} /\ call'[p] = c /\ target'[p] = r
  BY DEF ResolverShapes
<1>3. \A q \in Proc \ {p} : at'[q] = at[q] /\ call'[q] = call[q] /\ target'[q] = target[q] /\ carried'[q] = carried[q]
  BY DEF ResolverShapes
<1>4. UNCHANGED <<op, batch>>
  BY DEF tagVars
<1>5. ASSUME NEW q \in Proc PROVE Linked(q)'
  <2>1. CASE q = p
    BY <2>1, <1>2, <1>4 DEF Linked, Resolving, ReferenceSteps, DigestSteps, TagCalls
  <2>2. CASE q # p
    BY <2>2, <1>3, <1>4 DEF Linked, Resolving
  <2> QED BY <2>1, <2>2
<1>6. Stamped'
  BY DEF ResolverShapes, Stamped, YoungAt
<1> QED BY <1>1, <1>5, <1>6 DEF Rest

LEMMA CallManifestCacheRest ==
  ASSUME ResolverInv, NEW p \in Proc, NEW c \in ManifestCalls, NEW d \in Digest,
         CallManifestCache(p, c, d)
  PROVE  Rest'
<1> USE Bounds DEF ResolverInv, CallManifestCache, Step, Carry, world, ghosts, tagVars
<1>1. ResolverShapes'
  BY DEF ResolverShapes, Steps, TagCalls, ManifestCalls, Moment
<1>2. ASSUME NEW q \in Proc PROVE Linked(q)'
  BY DEF ResolverShapes, Linked, Resolving, ReferenceSteps, DigestSteps, TagCalls, ManifestCalls
<1>3. Stamped'
  BY DEF ResolverShapes, Stamped, YoungAt
<1> QED BY <1>1, <1>2, <1>3 DEF Rest

LEMMA BatchRest ==
  ASSUME ResolverInv, NEW refs \in [Proc -> Reference], BatchResolveTags(refs)
  PROVE  Rest'
<1> USE Bounds DEF ResolverInv, BatchResolveTags, world, ghosts, tagVars
<1>1. ResolverShapes'
  BY DEF ResolverShapes, Steps, TagCalls, ManifestCalls, Moment
<1>2. ASSUME NEW q \in Proc PROVE Linked(q)'
  BY DEF ResolverShapes, Linked, Resolving, ReferenceSteps, DigestSteps, TagCalls, ManifestCalls
<1>3. Stamped'
  BY DEF ResolverShapes, Stamped, YoungAt
<1> QED BY <1>1, <1>2, <1>3 DEF Rest

LEMMA LookUpRest ==
  ASSUME ResolverInv, NEW p \in Proc, LookUp(p)
  PROVE  Rest'
<1> USE Bounds DEF ResolverInv, LookUp, Step, Begin, world, calling, ghosts
<1>1. ResolverShapes'
  BY DEF ResolverShapes, Steps, TagCalls, ManifestCalls, Moment
<1>2. ASSUME NEW q \in Proc PROVE Linked(q)'
  BY DEF ResolverShapes, Linked, Resolving, ReferenceSteps, DigestSteps, TagCalls, ManifestCalls, Inv, Shapes
<1>3. Stamped'
  BY DEF ResolverShapes, Stamped, YoungAt
<1> QED BY <1>1, <1>2, <1>3 DEF Rest

LEMMA LookedUpRest ==
  ASSUME ResolverInv, NEW p \in Proc, LookedUp(p)
  PROVE  Rest'
<1> USE Bounds DEF ResolverInv, LookedUp, Step, Carry, Return, world, calling, ghosts
<1>1. pc[p] = "ok" /\ Resolving(p) => seen[p].digest \in Digest
  BY DEF Linked, Inv, Calls, EntryType
<1>2. ResolverShapes'
  BY <1>1 DEF ResolverShapes, Steps, TagCalls, ManifestCalls, Moment
<1>3. ASSUME NEW q \in Proc PROVE Linked(q)'
  BY <1>1 DEF ResolverShapes, Linked, Resolving, ReferenceSteps, DigestSteps, TagCalls, ManifestCalls, Inv, Shapes
<1>4. Stamped'
  BY DEF ResolverShapes, Stamped, YoungAt
<1> QED BY <1>2, <1>3, <1>4 DEF Rest

LEMMA ReadManifestRest ==
  ASSUME ResolverInv, NEW p \in Proc, ReadManifest(p)
  PROVE  Rest'
<1> USE Bounds DEF ResolverInv, ReadManifest, AfterMiss, Step, tagVars, world, calling, ghosts
<1>1. PICK e \in {manifests[carried[p]], None} :
        \/ e = None /\ Step(p, AfterMiss(p)) /\ UNCHANGED entry
        \/ e # None /\ Expired(e) /\ Step(p, "drop") /\ UNCHANGED entry
        \/ /\ e # None /\ ~Expired(e)
           /\ Step(p, IF call[p] = "getManifest" THEN "touch" ELSE "served")
           /\ entry' = [entry EXCEPT ![p] = IF call[p] = "getManifest" THEN e ELSE None]
  OBVIOUS
<1>2. carried[p] \in Digest /\ UNCHANGED <<carried, began, now, manifests, putTimes>>
  BY DEF Linked, DigestSteps
<1>3. e # None => e \in putTimes[carried[p]] /\ e \in Moment
  BY <1>1, <1>2 DEF ResolverShapes, Stamped
<1>4. e # None /\ ~Expired(e) => YoungAt(e, began[p])
  BY <1>2, <1>3 DEF ResolverShapes, Stamped, Expired, YoungAt, Moment
<1>5. ResolverShapes'
  BY <1>1, <1>3 DEF ResolverShapes, Steps, TagCalls, ManifestCalls, Moment
<1>6. ASSUME NEW q \in Proc PROVE Linked(q)'
  BY DEF ResolverShapes, Linked, Resolving, ReferenceSteps, DigestSteps, TagCalls, ManifestCalls
<1>7. Stamped'
  <2>1. \A q \in Proc \ {p} : at'[q] = at[q] /\ entry'[q] = entry[q]
    BY <1>1 DEF ResolverShapes
  <2>2. at'[p] \in {"head", "failed", "done", "drop"} \/ (e # None /\ ~Expired(e))
    BY <1>1 DEF ResolverShapes
  <2>3. at'[p] = "touch" => entry'[p] = e
    BY <1>1 DEF ResolverShapes
  <2> QED BY <1>2, <1>3, <1>4, <2>1, <2>2, <2>3 DEF Stamped, YoungAt
<1> QED BY <1>5, <1>6, <1>7 DEF Rest

LEMMA DropManifestRest ==
  ASSUME ResolverInv, NEW p \in Proc, DropManifest(p)
  PROVE  Rest'
<1> USE Bounds DEF ResolverInv, DropManifest, AfterMiss, Step, tagVars, world, calling, ghosts
<1>1. ResolverShapes'
  BY DEF ResolverShapes, Steps, TagCalls, ManifestCalls, Moment
<1>2. ASSUME NEW q \in Proc PROVE Linked(q)'
  BY DEF ResolverShapes, Linked, Resolving, ReferenceSteps, DigestSteps, TagCalls, ManifestCalls
<1>3. Stamped'
  BY DEF ResolverShapes, Stamped, YoungAt
<1> QED BY <1>1, <1>2, <1>3 DEF Rest

LEMMA TouchManifestRest ==
  ASSUME ResolverInv, NEW p \in Proc, TouchManifest(p)
  PROVE  Rest'
<1> USE Bounds DEF ResolverInv, TouchManifest, Step, tagVars, world, calling, ghosts
<1>1. ResolverShapes'
  BY DEF ResolverShapes, Steps, TagCalls, ManifestCalls, Moment
<1>2. ASSUME NEW q \in Proc PROVE Linked(q)'
  BY DEF ResolverShapes, Linked, Resolving, ReferenceSteps, DigestSteps, TagCalls, ManifestCalls
<1>3. Stamped'
  BY DEF ResolverShapes, Stamped, YoungAt
<1> QED BY <1>1, <1>2, <1>3 DEF Rest

LEMMA PutManifestRest ==
  ASSUME ResolverInv, NEW p \in Proc, PutManifest(p)
  PROVE  Rest'
<1> USE Bounds DEF ResolverInv, PutManifest, Step, tagVars, world, calling
<1>1. ResolverShapes'
  BY DEF ResolverShapes, Steps, TagCalls, ManifestCalls, Moment
<1>2. ASSUME NEW q \in Proc PROVE Linked(q)'
  BY DEF ResolverShapes, Linked, Resolving, ReferenceSteps, DigestSteps, TagCalls, ManifestCalls
<1>3. Stamped'
  <2>1. \A d \in Digest : putTimes[d] \subseteq putTimes'[d]
    BY DEF ResolverShapes
  <2>2. \A d \in Digest : manifests'[d] = manifests[d] \/ manifests'[d] \in putTimes'[d]
    BY DEF ResolverShapes
  <2>3. \A q \in Proc : at'[q] \in {"touch", "served"} => at'[q] = at[q] /\ carried[q] \in Digest
    BY DEF ResolverShapes, Linked, DigestSteps
  <2>4. UNCHANGED <<entry, carried, began, now>>
    OBVIOUS
  <2> QED BY <2>1, <2>2, <2>3, <2>4 DEF Stamped, YoungAt
<1> QED BY <1>1, <1>2, <1>3 DEF Rest

LEMMA AskRegistryRest ==
  ASSUME ResolverInv, NEW p \in Proc, AskRegistry(p)
  PROVE  Rest'
<1> USE Bounds DEF ResolverInv, AskRegistry, Step, Carry, tagVars, world, calling, ghosts
<1>1. registry[target[p]] \in Digest \cup {None}
  BY DEF ResolverShapes, Linked, ReferenceSteps
<1>2. ResolverShapes'
  BY <1>1 DEF ResolverShapes, Steps, TagCalls, ManifestCalls, Moment
<1>3. ASSUME NEW q \in Proc PROVE Linked(q)'
  BY DEF ResolverShapes, Linked, Resolving, ReferenceSteps, DigestSteps, TagCalls, ManifestCalls
<1>4. Stamped'
  BY DEF ResolverShapes, Stamped, YoungAt
<1> QED BY <1>2, <1>3, <1>4 DEF Rest

LEMMA StoreRest ==
  ASSUME ResolverInv, NEW p \in Proc, Store(p)
  PROVE  Rest'
<1> USE Bounds DEF ResolverInv, Store, Step, Begin, world, calling, ghosts
<1>1. ResolverShapes'
  BY DEF ResolverShapes, Steps, TagCalls, ManifestCalls, Moment
<1>2. ASSUME NEW q \in Proc PROVE Linked(q)'
  BY DEF ResolverShapes, Linked, Resolving, ReferenceSteps, DigestSteps, TagCalls, ManifestCalls, Inv, Shapes
<1>3. Stamped'
  BY DEF ResolverShapes, Stamped, YoungAt
<1> QED BY <1>1, <1>2, <1>3 DEF Rest

LEMMA StoredRest ==
  ASSUME ResolverInv, NEW p \in Proc, Stored(p)
  PROVE  Rest'
<1> USE Bounds DEF ResolverInv, Stored, Step, Return, world, calling, ghosts
<1>1. ResolverShapes'
  BY DEF ResolverShapes, Steps, TagCalls, ManifestCalls, Moment
<1>2. ASSUME NEW q \in Proc PROVE Linked(q)'
  BY DEF ResolverShapes, Linked, Resolving, ReferenceSteps, DigestSteps, TagCalls, ManifestCalls, Inv, Shapes
<1>3. Stamped'
  BY DEF ResolverShapes, Stamped, YoungAt
<1> QED BY <1>1, <1>2, <1>3 DEF Rest

LEMMA ForgetRest ==
  ASSUME ResolverInv, NEW p \in Proc, Forget(p)
  PROVE  Rest'
<1> USE Bounds DEF ResolverInv, Forget, Step, Begin, world, calling, ghosts
<1>1. ResolverShapes'
  BY DEF ResolverShapes, Steps, TagCalls, ManifestCalls, Moment
<1>2. ASSUME NEW q \in Proc PROVE Linked(q)'
  BY DEF ResolverShapes, Linked, Resolving, ReferenceSteps, DigestSteps, TagCalls, ManifestCalls, Inv, Shapes
<1>3. Stamped'
  BY DEF ResolverShapes, Stamped, YoungAt
<1> QED BY <1>1, <1>2, <1>3 DEF Rest

LEMMA ForgottenRest ==
  ASSUME ResolverInv, NEW p \in Proc, Forgotten(p)
  PROVE  Rest'
<1> USE Bounds DEF ResolverInv, Forgotten, Step, Return, world, calling
<1>1. ResolverShapes'
  BY DEF ResolverShapes, Steps, TagCalls, ManifestCalls, Moment
<1>2. ASSUME NEW q \in Proc PROVE Linked(q)'
  BY DEF ResolverShapes, Linked, Resolving, ReferenceSteps, DigestSteps, TagCalls, ManifestCalls, Inv, Shapes
<1>3. Stamped'
  BY DEF ResolverShapes, Stamped, YoungAt
<1> QED BY <1>1, <1>2, <1>3 DEF Rest

LEMMA FinishRest ==
  ASSUME ResolverInv, NEW p \in Proc, Finish(p)
  PROVE  Rest'
<1> USE Bounds DEF ResolverInv, Finish, Leave, Step, Carry, tagVars, world
<1>1. ResolverShapes'
  BY DEF ResolverShapes, Steps, TagCalls, ManifestCalls, Moment
<1>2. ASSUME NEW q \in Proc PROVE Linked(q)'
  BY DEF ResolverShapes, Linked, Resolving, ReferenceSteps, DigestSteps, TagCalls, ManifestCalls
<1>3. Stamped'
  BY DEF ResolverShapes, Stamped, YoungAt
<1> QED BY <1>1, <1>2, <1>3 DEF Rest

LEMMA TagStepRest ==
  ASSUME ResolverInv, NEW p \in Proc, TagStep(p),
         UNCHANGED <<world, manifests, at, calling, carried, entry, ghosts>>
  PROVE  Rest'
<1> USE Bounds DEF ResolverInv, TagStep, ReadEntry, DropExpired, WriteEntry, RemoveEntry, world, calling, ghosts
<1>1. ResolverShapes'
  BY DEF ResolverShapes, Steps, TagCalls, ManifestCalls, Moment
<1>2. ASSUME NEW q \in Proc PROVE Linked(q)'
  BY DEF ResolverShapes, Linked, Resolving, ReferenceSteps, DigestSteps, TagCalls, ManifestCalls
<1>3. Stamped'
  BY DEF ResolverShapes, Stamped, YoungAt
<1> QED BY <1>1, <1>2, <1>3 DEF Rest

LEMMA ExpireRest ==
  ASSUME ResolverInv, NEW q \in Path, Expire(q),
         UNCHANGED <<world, manifests, at, calling, carried, entry, ghosts>>
  PROVE  Rest'
<1> USE Bounds DEF ResolverInv, Expire, world, calling, ghosts
<1>1. ResolverShapes'
  BY DEF ResolverShapes, Steps, TagCalls, ManifestCalls, Moment
<1>2. ASSUME NEW p \in Proc PROVE Linked(p)'
  BY DEF ResolverShapes, Linked, Resolving, ReferenceSteps, DigestSteps, TagCalls, ManifestCalls
<1>3. Stamped'
  BY DEF ResolverShapes, Stamped, YoungAt
<1> QED BY <1>1, <1>2, <1>3 DEF Rest

LEMMA MoveTagRest ==
  ASSUME ResolverInv, NEW r \in Reference, NEW d \in Digest \cup {None}, MoveTag(r, d)
  PROVE  Rest'
<1> USE Bounds DEF ResolverInv, MoveTag, calling, tagVars
<1>1. ResolverShapes'
  BY DEF ResolverShapes, Steps, TagCalls, ManifestCalls, Moment
<1>2. ASSUME NEW q \in Proc PROVE Linked(q)'
  BY DEF ResolverShapes, Linked, Resolving, ReferenceSteps, DigestSteps, TagCalls, ManifestCalls
<1>3. Stamped'
  BY DEF ResolverShapes, Stamped, YoungAt
<1> QED BY <1>1, <1>2, <1>3 DEF Rest

LEMMA TickRest ==
  ASSUME ResolverInv, Tick
  PROVE  Rest'
<1> USE Bounds DEF ResolverInv, Tick, calling, ghosts, tagVars
<1>1. ResolverShapes'
  BY DEF ResolverShapes, Steps, TagCalls, ManifestCalls, Moment
<1>2. ASSUME NEW q \in Proc PROVE Linked(q)'
  BY DEF ResolverShapes, Linked, Resolving, ReferenceSteps, DigestSteps, TagCalls, ManifestCalls
<1>3. Stamped'
  BY DEF ResolverShapes, Stamped, YoungAt, world, Moment
<1> QED BY <1>1, <1>2, <1>3 DEF Rest

LEMMA StutterRest == ResolverInv /\ UNCHANGED allVars => Rest'
BY DEF ResolverInv, Rest, ResolverShapes, Linked, Resolving, Stamped, allVars, tagVars, world, calling, ghosts

LEMMA ResolverStepInv == ResolverInv /\ [ResolverNext]_allVars => ResolverInv'
<1> SUFFICES ASSUME ResolverInv, [ResolverNext]_allVars PROVE Rest'
  BY InvStep DEF ResolverInv, Rest
<1>1. CASE UNCHANGED allVars
  BY <1>1, StutterRest
<1>2. ASSUME NEW p \in Proc, ResolverStep(p) PROVE Rest'
  BY <1>2, LookUpRest, LookedUpRest, ReadManifestRest, DropManifestRest, TouchManifestRest, PutManifestRest,
     AskRegistryRest, StoreRest, StoredRest, ForgetRest, ForgottenRest, FinishRest, TagStepRest
     DEF ResolverStep
<1>3. CASE ResolverNext
  BY <1>2, <1>3, CallResolverRest, CallManifestCacheRest, BatchRest, ExpireRest, MoveTagRest, TickRest
     DEF ResolverNext
<1> QED BY <1>1, <1>3

LEMMA ResolverInvariant == ResolverSpec => []ResolverInv
<1>1. ResolverInit => ResolverInv
  BY ResolverInitInv
<1>2. ResolverInv /\ [ResolverNext]_allVars => ResolverInv'
  BY ResolverStepInv
<1> QED BY <1>1, <1>2, PTL DEF ResolverSpec
----------------------------------------------------------------------------
(* What ResolvedSinceInvalidated needs.  A goroutine uses the tag cache    *)
(* for the reference of its call; no other is at work on the file of one   *)
(* that forgets alone; and every digest that a file holds, that has been   *)
(* read from one or that a resolution works on, the registry has held      *)
(* since the last invalidation that was alone.                             *)
Placed(p) ==
  /\ call[p] \in ManifestCalls \cup {"none"} => target[p] = None
  /\ at[p] = "idle" => call[p] = "none"
  /\ pc[p] = "idle" => seen[p] = None
  /\ pc[p] # "idle" => at[p] \in {"lookedUp", "stored", "forgotten"} /\ ref[p] = target[p]
  /\ pc[p] # "idle" /\ at[p] = "stored" => op[p] = "put" /\ dgst[p] = carried[p]
  /\ pc[p] # "idle" /\ at[p] = "forgotten" => op[p] = "delete"
  /\ pc[p] # "idle" /\ at[p] = "lookedUp" => op[p] \in {"get", "look"}
  /\ at[p] \in {"forget", "forgotten"} => call[p] \in Forgetting
  /\ at[p] \in {"store", "stored"} => Resolving(p)

SinceShapes ==
  /\ since = [q \in Path |-> since[q]]
  /\ alone = [p \in Proc |-> alone[p]]

Since(p) == since[TagPath[target[p]]]

AnswerSteps == {"entry", "drop", "touch", "create", "store", "stored", "served", "done"}

Answers(p) ==
  /\ pc[p] # "idle" /\ seen[p] # None => seen[p].digest \in since[FileOf(p)]
  /\ Resolving(p) /\ at[p] \in AnswerSteps => carried[p] \in Since(p)

Unmet(p) ==
  call[p] \in Forgetting /\ alone[p] /\ at[p] # "idle" =>
    \A x \in Proc \ {p} : at[x] # "idle" /\ target[x] # None => TagPath[target[x]] # TagPath[target[p]]

Gone(p) ==
  at[p] = "forgotten" /\ alone[p] /\ pc[p] = "ok" => tags[TagPath[target[p]]] = None

Sound ==
  /\ SinceShapes
  /\ \A p \in Proc : Placed(p) /\ Answers(p) /\ Unmet(p) /\ Gone(p)
  /\ \A r \in Reference : registry[r] \in since[TagPath[r]]
  /\ \A q \in Path : tags[q] # None => tags[q].digest \in since[q]

Known == ResolverInv /\ Fresh

LEMMA SoundInit == ResolverInit => Sound
<1> SUFFICES ASSUME ResolverInit PROVE Sound
  OBVIOUS
<1> USE TagAssumption DEF ResolverInit, Init
<1>1. SinceShapes
  BY DEF SinceShapes
<1>2. \A p \in Proc : Placed(p) /\ Answers(p) /\ Unmet(p) /\ Gone(p)
  BY DEF Placed, Answers, Unmet, Gone, AnswerSteps, ManifestCalls, Forgetting, Resolving
<1>3. \A r \in Reference : registry[r] \in since[TagPath[r]]
  BY DEF HeldFor
<1> QED BY <1>1, <1>2, <1>3 DEF Sound

(* Who runs on a file of the tag cache has called it for its target.       *)
LEMMA OnTarget ==
  ASSUME Known, Sound, NEW p \in Proc, pc[p] # "idle"
  PROVE  /\ at[p] \in {"lookedUp", "stored", "forgotten"} /\ ref[p] = target[p] /\ target[p] \in Reference
         /\ target[p] # None /\ FileOf(p) = TagPath[target[p]] /\ FileOf(p) \in Path
<1>1. ref[p] \in Reference /\ ref[p] = target[p] /\ at[p] \in {"lookedUp", "stored", "forgotten"}
  BY DEF Known, ResolverInv, Inv, Calls, Sound, Placed
<1> QED BY <1>1, TagAssumption DEF FileOf

(* A step of one call leaves the others sound: it writes only to its file, *)
(* which none that forgets alone shares.                                   *)
LEMMA CallStep ==
  ASSUME Known, Sound, NEW p \in Proc, at[p] # "idle", at'[p] # "idle",
         UNCHANGED <<registry, since, alone, call, target>>,
         \A x \in Proc \ {p} :
           /\ at'[x] = at[x] /\ carried'[x] = carried[x]
           /\ pc'[x] = pc[x] /\ op'[x] = op[x] /\ ref'[x] = ref[x] /\ dgst'[x] = dgst[x] /\ seen'[x] = seen[x],
         \A q \in Path : \/ tags'[q] = tags[q]
                         \/ /\ pc[p] # "idle" /\ q = FileOf(p)
                            /\ tags'[q] = None \/ tags'[q].digest \in since[q],
         Placed(p)', Answers(p)', Gone(p)'
  PROVE  Sound'
<1>1. SinceShapes'
  BY DEF Sound, SinceShapes
<1>2. ASSUME NEW x \in Proc PROVE Placed(x)'
  BY <1>2 DEF Sound, Placed, Resolving
<1>3. ASSUME NEW x \in Proc PROVE Answers(x)'
  <2>1. CASE x = p
    BY <2>1
  <2>2. CASE x # p
    BY <1>3, <2>2 DEF Sound, Answers, Resolving, Since, FileOf
  <2> QED BY <2>1, <2>2
<1>4. ASSUME NEW x \in Proc PROVE Unmet(x)'
  BY <1>4 DEF Sound, Unmet
<1>5. ASSUME NEW x \in Proc PROVE Gone(x)'
  <2>1. CASE x = p
    BY <2>1
  <2>2. ASSUME x # p, at[x] = "forgotten", alone[x], pc[x] = "ok" PROVE tags'[TagPath[target[x]]] = None
    <3>1. tags[TagPath[target[x]]] = None
      BY <2>2 DEF Sound, Gone
    <3>2. TagPath[target[x]] \in Path
      BY <2>2, OnTarget
    <3>3. ASSUME pc[p] # "idle" PROVE TagPath[target[x]] # FileOf(p)
      <4>1. target[p] # None /\ FileOf(p) = TagPath[target[p]]
        BY <3>3, OnTarget
      <4>2. call[x] \in Forgetting
        BY <2>2 DEF Sound, Placed
      <4> QED BY <2>2, <4>1, <4>2 DEF Sound, Unmet
    <3> QED BY <3>1, <3>2, <3>3
  <2>3. CASE x # p
    BY <2>2, <2>3 DEF Gone
  <2> QED BY <2>1, <2>3
<1>6. \A r \in Reference : registry'[r] \in since'[TagPath[r]]
  BY DEF Sound
<1>7. \A q \in Path : tags'[q] # None => tags'[q].digest \in since'[q]
  BY DEF Sound
<1> QED BY <1>1, <1>2, <1>3, <1>4, <1>5, <1>6, <1>7 DEF Sound

LEMMA CallResolverSound ==
  ASSUME Known, Sound, NEW p \in Proc, NEW c \in TagCalls, NEW r \in Reference, NEW d \in Digest \cup {None},
         CallResolver(p, c, r, d)
  PROVE  Sound'
<1>1. /\ at[p] = "idle" /\ at'[p] \in {"forget", "head", "lookup"} /\ (at'[p] = "forget" => c = "invalidate")
      /\ call'[p] = c /\ target'[p] = r /\ target'[p] # None
      /\ \A x \in Proc \ {p} : at'[x] = at[x] /\ call'[x] = call[x] /\ target'[x] = target[x] /\ carried'[x] = carried[x]
      /\ UNCHANGED <<registry, since, tagVars>>
  BY TagAssumption DEF CallResolver, Known, ResolverInv, ResolverShapes, Step, Carry, world
<1>2. UNCHANGED <<tags, pc, op, ref, dgst, seen>>
  BY <1>1 DEF tagVars
<1>3. pc[p] = "idle" /\ seen[p] = None
  BY <1>1 DEF Sound, Placed
<1>4. alone' = [q \in Proc |-> IF q = p THEN Meets(p, r) = {} \/ c \notin Forgetting
                               ELSE alone[q] /\ (q \in Meets(p, r) => call[q] \notin Forgetting)]
  BY DEF CallResolver
<1>5. alone'[p] /\ c \in Forgetting => Meets(p, r) = {}
  BY <1>4
<1>6. \A x \in Proc \ {p} : alone'[x] => alone[x] /\ (x \in Meets(p, r) => call[x] \notin Forgetting)
  BY <1>4
<1>7. SinceShapes'
  <2>1. alone' = [q \in Proc |-> alone'[q]]
    BY <1>4
  <2> QED BY <1>1, <2>1 DEF Sound, SinceShapes
<1>8. ASSUME NEW x \in Proc PROVE Placed(x)'
  <2>1. CASE x = p
    BY <1>1, <1>2, <1>3, <2>1 DEF Placed, TagCalls, ManifestCalls, Forgetting
  <2>2. CASE x # p
    BY <1>1, <1>2, <1>8, <2>2 DEF Sound, Placed, Resolving
  <2> QED BY <2>1, <2>2
<1>9. ASSUME NEW x \in Proc PROVE Answers(x)'
  <2>1. CASE x = p
    BY <1>1, <1>2, <1>3, <2>1 DEF Answers, AnswerSteps
  <2>2. CASE x # p
    BY <1>1, <1>2, <1>9, <2>2 DEF Sound, Answers, Resolving, Since, FileOf
  <2> QED BY <2>1, <2>2
<1>10. ASSUME NEW x \in Proc PROVE Unmet(x)'
  <2>1. SUFFICES ASSUME call'[x] \in Forgetting, alone'[x], at'[x] # "idle", NEW y \in Proc \ {x},
                        at'[y] # "idle", target'[y] # None
                 PROVE  TagPath[target'[y]] # TagPath[target'[x]]
    BY DEF Unmet
  <2>2. CASE x = p
    <3>1. Meets(p, r) = {}
      BY <1>1, <1>5, <2>1, <2>2
    <3> QED BY <1>1, <2>1, <2>2, <3>1 DEF Meets
  <2>3. CASE x # p /\ y = p
    <3>1. x \notin Meets(p, r) /\ at[x] # "idle"
      BY <1>1, <1>6, <2>1, <2>3
    <3>2. target[x] # None
      BY <1>1, <2>1, <2>3, TagAssumption DEF Known, ResolverInv, Linked, Forgetting, TagCalls
    <3> QED BY <1>1, <2>3, <3>1, <3>2 DEF Meets
  <2>4. CASE x # p /\ y # p
    BY <1>1, <1>6, <1>10, <2>1, <2>4 DEF Sound, Unmet
  <2> QED BY <2>2, <2>3, <2>4
<1>11. ASSUME NEW x \in Proc PROVE Gone(x)'
  <2>1. CASE x = p
    BY <1>1, <2>1 DEF Gone
  <2>2. CASE x # p
    BY <1>1, <1>2, <1>6, <1>11, <2>2 DEF Sound, Gone
  <2> QED BY <2>1, <2>2
<1> QED BY <1>1, <1>2, <1>7, <1>8, <1>9, <1>10, <1>11 DEF Sound

LEMMA CallManifestCacheSound ==
  ASSUME Known, Sound, NEW p \in Proc, NEW c \in ManifestCalls, NEW d \in Digest, CallManifestCache(p, c, d)
  PROVE  Sound'
<1>1. /\ at[p] = "idle" /\ at'[p] \in {"create", "entry"} /\ call'[p] = c /\ target' = target
      /\ \A x \in Proc \ {p} : at'[x] = at[x] /\ call'[x] = call[x] /\ carried'[x] = carried[x]
      /\ UNCHANGED <<registry, since, alone, tags, pc, op, ref, dgst, seen>>
  BY DEF CallManifestCache, Known, ResolverInv, ResolverShapes, Step, Carry, world, ghosts, tagVars
<1>2. pc[p] = "idle" /\ target[p] = None /\ seen[p] = None
  BY <1>1 DEF Sound, Placed
<1>3. ASSUME NEW x \in Proc PROVE Placed(x)' /\ Answers(x)' /\ Gone(x)'
  <2>1. CASE x = p
    BY <1>1, <1>2, <2>1 DEF Placed, Answers, Gone, ManifestCalls, Forgetting, Resolving
  <2>2. CASE x # p
    BY <1>1, <1>3, <2>2 DEF Sound, Placed, Answers, Gone, Resolving, Since, FileOf
  <2> QED BY <2>1, <2>2
<1>4. ASSUME NEW x \in Proc PROVE Unmet(x)'
  <2>1. CASE x = p
    BY <1>1, <2>1 DEF Unmet, ManifestCalls, Forgetting
  <2>2. CASE x # p
    BY <1>1, <1>2, <1>4, <2>2 DEF Sound, Unmet
  <2> QED BY <2>1, <2>2
<1> QED BY <1>1, <1>3, <1>4 DEF Sound, SinceShapes

LEMMA BatchSound ==
  ASSUME Known, Sound, NEW refs \in [Proc -> Reference], BatchResolveTags(refs)
  PROVE  Sound'
<1>1. /\ \A x \in Proc : at[x] = "idle" /\ at'[x] = "lookup" /\ call'[x] = "batched"
      /\ UNCHANGED <<registry, since, alone, tags, pc, op, ref, dgst, seen>>
  BY DEF BatchResolveTags, world, ghosts, tagVars
<1>2. ASSUME NEW x \in Proc PROVE Placed(x)' /\ Answers(x)' /\ Gone(x)' /\ Unmet(x)'
  <2>1. pc[x] = "idle" /\ seen[x] = None
    BY <1>1 DEF Sound, Placed
  <2> QED BY <1>1, <2>1 DEF Placed, Answers, Gone, Unmet, AnswerSteps, ManifestCalls, Forgetting
<1> QED BY <1>1, <1>2 DEF Sound, SinceShapes

(* What Begin leaves of the others, and of the file.                       *)
LEMMA BeginFacts ==
  ASSUME Known, NEW p \in Proc, NEW o, NEW r, NEW d, Begin(p, o, r, d)
  PROVE  /\ pc[p] = "idle" /\ pc'[p] # "idle" /\ (pc'[p] = "ok" => FALSE)
         /\ op'[p] = o /\ ref'[p] = r /\ dgst'[p] = d
         /\ \A x \in Proc \ {p} : pc'[x] = pc[x] /\ op'[x] = op[x] /\ ref'[x] = ref[x] /\ dgst'[x] = dgst[x]
         /\ UNCHANGED <<tags, seen>>
BY DEF Begin, Goto, Known, ResolverInv, Inv, Shapes

LEMMA ReturnFacts ==
  ASSUME Known, NEW p \in Proc, Return(p)
  PROVE  /\ pc[p] \in {"ok", "err"} /\ pc'[p] = "idle"
         /\ \A x \in Proc \ {p} : /\ pc'[x] = pc[x] /\ op'[x] = op[x] /\ ref'[x] = ref[x]
                                  /\ dgst'[x] = dgst[x] /\ seen'[x] = seen[x]
         /\ UNCHANGED tags /\ seen'[p] = None
BY DEF Return, Goto, Known, ResolverInv, Inv, Shapes

LEMMA LookUpSound == ASSUME Known, Sound, NEW p \in Proc, LookUp(p) PROVE Sound'
<1> DEFINE o == IF Resolving(p) THEN "get" ELSE "look"
<1>1. /\ at[p] = "lookup" /\ at'[p] = "lookedUp" /\ Begin(p, o, target[p], None)
      /\ (\A x \in Proc \ {p} : at'[x] = at[x])
      /\ UNCHANGED <<registry, since, alone, call, target, carried>>
  BY DEF LookUp, Step, Known, ResolverInv, ResolverShapes, world, calling, ghosts
<1> HIDE DEF o
<1>2. /\ pc[p] = "idle" /\ pc'[p] # "idle" /\ pc'[p] # "ok" /\ op'[p] = o /\ ref'[p] = target[p]
      /\ \A x \in Proc \ {p} : pc'[x] = pc[x] /\ op'[x] = op[x] /\ ref'[x] = ref[x] /\ dgst'[x] = dgst[x]
      /\ UNCHANGED <<tags, seen>>
  BY <1>1, BeginFacts
<1>3. o \in {"get", "look"}
  BY DEF o
<1>4. seen[p] = None
  BY <1>2 DEF Sound, Placed
<1>5. Placed(p)'
  BY <1>1, <1>2, <1>3 DEF Sound, Placed
<1>6. Answers(p)' /\ Gone(p)'
  BY <1>1, <1>2, <1>4 DEF Answers, AnswerSteps, Gone
<1> QED BY <1>1, <1>2, <1>5, <1>6, CallStep

LEMMA LookedUpSound == ASSUME Known, Sound, NEW p \in Proc, LookedUp(p) PROVE Sound'
<1>1. /\ at[p] = "lookedUp" /\ Return(p)
      /\ at'[p] \in {"entry", "done", "failed", "head"}
      /\ at'[p] = "done" => ~Resolving(p)
      /\ at'[p] = "entry" => pc[p] = "ok" /\ Resolving(p) /\ carried'[p] = seen[p].digest
      /\ \A x \in Proc \ {p} : at'[x] = at[x] /\ carried'[x] = carried[x]
      /\ UNCHANGED <<registry, since, alone, call, target>>
  BY DEF LookedUp, Step, Carry, Known, ResolverInv, ResolverShapes, world, calling, ghosts
<1>2. /\ pc[p] \in {"ok", "err"} /\ pc'[p] = "idle"
      /\ \A x \in Proc \ {p} : /\ pc'[x] = pc[x] /\ op'[x] = op[x] /\ ref'[x] = ref[x]
                               /\ dgst'[x] = dgst[x] /\ seen'[x] = seen[x]
      /\ UNCHANGED tags /\ seen'[p] = None
  BY <1>1, ReturnFacts
<1>3. FileOf(p) = TagPath[target[p]]
  BY <1>2, OnTarget
<1>4. ASSUME at'[p] = "entry" PROVE carried'[p] \in Since(p)
  <2>1. op[p] = "get" /\ pc[p] = "ok"
    BY <1>1, <1>4 DEF Known, ResolverInv, Linked
  <2>2. seen[p] # None
    <3>1. seen[p] \in EntryType
      BY <2>1 DEF Known, ResolverInv, Inv, Calls
    <3> QED BY <3>1, NoEntryAssumption DEF EntryType
  <2> QED BY <1>1, <1>3, <1>4, <2>1, <2>2 DEF Sound, Answers, Since
<1>5. Placed(p)'
  BY <1>1, <1>2 DEF Sound, Placed
<1>6. Answers(p)' /\ Gone(p)'
  BY <1>1, <1>2, <1>4 DEF Answers, AnswerSteps, Gone, Since, Resolving
<1> QED BY <1>1, <1>2, <1>5, <1>6, CallStep

LEMMA ReadManifestSound == ASSUME Known, Sound, NEW p \in Proc, ReadManifest(p) PROVE Sound'
<1>1. /\ at[p] = "entry" /\ UNCHANGED <<registry, since, alone, call, target, carried, tags, pc, op, ref, dgst, seen>>
      /\ \A x \in Proc \ {p} : at'[x] = at[x]
  BY DEF ReadManifest, Step, Known, ResolverInv, ResolverShapes, world, calling, ghosts, tagVars
<1>2. at'[p] \in {"drop", "touch", "served", "head", "failed", "done"}
      /\ (Resolving(p) => at'[p] # "done")
  BY DEF ReadManifest, Step, AfterMiss, Known, ResolverInv, ResolverShapes
<1>3. Placed(p)' /\ Answers(p)' /\ Gone(p)'
  BY <1>1, <1>2 DEF Sound, Placed, Answers, AnswerSteps, Gone, Since, Resolving
<1> QED BY <1>1, <1>2, <1>3, CallStep

LEMMA DropManifestSound == ASSUME Known, Sound, NEW p \in Proc, DropManifest(p) PROVE Sound'
<1>1. /\ at[p] = "drop" /\ UNCHANGED <<registry, since, alone, call, target, carried, tags, pc, op, ref, dgst, seen>>
      /\ \A x \in Proc \ {p} : at'[x] = at[x]
      /\ at'[p] \in {"head", "failed", "done"} /\ (Resolving(p) => at'[p] = "head")
  BY DEF DropManifest, AfterMiss, Step, Known, ResolverInv, ResolverShapes, world, calling, ghosts, tagVars
<1>2. Placed(p)' /\ Answers(p)' /\ Gone(p)'
  BY <1>1 DEF Sound, Placed, Answers, AnswerSteps, Gone, Since, Resolving
<1> QED BY <1>1, <1>2, CallStep

LEMMA ManifestStepSound ==
  ASSUME Known, Sound, NEW p \in Proc, TouchManifest(p) \/ PutManifest(p)
  PROVE  Sound'
<1>1. /\ at[p] \in {"touch", "create"}
      /\ UNCHANGED <<registry, since, alone, call, target, carried, tags, pc, op, ref, dgst, seen>>
      /\ \A x \in Proc \ {p} : at'[x] = at[x]
      /\ at'[p] \in {"served", "done", "failed"}
  BY DEF TouchManifest, PutManifest, Step, Known, ResolverInv, ResolverShapes, world, calling, ghosts, tagVars
<1>2. Placed(p)' /\ Answers(p)' /\ Gone(p)'
  BY <1>1 DEF Sound, Placed, Answers, AnswerSteps, Gone, Since, Resolving
<1> QED BY <1>1, <1>2, CallStep

LEMMA AskRegistrySound == ASSUME Known, Sound, NEW p \in Proc, AskRegistry(p) PROVE Sound'
<1>1. /\ at[p] = "head" /\ UNCHANGED <<registry, since, alone, call, target, tags, pc, op, ref, dgst, seen>>
      /\ \A x \in Proc \ {p} : at'[x] = at[x] /\ carried'[x] = carried[x]
  BY DEF AskRegistry, Step, Carry, Known, ResolverInv, ResolverShapes, world, calling, ghosts, tagVars
<1>2. target[p] \in Reference
  BY <1>1 DEF Known, ResolverInv, Linked, ReferenceSteps
<1>3. \/ at'[p] = "failed"
      \/ at'[p] = "done" /\ ~Resolving(p)
      \/ at'[p] = "store" /\ Resolving(p) /\ carried'[p] = registry[target[p]]
      \/ at'[p] = "forget" /\ call[p] = "detect"
  BY DEF AskRegistry, Step, Carry, Resolving, Known, ResolverInv, ResolverShapes
<1>4. pc[p] = "idle" /\ seen[p] = None
  BY <1>1 DEF Sound, Placed
<1>5. Placed(p)' /\ Gone(p)'
  BY <1>1, <1>3, <1>4 DEF Sound, Placed, Gone, Resolving, Forgetting
<1>6. Answers(p)'
  BY <1>1, <1>2, <1>3, <1>4 DEF Sound, Answers, AnswerSteps, Since, Resolving
<1> QED BY <1>1, <1>3, <1>5, <1>6, CallStep

LEMMA StoreSound == ASSUME Known, Sound, NEW p \in Proc, Store(p) PROVE Sound'
<1>1. /\ at[p] = "store" /\ at'[p] = "stored" /\ Begin(p, "put", target[p], carried[p])
      /\ \A x \in Proc \ {p} : at'[x] = at[x]
      /\ UNCHANGED <<registry, since, alone, call, target, carried>>
  BY DEF Store, Step, Known, ResolverInv, ResolverShapes, world, calling, ghosts
<1>2. /\ pc[p] = "idle" /\ pc'[p] # "idle" /\ pc'[p] # "ok"
      /\ op'[p] = "put" /\ ref'[p] = target[p] /\ dgst'[p] = carried[p]
      /\ \A x \in Proc \ {p} : pc'[x] = pc[x] /\ op'[x] = op[x] /\ ref'[x] = ref[x] /\ dgst'[x] = dgst[x]
      /\ UNCHANGED <<tags, seen>>
  BY <1>1, BeginFacts
<1>3. seen[p] = None
  BY <1>2 DEF Sound, Placed
<1>4. Placed(p)'
  BY <1>1, <1>2 DEF Sound, Placed, Resolving
<1>5. Answers(p)' /\ Gone(p)'
  BY <1>1, <1>2, <1>3 DEF Sound, Answers, AnswerSteps, Gone, Since, Resolving
<1> QED BY <1>1, <1>2, <1>4, <1>5, CallStep

LEMMA StoredSound == ASSUME Known, Sound, NEW p \in Proc, Stored(p) PROVE Sound'
<1>1. /\ at[p] = "stored" /\ at'[p] = "done" /\ Return(p)
      /\ \A x \in Proc \ {p} : at'[x] = at[x]
      /\ UNCHANGED <<registry, since, alone, call, target, carried>>
  BY DEF Stored, Step, Known, ResolverInv, ResolverShapes, world, calling, ghosts
<1>2. /\ pc'[p] = "idle" /\ seen'[p] = None
      /\ \A x \in Proc \ {p} : /\ pc'[x] = pc[x] /\ op'[x] = op[x] /\ ref'[x] = ref[x]
                               /\ dgst'[x] = dgst[x] /\ seen'[x] = seen[x]
      /\ UNCHANGED tags
  BY <1>1, ReturnFacts
<1>3. Placed(p)'
  BY <1>1, <1>2 DEF Sound, Placed
<1>4. Answers(p)' /\ Gone(p)'
  BY <1>1, <1>2 DEF Sound, Answers, AnswerSteps, Gone, Since, Resolving
<1> QED BY <1>1, <1>2, <1>3, <1>4, CallStep

LEMMA ForgetSound == ASSUME Known, Sound, NEW p \in Proc, Forget(p) PROVE Sound'
<1>1. /\ at[p] = "forget" /\ at'[p] = "forgotten" /\ Begin(p, "delete", target[p], None)
      /\ \A x \in Proc \ {p} : at'[x] = at[x]
      /\ UNCHANGED <<registry, since, alone, call, target, carried>>
  BY DEF Forget, Step, Known, ResolverInv, ResolverShapes, world, calling, ghosts
<1>2. /\ pc[p] = "idle" /\ pc'[p] # "idle" /\ pc'[p] # "ok" /\ op'[p] = "delete" /\ ref'[p] = target[p]
      /\ \A x \in Proc \ {p} : pc'[x] = pc[x] /\ op'[x] = op[x] /\ ref'[x] = ref[x] /\ dgst'[x] = dgst[x]
      /\ UNCHANGED <<tags, seen>>
  BY <1>1, BeginFacts
<1>3. seen[p] = None
  BY <1>2 DEF Sound, Placed
<1>4. Placed(p)'
  BY <1>1, <1>2 DEF Sound, Placed, Resolving
<1>5. Answers(p)' /\ Gone(p)'
  BY <1>1, <1>2, <1>3 DEF Answers, AnswerSteps, Gone
<1> QED BY <1>1, <1>2, <1>4, <1>5, CallStep

(* When an invalidation has run alone, its file is gone and no call works  *)
(* on it: what the registry holds now is all that can be answered.         *)
LEMMA ForgottenSound == ASSUME Known, Sound, NEW p \in Proc, Forgotten(p) PROVE Sound'
<1> DEFINE f == TagPath[target[p]]
<1>1. /\ at[p] = "forgotten" /\ at'[p] \in {"failed", "done"} /\ Return(p)
      /\ \A x \in Proc \ {p} : at'[x] = at[x]
      /\ UNCHANGED <<registry, alone, call, target, carried>>
  BY DEF Forgotten, Step, Known, ResolverInv, ResolverShapes, world, calling
<1>2. /\ pc[p] \in {"ok", "err"} /\ pc'[p] = "idle" /\ seen'[p] = None
      /\ \A x \in Proc \ {p} : /\ pc'[x] = pc[x] /\ op'[x] = op[x] /\ ref'[x] = ref[x]
                               /\ dgst'[x] = dgst[x] /\ seen'[x] = seen[x]
      /\ UNCHANGED tags
  BY <1>1, ReturnFacts
<1>3. f \in Path /\ call[p] \in Forgetting /\ ~Resolving(p)
  BY <1>1, <1>2, OnTarget DEF Sound, Placed, Forgetting, Resolving
<1>4. CASE since' = since
  <2>1. Placed(p)' /\ Answers(p)' /\ Gone(p)'
    BY <1>1, <1>2, <1>3 DEF Sound, Placed, Answers, Gone, Resolving
  <2> QED BY <1>1, <1>2, <1>4, <2>1, CallStep
<1>5. CASE since' # since
  <2>1. pc[p] = "ok" /\ alone[p] /\ since' = [since EXCEPT ![f] = HeldFor(f)]
    BY <1>5 DEF Forgotten
  <2>2. (\A q \in Path \ {f} : since'[q] = since[q]) /\ since'[f] = HeldFor(f)
    BY <1>3, <2>1 DEF Sound, SinceShapes
  <2>3. tags[f] = None
    BY <1>1, <2>1 DEF Sound, Gone
  <2>4. ASSUME NEW x \in Proc \ {p}, at[x] # "idle", target[x] # None PROVE TagPath[target[x]] # f
    BY <1>1, <1>3, <2>1, <2>4 DEF Sound, Unmet
  <2>5. SinceShapes'
    BY <1>1, <2>1 DEF Sound, SinceShapes
  <2>6. ASSUME NEW x \in Proc PROVE Placed(x)' /\ Unmet(x)' /\ Gone(x)'
    <3>1. CASE x = p
      BY <1>1, <1>2, <3>1 DEF Sound, Placed, Resolving, Unmet, Gone
    <3>2. CASE x # p
      BY <1>1, <1>2, <2>6, <3>2 DEF Sound, Placed, Resolving, Unmet, Gone
    <3> QED BY <3>1, <3>2
  <2>7. ASSUME NEW x \in Proc PROVE Answers(x)'
    <3>1. CASE x = p
      BY <1>1, <1>2, <1>3, <3>1 DEF Answers, Resolving
    <3>2. CASE x # p
      <4>1. ASSUME pc[x] # "idle" PROVE FileOf(x) \in Path \ {f}
        BY <2>4, <3>2, <4>1, OnTarget
      <4>2. ASSUME Resolving(x), at[x] \in AnswerSteps PROVE TagPath[target[x]] \in Path \ {f}
        <5>1. target[x] \in Reference /\ target[x] # None
          BY <4>2, TagAssumption DEF Known, ResolverInv, Linked, Resolving, TagCalls
        <5> QED BY <2>4, <3>2, <4>2, <5>1, TagAssumption DEF AnswerSteps
      <4>3. FileOf(x)' = FileOf(x) /\ (Resolving(x)' <=> Resolving(x))
        BY <1>1, <1>2, <3>2 DEF FileOf, Resolving
      <4> QED BY <1>1, <1>2, <2>2, <2>7, <3>2, <4>1, <4>2, <4>3 DEF Sound, Answers, Since
    <3> QED BY <3>1, <3>2
  <2>8. ASSUME NEW r \in Reference PROVE registry'[r] \in since'[TagPath[r]]
    <3>1. CASE TagPath[r] = f
      BY <1>1, <2>2, <3>1 DEF HeldFor
    <3>2. CASE TagPath[r] # f
      BY <1>1, <2>2, <3>2, TagAssumption DEF Sound
    <3> QED BY <3>1, <3>2
  <2>9. \A q \in Path : tags'[q] # None => tags'[q].digest \in since'[q]
    BY <1>2, <2>2, <2>3 DEF Sound
  <2> QED BY <2>5, <2>6, <2>7, <2>8, <2>9 DEF Sound
<1> QED BY <1>4, <1>5

LEMMA FinishSound == ASSUME Known, Sound, NEW p \in Proc, Finish(p) PROVE Sound'
<1>1. /\ at[p] \in {"served", "done", "failed"}
      /\ at'[p] = "idle" /\ call'[p] = "none" /\ target'[p] = None
      /\ \A x \in Proc \ {p} : at'[x] = at[x] /\ call'[x] = call[x] /\ target'[x] = target[x]
                               /\ carried'[x] = carried[x] /\ alone'[x] = alone[x]
      /\ alone' = [alone EXCEPT ![p] = TRUE]
      /\ UNCHANGED <<registry, since, tags, pc, op, ref, dgst, seen>>
  BY DEF Finish, Leave, Step, Carry, Known, ResolverInv, ResolverShapes, Sound, SinceShapes, world, tagVars
<1>2. pc[p] = "idle" /\ seen[p] = None
  BY <1>1 DEF Sound, Placed
<1>3. SinceShapes'
  BY <1>1 DEF Sound, SinceShapes
<1>4. ASSUME NEW x \in Proc PROVE Placed(x)' /\ Answers(x)' /\ Gone(x)'
  <2>1. CASE x = p
    BY <1>1, <1>2, <2>1 DEF Placed, Answers, Gone, Resolving, Forgetting
  <2>2. CASE x # p
    BY <1>1, <1>4, <2>2 DEF Sound, Placed, Answers, Gone, Resolving, Since, FileOf
  <2> QED BY <2>1, <2>2
<1>5. ASSUME NEW x \in Proc PROVE Unmet(x)'
  <2>1. CASE x = p
    BY <1>1, <2>1 DEF Unmet, Forgetting
  <2>2. CASE x # p
    BY <1>1, <1>5, <2>2 DEF Sound, Unmet
  <2> QED BY <2>1, <2>2
<1> QED BY <1>1, <1>3, <1>4, <1>5 DEF Sound

LEMMA TagStepSound ==
  ASSUME Known, Sound, NEW p \in Proc, TagStep(p),
         UNCHANGED <<world, manifests, at, calling, carried, entry, ghosts>>
  PROVE  Sound'
<1> DEFINE f == FileOf(p)
<1>1. pc[p] \in {"read", "drop", "write", "remove"} /\ UNCHANGED <<op, ref, dgst>>
      /\ UNCHANGED <<registry, since, alone, call, target, at, carried>>
  BY DEF TagStep, ReadEntry, DropExpired, WriteEntry, RemoveEntry, world, calling, ghosts
<1>2. /\ at[p] \in {"lookedUp", "stored", "forgotten"} /\ f = TagPath[target[p]] /\ f \in Path
      /\ FileOf(p)' = f /\ ref[p] = target[p]
  BY <1>1, OnTarget DEF FileOf
<1>3. \A x \in Proc \ {p} : pc'[x] = pc[x] /\ seen'[x] = seen[x]
  BY DEF TagStep, ReadEntry, DropExpired, WriteEntry, RemoveEntry, Goto, Known, ResolverInv, Inv, Shapes
<1>4. pc'[p] # "idle"
  BY DEF TagStep, ReadEntry, DropExpired, WriteEntry, RemoveEntry, Goto, Known, ResolverInv, Inv, Shapes
<1>5. seen'[p] # None => seen'[p].digest \in since[f]
  <2>1. seen'[p] = seen[p] \/ seen'[p] = None \/ seen'[p] = tags[f]
    BY DEF TagStep, ReadEntry, DropExpired, WriteEntry, RemoveEntry, Known, ResolverInv, Inv, Shapes
  <2> QED BY <1>1, <1>2, <2>1 DEF Sound, Answers
<1>6. ASSUME op[p] = "put" PROVE Updated(p, seen[p]).digest \in since[f]
  <2>1. at[p] = "stored" /\ dgst[p] = carried[p] /\ Resolving(p)
    BY <1>1, <1>2, <1>6 DEF Sound, Placed
  <2>2. dgst[p] \in since[f]
    BY <1>2, <2>1 DEF Sound, Answers, AnswerSteps, Since
  <2>3. Updated(p, seen[p]).digest = dgst[p]
    <3>1. CASE seen[p] = None
      BY <3>1 DEF Updated, NewEntry
    <3>2. CASE seen[p] # None
      <4>1. seen[p] \in EntryType
        BY <3>2 DEF Known, ResolverInv, Inv, Good
      <4> QED BY <3>2, <4>1 DEF Updated, EntryType
    <3> QED BY <3>1, <3>2
  <2> QED BY <2>2, <2>3
<1>7. /\ \A q \in Path \ {f} : tags'[q] = tags[q]
      /\ \/ tags'[f] = tags[f] \/ tags'[f] = None
         \/ op[p] = "put" /\ tags'[f] = Updated(p, seen[p])
         \/ op[p] = "get" /\ tags'[f] = seen[p]
  <2>1. CASE ReadEntry(p)
    BY <2>1 DEF ReadEntry
  <2>2. CASE DropExpired(p) \/ RemoveEntry(p)
    BY <1>2, <2>2 DEF DropExpired, RemoveEntry, Known, ResolverInv, Inv, Shapes
  <2>3. CASE WriteEntry(p)
    <3>1. op[p] \in {"get", "put"}
      BY <2>3 DEF WriteEntry, Known, Fresh, Route
    <3> QED BY <1>2, <2>3, <3>1 DEF WriteEntry, Known, ResolverInv, Inv, Shapes
  <2> QED BY <2>1, <2>2, <2>3 DEF TagStep
<1>8. op[p] = "get" /\ tags'[f] = seen[p] => tags'[f] = None \/ tags'[f].digest \in since[f]
  BY <1>1 DEF Sound, Answers
<1>9. \A q \in Path : \/ tags'[q] = tags[q]
                      \/ q = f /\ (tags'[q] = None \/ tags'[q].digest \in since[q])
  BY <1>6, <1>7, <1>8
<1>10. Placed(p)'
  BY <1>1, <1>2, <1>4 DEF Sound, Placed, Resolving
<1>11. Answers(p)'
  BY <1>1, <1>2, <1>5 DEF Sound, Answers, Since, Resolving
<1>12. Gone(p)'
  <2>1. SUFFICES ASSUME at[p] = "forgotten", alone[p], pc'[p] = "ok" PROVE tags'[f] = None
    BY <1>1, <1>2 DEF Gone
  <2>2. op[p] = "delete"
    BY <1>1, <2>1 DEF Sound, Placed
  <2>3. RemoveEntry(p)
    BY <1>1, <2>2 DEF TagStep, ReadEntry, DropExpired, WriteEntry, Known, Fresh, Route
  <2> QED BY <1>2, <2>1, <2>3 DEF RemoveEntry, Goto, Known, ResolverInv, Inv, Shapes
<1> QED BY <1>1, <1>2, <1>3, <1>9, <1>10, <1>11, <1>12, CallStep

LEMMA ExpireSound ==
  ASSUME Known, Sound, NEW q \in Path, Expire(q),
         UNCHANGED <<world, manifests, at, calling, carried, entry, ghosts>>
  PROVE  Sound'
<1>1. UNCHANGED <<registry, since, alone, call, target, at, carried, pc, op, ref, dgst>>
  BY DEF Expire, world, calling, ghosts
<1>2. \A x \in Path : \/ tags'[x] = tags[x]
                      \/ tags[x] # None /\ tags'[x] = [tags[x] EXCEPT !.expired = TRUE]
  BY DEF Expire, Known, ResolverInv, Inv, Shapes
<1>3. \A x \in Proc : \/ seen'[x] = seen[x]
                      \/ seen[x] # None /\ seen'[x] = [seen[x] EXCEPT !.expired = TRUE]
  BY DEF Expire
<1>4. ASSUME NEW e \in EntryType PROVE [e EXCEPT !.expired = TRUE].digest = e.digest
  BY DEF EntryType
<1>5. \A x \in Path : (tags[x] = None => tags'[x] = None) /\ (tags'[x] # None => tags[x] # None /\ tags'[x].digest = tags[x].digest)
  BY <1>2, <1>4 DEF Known, ResolverInv, Inv, Good
<1>6. \A x \in Proc : (seen[x] = None => seen'[x] = None) /\ (seen'[x] # None => seen[x] # None /\ seen'[x].digest = seen[x].digest)
  BY <1>3, <1>4 DEF Known, ResolverInv, Inv, Good
<1>7. ASSUME NEW x \in Proc PROVE Placed(x)' /\ Unmet(x)'
  BY <1>1, <1>6, <1>7 DEF Sound, Placed, Resolving, Unmet
<1>8. ASSUME NEW x \in Proc PROVE Answers(x)'
  BY <1>1, <1>6, <1>8 DEF Sound, Answers, Resolving, Since, FileOf
<1>9. ASSUME NEW x \in Proc PROVE Gone(x)'
  <2>1. ASSUME at[x] = "forgotten", alone[x], pc[x] = "ok" PROVE TagPath[target[x]] \in Path
    BY <2>1, OnTarget
  <2> QED BY <1>1, <1>5, <1>9, <2>1 DEF Sound, Gone
<1>10. \A x \in Path : tags'[x] # None => tags'[x].digest \in since'[x]
  BY <1>1, <1>5 DEF Sound
<1> QED BY <1>1, <1>7, <1>8, <1>9, <1>10 DEF Sound, SinceShapes

LEMMA MoveTagSound ==
  ASSUME Known, Sound, NEW r \in Reference, NEW d \in Digest \cup {None}, MoveTag(r, d)
  PROVE  Sound'
<1>1. /\ UNCHANGED <<at, call, target, carried, alone, tags, pc, op, ref, dgst, seen>>
      /\ registry' = [registry EXCEPT ![r] = d] /\ since' = [since EXCEPT ![TagPath[r]] = @ \cup {d}]
  BY DEF MoveTag, calling, tagVars
<1>2. /\ \A q \in Path : since[q] \subseteq since'[q]
      /\ d \in since'[TagPath[r]]
  BY <1>1, TagAssumption DEF Sound, SinceShapes
<1>3. ASSUME NEW x \in Proc PROVE Placed(x)' /\ Unmet(x)' /\ Gone(x)'
  BY <1>1, <1>3 DEF Sound, Placed, Resolving, Unmet, Gone
<1>4. ASSUME NEW x \in Proc PROVE Answers(x)'
  <2>1. ASSUME pc[x] # "idle" PROVE FileOf(x) \in Path
    BY <2>1, OnTarget
  <2>2. ASSUME Resolving(x) PROVE TagPath[target[x]] \in Path
    BY <2>2, TagAssumption DEF Known, ResolverInv, Linked, Resolving, TagCalls
  <2>3. FileOf(x)' = FileOf(x) /\ (Resolving(x)' <=> Resolving(x))
    BY <1>1 DEF FileOf, Resolving
  <2> QED BY <1>1, <1>2, <1>4, <2>1, <2>2, <2>3 DEF Sound, Answers, Since
<1>5. ASSUME NEW x \in Reference PROVE registry'[x] \in since'[TagPath[x]]
  <2>1. CASE x = r
    BY <1>1, <1>2, <2>1 DEF Known, ResolverInv, ResolverShapes
  <2>2. CASE x # r
    BY <1>1, <1>2, <2>2, TagAssumption DEF Sound, Known, ResolverInv, ResolverShapes
  <2> QED BY <2>1, <2>2
<1>6. SinceShapes'
  BY <1>1 DEF Sound, SinceShapes
<1> QED BY <1>1, <1>2, <1>3, <1>4, <1>5, <1>6 DEF Sound

LEMMA StepSound == Known /\ Sound /\ [ResolverNext]_allVars => Sound'
<1> SUFFICES ASSUME Known, Sound, [ResolverNext]_allVars PROVE Sound'
  OBVIOUS
<1>1. CASE UNCHANGED allVars \/ Tick
  BY <1>1 DEF allVars, Tick, tagVars, world, calling, ghosts, Sound, SinceShapes, Placed, Answers, Unmet, Gone,
              Resolving, Since, FileOf
<1>2. ASSUME NEW p \in Proc, ResolverStep(p) PROVE Sound'
  BY <1>2, LookUpSound, LookedUpSound, ReadManifestSound, DropManifestSound, ManifestStepSound,
     AskRegistrySound, StoreSound, StoredSound, ForgetSound, ForgottenSound, FinishSound, TagStepSound
     DEF ResolverStep
<1>3. CASE ResolverNext
  BY <1>1, <1>2, <1>3, CallResolverSound, CallManifestCacheSound, BatchSound, ExpireSound, MoveTagSound
     DEF ResolverNext
<1> QED BY <1>1, <1>3

----------------------------------------------------------------------------
(* Whatever the resolver's goroutines do, the tag cache under them behaves *)
(* as TagCache allows: resolver.go has no way around its calls, so every   *)
(* property of the tag cache holds under the resolver.                     *)
THEOREM ResolverUsesTagCache == ResolverSpec => Spec
<1>1. ResolverInit => Init
  BY DEF ResolverInit
<1>2. ResolverInv /\ [ResolverNext]_allVars => [Next]_tagVars
  BY TagPart
<1> QED BY <1>1, <1>2, ResolverInvariant, PTL DEF ResolverSpec, Spec

(* The variables of resolver, manifest cache and tag cache keep their types: *)
(* every digest a call works on is one it has been given.                    *)
THEOREM ResolverTyped == ResolverSpec => []ResolverTypeOK
<1>1. ResolverInv => ResolverTypeOK
  BY InvMeans DEF ResolverInv, ResolverShapes, ResolverTypeOK, Moment
<1> QED BY <1>1, ResolverInvariant, PTL

(* The histories tags.go keeps stay well formed under the resolver.        *)
THEOREM ResolverKeepsHistories == ResolverSpec => []HistoryWellFormed
BY ResolverUsesTagCache, HistoryIsWellFormed, PTL

(* The manifest cache serves a manifest only within DefaultTTL of a        *)
(* PutManifest of it, however many goroutines read it and write it back    *)
(* meanwhile.                                                              *)
THEOREM ServedManifestsAreYoung == ResolverSpec => []ServedIsYoung
<1>1. ResolverInv => ServedIsYoung
  BY DEF ResolverInv, Stamped, YoungAt, ServedIsYoung
<1> QED BY <1>1, ResolverInvariant, PTL

(* BatchResolveTags returns only when each of its goroutines has.          *)
THEOREM BatchesAreWhole == ResolverSpec => []BatchIsWhole
<1>1. ResolverInv => BatchIsWhole
  BY DEF ResolverInv, Linked, BatchIsWhole
<1> QED BY <1>1, ResolverInvariant, PTL

(* A mapping file that calls have not raced on holds the latest mapping    *)
(* under the resolver too.                                                 *)
THEOREM ResolverKeepsLatest == ResolverSpec => []UnstirredIsLatest
BY ResolverUsesTagCache, UnstirredStaysLatest, PTL

(* ResolvedSinceInvalidated for any number of goroutines and references,   *)
(* those that share a file included: what an invalidation that ran alone   *)
(* has thrown away, no resolution answers again.                           *)
THEOREM NothingComesBack == ResolverSpec => []ResolvedSinceInvalidated
<1>1. Known <=> ResolverInv /\ Fresh
  BY DEF Known
<1>2. ResolverInit => Sound
  BY SoundInit
<1>3. Known /\ Sound /\ [ResolverNext]_allVars => Sound'
  BY StepSound
<1>4. Sound => ResolvedSinceInvalidated
  BY DEF Sound, Answers, AnswerSteps, Since, ResolvedSinceInvalidated
<1> QED BY <1>1, <1>2, <1>3, <1>4, ResolverUsesTagCache, ResolverInvariant, FreshInvariant, PTL DEF ResolverSpec
============================================================================
