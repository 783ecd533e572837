----------------------------- MODULE GitProofs -----------------------------
(***************************************************************************)
(* Proofs about Git for any number of branches, tags, paths, contents,     *)
(* commits and calls.                                                      *)
(***************************************************************************)
EXTENDS Git, TLAPS, WellFoundedInduction

(* A set of numbers that is not empty has a least element.                 *)
LEMMA Least ==
  ASSUME NEW T \in SUBSET Nat, T # {}
  PROVE  \E x \in T : \A y \in T : x <= y
<1>1. PICK Less : IsWellFoundedOn(Less, Nat) /\ \A i, j \in Nat : i < j => <<i, j>> \in Less
  <2>1. IsWellFoundedOn(OpToRel(<, Nat), Nat)
    BY NatLessThanWellFounded
  <2>2. \A i, j \in Nat : i < j => <<i, j>> \in OpToRel(<, Nat)
    BY DEF OpToRel
  <2> QED BY <2>1, <2>2
<1>2. IsWellFoundedOn(Less, Nat) /\ T \subseteq Nat
  BY <1>1
<1>3. \E x \in T : \A y \in T : ~ (<<y, x>> \in Less)
  BY <1>2, WFMin
<1>4. PICK x \in T : \A y \in T : ~ (<<y, x>> \in Less)
  BY <1>3
<1>5. ASSUME NEW y \in T, y < x PROVE FALSE
  <2>1. <<y, x>> \in Less
    BY <1>1, <1>5
  <2> QED BY <2>1, <1>4
<1>6. \A y \in T : x <= y
  BY <1>5
<1> QED BY <1>6

(* A parent is made before its child.                                      *)
Ordered(cs, i) == \A n \in 1..i : cs[n].parent \in 0..(n - 1)

(* f is what the recursion of History defines on the commits up to m.      *)
Solves(f, cs, m) ==
  f = [n \in 0..m |-> IF n = 0 THEN {} ELSE {n} \cup f[cs[n].parent]]

LEMMA HistoryExists ==
  ASSUME NEW cs, NEW i \in Nat, Ordered(cs, i)
  PROVE  \E f : Solves(f, cs, i)
<1> DEFINE Bad == {m \in 0..i : ~ \E f : Solves(f, cs, m)}
<1> SUFFICES ASSUME Bad # {} PROVE FALSE
  OBVIOUS
<1>1. PICK m \in Bad : \A k \in Bad : m <= k
  <2> Bad \in SUBSET Nat
    OBVIOUS
  <2> HIDE DEF Bad
  <2> QED BY Least
<1>2. CASE m = 0
  <2>1. Solves([n \in 0..0 |-> {}], cs, 0)
    BY DEF Solves
  <2> QED BY <2>1, <1>2
<1>3. CASE m # 0
  <2>1. m - 1 \in 0..i /\ m - 1 \notin Bad
    BY <1>1, <1>3
  <2>2. PICK f : Solves(f, cs, m - 1)
    BY <2>1
  <2> DEFINE g == [n \in 0..m |-> IF n = m THEN {m} \cup f[cs[m].parent] ELSE f[n]]
  <2>3. ASSUME NEW n \in 0..m
        PROVE  g[n] = IF n = 0 THEN {} ELSE {n} \cup g[cs[n].parent]
    <3>1. CASE n = m
      <4>1. cs[m].parent \in 0..(m - 1)
        BY <1>3 DEF Ordered
      <4> QED BY <3>1, <4>1, <1>3
    <3>2. CASE n # m /\ n # 0
      <4>1. n \in 0..(m - 1) /\ cs[n].parent \in 0..(n - 1)
        BY <3>2 DEF Ordered
      <4>2. f[n] = {n} \cup f[cs[n].parent]
        BY <4>1, <2>2, <3>2 DEF Solves
      <4> QED BY <4>1, <4>2, <3>2
    <3>3. CASE n # m /\ n = 0
      BY <2>2, <3>3, <1>3 DEF Solves
    <3> QED BY <3>1, <3>2, <3>3
  <2>4. Solves(g, cs, m)
    <3>1. g = [n \in 0..m |-> g[n]]
      OBVIOUS
    <3> HIDE DEF g
    <3> QED BY <2>3, <3>1 DEF Solves
  <2> QED BY <2>4
<1> QED BY <1>2, <1>3

LEMMA SolutionHolds ==
  ASSUME NEW cs, NEW i \in Nat \ {0}, Ordered(cs, i), NEW f, Solves(f, cs, i)
  PROVE  /\ i \in f[i]
         /\ cs[i].parent # 0 => cs[i].parent \in f[i]
<1>1. cs[i].parent \in 0..(i - 1)
  BY DEF Ordered
<1>2. ASSUME NEW n \in 1..i PROVE f[n] = {n} \cup f[cs[n].parent]
  <2>1. n \in 0..i /\ n # 0
    OBVIOUS
  <2> QED BY <2>1 DEF Solves
<1>3. i \in 1..i /\ (cs[i].parent # 0 => cs[i].parent \in 1..i)
  BY <1>1
<1> HIDE DEF Solves
<1>4. f[i] = {i} \cup f[cs[i].parent]
  BY <1>2, <1>3, Zenon
<1>5. cs[i].parent # 0 => cs[i].parent \in f[cs[i].parent]
  BY <1>2, <1>3, Zenon
<1> QED BY <1>4, <1>5

(* A commit descends from itself and from its parent.                      *)
LEMMA HistoryHolds ==
  ASSUME NEW cs, NEW i \in Nat \ {0}, Ordered(cs, i)
  PROVE  /\ i \in History(cs, i)
         /\ cs[i].parent # 0 => cs[i].parent \in History(cs, i)
<1> DEFINE past[n \in 0..i] == IF n = 0 THEN {} ELSE {n} \cup past[cs[n].parent]
<1>1. \E f : f = [n \in 0..i |-> IF n = 0 THEN {} ELSE {n} \cup f[cs[n].parent]]
  BY HistoryExists DEF Solves
<1>2. Solves(past, cs, i)
  BY <1>1 DEF Solves
<1>3. History(cs, i) = past[i]
  BY DEF History
<1>4. i \in past[i] /\ (cs[i].parent # 0 => cs[i].parent \in past[i])
  <2> HIDE DEF past
  <2> QED BY <1>2, SolutionHolds
<1> QED BY <1>3, <1>4
----------------------------------------------------------------------------
(* Every reference of the clone names a commit, and both HEAD and the      *)
(* remote's HEAD name a branch that exists.                                *)
Sound ==
  /\ commits \in Seq([parent : Nat, tree : Tree])
  /\ TypeOK
  /\ HeadIsBorn
  /\ remote[Default] # None

Inv == Sound /\ CommitIsWhatWasStaged

(* What a step may do to the references, to the remote and to edits.       *)
RefsKept ==
  /\ \A b \in Branch : heads[b] # None =>
       \/ heads'[b] # None /\ heads[b] \in History(commits', heads'[b])
       \/ told' = b
  /\ \A t \in Tag : tags[t] # None /\ tags'[t] # tags[t] => told' = t

RemoteKept ==
  \A b \in Branch : remote[b] # None /\ told' # "remote" =>
    remote'[b] # None /\ remote[b] \in History(commits', remote'[b])

EditsKept == \A p \in Unstaged : work'[p] = work[p] \/ told' = "work"

Kept == RefsKept /\ RemoteKept /\ EditsKept

LEMMA SoundFacts ==
  ASSUME Sound
  PROVE  /\ Len(commits) \in Nat /\ Ordered(commits, Len(commits))
         /\ None \notin Commit
         /\ \A i \in Commit : /\ i \in Nat \ {0}
                              /\ commits[i].tree \in Tree
                              /\ i \in History(commits, i)
<1>1. Len(commits) \in Nat
  BY DEF Sound
<1>2. Ordered(commits, Len(commits))
  BY DEF Sound, TypeOK, Commit, Ordered
<1>3. None \notin Commit
  BY <1>1, GitAssumption DEF Commit
<1>4. ASSUME NEW i \in Commit
      PROVE  i \in Nat \ {0} /\ Ordered(commits, i)
  BY <1>1, <1>2, <1>4 DEF Commit, Ordered
<1>5. \A i \in Commit : i \in History(commits, i)
  BY <1>4, HistoryHolds
<1>6. \A i \in Commit : commits[i].tree \in Tree
  BY DEF Sound, TypeOK
<1> QED BY <1>1, <1>2, <1>3, <1>4, <1>5, <1>6

LEMMA InitInv == Init => Inv
<1> SUFFICES ASSUME Init PROVE Inv
  OBVIOUS
<1>1. PICK t \in [Path -> Content] : commits = <<[parent |-> 0, tree |-> t]>>
  BY DEF Init
<1>2. t \in Tree
  BY DEF Tree
<1>3. Len(commits) = 1 /\ commits[1] = [parent |-> 0, tree |-> t] /\ Commit = {1}
  BY <1>1 DEF Commit
<1>4. commits \in Seq([parent : Nat, tree : Tree])
  BY <1>1, <1>2
<1>5. TypeOK
  <2>1. \A i \in Commit : commits[i].parent \in 0..(i - 1) /\ commits[i].tree \in Tree
    BY <1>2, <1>3
  <2>2. /\ remote \in [Branch -> Commit \cup {None}]
        /\ tags \in [Tag -> Commit \cup {None}]
    BY <1>3 DEF Init
  <2>3. index \in Tree /\ work \in Tree
    BY <1>2, <1>3 DEF Init
  <2>4. calls \in 0..MaxCalls /\ touched \in SUBSET Path /\ head \in Branch
    BY GitAssumption DEF Init
  <2>5. stale \in BOOLEAN
    BY Zenon DEF Init
  <2>6. heads \in [Branch -> Commit \cup {None}] /\ tracking \in [Branch -> Commit \cup {None}]
    BY <2>2 DEF Init
  <2> QED BY <2>1, <2>2, <2>3, <2>4, <2>5, <2>6 DEF TypeOK
<1>6. HeadIsBorn /\ remote[Default] # None
  BY GitAssumption DEF Init, HeadIsBorn
<1>7. CommitIsWhatWasStaged
  BY <1>3, GitAssumption DEF Init, CommitIsWhatWasStaged, TreeOf
<1> QED BY <1>4, <1>5, <1>6, <1>7 DEF Inv, Sound

(* What is left when the branch alone moves to the commit i.               *)
LEMMA LeftBehindFacts ==
  ASSUME Sound, NEW i, LeftBehind(i)
  PROVE  /\ UNCHANGED <<index, work, touched>>
         /\ stale' \in BOOLEAN
         /\ ~stale' => ~stale /\ commits[i].tree = TreeOf(head)
<1>1. stale' = (stale \/ commits[i].tree # TreeOf(head)) /\ UNCHANGED <<index, work, touched>>
  BY DEF LeftBehind
<1>2. CASE stale'
  <2>1. stale' = TRUE
    BY <1>1, <1>2, Zenon
  <2> QED BY <1>1, <1>2, <2>1
<1>3. CASE ~stale'
  <2>1. ~stale /\ commits[i].tree = TreeOf(head)
    BY <1>1, <1>3, Zenon
  <2>2. stale' = FALSE
    BY <1>1, <2>1, Zenon
  <2> QED BY <1>1, <2>1, <2>2
<1> QED BY <1>2, <1>3

LEMMA ResetFacts ==
  ASSUME Sound, NEW i \in Commit, ResetTo(i)
  PROVE  /\ index' = commits[i].tree /\ index' \in Tree /\ work' \in Tree
         /\ touched' = {} /\ stale' = FALSE
<1>1. commits[i].tree \in Tree /\ work \in Tree
  BY DEF Sound, TypeOK
<1>2. PICK kept \in SUBSET Path : work' = [p \in Path |-> IF p \in kept THEN work[p] ELSE commits[i].tree[p]]
  BY DEF ResetTo, Overwritten
<1>3. work' \in Tree
  BY <1>1, <1>2 DEF Tree
<1> QED BY <1>1, <1>3 DEF ResetTo

(* However a checkout of the branch b, which is at the commit i, ends.     *)
LEMMA CheckedOutFacts ==
  ASSUME Inv, NEW b \in Branch, NEW i \in Commit, NEW force \in BOOLEAN,
         heads'[b] = i, CheckedOut(b, i, force)
  PROVE  /\ head' \in {b, head}
         /\ index' \in Tree /\ work' \in Tree /\ touched' \in SUBSET Path /\ stale' \in BOOLEAN
         /\ ~stale' => \A p \in Path : index'[p] # commits[heads'[head']].tree[p] => p \in touched'
         /\ force \/ \A p \in Unstaged : work'[p] = work[p]
<1>1. CASE head' = b /\ (force \/ Unstaged = {}) /\ ResetTo(i)
  BY <1>1, ResetFacts DEF Inv
<1>2. CASE head' = b /\ LeftBehind(i)
  BY <1>2, LeftBehindFacts DEF Inv, Sound, TypeOK, CommitIsWhatWasStaged, TreeOf
<1>3. CASE UNCHANGED head /\ LeftBehind(heads'[head])
  BY <1>3, LeftBehindFacts DEF Inv, Sound, TypeOK, CommitIsWhatWasStaged, TreeOf
<1> QED BY <1>1, <1>2, <1>3 DEF CheckedOut

(* A new commit leaves the ones before it as they are, and descends from   *)
(* its parent.                                                             *)
LEMMA AppendFacts ==
  ASSUME Sound, NEW c \in [parent : Commit, tree : Tree], commits' = Append(commits, c)
  PROVE  /\ commits' \in Seq([parent : Nat, tree : Tree])
         /\ Len(commits') \in Commit' /\ Commit \subseteq Commit'
         /\ \A i \in Commit : commits'[i] = commits[i] /\ i \in History(commits', i)
         /\ commits'[Len(commits')] = c
         /\ \A n \in Commit' : commits'[n].parent \in 0..(n - 1) /\ commits'[n].tree \in Tree
         /\ c.parent \in History(commits', Len(commits'))
<1> DEFINE n == Len(commits)
<1>1. n \in Nat /\ c \in [parent : Nat, tree : Tree] /\ c.parent \in 1..n /\ c.tree \in Tree
  BY SoundFacts DEF Commit
<1>2. commits' \in Seq([parent : Nat, tree : Tree]) /\ Len(commits') = n + 1
  BY <1>1 DEF Sound
<1>3. commits'[n + 1] = c /\ \A i \in 1..n : commits'[i] = commits[i]
  BY <1>1 DEF Sound
<1>4. Commit = 1..n /\ Commit' = 1..(n + 1)
  BY <1>2 DEF Commit
<1>5. ASSUME NEW i \in 1..(n + 1)
      PROVE  commits'[i].parent \in 0..(i - 1) /\ commits'[i].tree \in Tree
  <2>1. CASE i = n + 1
    BY <2>1, <1>1, <1>3
  <2>2. CASE i \in 1..n
    BY <2>2, <1>3, <1>4 DEF Sound, TypeOK
  <2> QED BY <2>1, <2>2, <1>1
<1>6. ASSUME NEW i \in 1..(n + 1)
      PROVE  i \in Nat \ {0} /\ Ordered(commits', i)
  <2>1. i \in Nat \ {0} /\ \A m \in 1..i : m \in 1..(n + 1)
    BY <1>1
  <2>2. \A m \in 1..i : commits'[m].parent \in 0..(m - 1)
    BY <2>1, <1>5
  <2> QED BY <2>1, <2>2 DEF Ordered
<1>7. \A i \in 1..(n + 1) : i \in History(commits', i)
  BY <1>6, HistoryHolds
<1>8. c.parent \in History(commits', n + 1)
  <2>1. n + 1 \in 1..(n + 1) /\ commits'[n + 1].parent # 0
    BY <1>1, <1>3
  <2> QED BY <2>1, <1>3, <1>6, HistoryHolds
<1> QED BY <1>1, <1>2, <1>3, <1>4, <1>5, <1>7, <1>8

----------------------------------------------------------------------------
(* Each call, whatever of it fails, keeps the invariant and drops nothing  *)
(* but what it was told to.                                                *)
LEMMA CreateBranchStep ==
  ASSUME Inv, NEW b \in Branch, NEW i \in Revisions, NEW force \in BOOLEAN, CreateBranch(b, i, force)
  PROVE  Inv' /\ Kept
<1> USE SoundFacts, GitAssumption DEF Inv, CreateBranch, Revisions, Told, refs, files
<1>1. commits' \in Seq([parent : Nat, tree : Tree])
  BY DEF Sound, Tip, HeadIsBorn, TypeOK
<1>2. TypeOK'
  <2>1. /\ Commit' = Commit
        /\ \A n \in Commit' : commits'[n].parent \in 0..(n - 1) /\ commits'[n].tree \in Tree
    BY DEF Sound, TypeOK, Commit
  <2>2. /\ remote' \in [Branch -> Commit \cup {None}]
        /\ tracking' \in [Branch -> Commit \cup {None}]
        /\ tags' \in [Tag -> Commit \cup {None}]
    BY DEF Sound, TypeOK
  <2>3. heads' \in [Branch -> Commit \cup {None}] /\ head' \in Branch
    BY DEF Sound, TypeOK, Tip
  <2>4. index' \in Tree /\ work' \in Tree
    BY LeftBehindFacts DEF Sound, TypeOK
  <2>5. touched' \in SUBSET Path /\ stale' \in BOOLEAN /\ calls' \in 0..MaxCalls
    BY LeftBehindFacts DEF Sound, TypeOK
  <2> QED BY <2>1, <2>2, <2>3, <2>4, <2>5 DEF TypeOK
<1>3. HeadIsBorn' /\ remote'[Default] # None
  BY <1>1 DEF Sound, HeadIsBorn, TypeOK, Tip
<1>4. CommitIsWhatWasStaged'
  BY LeftBehindFacts DEF Sound, CommitIsWhatWasStaged, TreeOf, TypeOK
<1>5. RefsKept
  BY DEF Sound, RefsKept, HeadIsBorn, TypeOK, Tip
<1>6. RemoteKept
  BY DEF Sound, RemoteKept, TypeOK
<1>7. EditsKept
  BY LeftBehindFacts DEF EditsKept, Unstaged
<1> QED BY <1>1, <1>2, <1>3, <1>4, <1>5, <1>6, <1>7 DEF Sound, Kept

LEMMA CheckoutBranchStep ==
  ASSUME Inv, NEW b \in Branch, NEW new \in BOOLEAN, NEW force \in BOOLEAN, CheckoutBranch(b, new, force)
  PROVE  Inv' /\ Kept
<1> USE SoundFacts, GitAssumption DEF Inv, CheckoutBranch, Told, refs, files
<1> DEFINE i == heads'[b]
<1>1. i \in Commit /\ heads'[b] = i
  BY DEF Sound, TypeOK, Tip, HeadIsBorn
<1>2. commits' \in Seq([parent : Nat, tree : Tree])
  BY DEF Sound, Tip, HeadIsBorn, TypeOK
<1>3. TypeOK'
  <2>1. /\ Commit' = Commit
        /\ \A n \in Commit' : commits'[n].parent \in 0..(n - 1) /\ commits'[n].tree \in Tree
    BY DEF Sound, TypeOK, Commit
  <2>2. /\ remote' \in [Branch -> Commit \cup {None}]
        /\ tracking' \in [Branch -> Commit \cup {None}]
        /\ tags' \in [Tag -> Commit \cup {None}]
    BY DEF Sound, TypeOK
  <2>3. heads' \in [Branch -> Commit \cup {None}] /\ head' \in Branch
    BY <1>1, CheckedOutFacts DEF Sound, TypeOK, Tip
  <2>4. index' \in Tree /\ work' \in Tree
    BY <1>1, CheckedOutFacts
  <2>5. touched' \in SUBSET Path /\ stale' \in BOOLEAN /\ calls' \in 0..MaxCalls
    BY <1>1, CheckedOutFacts DEF Sound, TypeOK
  <2> QED BY <2>1, <2>2, <2>3, <2>4, <2>5 DEF TypeOK
<1>4. HeadIsBorn' /\ remote'[Default] # None
  BY <1>1, CheckedOutFacts DEF Sound, HeadIsBorn, TypeOK, Tip
<1>5. CommitIsWhatWasStaged'
  BY <1>1, CheckedOutFacts DEF Sound, CommitIsWhatWasStaged, TreeOf
<1>6. RefsKept
  BY DEF Sound, RefsKept, HeadIsBorn, TypeOK, Tip
<1>7. RemoteKept
  BY DEF Sound, RemoteKept, TypeOK
<1>8. EditsKept
  BY <1>1, CheckedOutFacts DEF EditsKept
<1> QED BY <1>2, <1>3, <1>4, <1>5, <1>6, <1>7, <1>8 DEF Sound, Kept

LEMMA DeleteBranchStep ==
  ASSUME Inv, NEW b \in Branch, DeleteBranch(b)
  PROVE  Inv' /\ Kept
<1> USE SoundFacts, GitAssumption DEF Inv, DeleteBranch, Told, refs, files
<1>1. commits' \in Seq([parent : Nat, tree : Tree])
  BY DEF Sound, Tip, HeadIsBorn, TypeOK
<1>2. TypeOK'
  <2>1. /\ Commit' = Commit
        /\ \A n \in Commit' : commits'[n].parent \in 0..(n - 1) /\ commits'[n].tree \in Tree
    BY DEF Sound, TypeOK, Commit
  <2>2. /\ remote' \in [Branch -> Commit \cup {None}]
        /\ tracking' \in [Branch -> Commit \cup {None}]
        /\ tags' \in [Tag -> Commit \cup {None}]
    BY DEF Sound, TypeOK
  <2>3. heads' \in [Branch -> Commit \cup {None}] /\ head' \in Branch
    BY DEF Sound, TypeOK, Tip
  <2>4. index' \in Tree /\ work' \in Tree
    BY DEF Sound, TypeOK, Tip, HeadIsBorn, TreeOf, Tree
  <2>5. touched' \in SUBSET Path /\ stale' \in BOOLEAN /\ calls' \in 0..MaxCalls
    BY DEF Sound, TypeOK
  <2> QED BY <2>1, <2>2, <2>3, <2>4, <2>5 DEF TypeOK
<1>3. HeadIsBorn' /\ remote'[Default] # None
  BY <1>1 DEF Sound, HeadIsBorn, TypeOK, Tip
<1>4. CommitIsWhatWasStaged'
  BY DEF Sound, CommitIsWhatWasStaged, TreeOf, HeadIsBorn, TypeOK, Tip, Commit, Tree
<1>5. RefsKept
  BY DEF Sound, RefsKept, HeadIsBorn, TypeOK, Tip
<1>6. RemoteKept
  BY DEF Sound, RemoteKept, TypeOK
<1>7. EditsKept
  BY DEF EditsKept, Unstaged
<1> QED BY <1>1, <1>2, <1>3, <1>4, <1>5, <1>6, <1>7 DEF Sound, Kept

LEMMA CheckoutRemoteBranchStep ==
  ASSUME Inv, NEW b \in Branch, NEW local \in Branch, CheckoutRemoteBranch(b, local)
  PROVE  Inv' /\ Kept
<1> USE SoundFacts, GitAssumption DEF Inv, CheckoutRemoteBranch, Told, refs, files
<1> DEFINE i == tracking[b]
<1>1. i \in Commit /\ heads'[local] = i
  BY DEF Sound, TypeOK, Tip, HeadIsBorn
<1>2. commits' \in Seq([parent : Nat, tree : Tree])
  BY DEF Sound, Tip, HeadIsBorn, TypeOK
<1>3. TypeOK'
  <2>1. /\ Commit' = Commit
        /\ \A n \in Commit' : commits'[n].parent \in 0..(n - 1) /\ commits'[n].tree \in Tree
    BY DEF Sound, TypeOK, Commit
  <2>2. /\ remote' \in [Branch -> Commit \cup {None}]
        /\ tracking' \in [Branch -> Commit \cup {None}]
        /\ tags' \in [Tag -> Commit \cup {None}]
    BY DEF Sound, TypeOK
  <2>3. heads' \in [Branch -> Commit \cup {None}] /\ head' \in Branch
    BY <1>1, CheckedOutFacts DEF Sound, TypeOK, Tip
  <2>4. index' \in Tree /\ work' \in Tree
    BY <1>1, CheckedOutFacts
  <2>5. touched' \in SUBSET Path /\ stale' \in BOOLEAN /\ calls' \in 0..MaxCalls
    <3>1. CheckedOut(local, i, FALSE)
      OBVIOUS
    <3>2. touched' \in SUBSET Path /\ stale' \in BOOLEAN
      BY <1>1, <3>1, CheckedOutFacts
    <3>3. calls' \in 0..MaxCalls
      BY DEF Sound, TypeOK
    <3> QED BY <3>2, <3>3
  <2> QED BY <2>1, <2>2, <2>3, <2>4, <2>5 DEF TypeOK
<1>4. HeadIsBorn' /\ remote'[Default] # None
  BY ZenonT(30), <1>1, CheckedOutFacts DEF Sound, HeadIsBorn, TypeOK, Tip
<1>5. CommitIsWhatWasStaged'
  BY <1>1, CheckedOutFacts DEF Sound, CommitIsWhatWasStaged, TreeOf
<1>6. RefsKept
  BY DEF Sound, RefsKept, HeadIsBorn, TypeOK, Tip
<1>7. RemoteKept
  BY DEF Sound, RemoteKept, TypeOK
<1>8. EditsKept
  BY <1>1, CheckedOutFacts DEF EditsKept
<1> QED BY <1>2, <1>3, <1>4, <1>5, <1>6, <1>7, <1>8 DEF Sound, Kept

LEMMA CreateTagStep ==
  ASSUME Inv, NEW t \in Tag, NEW i \in Revisions, CreateTag(t, i)
  PROVE  Inv' /\ Kept
<1> USE SoundFacts, GitAssumption DEF Inv, CreateTag, Revisions, Told, refs, files
<1>1. commits' \in Seq([parent : Nat, tree : Tree])
  BY DEF Sound, Tip, HeadIsBorn, TypeOK
<1>2. TypeOK'
  <2>1. /\ Commit' = Commit
        /\ \A n \in Commit' : commits'[n].parent \in 0..(n - 1) /\ commits'[n].tree \in Tree
    BY DEF Sound, TypeOK, Commit
  <2>2. /\ remote' \in [Branch -> Commit \cup {None}]
        /\ tracking' \in [Branch -> Commit \cup {None}]
        /\ tags' \in [Tag -> Commit \cup {None}]
    BY DEF Sound, TypeOK
  <2>3. heads' \in [Branch -> Commit \cup {None}] /\ head' \in Branch
    BY DEF Sound, TypeOK, Tip
  <2>4. index' \in Tree /\ work' \in Tree
    BY DEF Sound, TypeOK, Tip, HeadIsBorn, TreeOf, Tree
  <2>5. touched' \in SUBSET Path /\ stale' \in BOOLEAN /\ calls' \in 0..MaxCalls
    BY DEF Sound, TypeOK
  <2> QED BY <2>1, <2>2, <2>3, <2>4, <2>5 DEF TypeOK
<1>3. HeadIsBorn' /\ remote'[Default] # None
  BY <1>1 DEF Sound, HeadIsBorn, TypeOK, Tip
<1>4. CommitIsWhatWasStaged'
  BY DEF Sound, CommitIsWhatWasStaged, TreeOf, HeadIsBorn, TypeOK, Tip, Commit, Tree
<1>5. RefsKept
  BY DEF Sound, RefsKept, HeadIsBorn, TypeOK, Tip
<1>6. RemoteKept
  BY DEF Sound, RemoteKept, TypeOK
<1>7. EditsKept
  BY DEF EditsKept, Unstaged
<1> QED BY <1>1, <1>2, <1>3, <1>4, <1>5, <1>6, <1>7 DEF Sound, Kept

LEMMA DeleteTagStep ==
  ASSUME Inv, NEW t \in Tag, DeleteTag(t)
  PROVE  Inv' /\ Kept
<1> USE SoundFacts, GitAssumption DEF Inv, DeleteTag, Told, refs, files
<1>1. commits' \in Seq([parent : Nat, tree : Tree])
  BY DEF Sound, Tip, HeadIsBorn, TypeOK
<1>2. TypeOK'
  <2>1. /\ Commit' = Commit
        /\ \A n \in Commit' : commits'[n].parent \in 0..(n - 1) /\ commits'[n].tree \in Tree
    BY DEF Sound, TypeOK, Commit
  <2>2. /\ remote' \in [Branch -> Commit \cup {None}]
        /\ tracking' \in [Branch -> Commit \cup {None}]
        /\ tags' \in [Tag -> Commit \cup {None}]
    BY DEF Sound, TypeOK
  <2>3. heads' \in [Branch -> Commit \cup {None}] /\ head' \in Branch
    BY DEF Sound, TypeOK, Tip
  <2>4. index' \in Tree /\ work' \in Tree
    BY DEF Sound, TypeOK, Tip, HeadIsBorn, TreeOf, Tree
  <2>5. touched' \in SUBSET Path /\ stale' \in BOOLEAN /\ calls' \in 0..MaxCalls
    BY DEF Sound, TypeOK
  <2> QED BY <2>1, <2>2, <2>3, <2>4, <2>5 DEF TypeOK
<1>3. HeadIsBorn' /\ remote'[Default] # None
  BY <1>1 DEF Sound, HeadIsBorn, TypeOK, Tip
<1>4. CommitIsWhatWasStaged'
  BY DEF Sound, CommitIsWhatWasStaged, TreeOf, HeadIsBorn, TypeOK, Tip, Commit, Tree
<1>5. RefsKept
  BY DEF Sound, RefsKept, HeadIsBorn, TypeOK, Tip
<1>6. RemoteKept
  BY DEF Sound, RemoteKept, TypeOK
<1>7. EditsKept
  BY DEF EditsKept, Unstaged
<1> QED BY <1>1, <1>2, <1>3, <1>4, <1>5, <1>6, <1>7 DEF Sound, Kept

LEMMA AddStep ==
  ASSUME Inv, NEW paths \in SUBSET Path, Add(paths)
  PROVE  Inv' /\ Kept
<1> USE SoundFacts, GitAssumption DEF Inv, Add, Told, refs, files
<1>1. commits' \in Seq([parent : Nat, tree : Tree])
  BY DEF Sound, Tip, HeadIsBorn, TypeOK
<1>2. TypeOK'
  <2>1. /\ Commit' = Commit
        /\ \A n \in Commit' : commits'[n].parent \in 0..(n - 1) /\ commits'[n].tree \in Tree
    BY DEF Sound, TypeOK, Commit
  <2>2. /\ remote' \in [Branch -> Commit \cup {None}]
        /\ tracking' \in [Branch -> Commit \cup {None}]
        /\ tags' \in [Tag -> Commit \cup {None}]
    BY DEF Sound, TypeOK
  <2>3. heads' \in [Branch -> Commit \cup {None}] /\ head' \in Branch
    BY DEF Sound, TypeOK, Tip
  <2>4. index' \in Tree /\ work' \in Tree
    BY DEF Sound, TypeOK, Tip, HeadIsBorn, TreeOf, Tree
  <2>5. touched' \in SUBSET Path /\ stale' \in BOOLEAN /\ calls' \in 0..MaxCalls
    BY DEF Sound, TypeOK
  <2> QED BY <2>1, <2>2, <2>3, <2>4, <2>5 DEF TypeOK
<1>3. HeadIsBorn' /\ remote'[Default] # None
  BY <1>1 DEF Sound, HeadIsBorn, TypeOK, Tip
<1>4. CommitIsWhatWasStaged'
  BY DEF Sound, CommitIsWhatWasStaged, TreeOf, HeadIsBorn, TypeOK, Tip, Commit, Tree
<1>5. RefsKept
  BY DEF Sound, RefsKept, HeadIsBorn, TypeOK, Tip
<1>6. RemoteKept
  BY DEF Sound, RemoteKept, TypeOK
<1>7. EditsKept
  BY DEF EditsKept, Unstaged
<1> QED BY <1>1, <1>2, <1>3, <1>4, <1>5, <1>6, <1>7 DEF Sound, Kept

LEMMA RemoveStep ==
  ASSUME Inv, NEW paths \in SUBSET Path, Remove(paths)
  PROVE  Inv' /\ Kept
<1> USE SoundFacts, GitAssumption DEF Inv, Remove, Told, refs, files
<1>1. commits' \in Seq([parent : Nat, tree : Tree])
  BY DEF Sound, Tip, HeadIsBorn, TypeOK
<1>2. TypeOK'
  <2>1. /\ Commit' = Commit
        /\ \A n \in Commit' : commits'[n].parent \in 0..(n - 1) /\ commits'[n].tree \in Tree
    BY DEF Sound, TypeOK, Commit
  <2>2. /\ remote' \in [Branch -> Commit \cup {None}]
        /\ tracking' \in [Branch -> Commit \cup {None}]
        /\ tags' \in [Tag -> Commit \cup {None}]
    BY DEF Sound, TypeOK
  <2>3. heads' \in [Branch -> Commit \cup {None}] /\ head' \in Branch
    BY DEF Sound, TypeOK, Tip
  <2>4. index' \in Tree /\ work' \in Tree
    BY DEF Sound, TypeOK, Tip, HeadIsBorn, TreeOf, Tree
  <2>5. touched' \in SUBSET Path /\ stale' \in BOOLEAN /\ calls' \in 0..MaxCalls
    BY DEF Sound, TypeOK
  <2> QED BY <2>1, <2>2, <2>3, <2>4, <2>5 DEF TypeOK
<1>3. HeadIsBorn' /\ remote'[Default] # None
  BY <1>1 DEF Sound, HeadIsBorn, TypeOK, Tip
<1>4. CommitIsWhatWasStaged'
  BY DEF Sound, CommitIsWhatWasStaged, TreeOf, HeadIsBorn, TypeOK, Tip, Commit, Tree
<1>5. RefsKept
  BY DEF Sound, RefsKept, HeadIsBorn, TypeOK, Tip
<1>6. RemoteKept
  BY DEF Sound, RemoteKept, TypeOK
<1>7. EditsKept
  BY DEF EditsKept, Unstaged
<1> QED BY <1>1, <1>2, <1>3, <1>4, <1>5, <1>6, <1>7 DEF Sound, Kept

LEMMA UnstageStep ==
  ASSUME Inv, NEW paths \in SUBSET Path, Unstage(paths)
  PROVE  Inv' /\ Kept
<1> USE SoundFacts, GitAssumption DEF Inv, Unstage, Staged, Told, refs, files
<1>1. commits' \in Seq([parent : Nat, tree : Tree])
  BY DEF Sound, Tip, HeadIsBorn, TypeOK
<1>2. TypeOK'
  <2>1. /\ Commit' = Commit
        /\ \A n \in Commit' : commits'[n].parent \in 0..(n - 1) /\ commits'[n].tree \in Tree
    BY DEF Sound, TypeOK, Commit
  <2>2. /\ remote' \in [Branch -> Commit \cup {None}]
        /\ tracking' \in [Branch -> Commit \cup {None}]
        /\ tags' \in [Tag -> Commit \cup {None}]
    BY DEF Sound, TypeOK
  <2>3. heads' \in [Branch -> Commit \cup {None}] /\ head' \in Branch
    BY DEF Sound, TypeOK, Tip
  <2>4. index' \in Tree /\ work' \in Tree
    BY DEF Sound, TypeOK, Tip, HeadIsBorn, TreeOf, Tree
  <2>5. touched' \in SUBSET Path /\ stale' \in BOOLEAN /\ calls' \in 0..MaxCalls
    BY DEF Sound, TypeOK
  <2> QED BY <2>1, <2>2, <2>3, <2>4, <2>5 DEF TypeOK
<1>3. HeadIsBorn' /\ remote'[Default] # None
  BY <1>1 DEF Sound, HeadIsBorn, TypeOK, Tip
<1>4. CommitIsWhatWasStaged'
  BY DEF Sound, CommitIsWhatWasStaged, TreeOf, HeadIsBorn, TypeOK, Tip, Commit, Tree
<1>5. RefsKept
  BY DEF Sound, RefsKept, HeadIsBorn, TypeOK, Tip
<1>6. RemoteKept
  BY DEF Sound, RemoteKept, TypeOK
<1>7. EditsKept
  BY DEF EditsKept, Unstaged
<1> QED BY <1>1, <1>2, <1>3, <1>4, <1>5, <1>6, <1>7 DEF Sound, Kept

LEMMA MakeCommitStep ==
  ASSUME Inv, NEW allowEmpty \in BOOLEAN, MakeCommit(allowEmpty)
  PROVE  Inv' /\ Kept
<1> USE SoundFacts, GitAssumption DEF Inv, MakeCommit, Told, refs, files
<1> DEFINE c == [parent |-> Tip, tree |-> index]
<1>1. c \in [parent : Commit, tree : Tree] /\ commits' = Append(commits, c)
  BY DEF Sound, Tip, HeadIsBorn, TypeOK, Tree
<1> HIDE DEF c
<1>2. commits' \in Seq([parent : Nat, tree : Tree])
  BY <1>1, AppendFacts
<1>3. TypeOK'
  <2>1. \A n \in Commit' : commits'[n].parent \in 0..(n - 1) /\ commits'[n].tree \in Tree
    BY <1>1, AppendFacts
  <2>2. /\ remote' \in [Branch -> Commit' \cup {None}]
        /\ tracking' \in [Branch -> Commit' \cup {None}]
        /\ tags' \in [Tag -> Commit' \cup {None}]
    BY <1>1, AppendFacts DEF Sound, TypeOK
  <2>3. heads' \in [Branch -> Commit' \cup {None}] /\ head' \in Branch
    BY <1>1, AppendFacts DEF Sound, TypeOK
  <2>4. index' \in Tree /\ work' \in Tree
    BY DEF Sound, TypeOK
  <2>5. touched' \in SUBSET Path /\ stale' \in BOOLEAN /\ calls' \in 0..MaxCalls
    <3>1. touched' \in SUBSET Path /\ calls' \in 0..MaxCalls
      BY DEF Sound, TypeOK
    <3>2. stale' \in BOOLEAN
      BY Zenon
    <3> QED BY <3>1, <3>2
  <2> QED BY <2>1, <2>2, <2>3, <2>4, <2>5 DEF TypeOK
<1>4. HeadIsBorn' /\ remote'[Default] # None
  <2>1. Len(commits') # None
    BY <1>1, <1>2, GitAssumption
  <2> QED BY <2>1 DEF Sound, HeadIsBorn, TypeOK
<1>5. CommitIsWhatWasStaged'
  BY <1>1, AppendFacts DEF Sound, CommitIsWhatWasStaged, TreeOf, HeadIsBorn, TypeOK, c
<1>6. RefsKept
  BY <1>1, <1>4, AppendFacts DEF Sound, RefsKept, TypeOK, c, Tip
<1>7. RemoteKept
  BY <1>1, <1>4, AppendFacts DEF Sound, RemoteKept, TypeOK
<1>8. EditsKept
  BY DEF EditsKept, Unstaged
<1> QED BY <1>2, <1>3, <1>4, <1>5, <1>6, <1>7, <1>8 DEF Sound, Kept

LEMMA FetchStep ==
  ASSUME Inv, NEW prune \in BOOLEAN, Fetch(prune)
  PROVE  Inv' /\ Kept
<1> USE SoundFacts, GitAssumption DEF Inv, Fetch, Fetched, Told, refs, files
<1>1. commits' \in Seq([parent : Nat, tree : Tree])
  BY DEF Sound, Tip, HeadIsBorn, TypeOK
<1>2. TypeOK'
  <2>1. /\ Commit' = Commit
        /\ \A n \in Commit' : commits'[n].parent \in 0..(n - 1) /\ commits'[n].tree \in Tree
    BY DEF Sound, TypeOK, Commit
  <2>2. /\ remote' \in [Branch -> Commit \cup {None}]
        /\ tracking' \in [Branch -> Commit \cup {None}]
        /\ tags' \in [Tag -> Commit \cup {None}]
    BY DEF Sound, TypeOK
  <2>3. heads' \in [Branch -> Commit \cup {None}] /\ head' \in Branch
    BY DEF Sound, TypeOK, Tip
  <2>4. index' \in Tree /\ work' \in Tree
    BY DEF Sound, TypeOK, Tip, HeadIsBorn, TreeOf, Tree
  <2>5. touched' \in SUBSET Path /\ stale' \in BOOLEAN /\ calls' \in 0..MaxCalls
    BY DEF Sound, TypeOK
  <2> QED BY <2>1, <2>2, <2>3, <2>4, <2>5 DEF TypeOK
<1>3. HeadIsBorn' /\ remote'[Default] # None
  BY <1>1 DEF Sound, HeadIsBorn, TypeOK, Tip
<1>4. CommitIsWhatWasStaged'
  BY DEF Sound, CommitIsWhatWasStaged, TreeOf, HeadIsBorn, TypeOK, Tip, Commit, Tree
<1>5. RefsKept
  BY DEF Sound, RefsKept, HeadIsBorn, TypeOK, Tip
<1>6. RemoteKept
  BY DEF Sound, RemoteKept, TypeOK
<1>7. EditsKept
  BY DEF EditsKept, Unstaged
<1> QED BY <1>1, <1>2, <1>3, <1>4, <1>5, <1>6, <1>7 DEF Sound, Kept

LEMMA PullFFOnlyStep ==
  ASSUME Inv, PullFFOnly
  PROVE  Inv' /\ Kept
<1> USE SoundFacts, GitAssumption DEF Inv, PullFFOnly, Fetched, FastForward, Unstaged, Told, refs, files
<1>1. remote[Default] \in Commit
  BY DEF Sound, TypeOK
<1>2. commits' \in Seq([parent : Nat, tree : Tree])
  BY DEF Sound, Tip, HeadIsBorn, TypeOK
<1>3. TypeOK'
  <2>1. /\ Commit' = Commit
        /\ \A n \in Commit' : commits'[n].parent \in 0..(n - 1) /\ commits'[n].tree \in Tree
    BY DEF Sound, TypeOK, Commit
  <2>2. /\ remote' \in [Branch -> Commit \cup {None}]
        /\ tracking' \in [Branch -> Commit \cup {None}]
        /\ tags' \in [Tag -> Commit \cup {None}]
    BY DEF Sound, TypeOK
  <2>3. heads' \in [Branch -> Commit \cup {None}] /\ head' \in Branch
    BY DEF Sound, TypeOK, Tip
  <2>4. index' \in Tree /\ work' \in Tree
    BY <1>1, LeftBehindFacts, ResetFacts DEF Sound, TypeOK
  <2>5. touched' \in SUBSET Path /\ stale' \in BOOLEAN /\ calls' \in 0..MaxCalls
    <3>1. CASE UNCHANGED files
      BY <3>1 DEF Sound, TypeOK
    <3>2. CASE LeftBehind(remote[Default])
      BY <3>2, LeftBehindFacts DEF Sound, TypeOK
    <3>3. CASE ResetTo(remote[Default])
      <4>1. touched' = {} /\ stale' = FALSE
        BY <1>1, <3>3, ResetFacts, Zenon
      <4>2. stale' \in BOOLEAN
        BY <4>1, Zenon
      <4>3. calls' \in 0..MaxCalls
        BY DEF Sound, TypeOK
      <4> QED BY <4>1, <4>2, <4>3
    <3> QED BY <3>1, <3>2, <3>3
  <2> QED BY <2>1, <2>2, <2>3, <2>4, <2>5 DEF TypeOK
<1>4. HeadIsBorn' /\ remote'[Default] # None
  BY <1>2 DEF Sound, HeadIsBorn, TypeOK, Tip
<1>5. CommitIsWhatWasStaged'
  <2>1. CASE UNCHANGED <<heads, files>>
    BY <2>1 DEF CommitIsWhatWasStaged, TreeOf
  <2>2. CASE heads' = [heads EXCEPT ![head] = remote[Default]] /\ LeftBehind(remote[Default])
    BY <2>2, LeftBehindFacts DEF Sound, CommitIsWhatWasStaged, TreeOf, TypeOK
  <2>3. CASE heads' = [heads EXCEPT ![head] = remote[Default]] /\ ResetTo(remote[Default])
    <3>1. index' = commits[remote[Default]].tree
      BY <1>1, <2>3, ResetFacts
    <3>2. TreeOf(head)' = commits[remote[Default]].tree
      BY <2>3 DEF Sound, TypeOK, TreeOf
    <3> QED BY <3>1, <3>2 DEF CommitIsWhatWasStaged
  <2> QED BY <2>1, <2>2, <2>3
<1>6. RefsKept
  BY DEF Sound, RefsKept, HeadIsBorn, TypeOK, Tip
<1>7. RemoteKept
  BY DEF Sound, RemoteKept, TypeOK
<1>8. EditsKept
  BY <1>1, LeftBehindFacts, ResetFacts DEF EditsKept, Unstaged
<1> QED BY <1>2, <1>3, <1>4, <1>5, <1>6, <1>7, <1>8 DEF Sound, Kept

LEMMA FetchAndMergeStep ==
  ASSUME Inv, FetchAndMerge
  PROVE  Inv' /\ Kept
<1> USE SoundFacts, GitAssumption DEF Inv, FetchAndMerge, FastForward, Told, refs, files
<1>1. \/ \E i \in Commit : /\ FastForward(Tip, i)
                          /\ heads' = [heads EXCEPT ![head] = i]
                          /\ LeftBehind(i)
      \/ UNCHANGED <<heads, files>>
  BY DEF Sound, TypeOK, Revisions, Fetched
<1>2. commits' \in Seq([parent : Nat, tree : Tree])
  BY DEF Sound, Tip, HeadIsBorn, TypeOK
<1>3. TypeOK'
  <2>1. /\ Commit' = Commit
        /\ \A n \in Commit' : commits'[n].parent \in 0..(n - 1) /\ commits'[n].tree \in Tree
    BY DEF Sound, TypeOK, Commit
  <2>2. /\ remote' \in [Branch -> Commit \cup {None}]
        /\ tracking' \in [Branch -> Commit \cup {None}]
        /\ tags' \in [Tag -> Commit \cup {None}]
    BY DEF Sound, TypeOK, Fetched
  <2>3. heads' \in [Branch -> Commit \cup {None}] /\ head' \in Branch
    BY <1>1 DEF Sound, TypeOK, Tip
  <2>4. index' \in Tree /\ work' \in Tree
    BY <1>1, LeftBehindFacts DEF Sound, TypeOK
  <2>5. touched' \in SUBSET Path /\ stale' \in BOOLEAN /\ calls' \in 0..MaxCalls
    BY <1>1, LeftBehindFacts DEF Sound, TypeOK
  <2> QED BY <2>1, <2>2, <2>3, <2>4, <2>5 DEF TypeOK
<1>4. HeadIsBorn' /\ remote'[Default] # None
  BY <1>1 DEF Sound, HeadIsBorn, TypeOK, Tip
<1>5. CommitIsWhatWasStaged'
  BY SMTT(30), <1>1, LeftBehindFacts DEF Sound, CommitIsWhatWasStaged, TreeOf, TypeOK
<1>6. RefsKept
  BY <1>1 DEF Sound, RefsKept, HeadIsBorn, TypeOK, Tip
<1>7. RemoteKept
  BY DEF Sound, RemoteKept, TypeOK
<1>8. EditsKept
  BY <1>1, LeftBehindFacts DEF EditsKept, Unstaged
<1> QED BY <1>2, <1>3, <1>4, <1>5, <1>6, <1>7, <1>8 DEF Sound, Kept

LEMMA PushStep ==
  ASSUME Inv, NEW force \in BOOLEAN, Push(force)
  PROVE  Inv' /\ Kept
<1> USE SoundFacts, GitAssumption DEF Inv, Push, FastForward, Told, refs, files
<1>1. commits' \in Seq([parent : Nat, tree : Tree])
  BY DEF Sound, Tip, HeadIsBorn, TypeOK
<1>2. TypeOK'
  <2>1. /\ Commit' = Commit
        /\ \A n \in Commit' : commits'[n].parent \in 0..(n - 1) /\ commits'[n].tree \in Tree
    BY DEF Sound, TypeOK, Commit
  <2>2. /\ remote' \in [Branch -> Commit \cup {None}]
        /\ tracking' \in [Branch -> Commit \cup {None}]
        /\ tags' \in [Tag -> Commit \cup {None}]
    BY DEF Sound, TypeOK
  <2>3. heads' \in [Branch -> Commit \cup {None}] /\ head' \in Branch
    BY DEF Sound, TypeOK, Tip
  <2>4. index' \in Tree /\ work' \in Tree
    BY DEF Sound, TypeOK, Tip, HeadIsBorn, TreeOf, Tree
  <2>5. touched' \in SUBSET Path /\ stale' \in BOOLEAN /\ calls' \in 0..MaxCalls
    BY DEF Sound, TypeOK
  <2> QED BY <2>1, <2>2, <2>3, <2>4, <2>5 DEF TypeOK
<1>3. HeadIsBorn' /\ remote'[Default] # None
  BY <1>1 DEF Sound, HeadIsBorn, TypeOK, Tip
<1>4. CommitIsWhatWasStaged'
  BY DEF Sound, CommitIsWhatWasStaged, TreeOf, HeadIsBorn, TypeOK, Tip, Commit, Tree
<1>5. RefsKept
  BY DEF Sound, RefsKept, HeadIsBorn, TypeOK, Tip
<1>6. RemoteKept
  BY DEF Sound, RemoteKept, TypeOK
<1>7. EditsKept
  BY DEF EditsKept, Unstaged
<1> QED BY <1>1, <1>2, <1>3, <1>4, <1>5, <1>6, <1>7 DEF Sound, Kept

LEMMA EditStep ==
  ASSUME Inv, NEW p \in Path, NEW v \in Content \cup {Absent}, Edit(p, v)
  PROVE  Inv' /\ Kept
<1> USE SoundFacts, GitAssumption DEF Inv, Edit, Told, refs, files
<1>1. commits' \in Seq([parent : Nat, tree : Tree])
  BY DEF Sound, Tip, HeadIsBorn, TypeOK
<1>2. TypeOK'
  <2>1. /\ Commit' = Commit
        /\ \A n \in Commit' : commits'[n].parent \in 0..(n - 1) /\ commits'[n].tree \in Tree
    BY DEF Sound, TypeOK, Commit
  <2>2. /\ remote' \in [Branch -> Commit \cup {None}]
        /\ tracking' \in [Branch -> Commit \cup {None}]
        /\ tags' \in [Tag -> Commit \cup {None}]
    BY DEF Sound, TypeOK
  <2>3. heads' \in [Branch -> Commit \cup {None}] /\ head' \in Branch
    BY DEF Sound, TypeOK, Tip
  <2>4. index' \in Tree /\ work' \in Tree
    BY DEF Sound, TypeOK, Tip, HeadIsBorn, TreeOf, Tree
  <2>5. touched' \in SUBSET Path /\ stale' \in BOOLEAN /\ calls' \in 0..MaxCalls
    BY DEF Sound, TypeOK
  <2> QED BY <2>1, <2>2, <2>3, <2>4, <2>5 DEF TypeOK
<1>3. HeadIsBorn' /\ remote'[Default] # None
  BY <1>1 DEF Sound, HeadIsBorn, TypeOK, Tip
<1>4. CommitIsWhatWasStaged'
  BY DEF Sound, CommitIsWhatWasStaged, TreeOf, HeadIsBorn, TypeOK, Tip, Commit, Tree
<1>5. RefsKept
  BY DEF Sound, RefsKept, HeadIsBorn, TypeOK, Tip
<1>6. RemoteKept
  BY DEF Sound, RemoteKept, TypeOK
<1>7. EditsKept
  BY DEF EditsKept, Unstaged
<1> QED BY <1>1, <1>2, <1>3, <1>4, <1>5, <1>6, <1>7 DEF Sound, Kept

LEMMA OthersPushStep ==
  ASSUME Inv, NEW b \in Branch, NEW p \in Path, NEW v \in Content, OthersPush(b, p, v)
  PROVE  Inv' /\ Kept
<1> USE SoundFacts, GitAssumption DEF Inv, OthersPush, Told, refs, files
<1> DEFINE c == [parent |-> IF remote[b] # None THEN remote[b] ELSE remote[Default],
                tree |-> [commits[IF remote[b] # None THEN remote[b] ELSE remote[Default]].tree EXCEPT ![p] = v]]
<1>1. c \in [parent : Commit, tree : Tree] /\ commits' = Append(commits, c)
  BY DEF Sound, Tip, HeadIsBorn, TypeOK, Tree
<1> HIDE DEF c
<1>2. commits' \in Seq([parent : Nat, tree : Tree])
  BY <1>1, AppendFacts
<1>3. TypeOK'
  <2>1. \A n \in Commit' : commits'[n].parent \in 0..(n - 1) /\ commits'[n].tree \in Tree
    BY <1>1, AppendFacts
  <2>2. /\ remote' \in [Branch -> Commit' \cup {None}]
        /\ tracking' \in [Branch -> Commit' \cup {None}]
        /\ tags' \in [Tag -> Commit' \cup {None}]
    BY <1>1, AppendFacts DEF Sound, TypeOK
  <2>3. heads' \in [Branch -> Commit' \cup {None}] /\ head' \in Branch
    BY <1>1, AppendFacts DEF Sound, TypeOK
  <2>4. index' \in Tree /\ work' \in Tree
    BY DEF Sound, TypeOK
  <2>5. touched' \in SUBSET Path /\ stale' \in BOOLEAN /\ calls' \in 0..MaxCalls
    BY DEF Sound, TypeOK
  <2> QED BY <2>1, <2>2, <2>3, <2>4, <2>5 DEF TypeOK
<1>4. HeadIsBorn' /\ remote'[Default] # None
  <2>1. Len(commits') # None
    BY <1>1, <1>2, GitAssumption
  <2> QED BY <2>1 DEF Sound, HeadIsBorn, TypeOK
<1>5. CommitIsWhatWasStaged'
  BY <1>1, AppendFacts DEF Sound, CommitIsWhatWasStaged, TreeOf, HeadIsBorn, TypeOK
<1>6. RefsKept
  BY <1>1, <1>4, AppendFacts DEF Sound, RefsKept, TypeOK
<1>7. RemoteKept
  <2>1. c.parent = IF remote[b] # None THEN remote[b] ELSE remote[Default]
    BY DEF c
  <2>2. Len(commits') # None
    BY <1>2, GitAssumption
  <2>3. /\ \A i \in Commit : i \in History(commits', i)
        /\ c.parent \in History(commits', Len(commits'))
    BY <1>1, AppendFacts
  <2> QED BY <2>1, <2>2, <2>3 DEF Sound, RemoteKept, TypeOK
<1>8. EditsKept
  BY DEF EditsKept, Unstaged
<1> QED BY <1>2, <1>3, <1>4, <1>5, <1>6, <1>7, <1>8 DEF Sound, Kept

LEMMA OthersDeleteStep ==
  ASSUME Inv, NEW b \in Branch, OthersDelete(b)
  PROVE  Inv' /\ Kept
<1> USE SoundFacts, GitAssumption DEF Inv, OthersDelete, Told, refs, files
<1>1. commits' \in Seq([parent : Nat, tree : Tree])
  BY DEF Sound, Tip, HeadIsBorn, TypeOK
<1>2. TypeOK'
  <2>1. /\ Commit' = Commit
        /\ \A n \in Commit' : commits'[n].parent \in 0..(n - 1) /\ commits'[n].tree \in Tree
    BY DEF Sound, TypeOK, Commit
  <2>2. /\ remote' \in [Branch -> Commit \cup {None}]
        /\ tracking' \in [Branch -> Commit \cup {None}]
        /\ tags' \in [Tag -> Commit \cup {None}]
    BY DEF Sound, TypeOK
  <2>3. heads' \in [Branch -> Commit \cup {None}] /\ head' \in Branch
    BY DEF Sound, TypeOK, Tip
  <2>4. index' \in Tree /\ work' \in Tree
    BY DEF Sound, TypeOK, Tip, HeadIsBorn, TreeOf, Tree
  <2>5. touched' \in SUBSET Path /\ stale' \in BOOLEAN /\ calls' \in 0..MaxCalls
    BY DEF Sound, TypeOK
  <2> QED BY <2>1, <2>2, <2>3, <2>4, <2>5 DEF TypeOK
<1>3. HeadIsBorn' /\ remote'[Default] # None
  BY <1>1 DEF Sound, HeadIsBorn, TypeOK, Tip
<1>4. CommitIsWhatWasStaged'
  BY DEF Sound, CommitIsWhatWasStaged, TreeOf, HeadIsBorn, TypeOK, Tip, Commit, Tree
<1>5. RefsKept
  BY DEF Sound, RefsKept, HeadIsBorn, TypeOK, Tip
<1>6. RemoteKept
  BY DEF Sound, RemoteKept, TypeOK
<1>7. EditsKept
  BY DEF EditsKept, Unstaged
<1> QED BY <1>1, <1>2, <1>3, <1>4, <1>5, <1>6, <1>7 DEF Sound, Kept

LEMMA StepKeeps ==
  ASSUME Inv, [Next]_vars
  PROVE  Inv' /\ [Kept]_vars
<1>1. CASE UNCHANGED vars
  <2>1. Commit' = Commit
    BY <1>1 DEF vars, Commit
  <2>2. Sound'
    BY <1>1, <2>1 DEF Inv, Sound, TypeOK, HeadIsBorn, vars, refs, files
  <2>3. CommitIsWhatWasStaged'
    BY <1>1 DEF Inv, CommitIsWhatWasStaged, TreeOf, vars, refs, files
  <2> QED BY <1>1, <2>2, <2>3 DEF Inv
<1>2. CASE Next
  BY <1>2, CreateBranchStep, CheckoutBranchStep, DeleteBranchStep, CheckoutRemoteBranchStep,
     CreateTagStep, DeleteTagStep, AddStep, RemoveStep,
     UnstageStep, MakeCommitStep, FetchStep, PullFFOnlyStep,
     FetchAndMergeStep, PushStep, EditStep, OthersPushStep,
     OthersDeleteStep
  DEF Next
<1> QED BY <1>1, <1>2

LEMMA Invariant == Spec => []Inv
<1>1. Inv /\ [Next]_vars => Inv'
  BY StepKeeps
<1> QED BY InitInv, <1>1, PTL DEF Spec
----------------------------------------------------------------------------
(* Whatever the calls, their failures and the others' pushes, every        *)
(* reference names a commit that exists and HEAD names a branch.           *)
THEOREM HeadStaysSound == Spec => []HeadIsSound
<1>1. Inv => HeadIsSound
  BY DEF Inv, Sound, HeadIsSound
<1> QED BY <1>1, Invariant, PTL

(* A commit holds what was staged: no checkout, pull, merge or unstage     *)
(* leaves the index off HEAD in a path that the caller did not stage.      *)
THEOREM CommitStaysWhatWasStaged == Spec => []CommitIsWhatWasStaged
<1>1. Inv => CommitIsWhatWasStaged
  BY DEF Inv
<1> QED BY <1>1, Invariant, PTL

(* Commits, tags and edits go only in the operations meant to drop them,   *)
(* for any number of branches, paths, commits and calls.                   *)
THEOREM NothingIsEverLost == Spec => NothingIsLost
<1>1. Inv /\ [Next]_vars => [RefsKept]_vars
  BY StepKeeps DEF Kept
<1>2. Inv /\ [Next]_vars => [RemoteKept]_vars
  BY StepKeeps DEF Kept
<1>3. Inv /\ [Next]_vars => [EditsKept]_vars
  BY StepKeeps DEF Kept
<1>4. Spec => [][RefsKept]_vars
  BY <1>1, Invariant, PTL DEF Spec
<1>5. Spec => [][RemoteKept]_vars
  BY <1>2, Invariant, PTL DEF Spec
<1>6. Spec => [][EditsKept]_vars
  BY <1>3, Invariant, PTL DEF Spec
<1> QED
  BY <1>4, <1>5, <1>6
  DEF NothingIsLost, RefsMoveAsTold, RemoteKeepsCommits, EditsAreKept,
      RefsKept, RemoteKept, EditsKept
============================================================================
