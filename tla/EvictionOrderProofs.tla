------------------------ MODULE EvictionOrderProofs ------------------------
(***************************************************************************)
(* What the operators of EvictionOrder return, for any list, any entries   *)
(* and any limit; and before that the facts about numbers, recursions and  *)
(* sums over finite sets on which they, and other proofs, rest.            *)
(***************************************************************************)
EXTENDS EvictionOrder, FiniteSets, FiniteSetTheorems, TLAPS, WellFoundedInduction

(* A set of numbers that is not empty has a least element.                 *)
LEMMA Least ==
  ASSUME NEW T \in SUBSET Nat, T # {}
  PROVE  \E x \in T : \A y \in T : x <= y
<1>1. PICK Less : IsWellFoundedOn(Less, Nat) /\ \A i, j \in Nat : i < j => <<i, j>> \in Less
  <2>1. IsWellFoundedOn(OpToRel(<, Nat), Nat)
    BY NatLessThanWellFounded
  <2>2. \A i, j \in Nat : i < j => <<i, j>> \in OpToRel(<, Nat)
    BY DEF OpToRel
  <2> QED BY <2>1, <2>2
<1>2. IsWellFoundedOn(Less, Nat) /\ T \subseteq Nat
  BY <1>1
<1>3. \E x \in T : \A y \in T : ~ (<<y, x>> \in Less)
  BY <1>2, WFMin
<1>4. PICK x \in T : \A y \in T : ~ (<<y, x>> \in Less)
  BY <1>3
<1>5. ASSUME NEW y \in T, y < x PROVE FALSE
  <2>1. <<y, x>> \in Less
    BY <1>1, <1>5
  <2> QED BY <2>1, <1>4
<1>6. \A y \in T : x <= y
  BY <1>5
<1> QED BY <1>6
----------------------------------------------------------------------------
(* f is what the recursion of Picked defines on the first m places of s.   *)
Solves(f, s, K, m) ==
  f = [n \in 0..m |->
         IF n = 0 THEN <<>>
         ELSE IF s[n] \in K THEN Append(f[n - 1], s[n]) ELSE f[n - 1]]

LEMMA PickedExists ==
  ASSUME NEW s, NEW K, NEW L \in Nat
  PROVE  \E f : Solves(f, s, K, L)
<1> DEFINE Bad == {m \in 0..L : ~ \E f : Solves(f, s, K, m)}
<1> SUFFICES ASSUME Bad # {} PROVE FALSE
  OBVIOUS
<1>1. PICK m \in Bad : \A k \in Bad : m <= k
  <2> Bad \in SUBSET Nat
    OBVIOUS
  <2> HIDE DEF Bad
  <2> QED BY Least
<1>2. CASE m = 0
  <2>1. Solves([n \in 0..0 |-> <<>>], s, K, 0)
    BY DEF Solves
  <2> QED BY <2>1, <1>2
<1>3. CASE m # 0
  <2>1. m - 1 \in 0..L /\ m - 1 \notin Bad
    BY <1>1, <1>3
  <2>2. PICK f : Solves(f, s, K, m - 1)
    BY <2>1
  <2> DEFINE last == IF s[m] \in K THEN Append(f[m - 1], s[m]) ELSE f[m - 1]
             g == [n \in 0..m |-> IF n = m THEN last ELSE f[n]]
  <2>3. ASSUME NEW n \in 0..m
        PROVE  g[n] = IF n = 0 THEN <<>>
                      ELSE IF s[n] \in K THEN Append(g[n - 1], s[n]) ELSE g[n - 1]
    <3> HIDE DEF last
    <3>1. CASE n = m
      <4>1. g[n] = last /\ g[n - 1] = f[m - 1]
        BY <3>1, <1>3
      <4> QED BY <4>1, <3>1, <1>3 DEF last
    <3>2. CASE n # m /\ n # 0
      <4>1. n \in 0..(m - 1) /\ n - 1 \in 0..(m - 1)
        BY <3>2
      <4>2. f[n] = IF s[n] \in K THEN Append(f[n - 1], s[n]) ELSE f[n - 1]
        BY <4>1, <2>2, <3>2 DEF Solves
      <4>3. g[n] = f[n] /\ g[n - 1] = f[n - 1]
        BY <4>1, <3>2
      <4> QED BY <4>2, <4>3, <3>2
    <3>3. CASE n # m /\ n = 0
      BY <2>2, <3>3, <1>3 DEF Solves
    <3> QED BY <3>1, <3>2, <3>3
  <2>4. Solves(g, s, K, m)
    <3>1. g = [n \in 0..m |-> g[n]]
      OBVIOUS
    <3> HIDE DEF g
    <3> QED BY <2>3, <3>1 DEF Solves
  <2> QED BY <2>4
<1> QED BY <1>2, <1>3

(* p holds the members of K among the first n of s: at says where they     *)
(* come from, in rising order, and none is left out.                       *)
Positions(at, p, s, K, n) ==
  /\ at \in [1..Len(p) -> 1..n]
  /\ \A i \in 1..Len(p) : p[i] = s[at[i]] /\ p[i] \in K
  /\ \A i, j \in 1..Len(p) : i < j => at[i] < at[j]
  /\ \A k \in 1..n : s[k] \in K => \E i \in 1..Len(p) : at[i] = k

LEMMA PickedStep ==
  ASSUME NEW S, NEW s \in Seq(S), NEW K, NEW n \in 1..Len(s),
         NEW p \in Seq(S), NEW at, Positions(at, p, s, K, n - 1),
         NEW q, q = IF s[n] \in K THEN Append(p, s[n]) ELSE p
  PROVE  q \in Seq(S) /\ \E new : Positions(new, q, s, K, n)
<1>1. n \in Nat /\ s[n] \in S /\ Len(p) \in Nat
  OBVIOUS
<1>2. CASE s[n] \notin K
  <2>1. q = p
    BY <1>2
  <2>2. at \in [1..Len(p) -> 1..n]
    BY <1>1 DEF Positions
  <2>3. \A k \in 1..n : s[k] \in K => k \in 1..(n - 1)
    BY <1>1, <1>2
  <2>4. Positions(at, p, s, K, n)
    BY <2>2, <2>3 DEF Positions
  <2> QED BY <2>1, <2>4
<1>3. CASE s[n] \in K
  <2> DEFINE new == [i \in 1..(Len(p) + 1) |-> IF i = Len(p) + 1 THEN n ELSE at[i]]
  <2>1. /\ q \in Seq(S) /\ Len(q) = Len(p) + 1 /\ q[Len(p) + 1] = s[n]
        /\ \A i \in 1..Len(p) : q[i] = p[i]
    BY <1>1, <1>3
  <2>2. new \in [1..Len(q) -> 1..n]
    BY <1>1, <2>1 DEF Positions
  <2>3. \A i \in 1..Len(q) : q[i] = s[new[i]] /\ q[i] \in K
    BY <1>1, <1>3, <2>1 DEF Positions
  <2>4. ASSUME NEW i \in 1..Len(q), NEW j \in 1..Len(q), i < j PROVE new[i] < new[j]
    <3>1. i \in 1..Len(p) /\ new[i] = at[i] /\ at[i] \in 1..(n - 1)
      <4>1. i \in 1..Len(p) /\ i # Len(p) + 1 /\ i \in 1..(Len(p) + 1)
        BY <1>1, <2>1, <2>4
      <4>2. at[i] \in 1..(n - 1)
        <5> HIDE DEF new
        <5> QED BY <4>1 DEF Positions
      <4> QED BY <4>1, <4>2
    <3>2. CASE j = Len(p) + 1
      BY <1>1, <2>1, <3>1, <3>2
    <3>3. CASE j # Len(p) + 1
      <4>1. j \in 1..Len(p) /\ new[j] = at[j]
        BY <1>1, <2>1, <3>3
      <4> QED BY <3>1, <4>1, <2>4 DEF Positions
    <3> QED BY <3>2, <3>3
  <2>5. ASSUME NEW k \in 1..n, s[k] \in K PROVE \E i \in 1..Len(q) : new[i] = k
    <3>1. CASE k = n
      <4>1. new[Len(q)] = n /\ Len(q) \in 1..Len(q)
        BY <1>1, <2>1
      <4> QED BY <4>1, <3>1
    <3>2. CASE k # n
      <4>1. PICK i \in 1..Len(p) : at[i] = k
        BY <3>2, <2>5, <1>1 DEF Positions
      <4>2. new[i] = k /\ i \in 1..Len(q)
        BY <4>1, <1>1, <2>1
      <4> QED BY <4>2
    <3> QED BY <3>1, <3>2
  <2> HIDE DEF new
  <2>6. Positions(new, q, s, K, n)
    BY <2>2, <2>3, <2>4, <2>5 DEF Positions
  <2> QED BY <2>1, <2>6
<1> QED BY <1>2, <1>3

LEMMA SolutionHolds ==
  ASSUME NEW S, NEW s \in Seq(S), NEW K, NEW f, Solves(f, s, K, Len(s))
  PROVE  f[Len(s)] \in Seq(S) /\ \E at : Positions(at, f[Len(s)], s, K, Len(s))
<1> DEFINE Good(n) == f[n] \in Seq(S) /\ \E at : Positions(at, f[n], s, K, n)
           Bad == {n \in 0..Len(s) : ~ Good(n)}
<1> SUFFICES ASSUME Bad # {} PROVE FALSE
  OBVIOUS
<1>1. PICK m \in Bad : \A k \in Bad : m <= k
  <2> Bad \in SUBSET Nat
    OBVIOUS
  <2> HIDE DEF Bad
  <2> QED BY Least
<1>2. CASE m = 0
  <2>1. f[0] = <<>>
    BY DEF Solves
  <2>2. Positions(<<>>, <<>>, s, K, 0) /\ <<>> \in Seq(S)
    BY DEF Positions
  <2> QED BY <1>2, <2>1, <2>2
<1>3. CASE m # 0
  <2>1. m \in 1..Len(s) /\ m - 1 \in 0..Len(s) /\ m - 1 \notin Bad
    BY <1>1, <1>3
  <2>2. PICK at : f[m - 1] \in Seq(S) /\ Positions(at, f[m - 1], s, K, m - 1)
    BY <2>1
  <2>3. f[m] = IF s[m] \in K THEN Append(f[m - 1], s[m]) ELSE f[m - 1]
    BY <2>1, <1>3 DEF Solves
  <2> DEFINE p == f[m - 1]
             q == f[m]
  <2>4. p \in Seq(S) /\ Positions(at, p, s, K, m - 1) /\ q = IF s[m] \in K THEN Append(p, s[m]) ELSE p
    BY <2>2, <2>3
  <2>5. q \in Seq(S) /\ \E new : Positions(new, q, s, K, m)
    <3> HIDE DEF p, q, Bad
    <3> QED BY <2>1, <2>4, PickedStep
  <2> QED BY <2>5
<1> QED BY <1>2, <1>3

(* Picked keeps exactly the members of K, in the order of s.               *)
LEMMA PickedHolds ==
  ASSUME NEW S, NEW s \in Seq(S), NEW K
  PROVE  Picked(s, K) \in Seq(S) /\ \E at : Positions(at, Picked(s, K), s, K, Len(s))
<1> DEFINE upTo[n \in 0..Len(s)] ==
             IF n = 0 THEN <<>>
             ELSE IF s[n] \in K THEN Append(upTo[n - 1], s[n]) ELSE upTo[n - 1]
<1>1. \E f : Solves(f, s, K, Len(s))
  <2>1. Len(s) \in Nat
    OBVIOUS
  <2> HIDE DEF upTo
  <2> QED BY <2>1, PickedExists
<1>2. Solves(upTo, s, K, Len(s))
  BY <1>1 DEF Solves
<1>3. Picked(s, K) = upTo[Len(s)]
  BY DEF Picked
<1>4. upTo[Len(s)] \in Seq(S) /\ \E at : Positions(at, upTo[Len(s)], s, K, Len(s))
  <2> HIDE DEF upTo
  <2> QED BY <1>2, SolutionHolds
<1> QED BY <1>3, <1>4

Distinct(s) == \A i, j \in DOMAIN s : i # j => s[i] # s[j]

LEMMA PickedFacts ==
  ASSUME NEW S, NEW s \in Seq(S), NEW K
  PROVE  /\ Picked(s, K) \in Seq(S)
         /\ ToSet(Picked(s, K)) = ToSet(s) \cap K
         /\ Distinct(s) => Distinct(Picked(s, K))
<1> DEFINE p == Picked(s, K)
<1>1. PICK at : p \in Seq(S) /\ Positions(at, p, s, K, Len(s))
  BY PickedHolds
<1> HIDE DEF p
<1>2. DOMAIN p = 1..Len(p) /\ DOMAIN s = 1..Len(s) /\ Len(p) \in Nat /\ Len(s) \in Nat
  BY <1>1
<1>3. ASSUME NEW i \in 1..Len(p) PROVE p[i] \in ToSet(s) \cap K
  BY <1>1, <1>2 DEF Positions, ToSet
<1>4. ASSUME NEW k \in 1..Len(s), s[k] \in K PROVE s[k] \in ToSet(p)
  <2>1. PICK i \in 1..Len(p) : at[i] = k
    BY <1>1, <1>4 DEF Positions
  <2>2. p[i] = s[k]
    BY <1>1, <2>1 DEF Positions
  <2> QED BY <1>2, <2>2 DEF ToSet
<1>5. ToSet(p) = ToSet(s) \cap K
  BY <1>2, <1>3, <1>4 DEF ToSet
<1>6. ASSUME Distinct(s), NEW i \in 1..Len(p), NEW j \in 1..Len(p), i # j
      PROVE  p[i] # p[j]
  <2>1. at[i] \in 1..Len(s) /\ at[j] \in 1..Len(s) /\ at[i] # at[j]
    BY <1>1, <1>2, <1>6 DEF Positions
  <2> QED BY <1>1, <1>2, <1>6, <2>1 DEF Positions, Distinct
<1>7. Distinct(s) => Distinct(p)
  BY <1>2, <1>6 DEF Distinct
<1> QED BY <1>1, <1>5, <1>7 DEF p
----------------------------------------------------------------------------
(* What the operations on the access list do to its members, and to any    *)
(* order they are in.                                                      *)
InOrder(s, R) == \A i, j \in DOMAIN s : i < j => <<s[i], s[j]>> \in R

LEMMA PickedInOrder ==
  ASSUME NEW S, NEW s \in Seq(S), NEW K, NEW R, InOrder(s, R)
  PROVE  InOrder(Picked(s, K), R)
<1> DEFINE p == Picked(s, K)
<1>1. PICK at : p \in Seq(S) /\ Positions(at, p, s, K, Len(s))
  BY PickedHolds
<1> HIDE DEF p
<1>2. DOMAIN p = 1..Len(p) /\ DOMAIN s = 1..Len(s)
  BY <1>1
<1>3. ASSUME NEW i \in DOMAIN p, NEW j \in DOMAIN p, i < j
      PROVE  <<p[i], p[j]>> \in R
  <2>1. at[i] \in DOMAIN s /\ at[j] \in DOMAIN s /\ at[i] < at[j] /\ p[i] = s[at[i]] /\ p[j] = s[at[j]]
    BY <1>1, <1>2, <1>3 DEF Positions
  <2> QED BY <2>1 DEF InOrder
<1> QED BY <1>3 DEF InOrder, p

LEMMA ReverseFacts ==
  ASSUME NEW S, NEW s \in Seq(S)
  PROVE  /\ Reverse(s) \in Seq(S) /\ ToSet(Reverse(s)) = ToSet(s)
         /\ Distinct(s) => Distinct(Reverse(s))
         /\ \A R, Q : InOrder(s, R) /\ (\A x, y \in S : <<x, y>> \in R => <<y, x>> \in Q)
                        => InOrder(Reverse(s), Q)
<1> DEFINE r == Reverse(s)
           n == Len(s)
<1>1. n \in Nat /\ DOMAIN s = 1..n /\ r = [i \in 1..n |-> s[(n - i) + 1]]
  BY DEF Reverse
<1>2. \A i \in 1..n : (n - i) + 1 \in 1..n /\ (n - ((n - i) + 1)) + 1 = i
  BY <1>1
<1> HIDE DEF r, n
<1>3. r \in Seq(S) /\ DOMAIN r = 1..n /\ \A i \in 1..n : r[i] = s[(n - i) + 1] /\ s[i] = r[(n - i) + 1] /\ s[i] \in S
  <2>1. \A i \in 1..n : s[i] \in S
    BY <1>1
  <2> QED BY <1>1, <1>2, <2>1
<1>4. ToSet(r) = ToSet(s)
  BY <1>1, <1>2, <1>3 DEF ToSet
<1>5. Distinct(s) => Distinct(r)
  BY <1>1, <1>2, <1>3 DEF Distinct
<1>6. ASSUME NEW R, NEW Q, InOrder(s, R), \A x, y \in S : <<x, y>> \in R => <<y, x>> \in Q,
             NEW i \in DOMAIN r, NEW j \in DOMAIN r, i < j
      PROVE  <<r[i], r[j]>> \in Q
  <2>1. /\ (n - i) + 1 \in DOMAIN s /\ (n - j) + 1 \in DOMAIN s /\ (n - j) + 1 < (n - i) + 1
        /\ r[i] = s[(n - i) + 1] /\ r[j] = s[(n - j) + 1] /\ r[i] \in S /\ r[j] \in S
    BY <1>1, <1>2, <1>3, <1>6
  <2>2. <<r[j], r[i]>> \in R
    BY <1>6, <2>1 DEF InOrder
  <2> QED BY <1>6, <2>1, <2>2
<1> QED BY <1>3, <1>4, <1>5, <1>6 DEF r, InOrder

LEMMA ConcatFacts ==
  ASSUME NEW S, NEW s \in Seq(S), NEW t \in Seq(S)
  PROVE  /\ s \o t \in Seq(S) /\ ToSet(s \o t) = ToSet(s) \cup ToSet(t)
         /\ Distinct(s) /\ Distinct(t) /\ ToSet(s) \cap ToSet(t) = {} => Distinct(s \o t)
<1>1. /\ s \o t \in Seq(S) /\ DOMAIN (s \o t) = 1..(Len(s) + Len(t))
      /\ DOMAIN s = 1..Len(s) /\ DOMAIN t = 1..Len(t) /\ Len(s) \in Nat /\ Len(t) \in Nat
  OBVIOUS
<1>2. /\ \A i \in 1..Len(s) : (s \o t)[i] = s[i]
      /\ \A i \in 1..Len(t) : (s \o t)[Len(s) + i] = t[i]
  BY <1>1
<1>3. \A i \in 1..(Len(s) + Len(t)) : i \in 1..Len(s) \/ (i - Len(s) \in 1..Len(t) /\ i = Len(s) + (i - Len(s)))
  BY <1>1
<1>4. ToSet(s \o t) = ToSet(s) \cup ToSet(t)
  <2>1. ASSUME NEW i \in 1..(Len(s) + Len(t)) PROVE (s \o t)[i] \in ToSet(s) \cup ToSet(t)
    BY <1>1, <1>2, <1>3 DEF ToSet
  <2>2. ASSUME NEW i \in 1..Len(s) PROVE s[i] \in ToSet(s \o t)
    <3>1. i \in DOMAIN (s \o t) /\ (s \o t)[i] = s[i]
      BY <1>1, <1>2
    <3> QED BY <3>1 DEF ToSet
  <2>3. ASSUME NEW i \in 1..Len(t) PROVE t[i] \in ToSet(s \o t)
    <3>1. Len(s) + i \in DOMAIN (s \o t) /\ (s \o t)[Len(s) + i] = t[i]
      BY <1>1, <1>2
    <3> QED BY <3>1 DEF ToSet
  <2> QED BY <1>1, <2>1, <2>2, <2>3 DEF ToSet
<1>5. ASSUME Distinct(s), Distinct(t), ToSet(s) \cap ToSet(t) = {},
             NEW i \in DOMAIN (s \o t), NEW j \in DOMAIN (s \o t), i < j
      PROVE  (s \o t)[i] # (s \o t)[j]
  <2>1. CASE j \in 1..Len(s)
    BY <1>1, <1>2, <1>5, <2>1 DEF Distinct
  <2>2. CASE i \in 1..Len(s) /\ j \notin 1..Len(s)
    <3>1. (s \o t)[i] \in ToSet(s) /\ (s \o t)[j] \in ToSet(t)
      BY <1>1, <1>2, <1>3, <2>2 DEF ToSet
    <3> QED BY <1>5, <3>1
  <2>3. CASE i \notin 1..Len(s) /\ j \notin 1..Len(s)
    <3>1. /\ i - Len(s) \in 1..Len(t) /\ j - Len(s) \in 1..Len(t) /\ i - Len(s) # j - Len(s)
          /\ (s \o t)[i] = t[i - Len(s)] /\ (s \o t)[j] = t[j - Len(s)]
      BY <1>1, <1>2, <1>3, <1>5, <2>3
    <3> QED BY <1>1, <1>5, <3>1 DEF Distinct
  <2>4. j \notin 1..Len(s) \/ i \in 1..Len(s)
    BY <1>1, <1>5
  <2> QED BY <2>1, <2>2, <2>3, <2>4
<1>6. Distinct(s) /\ Distinct(t) /\ ToSet(s) \cap ToSet(t) = {} => Distinct(s \o t)
  <2>1. SUFFICES ASSUME Distinct(s), Distinct(t), ToSet(s) \cap ToSet(t) = {},
                        NEW i \in DOMAIN (s \o t), NEW j \in DOMAIN (s \o t), i # j
                 PROVE  (s \o t)[i] # (s \o t)[j]
    BY DEF Distinct
  <2>2. i < j \/ j < i
    BY <1>1, <2>1
  <2> QED BY <1>5, <2>1, <2>2
<1> QED BY <1>1, <1>4, <1>6

LEMMA UntrackFacts ==
  ASSUME NEW S, NEW list \in Seq(S), NEW k
  PROVE  /\ Untrack(list, k) \in Seq(S) /\ Tracked(Untrack(list, k)) = Tracked(list) \ {k}
         /\ Distinct(list) => Distinct(Untrack(list, k))
BY PickedFacts DEF Untrack, Tracked

LEMMA MoveToFrontFacts ==
  ASSUME NEW S, NEW list \in Seq(S), NEW k \in S
  PROVE  /\ MoveToFront(list, k) \in Seq(S) /\ Tracked(MoveToFront(list, k)) = Tracked(list) \cup {k}
         /\ Distinct(list) => Distinct(MoveToFront(list, k))
<1>1. PICK first : first = <<k>>
  OBVIOUS
<1>2. first \in Seq(S) /\ ToSet(first) = {k} /\ Distinct(first)
  BY <1>1 DEF ToSet, Distinct
<1>3. PICK rest : rest = Untrack(list, k)
  OBVIOUS
<1>4. /\ rest \in Seq(S) /\ ToSet(rest) = ToSet(list) \ {k}
      /\ Distinct(list) => Distinct(rest)
  BY <1>3, UntrackFacts DEF Tracked
<1>5. /\ first \o rest \in Seq(S) /\ ToSet(first \o rest) = ToSet(first) \cup ToSet(rest)
      /\ Distinct(list) => Distinct(first \o rest)
  <2>1. ToSet(first) \cap ToSet(rest) = {}
    BY <1>2, <1>4
  <2> QED BY <1>2, <1>4, <2>1, ConcatFacts
<1>6. MoveToFront(list, k) = first \o rest
  BY <1>1, <1>3 DEF MoveToFront
<1> QED BY <1>2, <1>4, <1>5, <1>6 DEF Tracked

LEMMA SelectLRUFacts ==
  ASSUME NEW S, NEW list \in Seq(S), NEW entries
  PROVE  /\ SelectLRU(list, entries) \in Seq(S)
         /\ ToSet(SelectLRU(list, entries)) = Tracked(list) \cap DOMAIN entries
         /\ Distinct(list) => Distinct(SelectLRU(list, entries))
BY ReverseFacts, PickedFacts DEF SelectLRU, Tracked

LEMMA AppendNewFacts ==
  ASSUME NEW S, NEW s \in Seq(S), NEW t \in Seq(S)
  PROVE  /\ AppendNew(s, t) \in Seq(S) /\ ToSet(AppendNew(s, t)) = ToSet(s) \cup ToSet(t)
         /\ Distinct(s) /\ Distinct(t) => Distinct(AppendNew(s, t))
<1> DEFINE u == Picked(t, ToSet(t) \ ToSet(s))
<1>1. u \in Seq(S) /\ ToSet(u) = ToSet(t) \ ToSet(s) /\ (Distinct(t) => Distinct(u))
  BY PickedFacts
<1> HIDE DEF u
<1>2. /\ s \o u \in Seq(S) /\ ToSet(s \o u) = ToSet(s) \cup ToSet(u)
      /\ Distinct(s) /\ Distinct(t) => Distinct(s \o u)
  <2>1. ToSet(s) \cap ToSet(u) = {}
    BY <1>1
  <2> QED BY <1>1, <2>1, ConcatFacts
<1>3. AppendNew(s, t) = s \o u
  BY DEF AppendNew, u
<1> QED BY <1>1, <1>2, <1>3
----------------------------------------------------------------------------
(* A set of subsets of a finite set that is not empty has a minimal one.   *)
LEMMA Minimal ==
  ASSUME NEW S, IsFiniteSet(S), NEW B \in SUBSET (SUBSET S), B # {}
  PROVE  \E s \in B : \A t \in B : t \subseteq s => t = s
<1> DEFINE T == {Cardinality(s) : s \in B}
<1>1. \A s \in B : IsFiniteSet(s) /\ Cardinality(s) \in Nat
  BY FS_Subset, FS_CardinalityType
<1>2. T \in SUBSET Nat /\ T # {}
  BY <1>1
<1>3. PICK n \in T : \A m \in T : n <= m
  <2> HIDE DEF T
  <2> QED BY <1>2, Least
<1>4. PICK s \in B : Cardinality(s) = n
  BY <1>3
<1>5. ASSUME NEW t \in B, t \subseteq s, t # s PROVE FALSE
  <2>1. Cardinality(t) < Cardinality(s)
    BY <1>1, <1>5, FS_Subset
  <2>2. Cardinality(s) <= Cardinality(t)
    BY <1>3, <1>4
  <2> QED BY <2>1, <2>2, <1>1
<1> QED BY <1>5

(* g is what the recursion of MapThenFoldSet defines for sums of f on the  *)
(* subsets of S.                                                           *)
Sums(g, f, S) ==
  g = [s \in SUBSET S |-> IF s = {} THEN 0
                          ELSE LET x == CHOOSE x \in s : TRUE IN f[x] + g[s \ {x}]]

LEMMA SumsFacts ==
  ASSUME NEW g, NEW f, NEW S, Sums(g, f, S)
  PROVE  /\ g[{}] = 0
         /\ \A s \in SUBSET S : s # {} =>
              \E x \in s : x = (CHOOSE y \in s : TRUE) /\ g[s] = f[x] + g[s \ {x}]
<1>1. g[{}] = 0
  BY DEF Sums
<1>2. ASSUME NEW s \in SUBSET S, s # {}
      PROVE  \E x \in s : x = (CHOOSE y \in s : TRUE) /\ g[s] = f[x] + g[s \ {x}]
  <2>1. (CHOOSE y \in s : TRUE) \in s
    BY <1>2
  <2>2. g[s] = LET x == CHOOSE x \in s : TRUE IN f[x] + g[s \ {x}]
    BY <1>2 DEF Sums
  <2> QED BY <2>1, <2>2
<1> QED BY <1>1, <1>2

Same(f, h, S) == \A x \in S : f[x] = h[x]
Numbers(f, S) == \A x \in S : f[x] \in Nat

LEMMA SumsAgree ==
  ASSUME NEW S, IsFiniteSet(S), NEW T \in SUBSET S, NEW f, NEW h, Same(f, h, T),
         NEW g, Sums(g, f, S), NEW k, Sums(k, h, T)
  PROVE  \A s \in SUBSET T : g[s] = k[s]
<1> DEFINE B == {s \in SUBSET T : g[s] # k[s]}
<1> SUFFICES ASSUME B # {} PROVE FALSE
  OBVIOUS
<1>1. PICK s \in B : \A t \in B : t \subseteq s => t = s
  <2>1. B \in SUBSET (SUBSET S)
    OBVIOUS
  <2> HIDE DEF B
  <2> QED BY <2>1, Minimal
<1>2. s # {}
  BY <1>1, SumsFacts
<1>3. PICK x \in s : x = (CHOOSE y \in s : TRUE) /\ g[s] = f[x] + g[s \ {x}]
  BY <1>1, <1>2, SumsFacts
<1>4. k[s] = h[x] + k[s \ {x}]
  <2>1. \E z \in s : z = (CHOOSE y \in s : TRUE) /\ k[s] = h[z] + k[s \ {z}]
    BY <1>1, <1>2, SumsFacts
  <2> QED BY <2>1, <1>3
<1>5. g[s \ {x}] = k[s \ {x}]
  BY <1>1, <1>3
<1> QED BY <1>1, <1>3, <1>4, <1>5 DEF Same

LEMMA SumsExist ==
  ASSUME NEW S, IsFiniteSet(S), NEW f
  PROVE  \E g : Sums(g, f, S)
<1> DEFINE B == {U \in SUBSET S : ~ \E g : Sums(g, f, U)}
<1> SUFFICES ASSUME B # {} PROVE FALSE
  BY DEF B
<1>1. PICK U \in B : \A V \in B : V \subseteq U => V = U
  <2>1. B \in SUBSET (SUBSET S)
    OBVIOUS
  <2> HIDE DEF B
  <2> QED BY <2>1, Minimal
<1> DEFINE part == [V \in SUBSET U |-> CHOOSE g : Sums(g, f, V)]
<1>2. ASSUME NEW V \in SUBSET U, V # U PROVE Sums(part[V], f, V)
  BY <1>1, <1>2
<1> DEFINE first(s) == CHOOSE x \in s : TRUE
           g == [V \in SUBSET U |->
                   IF V = {} THEN 0 ELSE f[first(V)] + part[V \ {first(V)}][V \ {first(V)}]]
<1>3. ASSUME NEW V \in SUBSET U, V # U PROVE part[V][V] = g[V]
  <2>1. CASE V = {}
    BY <1>2, <1>3, <2>1, SumsFacts
  <2>2. CASE V # {}
    <3> DEFINE x == first(V)
               W == V \ {x}
    <3>1. x \in V /\ W \in SUBSET V /\ W \in SUBSET U /\ W # U
      BY <2>2
    <3>2. Sums(part[V], f, V) /\ Sums(part[W], f, W) /\ IsFiniteSet(V)
      BY <1>1, <1>2, <1>3, <3>1, FS_Subset
    <3>3. part[V][V] = f[x] + part[V][W]
      <4> HIDE DEF part
      <4>1. \E y \in V : y = (CHOOSE z \in V : TRUE) /\ part[V][V] = f[y] + part[V][V \ {y}]
        BY <2>2, <3>2, SumsFacts
      <4> QED BY <4>1
    <3>4. part[V][W] = part[W][W]
      <4>1. W \in SUBSET W /\ Same(f, f, W)
        BY DEF Same
      <4> HIDE DEF part, x, W
      <4>2. PICK p : p = part[V]
        OBVIOUS
      <4>3. PICK q : q = part[W]
        OBVIOUS
      <4>4. W \in SUBSET V /\ Sums(p, f, V) /\ Sums(q, f, W) /\ IsFiniteSet(V)
        BY <3>1, <3>2, <4>2, <4>3
      <4>5. \A v \in SUBSET W : p[v] = q[v]
        BY <4>1, <4>4, SumsAgree
      <4> QED BY <4>1, <4>2, <4>3, <4>5
    <3>5. g[V] = f[x] + part[W][W]
      BY <1>3, <2>2
    <3> QED BY <3>3, <3>4, <3>5
  <2> QED BY <2>1, <2>2
<1>4. ASSUME NEW V \in SUBSET U
      PROVE  g[V] = IF V = {} THEN 0 ELSE LET x == CHOOSE x \in V : TRUE IN f[x] + g[V \ {x}]
  <2>1. CASE V = {}
    BY <2>1
  <2>2. CASE V # {}
    <3> DEFINE x == first(V)
               W == V \ {x}
    <3>1. x \in V /\ W \in SUBSET U /\ W # U
      BY <2>2
    <3>2. g[V] = f[x] + part[W][W]
      BY <2>2
    <3>3. part[W][W] = g[W]
      BY <1>3, <3>1
    <3> QED BY <2>2, <3>2, <3>3
  <2> QED BY <2>1, <2>2
<1>5. Sums(g, f, U)
  <2>1. g = [V \in SUBSET U |-> g[V]]
    OBVIOUS
  <2> HIDE DEF g
  <2> QED BY <1>4, <2>1 DEF Sums
<1> QED BY <1>1, <1>5

LEMMA SumsTake ==
  ASSUME NEW S, IsFiniteSet(S), NEW f, Numbers(f, S), NEW g, Sums(g, f, S)
  PROVE  \A s \in SUBSET S : g[s] \in Nat /\ \A x \in s : g[s] = f[x] + g[s \ {x}]
<1> DEFINE Good(s) == g[s] \in Nat /\ \A x \in s : g[s] = f[x] + g[s \ {x}]
           B == {s \in SUBSET S : ~ Good(s)}
<1> SUFFICES ASSUME B # {} PROVE FALSE
  OBVIOUS
<1>1. PICK s \in B : \A t \in B : t \subseteq s => t = s
  <2>1. B \in SUBSET (SUBSET S)
    OBVIOUS
  <2> HIDE DEF B
  <2> QED BY <2>1, Minimal
<1>2. s # {}
  <2>1. g[{}] = 0
    BY SumsFacts
  <2>2. Good({})
    BY <2>1
  <2> HIDE DEF Good
  <2> QED BY <1>1, <2>2
<1>3. PICK y \in s : g[s] = f[y] + g[s \ {y}]
  BY <1>1, <1>2, SumsFacts
<1>4. \A z \in s : Good(s \ {z})
  BY <1>1
<1>5. g[s] \in Nat
  BY <1>1, <1>3, <1>4 DEF Numbers
<1>6. ASSUME NEW x \in s PROVE g[s] = f[x] + g[s \ {x}]
  <2>1. CASE x = y
    BY <1>3, <2>1
  <2>2. CASE x # y
    <3>1. (s \ {y}) \ {x} = (s \ {x}) \ {y}
      OBVIOUS
    <3>2. g[s \ {y}] = f[x] + g[(s \ {y}) \ {x}] /\ g[s \ {x}] = f[y] + g[(s \ {x}) \ {y}]
      BY <1>4, <2>2
    <3>3. g[(s \ {y}) \ {x}] \in Nat /\ f[x] \in Nat /\ f[y] \in Nat
      <4>1. (s \ {y}) \ {x} \notin B
        BY <1>1
      <4> QED BY <1>1, <4>1 DEF Numbers
    <3>4. g[s] = f[y] + (f[x] + g[(s \ {y}) \ {x}])
      BY <1>3, <3>2
    <3>5. g[s \ {x}] = f[y] + g[(s \ {y}) \ {x}]
      BY <3>1, <3>2
    <3> QED BY <3>3, <3>4, <3>5
  <2> QED BY <2>1, <2>2
<1> QED BY <1>1, <1>5, <1>6

LEMMA SumIs ==
  ASSUME NEW S, IsFiniteSet(S), NEW f
  PROVE  \E g : Sums(g, f, S) /\ SumFunctionOnSet(f, S) = g[S]
<1> DEFINE iter[s \in SUBSET S] ==
             IF s = {} THEN 0 ELSE LET x == CHOOSE x \in s : TRUE IN f[x] + iter[s \ {x}]
<1>1. SumFunctionOnSet(f, S) = iter[S]
  BY DEF SumFunctionOnSet, FoldFunctionOnSet, MapThenFoldSet
<1>2. \E g : Sums(g, f, S)
  <2> HIDE DEF iter
  <2> QED BY SumsExist
<1>3. Sums(iter, f, S)
  BY <1>2 DEF Sums
<1> HIDE DEF iter
<1> QED BY <1>1, <1>3

(* A sum over a finite set is a number, and each member adds its own.      *)
LEMMA SumFacts ==
  ASSUME NEW S, IsFiniteSet(S), NEW f, Numbers(f, S)
  PROVE  /\ SumFunctionOnSet(f, S) \in Nat
         /\ SumFunctionOnSet(f, {}) = 0
         /\ \A x \in S : SumFunctionOnSet(f, S) = f[x] + SumFunctionOnSet(f, S \ {x})
<1>1. PICK g : Sums(g, f, S) /\ SumFunctionOnSet(f, S) = g[S]
  BY SumIs
<1>2. \A s \in SUBSET S : g[s] \in Nat /\ \A x \in s : g[s] = f[x] + g[s \ {x}]
  BY <1>1, SumsTake
<1>3. ASSUME NEW T \in SUBSET S PROVE SumFunctionOnSet(f, T) = g[T]
  <2>1. IsFiniteSet(T) /\ Same(f, f, T)
    BY FS_Subset DEF Same
  <2>2. PICK k : Sums(k, f, T) /\ SumFunctionOnSet(f, T) = k[T]
    BY <2>1, SumIs
  <2>3. g[T] = k[T]
    BY <1>1, <2>1, <2>2, SumsAgree
  <2> QED BY <2>2, <2>3
<1>4. g[{}] = 0
  BY <1>1, SumsFacts
<1> QED BY <1>2, <1>3, <1>4

(* The sum depends on the values of the members alone.                     *)
LEMMA SumAgrees ==
  ASSUME NEW S, IsFiniteSet(S), NEW f, NEW h, Same(f, h, S)
  PROVE  SumFunctionOnSet(f, S) = SumFunctionOnSet(h, S)
<1>1. PICK g : Sums(g, f, S) /\ SumFunctionOnSet(f, S) = g[S]
  BY SumIs
<1>2. PICK k : Sums(k, h, S) /\ SumFunctionOnSet(h, S) = k[S]
  BY SumIs
<1>3. S \in SUBSET S
  OBVIOUS
<1>4. g[S] = k[S]
  <2>1. \A s \in SUBSET S : g[s] = k[s]
    BY <1>1, <1>2, <1>3, SumsAgree
  <2> QED BY <2>1, <1>3
<1> QED BY <1>1, <1>2, <1>4
----------------------------------------------------------------------------
Sizes(entries, K) == \A k \in K : entries[k].size \in Nat

LEMMA TotalSizeFacts ==
  ASSUME NEW K, IsFiniteSet(K), NEW entries, Sizes(entries, K)
  PROVE  /\ TotalSize(entries, K) \in Nat
         /\ TotalSize(entries, {}) = 0
         /\ \A x \in K : TotalSize(entries, K) = entries[x].size + TotalSize(entries, K \ {x})
<1> DEFINE f(T) == [k \in T |-> entries[k].size]
<1>1. \A T : TotalSize(entries, T) = SumFunctionOnSet(f(T), T)
  BY DEF TotalSize
<1>2. Numbers(f(K), K)
  BY DEF Numbers, Sizes
<1>3. /\ SumFunctionOnSet(f(K), K) \in Nat
      /\ \A x \in K : SumFunctionOnSet(f(K), K) = f(K)[x] + SumFunctionOnSet(f(K), K \ {x})
  <2> HIDE DEF f
  <2> QED BY <1>2, SumFacts
<1>4. SumFunctionOnSet(f({}), {}) = 0
  <2>1. IsFiniteSet({}) /\ Numbers(f({}), {})
    BY FS_EmptySet DEF Numbers
  <2> HIDE DEF f
  <2> QED BY <2>1, SumFacts
<1>5. ASSUME NEW x \in K
      PROVE  SumFunctionOnSet(f(K), K \ {x}) = SumFunctionOnSet(f(K \ {x}), K \ {x})
  <2>1. IsFiniteSet(K \ {x})
    BY FS_RemoveElement
  <2>2. Same(f(K), f(K \ {x}), K \ {x})
    BY DEF Same
  <2> HIDE DEF f
  <2> QED BY <2>1, <2>2, SumAgrees
<1> QED BY <1>1, <1>3, <1>4, <1>5

(* The entries of a set weigh what those of a subset and the rest do.      *)
LEMMA TotalSizeSplits ==
  ASSUME NEW K, IsFiniteSet(K), NEW entries, Sizes(entries, K), NEW T \in SUBSET K
  PROVE  TotalSize(entries, K) = TotalSize(entries, T) + TotalSize(entries, K \ T)
<1> DEFINE Good(U) == TotalSize(entries, U \cup (K \ T)) = TotalSize(entries, U) + TotalSize(entries, K \ T)
           B == {U \in SUBSET T : ~ Good(U)}
<1>1. \A V \in SUBSET K : /\ IsFiniteSet(V) /\ Sizes(entries, V)
                          /\ TotalSize(entries, V) \in Nat /\ TotalSize(entries, {}) = 0
                          /\ \A x \in V : TotalSize(entries, V) = entries[x].size + TotalSize(entries, V \ {x})
  <2>1. ASSUME NEW V \in SUBSET K PROVE IsFiniteSet(V) /\ Sizes(entries, V)
    BY FS_Subset DEF Sizes
  <2> QED BY <2>1, TotalSizeFacts
<1>2. Good(T) => TotalSize(entries, K) = TotalSize(entries, T) + TotalSize(entries, K \ T)
  <2>1. T \cup (K \ T) = K
    OBVIOUS
  <2> QED BY <2>1
<1> SUFFICES ASSUME B # {} PROVE FALSE
  <2>1. T \in SUBSET T
    OBVIOUS
  <2> QED BY <1>2, <2>1
<1>3. PICK U \in B : \A V \in B : V \subseteq U => V = U
  <2>1. B \in SUBSET (SUBSET K)
    OBVIOUS
  <2> HIDE DEF B
  <2> QED BY <2>1, Minimal
<1>4. CASE U = {}
  <2>1. TotalSize(entries, {}) = 0 /\ TotalSize(entries, K \ T) \in Nat /\ {} \cup (K \ T) = K \ T
    BY <1>1
  <2>2. Good({})
    BY <2>1
  <2> QED BY <1>3, <1>4, <2>2
<1>5. CASE U # {}
  <2>1. PICK x \in U : TRUE
    BY <1>5
  <2>2. Good(U \ {x})
    <3> HIDE DEF Good
    <3> QED BY <1>3, <2>1
  <2>3. /\ U \in SUBSET K /\ U \cup (K \ T) \in SUBSET K /\ U \ {x} \in SUBSET K
        /\ (U \cup (K \ T)) \ {x} = (U \ {x}) \cup (K \ T) /\ x \in K
    BY <1>3, <2>1
  <2>4. /\ TotalSize(entries, U) = entries[x].size + TotalSize(entries, U \ {x})
        /\ TotalSize(entries, U \cup (K \ T)) = entries[x].size + TotalSize(entries, (U \ {x}) \cup (K \ T))
    BY <1>1, <2>1, <2>3
  <2>5. entries[x].size \in Nat /\ TotalSize(entries, U \ {x}) \in Nat /\ TotalSize(entries, K \ T) \in Nat
    BY <1>1, <2>3 DEF Sizes
  <2>6. Good(U)
    BY <2>2, <2>4, <2>5
  <2> QED BY <1>3, <2>6
<1> QED BY <1>4, <1>5
----------------------------------------------------------------------------
(* An arrangement of a finite set names each member once.                  *)
LEMMA ArrangementFacts ==
  ASSUME NEW K, IsFiniteSet(K), NEW s \in SetToSeqs(K)
  PROVE  s \in Seq(K) /\ Distinct(s) /\ ToSet(s) = K
<1> DEFINE n == Cardinality(K)
<1>1. n \in Nat /\ IsFiniteSet(1..n) /\ Cardinality(1..n) = n
  BY FS_CardinalityType, FS_Interval
<1>2. s \in [1..n -> K] /\ \A i, j \in 1..n : i # j => s[i] # s[j]
  BY DEF SetToSeqs
<1>3. s \in Injection(1..n, K)
  BY <1>2 DEF Injection, IsInjective
<1>4. s \in Surjection(1..n, K)
  BY <1>1, <1>3, FS_Injection
<1>5. ToSet(s) = K
  BY <1>2, <1>4 DEF Surjection, ToSet
<1> QED BY <1>1, <1>2, <1>5 DEF Distinct

(* The shortest prefix that frees what is needed.                          *)
LEMMA FreeingPrefixFacts ==
  ASSUME NEW s, Len(s) \in Nat, SubSeq(s, 1, Len(s)) = s, NEW entries, NEW need,
         TotalSize(entries, ToSet(s)) >= need
  PROVE  \E n \in 0..Len(s) :
           /\ FreeingPrefix(s, entries, need) = SubSeq(s, 1, n)
           /\ TotalSize(entries, ToSet(SubSeq(s, 1, n))) >= need
           /\ \A m \in 0..(n - 1) : ~ (TotalSize(entries, ToSet(SubSeq(s, 1, m))) >= need)
<1> DEFINE enough == {n \in 0..Len(s) : TotalSize(entries, ToSet(SubSeq(s, 1, n))) >= need}
           n == CHOOSE i \in enough : \A j \in enough : i <= j
<1>1. Len(s) \in enough
  <2>1. ToSet(SubSeq(s, 1, Len(s))) = ToSet(s)
    BY Zenon
  <2>2. Len(s) \in 0..Len(s)
    OBVIOUS
  <2>3. TotalSize(entries, ToSet(SubSeq(s, 1, Len(s)))) >= need
    BY <2>1
  <2> QED BY <2>2, <2>3
<1>2. enough \in SUBSET Nat
  OBVIOUS
<1>3. \E i \in enough : \A j \in enough : i <= j
  <2> HIDE DEF enough
  <2> QED BY <1>1, <1>2, Least
<1>4. n \in enough /\ \A j \in enough : n <= j
  <2> HIDE DEF enough
  <2> QED BY <1>3
<1>5. FreeingPrefix(s, entries, need) = SubSeq(s, 1, n)
  BY DEF FreeingPrefix
<1> HIDE DEF n
<1>6. \A m \in 0..(n - 1) : ~ (TotalSize(entries, ToSet(SubSeq(s, 1, m))) >= need)
  BY <1>4
<1> QED BY <1>4, <1>5, <1>6

LEMMA PrefixFacts ==
  ASSUME NEW S, NEW s \in Seq(S), Distinct(s), NEW n \in 0..Len(s)
  PROVE  /\ SubSeq(s, 1, n) \in Seq(S) /\ Distinct(SubSeq(s, 1, n))
         /\ Len(SubSeq(s, 1, n)) = n /\ \A i \in 1..n : SubSeq(s, 1, n)[i] = s[i]
         /\ ToSet(SubSeq(s, 1, n)) \subseteq ToSet(s)
         /\ n > 0 => /\ s[n] \notin ToSet(SubSeq(s, 1, n - 1))
                     /\ ToSet(SubSeq(s, 1, n)) = ToSet(SubSeq(s, 1, n - 1)) \cup {s[n]}
<1>1. Len(s) \in Nat /\ DOMAIN s = 1..Len(s)
  OBVIOUS
<1>2. ASSUME NEW m \in 0..Len(s)
      PROVE  /\ SubSeq(s, 1, m) \in Seq(S) /\ Len(SubSeq(s, 1, m)) = m
             /\ DOMAIN SubSeq(s, 1, m) = 1..m
             /\ \A i \in 1..m : SubSeq(s, 1, m)[i] = s[i]
             /\ ToSet(SubSeq(s, 1, m)) = {s[i] : i \in 1..m}
  <2>1. /\ SubSeq(s, 1, m) \in Seq(S) /\ Len(SubSeq(s, 1, m)) = m
        /\ \A i \in 1..m : SubSeq(s, 1, m)[i] = s[i]
    BY <1>1
  <2>2. DOMAIN SubSeq(s, 1, m) = 1..m
    BY <2>1
  <2>3. ToSet(SubSeq(s, 1, m)) = {s[i] : i \in 1..m}
    BY <2>1, <2>2 DEF ToSet
  <2> QED BY <2>1, <2>2, <2>3
<1>3. Distinct(SubSeq(s, 1, n))
  BY <1>1, <1>2 DEF Distinct
<1>4. ToSet(SubSeq(s, 1, n)) \subseteq ToSet(s)
  BY <1>1, <1>2 DEF ToSet
<1>5. ASSUME n > 0
      PROVE  /\ s[n] \notin ToSet(SubSeq(s, 1, n - 1))
             /\ ToSet(SubSeq(s, 1, n)) = ToSet(SubSeq(s, 1, n - 1)) \cup {s[n]}
  <2>1. n - 1 \in 0..Len(s) /\ n \in 1..Len(s) /\ 1..n = (1..(n - 1)) \cup {n}
    BY <1>1, <1>5
  <2>2. \A i \in 1..(n - 1) : s[i] # s[n]
    BY <1>1, <2>1 DEF Distinct
  <2>3. /\ ToSet(SubSeq(s, 1, n - 1)) = {s[i] : i \in 1..(n - 1)}
        /\ ToSet(SubSeq(s, 1, n)) = {s[i] : i \in 1..n}
    BY <1>2, <2>1
  <2> QED BY <2>1, <2>2, <2>3
<1> QED BY <1>2, <1>3, <1>4, <1>5

(* The answer of the size strategy: a prefix of the entries in its order,  *)
(* just long enough for the others to fit.                                 *)
SizeOrder(s, entries) ==
  \A i, j \in 1..Len(s) : i < j => ~ExpiredThenLargest(entries[s[j]], entries[s[i]])

LEMMA SelectBySizeFacts ==
  ASSUME NEW entries, IsFiniteSet(DOMAIN entries), Sizes(entries, DOMAIN entries),
         NEW maxSize \in Nat, NEW p \in SelectBySize(entries, maxSize)
  PROVE  /\ p \in Seq(DOMAIN entries) /\ Distinct(p)
         /\ TotalSize(entries, DOMAIN entries \ ToSet(p)) <= maxSize
         /\ p # <<>> => TotalSize(entries, (DOMAIN entries \ ToSet(p)) \cup {p[Len(p)]}) > maxSize
         /\ p # <<>> => \E s \in Seq(DOMAIN entries) : \E n \in 0..Len(s) :
              p = SubSeq(s, 1, n) /\ Distinct(s) /\ ToSet(s) = DOMAIN entries /\ SizeOrder(s, entries)
<1> DEFINE D == DOMAIN entries
           total == TotalSize(entries, D)
<1>1. \A V \in SUBSET D : IsFiniteSet(V) /\ Sizes(entries, V)
  BY FS_Subset DEF Sizes
<1>2. \A V \in SUBSET D : TotalSize(entries, V) \in Nat
  BY <1>1, TotalSizeFacts
<1>3. CASE total <= maxSize
  <2>1. p = <<>>
    BY <1>3 DEF SelectBySize
  <2>2. ToSet(p) = {} /\ Distinct(p) /\ p \in Seq(D)
    BY <2>1 DEF ToSet, Distinct
  <2>3. D \ ToSet(p) = D
    BY <2>2
  <2> QED BY <1>3, <2>1, <2>2, <2>3
<1>4. CASE ~ (total <= maxSize)
  <2>1. PICK s \in SetToSeqs(D) : p = FreeingPrefix(s, entries, total - maxSize) /\ SizeOrder(s, entries)
    BY <1>4 DEF SelectBySize, Sorted, SizeOrder
  <2>2. s \in Seq(D) /\ Distinct(s) /\ ToSet(s) = D
    BY ArrangementFacts
  <2>3. Len(s) \in Nat /\ SubSeq(s, 1, Len(s)) = s
    BY <2>2
  <2>4. TotalSize(entries, ToSet(s)) >= total - maxSize
    BY <1>2, <2>2
  <2>5. PICK n \in 0..Len(s) :
          /\ p = SubSeq(s, 1, n)
          /\ TotalSize(entries, ToSet(SubSeq(s, 1, n))) >= total - maxSize
          /\ \A m \in 0..(n - 1) : ~ (TotalSize(entries, ToSet(SubSeq(s, 1, m))) >= total - maxSize)
    <3> HIDE DEF D, total
    <3> QED BY <2>1, <2>3, <2>4, FreeingPrefixFacts
  <2>6. p \in Seq(D) /\ Distinct(p) /\ Len(p) = n /\ ToSet(p) \subseteq D
    BY <2>2, <2>5, PrefixFacts
  <2>7. total = TotalSize(entries, ToSet(p)) + TotalSize(entries, D \ ToSet(p))
    BY <1>1, <2>6, TotalSizeSplits
  <2>8. TotalSize(entries, D \ ToSet(p)) <= maxSize
    <3>1. TotalSize(entries, ToSet(p)) \in Nat /\ TotalSize(entries, D \ ToSet(p)) \in Nat /\ total \in Nat
      BY <1>2, <2>6
    <3> HIDE DEF total, D
    <3> QED BY <2>5, <2>7, <3>1
  <2>9. ASSUME p # <<>>
        PROVE  TotalSize(entries, (D \ ToSet(p)) \cup {p[Len(p)]}) > maxSize
    <3> DEFINE x == s[n]
               q == SubSeq(s, 1, n - 1)
               K == (D \ ToSet(p)) \cup {x}
    <3>1. n > 0 /\ n - 1 \in 0..(n - 1) /\ n - 1 \in 0..Len(s) /\ n \in 1..n
      BY <2>3, <2>5, <2>6, <2>9
    <3>2. p[Len(p)] = x
      BY <2>2, <2>5, <2>6, <3>1, PrefixFacts
    <3>3. x \notin ToSet(q) /\ ToSet(p) = ToSet(q) \cup {x} /\ ToSet(p) \subseteq D
      BY <2>2, <2>5, <2>6, <3>1, PrefixFacts
    <3>4. D \ ToSet(q) = K /\ ToSet(q) \in SUBSET D /\ K \in SUBSET D
      BY <3>3
    <3>5. total = TotalSize(entries, ToSet(q)) + TotalSize(entries, K)
      <4>1. total = TotalSize(entries, ToSet(q)) + TotalSize(entries, D \ ToSet(q))
        <5> HIDE DEF q, K
        <5> QED BY <1>1, <3>4, TotalSizeSplits
      <4> QED BY <3>4, <4>1
    <3>6. ~ (TotalSize(entries, ToSet(q)) >= total - maxSize)
      BY <2>5, <3>1
    <3>7. TotalSize(entries, ToSet(q)) \in Nat /\ TotalSize(entries, K) \in Nat /\ total \in Nat
      BY <1>2, <3>4
    <3>8. TotalSize(entries, K) > maxSize
      <4> HIDE DEF total, q, K
      <4> QED BY <3>5, <3>6, <3>7
    <3> QED BY <3>2, <3>8
  <2> QED BY <2>1, <2>2, <2>5, <2>6, <2>8, <2>9
<1> QED BY <1>3, <1>4
----------------------------------------------------------------------------
(* f is what the recursion of Merged defines on the first m places.        *)
Merges(f, parts, order, m) ==
  f = [n \in 0..m |-> IF n = 0 THEN <<>> ELSE AppendNew(f[n - 1], parts[order[n]].keys)]

LEMMA MergedExists ==
  ASSUME NEW parts, NEW order, NEW L \in Nat
  PROVE  \E f : Merges(f, parts, order, L)
<1> DEFINE Bad == {m \in 0..L : ~ \E f : Merges(f, parts, order, m)}
<1> SUFFICES ASSUME Bad # {} PROVE FALSE
  OBVIOUS
<1>1. PICK m \in Bad : \A k \in Bad : m <= k
  <2> Bad \in SUBSET Nat
    OBVIOUS
  <2> HIDE DEF Bad
  <2> QED BY Least
<1>2. CASE m = 0
  <2>1. Merges([n \in 0..0 |-> <<>>], parts, order, 0)
    BY DEF Merges
  <2> QED BY <2>1, <1>2
<1>3. CASE m # 0
  <2>1. m - 1 \in 0..L /\ m - 1 \notin Bad
    BY <1>1, <1>3
  <2>2. PICK f : Merges(f, parts, order, m - 1)
    BY <2>1
  <2> DEFINE last == AppendNew(f[m - 1], parts[order[m]].keys)
             g == [n \in 0..m |-> IF n = m THEN last ELSE f[n]]
  <2>3. ASSUME NEW n \in 0..m
        PROVE  g[n] = IF n = 0 THEN <<>> ELSE AppendNew(g[n - 1], parts[order[n]].keys)
    <3> HIDE DEF last
    <3>1. CASE n = m
      <4>1. g[n] = last /\ g[n - 1] = f[m - 1]
        BY <3>1, <1>3
      <4> QED BY <4>1, <3>1, <1>3 DEF last
    <3>2. CASE n # m /\ n # 0
      <4>1. n \in 0..(m - 1) /\ n - 1 \in 0..(m - 1)
        BY <3>2
      <4>2. f[n] = AppendNew(f[n - 1], parts[order[n]].keys)
        BY <4>1, <2>2, <3>2 DEF Merges
      <4>3. g[n] = f[n] /\ g[n - 1] = f[n - 1]
        BY <4>1, <3>2
      <4> QED BY <4>2, <4>3, <3>2
    <3>3. CASE n # m /\ n = 0
      BY <2>2, <3>3, <1>3 DEF Merges
    <3> QED BY <3>1, <3>2, <3>3
  <2>4. Merges(g, parts, order, m)
    <3>1. g = [n \in 0..m |-> g[n]]
      OBVIOUS
    <3> HIDE DEF g
    <3> QED BY <2>3, <3>1 DEF Merges
  <2> QED BY <2>4
<1> QED BY <1>2, <1>3

(* Each part answers with keys of S, none of them twice.                   *)
Answers(parts, S) == \A i \in DOMAIN parts : parts[i].keys \in Seq(S) /\ Distinct(parts[i].keys)

(* q is made of the answers of the first n parts of the order.             *)
Collects(q, parts, order, n, S) ==
  /\ q \in Seq(S) /\ Distinct(q)
  /\ ToSet(q) = UNION {ToSet(parts[order[i]].keys) : i \in 1..n}

LEMMA MergesHolds ==
  ASSUME NEW S, NEW parts, Answers(parts, S), NEW order \in Seq(DOMAIN parts),
         NEW f, Merges(f, parts, order, Len(order))
  PROVE  Collects(f[Len(order)], parts, order, Len(order), S)
<1> DEFINE Bad == {n \in 0..Len(order) : ~ Collects(f[n], parts, order, n, S)}
<1> SUFFICES ASSUME Bad # {} PROVE FALSE
  OBVIOUS
<1>1. PICK m \in Bad : \A k \in Bad : m <= k
  <2> Bad \in SUBSET Nat
    OBVIOUS
  <2> HIDE DEF Bad
  <2> QED BY Least
<1>2. CASE m = 0
  <2>1. f[0] = <<>>
    BY DEF Merges
  <2>2. <<>> \in Seq(S) /\ Distinct(<<>>) /\ ToSet(<<>>) = {}
    BY DEF Distinct, ToSet
  <2>3. Collects(<<>>, parts, order, 0, S)
    BY <2>2 DEF Collects
  <2> QED BY <1>2, <2>1, <2>3
<1>3. CASE m # 0
  <2>1. m \in 1..Len(order) /\ m - 1 \in 0..Len(order) /\ m - 1 \notin Bad
    BY <1>1, <1>3
  <2>2. Collects(f[m - 1], parts, order, m - 1, S)
    BY <2>1
  <2>3. f[m] = AppendNew(f[m - 1], parts[order[m]].keys)
    BY <2>1, <1>3 DEF Merges
  <2>4. order[m] \in DOMAIN parts
    BY <2>1
  <2>5. PICK keys : keys = parts[order[m]].keys
    OBVIOUS
  <2>6. PICK p : p = f[m - 1]
    OBVIOUS
  <2>7. /\ p \in Seq(S) /\ Distinct(p) /\ keys \in Seq(S) /\ Distinct(keys)
        /\ ToSet(p) = UNION {ToSet(parts[order[i]].keys) : i \in 1..(m - 1)}
    BY <2>2, <2>4, <2>5, <2>6 DEF Collects, Answers
  <2>8. /\ AppendNew(p, keys) \in Seq(S) /\ Distinct(AppendNew(p, keys))
        /\ ToSet(AppendNew(p, keys)) = ToSet(p) \cup ToSet(keys)
    BY <2>7, AppendNewFacts
  <2>9. \A i : i \in 1..m <=> i \in 1..(m - 1) \/ i = m
    BY <2>1
  <2>10. ToSet(p) \cup ToSet(keys) = UNION {ToSet(parts[order[i]].keys) : i \in 1..m}
    <3> HIDE DEF Bad
    <3> QED BY <2>5, <2>7, <2>9
  <2>11. f[m] = AppendNew(p, keys)
    BY <2>3, <2>5, <2>6
  <2>12. Collects(f[m], parts, order, m, S)
    BY <2>8, <2>10, <2>11 DEF Collects
  <2> QED BY <2>12
<1> QED BY <1>2, <1>3

LEMMA MergedFacts ==
  ASSUME NEW S, NEW parts, Answers(parts, S), NEW order \in Seq(DOMAIN parts)
  PROVE  Collects(Merged(parts, order), parts, order, Len(order), S)
<1> DEFINE upTo[n \in 0..Len(order)] ==
             IF n = 0 THEN <<>> ELSE AppendNew(upTo[n - 1], parts[order[n]].keys)
<1>1. \E f : Merges(f, parts, order, Len(order))
  <2>1. Len(order) \in Nat
    OBVIOUS
  <2> HIDE DEF upTo
  <2> QED BY <2>1, MergedExists
<1>2. Merges(upTo, parts, order, Len(order))
  BY <1>1 DEF Merges
<1>3. Merged(parts, order) = upTo[Len(order)]
  BY DEF Merged
<1>4. Collects(upTo[Len(order)], parts, order, Len(order), S)
  <2> HIDE DEF upTo
  <2> QED BY <1>2, MergesHolds
<1> QED BY <1>3, <1>4

(* The combined answer is everything some part answered with, each key     *)
(* once, whatever the priorities.                                          *)
LEMMA CombineFacts ==
  ASSUME NEW S, NEW parts, IsFiniteSet(DOMAIN parts), Answers(parts, S), NEW q \in Combine(parts)
  PROVE  /\ q \in Seq(S) /\ Distinct(q)
         /\ ToSet(q) = UNION {ToSet(parts[i].keys) : i \in DOMAIN parts}
<1>1. PICK order \in SetToSeqs(DOMAIN parts) : q = Merged(parts, order)
  BY DEF Combine, Sorted
<1>2. order \in Seq(DOMAIN parts) /\ ToSet(order) = DOMAIN parts
  BY ArrangementFacts
<1>3. Collects(q, parts, order, Len(order), S)
  BY <1>1, <1>2, MergedFacts
<1>4. ToSet(order) = {order[i] : i \in 1..Len(order)}
  BY <1>2 DEF ToSet
<1>5. ToSet(q) = UNION {ToSet(parts[i].keys) : i \in DOMAIN parts}
  BY SMTT(30), <1>2, <1>3, <1>4 DEF Collects
<1> QED BY <1>3, <1>5 DEF Collects

(* What has expired, in the order in which it expired.                     *)
LEMMA SelectExpiredFacts ==
  ASSUME NEW entries, IsFiniteSet(DOMAIN entries), NEW q \in SelectExpired(entries)
  PROVE  /\ q \in Seq(DOMAIN entries) /\ Distinct(q)
         /\ ToSet(q) = {k \in DOMAIN entries : entries[k].expired}
         /\ \A i, j \in DOMAIN q : i < j => ~(entries[q[j]].expiry < entries[q[i]].expiry)
<1> DEFINE E == {k \in DOMAIN entries : entries[k].expired}
<1>1. IsFiniteSet(E)
  BY FS_Subset
<1>2. q \in SetToSeqs(E) /\ \A i, j \in 1..Len(q) : i < j => ~(entries[q[j]].expiry < entries[q[i]].expiry)
  BY DEF SelectExpired, Sorted
<1>3. q \in Seq(E) /\ Distinct(q) /\ ToSet(q) = E
  <2> HIDE DEF E
  <2> QED BY <1>1, <1>2, ArrangementFacts
<1> QED BY <1>2, <1>3
============================================================================
