------------------------- MODULE CoordinatorProofs -------------------------
(***************************************************************************)
(* Proofs about Eviction, for any finite set of keys, any sizes, limit and *)
(* priorities: the list stays in the order of last use, and whatever       *)
(* entries a strategy is asked about, it answers with the right ones.      *)
(* Then about the Coordinator that uses it, for any number of clients and  *)
(* keys, any sizes and limits, and any combination of failures and         *)
(* restarts.                                                               *)
(***************************************************************************)
EXTENDS Coordinator, Eviction, EvictionOrderProofs

(* The list is in the order of last use, which the clock bounds.           *)
Listed ==
  /\ lastUse \in [Key -> Nat] /\ \A k \in Key : lastUse[k] <= uses
  /\ Distinct(accessList)
  /\ \A i, j \in DOMAIN accessList : i < j => lastUse[accessList[i]] > lastUse[accessList[j]]

StrategyInv ==
  /\ StrategyTypeOK /\ Listed
  /\ LruIsLeastRecentlyUsed /\ SizeFreesJustEnough /\ SizeKeepsTheRightOnes
  /\ TtlIsOldestFirst /\ CompositeFreesEnough

Answer == SizeFreesJustEnough /\ SizeKeepsTheRightOnes /\ TtlIsOldestFirst /\ CompositeFreesEnough

(* The pairs of which the first key was used later, or earlier.            *)
LaterThan(use) == {r \in Key \X Key : use[r[1]] > use[r[2]]}
EarlierThan(use) == {r \in Key \X Key : use[r[1]] < use[r[2]]}

LEMMA ListedInOrder ==
  ASSUME StrategyTypeOK, Listed
  PROVE  InOrder(accessList, LaterThan(lastUse))
<1>1. \A i \in DOMAIN accessList : accessList[i] \in Key
  BY DEF StrategyTypeOK
<1> QED BY <1>1 DEF Listed, InOrder, LaterThan

LEMMA StrategyInitInv == StrategyInit => StrategyInv
<1> SUFFICES ASSUME StrategyInit PROVE StrategyInv
  OBVIOUS
<1>1. accessList = <<>> /\ given = Nothing /\ given.keys = <<>> /\ given.strategy = "none"
  BY DEF StrategyInit, Nothing
<1>2. ToSet(<<>>) = {} /\ <<>> \in Seq(Key) /\ DOMAIN <<>> = {}
  BY DEF ToSet
<1>3. stuck \in BOOLEAN
  BY Zenon DEF StrategyInit
<1>4. StrategyTypeOK
  BY <1>1, <1>2, <1>3, EvictionAssumption DEF StrategyInit, StrategyTypeOK, Tracked
<1>5. Listed
  BY <1>1, <1>2 DEF StrategyInit, Listed, Distinct
<1>6. LruIsLeastRecentlyUsed /\ Answer
  BY <1>1 DEF LruIsLeastRecentlyUsed, Answer, SizeFreesJustEnough, SizeKeepsTheRightOnes,
       TtlIsOldestFirst, CompositeFreesEnough, Answered
<1> QED BY <1>4, <1>5, <1>6 DEF StrategyInv, Answer

(* Without an answer there is nothing to say of one.                       *)
LEMMA NoAnswer ==
  ASSUME StrategyInv, given = Nothing, UNCHANGED answer
  PROVE  (LruIsLeastRecentlyUsed /\ Answer)'
<1>1. given'.strategy = "none"
  BY DEF Nothing, answer
<1> QED BY <1>1 DEF LruIsLeastRecentlyUsed, Answer, SizeFreesJustEnough, SizeKeepsTheRightOnes,
          TtlIsOldestFirst, CompositeFreesEnough, Answered

LEMMA UseInv ==
  ASSUME StrategyInv, NEW k \in Key, Use(k), given = Nothing, UNCHANGED <<stuck, answer>>
  PROVE  StrategyInv'
<1> USE DEF StrategyInv
<1>1. /\ accessList \in Seq(Key) /\ uses \in Nat /\ uses' = uses + 1 /\ uses' \in 0..MaxUses
      /\ lastUse' = [lastUse EXCEPT ![k] = uses + 1] /\ lastUse \in [Key -> Nat]
      /\ accessList' = MoveToFront(accessList, k)
  BY EvictionAssumption DEF Use, StrategyTypeOK, Listed
<1>2. /\ accessList' \in Seq(Key) /\ Tracked(accessList') = Tracked(accessList) \cup {k}
      /\ Distinct(accessList')
  BY <1>1, MoveToFrontFacts DEF Listed
<1>3. StrategyTypeOK'
  BY <1>1, <1>2 DEF StrategyTypeOK, answer
<1>4. lastUse' \in [Key -> Nat] /\ \A l \in Key : lastUse'[l] <= uses'
  BY <1>1 DEF Listed
<1>5. PICK rest : rest = Untrack(accessList, k)
  OBVIOUS
<1>6. rest \in Seq(Key) /\ ToSet(rest) = Tracked(accessList) \ {k}
  BY <1>1, <1>5, UntrackFacts DEF Tracked
<1>7. InOrder(rest, LaterThan(lastUse))
  BY <1>1, <1>5, ListedInOrder, PickedInOrder DEF Untrack
<1>8. accessList' = <<k>> \o rest
  BY <1>1, <1>5 DEF MoveToFront
<1>9. /\ DOMAIN accessList' = 1..(Len(rest) + 1) /\ Len(rest) \in Nat /\ DOMAIN rest = 1..Len(rest)
      /\ accessList'[1] = k
      /\ \A i \in 2..(Len(rest) + 1) : accessList'[i] = rest[i - 1] /\ i - 1 \in 1..Len(rest)
  BY <1>6, <1>8
<1>10. ASSUME NEW i \in DOMAIN rest
       PROVE  rest[i] \in Key /\ rest[i] # k /\ lastUse'[rest[i]] = lastUse[rest[i]] /\ lastUse[rest[i]] <= uses
  <2>1. rest[i] \in ToSet(rest) /\ rest[i] \in Key
    BY <1>6 DEF ToSet
  <2> QED BY <2>1, <1>1, <1>6 DEF Listed
<1>11. ASSUME NEW i \in DOMAIN accessList', NEW j \in DOMAIN accessList', i < j
       PROVE  lastUse'[accessList'[i]] > lastUse'[accessList'[j]]
  <2>1. j \in 2..(Len(rest) + 1) /\ (i = 1 \/ i \in 2..(Len(rest) + 1))
    BY <1>9, <1>11
  <2>2. j - 1 \in DOMAIN rest /\ accessList'[j] = rest[j - 1]
    BY <2>1, <1>9
  <2>3. CASE i = 1
    <3>1. lastUse'[k] = uses + 1 /\ lastUse'[rest[j - 1]] <= uses /\ lastUse[rest[j - 1]] \in Nat
      BY <1>1, <1>10, <2>2
    <3>2. lastUse'[rest[j - 1]] = lastUse[rest[j - 1]]
      BY <1>10, <2>2
    <3> QED BY <1>1, <1>9, <2>2, <2>3, <3>1, <3>2
  <2>4. CASE i # 1
    <3>1. i - 1 \in DOMAIN rest /\ accessList'[i] = rest[i - 1] /\ i - 1 < j - 1
      BY <2>1, <2>4, <1>9, <1>11
    <3>2. lastUse[rest[i - 1]] > lastUse[rest[j - 1]]
      BY <1>7, <2>2, <3>1 DEF InOrder, LaterThan
    <3>3. lastUse'[rest[i - 1]] = lastUse[rest[i - 1]] /\ lastUse'[rest[j - 1]] = lastUse[rest[j - 1]]
      BY <1>10, <2>2, <3>1
    <3> QED BY <2>2, <3>1, <3>2, <3>3
  <2> QED BY <2>3, <2>4
<1>12. Listed'
  BY <1>2, <1>4, <1>11 DEF Listed
<1> QED BY <1>3, <1>12, NoAnswer DEF Answer

(* Nothing changes but whether a goroutine is stuck.                       *)
LEMMA SameInv ==
  ASSUME StrategyInv, UNCHANGED <<accessList, lastUse, uses, answer>>, stuck' \in BOOLEAN
  PROVE  StrategyInv'
<1> USE DEF StrategyInv, answer
<1>1. StrategyTypeOK' /\ Listed'
  BY DEF StrategyTypeOK, Listed
<1>2. LruIsLeastRecentlyUsed' /\ Answer'
  BY DEF LruIsLeastRecentlyUsed, Answer, SizeFreesJustEnough, SizeKeepsTheRightOnes,
       TtlIsOldestFirst, CompositeFreesEnough, Answered, Chosen, Kept
<1> QED BY <1>1, <1>2 DEF Answer

LEMMA OnAddInv == ASSUME StrategyInv, NEW k \in Key, OnAdd(k) PROVE StrategyInv'
<1>1. CASE Use(k) /\ UNCHANGED stuck
  BY <1>1, UseInv DEF OnAdd, Ready
<1>2. CASE stuck' = TRUE /\ UNCHANGED <<accessList, lastUse, uses>>
  <2>1. stuck' \in BOOLEAN
    BY <1>2, Zenon
  <2> QED BY <1>2, <2>1, SameInv DEF OnAdd
<1> QED BY <1>1, <1>2 DEF OnAdd

LEMMA OnAccessInv == ASSUME StrategyInv, NEW k \in Key, OnAccess(k) PROVE StrategyInv'
<1>1. CASE Use(k)
  BY <1>1, UseInv DEF OnAccess, Ready
<1>2. CASE UNCHANGED <<accessList, lastUse, uses>>
  <2>1. stuck' \in BOOLEAN
    BY DEF OnAccess, StrategyInv, StrategyTypeOK
  <2> QED BY <1>2, <2>1, SameInv DEF OnAccess
<1> QED BY <1>1, <1>2 DEF OnAccess

LEMMA OnRemoveInv == ASSUME StrategyInv, NEW k \in Key, OnRemove(k) PROVE StrategyInv'
<1> USE DEF StrategyInv
<1>1. /\ accessList \in Seq(Key) /\ uses \in Nat /\ uses' = uses /\ lastUse \in [Key -> Nat]
      /\ lastUse' = [lastUse EXCEPT ![k] = 0] /\ accessList' = Untrack(accessList, k)
      /\ given = Nothing /\ UNCHANGED answer /\ stuck' = stuck
  BY EvictionAssumption DEF OnRemove, Ready, StrategyTypeOK, Listed
<1>2. /\ accessList' \in Seq(Key) /\ Tracked(accessList') = Tracked(accessList) \ {k}
      /\ Distinct(accessList')
  BY <1>1, UntrackFacts DEF Listed
<1>3. StrategyTypeOK'
  BY <1>1, <1>2 DEF StrategyTypeOK, answer
<1>4. InOrder(accessList', LaterThan(lastUse))
  BY <1>1, ListedInOrder, PickedInOrder DEF Untrack
<1>5. ASSUME NEW i \in DOMAIN accessList'
      PROVE  accessList'[i] \in Key /\ lastUse'[accessList'[i]] = lastUse[accessList'[i]]
  <2>1. accessList'[i] \in Tracked(accessList') /\ accessList'[i] \in Key
    BY <1>2 DEF Tracked, ToSet
  <2> QED BY <2>1, <1>1, <1>2
<1>6. \A i, j \in DOMAIN accessList' : i < j => lastUse'[accessList'[i]] > lastUse'[accessList'[j]]
  BY <1>4, <1>5 DEF InOrder, LaterThan
<1>7. Listed'
  BY <1>1, <1>2, <1>6 DEF Listed
<1> QED BY <1>1, <1>3, <1>7, NoAnswer DEF Answer

LEMMA ConsumeInv == ASSUME StrategyInv, Consume PROVE StrategyInv'
<1> USE DEF StrategyInv
<1>1. given' = Nothing /\ given'.keys = <<>> /\ given'.strategy = "none"
  BY DEF Consume, Nothing
<1>2. ToSet(<<>>) = {} /\ <<>> \in Seq(Key)
  BY DEF ToSet
<1>3. StrategyTypeOK' /\ Listed'
  BY <1>1, <1>2 DEF Consume, StrategyTypeOK, Listed
<1>4. LruIsLeastRecentlyUsed' /\ Answer'
  BY <1>1 DEF LruIsLeastRecentlyUsed, Answer, SizeFreesJustEnough, SizeKeepsTheRightOnes,
       TtlIsOldestFirst, CompositeFreesEnough, Answered
<1> QED BY <1>3, <1>4 DEF Answer
----------------------------------------------------------------------------
LEMMA EntryFacts ==
  ASSUME NEW entries \in EntryMaps
  PROVE  /\ DOMAIN entries \in SUBSET Key /\ IsFiniteSet(DOMAIN entries)
         /\ Sizes(entries, DOMAIN entries)
         /\ \A k \in DOMAIN entries : entries[k].expiry \in Nat
<1>1. PICK K \in SUBSET Key : entries \in [K -> {Entry(s, x) : s \in EntrySizes, x \in 0..2}]
  BY DEF EntryMaps
<1>2. DOMAIN entries = K /\ IsFiniteSet(K)
  BY <1>1, FS_Subset, EvictionAssumption
<1>3. ASSUME NEW k \in K PROVE entries[k].size \in Nat /\ entries[k].expiry \in Nat
  <2>1. PICK s \in EntrySizes, x \in 0..2 : entries[k] = Entry(s, x)
    BY <1>1
  <2>2. s \in Nat /\ x \in Nat
    BY EvictionAssumption
  <2> QED BY <2>1, <2>2 DEF Entry
<1> QED BY <1>2, <1>3 DEF Sizes

(* What LRU answers is in the order of last use, oldest first.             *)
LEMMA LruOrder ==
  ASSUME StrategyTypeOK, Listed, NEW entries,
         NEW keys, keys = SelectLRU(accessList, entries)
  PROVE  /\ keys \in Seq(Key) /\ Distinct(keys)
         /\ ToSet(keys) = {k \in Key : lastUse[k] > 0} \cap DOMAIN entries
         /\ \A i, j \in DOMAIN keys : i < j => lastUse[keys[i]] < lastUse[keys[j]]
<1>1. accessList \in Seq(Key) /\ Tracked(accessList) = {k \in Key : lastUse[k] > 0}
  <2>1. Tracked(accessList) \subseteq Key
    BY DEF StrategyTypeOK, Tracked, ToSet
  <2> QED BY <2>1 DEF StrategyTypeOK
<1>2. keys \in Seq(Key) /\ Distinct(keys) /\ ToSet(keys) = Tracked(accessList) \cap DOMAIN entries
  BY <1>1, SelectLRUFacts DEF Listed
<1>3. \A a, b \in Key : <<a, b>> \in LaterThan(lastUse) => <<b, a>> \in EarlierThan(lastUse)
  BY DEF LaterThan, EarlierThan, Listed
<1>4. Reverse(accessList) \in Seq(Key) /\ InOrder(Reverse(accessList), EarlierThan(lastUse))
  BY <1>1, <1>3, ListedInOrder, ReverseFacts
<1>5. InOrder(keys, EarlierThan(lastUse))
  BY <1>4, PickedInOrder DEF SelectLRU
<1>6. \A i, j \in DOMAIN keys : i < j => lastUse[keys[i]] < lastUse[keys[j]]
  BY <1>5 DEF InOrder, EarlierThan
<1> QED BY <1>1, <1>2, <1>6

(* The size strategy's answer is a prefix of the order it sorts by.        *)
LEMMA SizeAnswers ==
  ASSUME NEW entries \in EntryMaps, NEW q \in SelectBySize(entries, MaxSizeBytes),
         NEW c \in ToSet(q), NEW k \in DOMAIN entries \ ToSet(q)
  PROVE  /\ entries[k].expired => entries[c].expired
         /\ entries[k].expired = entries[c].expired => entries[k].size <= entries[c].size
<1>1. /\ IsFiniteSet(DOMAIN entries) /\ Sizes(entries, DOMAIN entries) /\ MaxSizeBytes \in Nat
  BY EntryFacts, EvictionAssumption
<1>2. q \in Seq(DOMAIN entries) /\ q # <<>>
  <2>1. q \in Seq(DOMAIN entries)
    BY <1>1, SelectBySizeFacts
  <2>2. ToSet(<<>>) = {}
    BY DEF ToSet
  <2> QED BY <2>1, <2>2
<1>3. PICK s \in Seq(DOMAIN entries) : \E n \in 0..Len(s) :
        q = SubSeq(s, 1, n) /\ Distinct(s) /\ ToSet(s) = DOMAIN entries /\ SizeOrder(s, entries)
  BY <1>1, <1>2, SelectBySizeFacts
<1>4. PICK n \in 0..Len(s) :
        q = SubSeq(s, 1, n) /\ Distinct(s) /\ ToSet(s) = DOMAIN entries /\ SizeOrder(s, entries)
  BY <1>3
<1>5. Len(q) = n /\ (\A i \in 1..n : q[i] = s[i]) /\ DOMAIN q = 1..n /\ DOMAIN s = 1..Len(s)
  BY <1>2, <1>4, PrefixFacts
<1>6. PICK i \in 1..n : c = s[i]
  BY <1>5 DEF ToSet
<1>7. PICK j \in 1..Len(s) : k = s[j]
  BY <1>4, <1>5 DEF ToSet
<1>8. ~ (j <= n)
  BY <1>5, <1>7 DEF ToSet
<1>9. i < j /\ i \in 1..Len(s)
  BY <1>4, <1>8
<1>10. ~ ExpiredThenLargest(entries[k], entries[c])
  BY <1>4, <1>6, <1>7, <1>9 DEF SizeOrder
<1>11. entries[k].size \in Nat /\ entries[c].size \in Nat
  BY <1>1, <1>4, <1>6, <1>9 DEF Sizes, ToSet
<1> QED BY <1>10, <1>11 DEF ExpiredThenLargest

(* Both parts together keep no more than the size strategy does.           *)
LEMMA CompositeAnswers ==
  ASSUME StrategyTypeOK, Listed, NEW entries \in EntryMaps, NEW s \in SelectBySize(entries, MaxSizeBytes),
         NEW lru, lru = [priority |-> LRUPriority, keys |-> SelectLRU(accessList, entries)],
         NEW q \in Combine(<<lru, [priority |-> SizePriority, keys |-> s]>>)
  PROVE  /\ q \in Seq(Key) /\ Distinct(q) /\ ToSet(q) \subseteq DOMAIN entries
         /\ TotalSize(entries, DOMAIN entries \ ToSet(q)) <= MaxSizeBytes
<1>1. /\ DOMAIN entries \in SUBSET Key /\ IsFiniteSet(DOMAIN entries)
      /\ Sizes(entries, DOMAIN entries) /\ MaxSizeBytes \in Nat
  BY EntryFacts, EvictionAssumption
<1>2. /\ s \in Seq(DOMAIN entries) /\ Distinct(s)
      /\ TotalSize(entries, DOMAIN entries \ ToSet(s)) <= MaxSizeBytes
  BY <1>1, SelectBySizeFacts
<1>3. s \in Seq(Key) /\ ToSet(s) \subseteq DOMAIN entries
  BY <1>1, <1>2 DEF ToSet
<1>4. lru.keys \in Seq(Key) /\ Distinct(lru.keys) /\ ToSet(lru.keys) \subseteq DOMAIN entries
  <2>1. lru.keys = SelectLRU(accessList, entries)
    OBVIOUS
  <2> QED BY <2>1, LruOrder
<1>5. PICK parts : parts = <<lru, [priority |-> SizePriority, keys |-> s]>>
  OBVIOUS
<1>6. DOMAIN parts = {1, 2} /\ parts[1].keys = lru.keys /\ parts[2].keys = s
  BY <1>5
<1>7. IsFiniteSet(DOMAIN parts) /\ Answers(parts, Key)
  <2>1. IsFiniteSet({1, 2})
    <3>1. 1..2 = {1, 2}
      OBVIOUS
    <3>2. IsFiniteSet(1..2)
      <4>1. 1 \in Int /\ 2 \in Int
        OBVIOUS
      <4> QED BY <4>1, FS_Interval
    <3> QED BY <3>1, <3>2
  <2> QED BY <1>2, <1>3, <1>4, <1>6, <2>1 DEF Answers
<1>8. /\ q \in Seq(Key) /\ Distinct(q)
      /\ ToSet(q) = UNION {ToSet(parts[i].keys) : i \in DOMAIN parts}
  <2>1. q \in Combine(parts)
    BY <1>5
  <2> QED BY <1>7, <2>1, CombineFacts
<1>9. ToSet(q) = ToSet(lru.keys) \cup ToSet(s)
  BY <1>6, <1>8
<1>10. PICK A : A = DOMAIN entries \ ToSet(s)
  OBVIOUS
<1>11. PICK B : B = DOMAIN entries \ ToSet(q)
  OBVIOUS
<1>12. B \subseteq A /\ A \subseteq DOMAIN entries /\ IsFiniteSet(A) /\ Sizes(entries, A) /\ IsFiniteSet(B)
  BY <1>1, <1>9, <1>10, <1>11, FS_Subset DEF Sizes
<1>13. TotalSize(entries, A) = TotalSize(entries, B) + TotalSize(entries, A \ B)
  BY <1>12, TotalSizeSplits
<1>14. TotalSize(entries, B) \in Nat /\ TotalSize(entries, A \ B) \in Nat
  <2>1. IsFiniteSet(A \ B) /\ Sizes(entries, A \ B) /\ Sizes(entries, B)
    BY <1>12, FS_Subset DEF Sizes
  <2> QED BY <1>12, <2>1, TotalSizeFacts
<1>15. TotalSize(entries, B) <= MaxSizeBytes
  BY <1>1, <1>2, <1>10, <1>13, <1>14
<1> QED BY <1>3, <1>4, <1>8, <1>9, <1>11, <1>15

LEMMA SelectInv ==
  ASSUME StrategyInv, NEW strategy \in Strategies, NEW entries \in EntryMaps, Select(strategy, entries)
  PROVE  StrategyInv'
<1> USE DEF StrategyInv
<1>1. PICK lru : lru = [priority |-> LRUPriority, keys |-> SelectLRU(accessList, entries)]
  OBVIOUS
<1>2. PICK s \in SelectBySize(entries, MaxSizeBytes) :
        \E keys \in CASE strategy = "lru" -> {lru.keys}
                      [] strategy = "size" -> {s}
                      [] strategy = "ttl" -> SelectExpired(entries)
                      [] strategy = "composite" ->
                           Combine(<<lru, [priority |-> SizePriority, keys |-> s]>>) :
          given' = [strategy |-> strategy, keys |-> keys]
  BY <1>1 DEF Select
<1>3. PICK keys : /\ given' = [strategy |-> strategy, keys |-> keys]
                  /\ strategy = "lru" => keys = lru.keys
                  /\ strategy = "size" => keys = s
                  /\ strategy = "ttl" => keys \in SelectExpired(entries)
                  /\ strategy = "composite" =>
                       keys \in Combine(<<lru, [priority |-> SizePriority, keys |-> s]>>)
  BY <1>2 DEF Strategies
<1>4. given'.strategy = strategy /\ given'.keys = keys /\ asked' = entries
      /\ UNCHANGED <<accessList, stuck, lastUse, uses>>
  BY <1>3 DEF Select
<1>5. /\ DOMAIN entries \in SUBSET Key /\ IsFiniteSet(DOMAIN entries)
      /\ Sizes(entries, DOMAIN entries) /\ MaxSizeBytes \in Nat
      /\ \A k \in DOMAIN entries : entries[k].expiry \in Nat
  BY EntryFacts, EvictionAssumption
<1>6. Listed'
  BY <1>4 DEF Listed
<1>7. ASSUME keys \in Seq(Key), ToSet(keys) \subseteq DOMAIN entries PROVE StrategyTypeOK'
  BY <1>4, <1>7 DEF StrategyTypeOK
<1>8. CASE strategy = "lru"
  <2>1. /\ keys \in Seq(Key) /\ ToSet(keys) = {k \in Key : lastUse[k] > 0} \cap DOMAIN entries
        /\ \A i, j \in DOMAIN keys : i < j => lastUse[keys[i]] < lastUse[keys[j]]
    BY <1>1, <1>3, <1>8, LruOrder
  <2>2. LruIsLeastRecentlyUsed'
    BY <1>4, <1>5, <2>1 DEF LruIsLeastRecentlyUsed, Chosen
  <2>3. Answer'
    BY <1>4, <1>8 DEF Answer, SizeFreesJustEnough, SizeKeepsTheRightOnes, TtlIsOldestFirst,
         CompositeFreesEnough, Answered
  <2> QED BY <1>6, <1>7, <2>1, <2>2, <2>3 DEF Answer
<1>9. CASE strategy = "size"
  <2>1. /\ keys \in Seq(DOMAIN entries) /\ keys = s
        /\ TotalSize(entries, DOMAIN entries \ ToSet(keys)) <= MaxSizeBytes
        /\ keys # <<>> =>
             TotalSize(entries, (DOMAIN entries \ ToSet(keys)) \cup {keys[Len(keys)]}) > MaxSizeBytes
    BY <1>3, <1>5, <1>9, SelectBySizeFacts
  <2>2. keys \in Seq(Key) /\ ToSet(keys) \subseteq DOMAIN entries
    BY <1>5, <2>1 DEF ToSet
  <2>3. SizeFreesJustEnough'
    BY <1>4, <2>1 DEF SizeFreesJustEnough, Chosen, Kept, Last
  <2>4. SizeKeepsTheRightOnes'
    BY <1>4, <2>1, SizeAnswers DEF SizeKeepsTheRightOnes, Chosen, Kept
  <2>5. LruIsLeastRecentlyUsed' /\ TtlIsOldestFirst' /\ CompositeFreesEnough'
    BY <1>4, <1>9 DEF LruIsLeastRecentlyUsed, TtlIsOldestFirst, CompositeFreesEnough, Answered
  <2> QED BY <1>6, <1>7, <2>2, <2>3, <2>4, <2>5
<1>10. CASE strategy = "ttl"
  <2>1. /\ keys \in Seq(DOMAIN entries)
        /\ ToSet(keys) = {k \in DOMAIN entries : entries[k].expired}
        /\ \A i, j \in DOMAIN keys : i < j => ~(entries[keys[j]].expiry < entries[keys[i]].expiry)
    BY <1>3, <1>5, <1>10, SelectExpiredFacts
  <2>2. keys \in Seq(Key) /\ ToSet(keys) \subseteq DOMAIN entries
    BY <1>5, <2>1 DEF ToSet
  <2>3. \A i \in DOMAIN keys : entries[keys[i]].expiry \in Nat
    BY <1>5, <2>1
  <2>4. DOMAIN entries \ ToSet(keys) = {k \in DOMAIN entries : ~entries[k].expired}
    BY <2>1
  <2>5. TtlIsOldestFirst'
    BY <1>4, <2>1, <2>3, <2>4 DEF TtlIsOldestFirst, Chosen, Kept
  <2>6. LruIsLeastRecentlyUsed' /\ SizeFreesJustEnough' /\ SizeKeepsTheRightOnes' /\ CompositeFreesEnough'
    BY <1>4, <1>10 DEF LruIsLeastRecentlyUsed, SizeFreesJustEnough, SizeKeepsTheRightOnes,
         CompositeFreesEnough, Answered
  <2> QED BY <1>6, <1>7, <2>2, <2>5, <2>6
<1>11. CASE strategy = "composite"
  <2>1. /\ keys \in Seq(Key) /\ Distinct(keys) /\ ToSet(keys) \subseteq DOMAIN entries
        /\ TotalSize(entries, DOMAIN entries \ ToSet(keys)) <= MaxSizeBytes
    BY <1>1, <1>3, <1>11, CompositeAnswers
  <2>2. CompositeFreesEnough'
    BY <1>4, <2>1 DEF CompositeFreesEnough, Chosen, Kept, Distinct
  <2>3. LruIsLeastRecentlyUsed' /\ SizeFreesJustEnough' /\ SizeKeepsTheRightOnes' /\ TtlIsOldestFirst'
    BY <1>4, <1>11 DEF LruIsLeastRecentlyUsed, SizeFreesJustEnough, SizeKeepsTheRightOnes,
         TtlIsOldestFirst, Answered
  <2> QED BY <1>6, <1>7, <2>1, <2>2, <2>3
<1> QED BY <1>8, <1>9, <1>10, <1>11 DEF Strategies
----------------------------------------------------------------------------
LEMMA StrategyStepInv == ASSUME StrategyInv, [StrategyNext]_evictionVars PROVE StrategyInv'
<1>1. CASE UNCHANGED evictionVars
  <2>1. stuck' \in BOOLEAN
    BY <1>1 DEF evictionVars, StrategyInv, StrategyTypeOK
  <2> QED BY <1>1, <2>1, SameInv DEF evictionVars, answer
<1>2. ASSUME NEW k \in Key, OnAdd(k) \/ OnAccess(k) \/ OnRemove(k) PROVE StrategyInv'
  BY <1>2, OnAddInv, OnAccessInv, OnRemoveInv
<1>3. CASE Consume
  BY <1>3, ConsumeInv
<1>4. ASSUME NEW strategy \in Strategies, NEW entries \in EntryMaps, Select(strategy, entries) PROVE StrategyInv'
  BY <1>4, SelectInv
<1> QED BY <1>1, <1>2, <1>3, <1>4 DEF StrategyNext

LEMMA StrategyInvariant == StrategySpec => []StrategyInv
<1>1. StrategyInv /\ [StrategyNext]_evictionVars => StrategyInv'
  BY StrategyStepInv
<1> QED BY <1>1, StrategyInitInv, PTL DEF StrategySpec

(* LruIsLeastRecentlyUsed: moving list elements on use keeps the list in   *)
(* the order of last use, for any number of keys and uses.                 *)
THEOREM ListIsInOrderOfUse == StrategySpec => []LruIsLeastRecentlyUsed
<1>1. StrategyInv => LruIsLeastRecentlyUsed
  BY DEF StrategyInv
<1> QED BY <1>1, StrategyInvariant, PTL

(* SelectsTheRightOnes for any entries: size takes the expired, then the   *)
(* largest; TTL the expired, oldest first.                                 *)
THEOREM StrategiesSelectTheRightOnes == StrategySpec => []SelectsTheRightOnes
<1>1. StrategyInv => SelectsTheRightOnes
  BY DEF StrategyInv, SelectsTheRightOnes
<1> QED BY <1>1, StrategyInvariant, PTL

(* SelectsEnough for any entries, sizes, limit and priorities: what is     *)
(* kept fits, the size strategy alone takes no key too many, and the       *)
(* combination names none twice.                                           *)
THEOREM StrategiesSelectEnough == StrategySpec => []SelectsEnough
<1>1. StrategyInv => SelectsEnough
  BY DEF StrategyInv, SelectsEnough
<1> QED BY <1>1, StrategyInvariant, PTL
----------------------------------------------------------------------------
(* cm.mu: who is where, given who has announced and who reads.             *)
Locked(a) ==
  /\ pc[a] \in {"put", "clear", "close"} => writer = a
  /\ Writing(a) => writer = a /\ readers = {}
  /\ Reading(a) => a \in readers
  /\ pc[a] = "clear" /\ op[a] # "clear" => readers = {}

(* What a call has to know at its points.                                  *)
Called(c) ==
  /\ pc[c] = "lock" => op[c] \in {"put", "reput", "clear", "close"}
  /\ pc[c] = "rlock" => op[c] \in {"get", "size"}
  /\ op[c] \in KeyOps => key[c] \in Key
  /\ pc[c] \in {"put", "index", "add", "stuck", "get", "touch"} => op[c] \in KeyOps
  /\ pc[c] = "index" => stored[key[c]] # "none"

(* The last save is Close's until a Put, a Clear or the cleanup is at work.*)
LastSaved ==
  saved /\ pc[Cleaner] \in {"idle", "exit", "gone", "error"} /\ (\A c \in Client : pc[c] # "clear")
    => disk = index

(* What an eviction has to free: the keys it has listed, then those it has *)
(* selected and not yet deleted.                                           *)
Due == Indexed \ (late \cup unlisted)

Planned ==
  /\ pc[Cleaner] \in {"expired", "expire"} => op[Cleaner] # "evict"
  /\ pc[Cleaner] \in {"collect", "select", "evict"} => op[Cleaner] = "evict"
  /\ pc[Cleaner] \in {"collect", "select"} => Due \subseteq todo[Cleaner] \cap Tracked(accessList)
  /\ pc[Cleaner] = "evict" => Due \subseteq ToSet(plan)
  /\ pc[Cleaner] \in {"metrics", "delete"} /\ op[Cleaner] = "evict" =>
       Due \subseteq ToSet(plan) \cup {key[Cleaner]}

Inv ==
  /\ pc \in [Actor -> ClientPoints \cup CleanerPoints] /\ TypeOK
  /\ \A a \in Actor : Locked(a)
  /\ \A c \in Client : Called(c)
  /\ LastSaved
  /\ IndexBacked
  /\ IndexedIsTracked
  /\ Planned

LEMMA TailFacts ==
  ASSUME NEW S, NEW s \in Seq(S), s # <<>>
  PROVE  Head(s) \in S /\ Tail(s) \in Seq(S) /\ ToSet(s) = {Head(s)} \cup ToSet(Tail(s))
<1>1. Head(s) \in S /\ Tail(s) \in Seq(S) /\ Len(Tail(s)) = Len(s) - 1
  OBVIOUS
<1>2. DOMAIN s = 1..Len(s) /\ DOMAIN Tail(s) = 1..(Len(s) - 1) /\ Len(s) \in Nat \ {0}
  BY <1>1
<1>3. \A i \in 1..(Len(s) - 1) : Tail(s)[i] = s[i + 1] /\ i + 1 \in 1..Len(s)
  BY <1>1, <1>2
<1>4. Head(s) = s[1] /\ 1 \in 1..Len(s)
  BY <1>2
<1>5. ASSUME NEW i \in 1..Len(s) PROVE s[i] \in {Head(s)} \cup ToSet(Tail(s))
  <2>1. i = 1 \/ (i - 1 \in 1..(Len(s) - 1) /\ s[i] = Tail(s)[i - 1])
    BY <1>2, <1>3
  <2> QED BY <1>2, <1>4, <2>1 DEF ToSet
<1>6. {Head(s)} \cup ToSet(Tail(s)) \subseteq ToSet(s)
  BY <1>2, <1>3, <1>4 DEF ToSet
<1> QED BY <1>1, <1>2, <1>5, <1>6 DEF ToSet

(* Compaction and deletion drop entries and add none.                      *)
LEMMA LiveFacts ==
  ASSUME NEW idx \in [Key -> States]
  PROVE  /\ Live(idx) \in [Key -> States]
         /\ \A k \in Key : Live(idx)[k] # "none" => idx[k] # "none"
BY DEF Live, States

LEMMA DeleteFacts ==
  ASSUME TypeOK, NEW k, IndexDelete(k)
  PROVE  /\ index' \in [Key -> States] /\ disk' \in [Key -> States] /\ saved' \in BOOLEAN
         /\ \A l \in Key : index'[l] # "none" => index[l] # "none" /\ l # k
         /\ \A l \in Key : disk'[l] # "none" => disk[l] # "none" \/ index[l] # "none"
<1>1. /\ Without(k) \in [Key -> States]
      /\ \A l \in Key : Without(k)[l] # "none" => index[l] # "none" /\ l # k
  BY DEF TypeOK, States, Without
<1>2. /\ index' \in {Without(k), Live(Without(k))}
      /\ disk' \in {disk, index'}
      /\ saved' = saved \/ \E ok \in BOOLEAN : saved' = (saved /\ ok)
  BY DEF IndexDelete, PersistAgain, Persist
<1>3. saved' \in BOOLEAN
  <2>1. CASE saved' = saved
    BY <2>1 DEF TypeOK
  <2>2. CASE \E ok \in BOOLEAN : saved' = (saved /\ ok)
    BY <2>2, Zenon
  <2> QED BY <1>2, <2>1, <2>2
<1>4. /\ index' \in [Key -> States]
      /\ \A l \in Key : index'[l] # "none" => Without(k)[l] # "none"
  BY <1>1, <1>2, LiveFacts
<1> QED BY <1>1, <1>2, <1>3, <1>4 DEF TypeOK

(* A save that failed does not count as one.                               *)
LEMMA PersistFacts ==
  ASSUME NEW idx, NEW ok \in BOOLEAN, Persist(idx, ok)
  PROVE  disk' \in {disk, idx} /\ (ok => disk' = idx)
BY DEF Persist

LEMMA PersistAgainFacts ==
  ASSUME NEW idx, NEW ok \in BOOLEAN, PersistAgain(idx, ok)
  PROVE  /\ disk' \in {disk, idx} /\ (ok => disk' = idx)
         /\ saved' \in BOOLEAN /\ (saved' => saved /\ ok)
<1>1. Persist(idx, ok) /\ saved' = (saved /\ ok)
  BY DEF PersistAgain
<1>2. saved' \in BOOLEAN /\ (saved' => saved /\ ok)
  BY <1>1, Zenon
<1> QED BY <1>1, <1>2, PersistFacts

LEMMA InitInv == Init => Inv
<1> SUFFICES ASSUME Init PROVE Inv
  OBVIOUS
<1> USE CoordinatorAssumption DEF Init, NoKeys
<1>1. pc \in [Actor -> ClientPoints \cup CleanerPoints] /\ TypeOK
  <2>1. pc \in [Actor -> ClientPoints \cup CleanerPoints]
    BY DEF ClientPoints, CleanerPoints
  <2>2. stored \in [Key -> States \cup {"dropped"}] /\ index \in [Key -> States] /\ disk \in [Key -> States]
    BY DEF States
  <2>3. accessList \in Seq(Key) /\ plan \in Seq(Key)
    OBVIOUS
  <2>4. closed \in BOOLEAN /\ saved \in BOOLEAN
    BY Zenon
  <2> QED BY <2>1, <2>2, <2>3, <2>4 DEF TypeOK, Actor, ClientPoints, CleanerPoints
<1>2. ASSUME NEW a \in Actor PROVE Locked(a)
  BY DEF Locked, Writing, Reading, Actor
<1>3. ASSUME NEW c \in Client PROVE Called(c)
  BY DEF Called, Actor, KeyOps
<1>4. LastSaved /\ IndexBacked /\ IndexedIsTracked /\ Planned
  BY DEF LastSaved, IndexBacked, IndexedIsTracked, Indexed, Planned, Due, Actor
<1> QED BY <1>1, <1>2, <1>3, <1>4 DEF Inv

(* What the composite strategy selects holds every tracked key it is given.*)
LEMMA PlanFacts ==
  ASSUME NEW T \in SUBSET Key, NEW list \in Seq(Key),
         NEW bySize \in SelectBySize(Bare(T), MaxSizeBytes)
  PROVE  /\ AppendNew(SelectLRU(list, Bare(T)), bySize) \in Seq(Key)
         /\ Tracked(list) \cap T \subseteq ToSet(AppendNew(SelectLRU(list, Bare(T)), bySize))
<1>1. DOMAIN Bare(T) = T /\ \A k \in T : Bare(T)[k].size = EntrySize
  BY DEF Bare
<1>2. IsFiniteSet(T) /\ MaxSizeBytes \in Nat /\ EntrySize \in Nat
  BY FS_Subset, CoordinatorAssumption
<1>3. PICK entries : entries = Bare(T)
  OBVIOUS
<1>4. IsFiniteSet(DOMAIN entries) /\ Sizes(entries, DOMAIN entries)
  BY <1>1, <1>2, <1>3 DEF Sizes
<1>5. bySize \in Seq(T)
  BY <1>1, <1>2, <1>3, <1>4, SelectBySizeFacts
<1>6. bySize \in Seq(Key)
  BY <1>5
<1>7. PICK lru : lru = SelectLRU(list, Bare(T))
  OBVIOUS
<1>8. lru \in Seq(Key) /\ ToSet(lru) = Tracked(list) \cap T
  BY <1>1, <1>7, SelectLRUFacts
<1>9. AppendNew(lru, bySize) \in Seq(Key) /\ ToSet(lru) \subseteq ToSet(AppendNew(lru, bySize))
  BY <1>6, <1>8, AppendNewFacts
<1> QED BY <1>7, <1>8, <1>9
----------------------------------------------------------------------------
(* Each step of a client, of the cleanup, of time or of a restart keeps it.*)

LEMMA BeginInv ==
  ASSUME Inv, NEW c \in Client, NEW o \in Ops \ {"cleanup"}, NEW k \in Key \cup {NoKey}, Begin(c, o, k)
  PROVE  Inv'
<1> USE CoordinatorAssumption DEF Inv, Begin, KeyOps, Goto, data, mutex, call, cleaning, ghosts
<1>1. pc' \in [Actor -> ClientPoints \cup CleanerPoints] /\ TypeOK'
  BY DEF TypeOK, Called, Ops, States, ClientPoints, CleanerPoints, Actor
<1>2. ASSUME NEW a \in Actor PROVE Locked(a)'
  BY DEF TypeOK, Locked, Called, Writing, Reading, ClientPoints, CleanerPoints, Actor
<1>3. ASSUME NEW d \in Client PROVE Called(d)'
  <2>1. op' = [op EXCEPT ![c] = o] /\ key' = [key EXCEPT ![c] = k] /\ pc[c] = "idle"
        /\ pc' = [pc EXCEPT ![c] = IF o \in {"get", "size"} THEN "rlock" ELSE "lock"]
        /\ stored' = stored
    OBVIOUS
  <2>2. o \in {"get", "put", "reput", "size", "clear", "close"} /\ (o \in KeyOps => k \in Key)
    BY DEF Ops
  <2>3. CASE d = c
    BY <2>1, <2>2, <2>3 DEF TypeOK, Called, KeyOps, Actor
  <2>4. CASE d # c
    <3>1. pc'[d] = pc[d] /\ op'[d] = op[d] /\ key'[d] = key[d]
      BY <2>1, <2>4 DEF TypeOK, Actor
    <3> QED BY <2>1, <3>1 DEF Called
  <2> QED BY <2>3, <2>4
<1>4. LastSaved'
  BY DEF TypeOK, LastSaved, Actor, ClientPoints
<1>5. IndexBacked'
  BY DEF TypeOK, IndexBacked, Called
<1>6. IndexedIsTracked'
  BY DEF TypeOK, IndexedIsTracked, Indexed, BeingPut, Actor
<1>7. Planned'
  BY DEF TypeOK, Planned, Due, Indexed, Actor
<1> QED BY <1>1, <1>2, <1>3, <1>4, <1>5, <1>6, <1>7

LEMMA AnnounceInv ==
  ASSUME Inv, NEW c \in Actor, Announce(c)
  PROVE  Inv'
<1> USE CoordinatorAssumption DEF Inv, Announce, Goto, data, mutex, call, cleaning, ghosts
<1>1. pc' \in [Actor -> ClientPoints \cup CleanerPoints] /\ TypeOK'
  BY DEF TypeOK, Called, Ops, States, ClientPoints, CleanerPoints, Actor
<1>2. ASSUME NEW a \in Actor PROVE Locked(a)'
  BY DEF TypeOK, Locked, Called, Writing, Reading, ClientPoints, CleanerPoints, Actor
<1>3. ASSUME NEW d \in Client PROVE Called(d)'
  BY DEF TypeOK, Called, KeyOps, Actor, CleanerPoints
<1>4. LastSaved'
  <2>1. saved' = saved /\ disk' = disk /\ index' = index
    OBVIOUS
  <2>2. \A a \in Actor \ {c} : pc'[a] = pc[a]
    BY DEF TypeOK, Actor
  <2>3. c = Cleaner => pc'[c] = pc[c] \/ pc[c] = "lock"
    BY DEF TypeOK, Actor
  <2>4. pc[Cleaner] # "lock"
    BY DEF TypeOK, CleanerPoints
  <2>5. c \in Client => pc[c] # "clear"
    OBVIOUS
  <2> QED BY <2>1, <2>2, <2>3, <2>4, <2>5 DEF LastSaved, Actor
<1>5. IndexBacked'
  BY DEF TypeOK, IndexBacked, Called
<1>6. IndexedIsTracked'
  <2>1. accessList' = accessList /\ unlisted' = unlisted /\ index' = index
    OBVIOUS
  <2>2. BeingPut' = BeingPut
    <3>1. \A d \in Client : pc[d] \in {"add", "stuck"} <=> pc'[d] \in {"add", "stuck"}
      BY DEF TypeOK, Called, Actor
    <3> QED BY <3>1 DEF BeingPut
  <2> QED BY <2>1, <2>2 DEF IndexedIsTracked, Indexed
<1>7. Planned'
  <2>1. Due' = Due /\ plan' = plan /\ todo'[Cleaner] = todo[Cleaner]
        /\ key'[Cleaner] = key[Cleaner] /\ op'[Cleaner] = op[Cleaner]
    BY DEF TypeOK, Due, Indexed, Actor
  <2>2. accessList' = accessList
    OBVIOUS
  <2>3. pc[Cleaner] # "lock"
    BY DEF TypeOK, CleanerPoints
  <2>4. pc'[Cleaner] = pc[Cleaner]
    BY <2>3 DEF TypeOK, Actor
  <2> QED BY <2>1, <2>2, <2>4 DEF Planned
<1> QED BY <1>1, <1>2, <1>3, <1>4, <1>5, <1>6, <1>7

LEMMA RLockInv ==
  ASSUME Inv, NEW c \in Client, RLock(c)
  PROVE  Inv'
<1> USE CoordinatorAssumption DEF Inv, RLock, Goto, data, mutex, call, cleaning, ghosts
<1>1. pc' \in [Actor -> ClientPoints \cup CleanerPoints] /\ TypeOK'
  BY DEF TypeOK, Called, Ops, States, ClientPoints, CleanerPoints, Actor
<1>2. ASSUME NEW a \in Actor PROVE Locked(a)'
  BY ZenonT(30) DEF TypeOK, Locked, Called, Writing, Reading, ClientPoints, CleanerPoints, Actor
<1>3. ASSUME NEW d \in Client PROVE Called(d)'
  BY DEF TypeOK, Called, KeyOps, Actor, CleanerPoints
<1>4. LastSaved'
  BY DEF TypeOK, LastSaved, Actor, ClientPoints
<1>5. IndexBacked'
  BY DEF TypeOK, IndexBacked, Called
<1>6. IndexedIsTracked'
  BY DEF TypeOK, IndexedIsTracked, Indexed, BeingPut, Actor
<1>7. Planned'
  BY DEF TypeOK, Planned, Due, Indexed, Actor
<1> QED BY <1>1, <1>2, <1>3, <1>4, <1>5, <1>6, <1>7

LEMMA UnlockInv ==
  ASSUME Inv, NEW c \in Client, Unlock(c)
  PROVE  Inv'
<1> USE CoordinatorAssumption DEF Inv, Unlock, Goto, data, mutex, call, cleaning, ghosts
<1>1. pc' \in [Actor -> ClientPoints \cup CleanerPoints] /\ TypeOK'
  BY DEF TypeOK, Called, Ops, States, ClientPoints, CleanerPoints, Actor
<1>2. ASSUME NEW a \in Actor PROVE Locked(a)'
  BY DEF TypeOK, Locked, Called, Writing, Reading, ClientPoints, CleanerPoints, Actor
<1>3. ASSUME NEW d \in Client PROVE Called(d)'
  BY DEF TypeOK, Called, KeyOps, Actor, CleanerPoints
<1>4. LastSaved'
  BY DEF TypeOK, LastSaved, Actor, ClientPoints
<1>5. IndexBacked'
  BY DEF TypeOK, IndexBacked, Called
<1>6. IndexedIsTracked'
  BY DEF TypeOK, IndexedIsTracked, Indexed, BeingPut, Actor
<1>7. Planned'
  BY DEF TypeOK, Planned, Due, Indexed, Actor
<1> QED BY <1>1, <1>2, <1>3, <1>4, <1>5, <1>6, <1>7

LEMMA PutFileInv ==
  ASSUME Inv, NEW c \in Client, PutFile(c)
  PROVE  Inv'
<1> USE CoordinatorAssumption DEF Inv, PutFile, Holds, Goto, data, mutex, call, cleaning, ghosts
<1>1. pc' \in [Actor -> ClientPoints \cup CleanerPoints] /\ TypeOK'
  <2>0. \E l \in {"index", "unlock"} : pc' = [pc EXCEPT ![c] = l]
    OBVIOUS
  <2>1. pc' \in [Actor -> ClientPoints \cup CleanerPoints]
    BY <2>0 DEF TypeOK, ClientPoints, CleanerPoints, Actor
  <2>2. /\ \A d \in Client : pc'[d] \in ClientPoints
        /\ pc'[Cleaner] \in CleanerPoints
    BY <2>0 DEF TypeOK, ClientPoints, CleanerPoints, Actor
  <2>3. /\ stored' \in [Key -> States \cup {"dropped"}]
        /\ index' \in [Key -> States] /\ disk' \in [Key -> States]
    <3>1. stored' \in {stored, [stored EXCEPT ![key[c]] = "live"]} /\ index' = index /\ disk' = disk
      OBVIOUS
    <3>2. "live" \in States \cup {"dropped"}
      BY DEF States
    <3>3. stored \in [Key -> States \cup {"dropped"}] /\ index \in [Key -> States] /\ disk \in [Key -> States]
      BY DEF TypeOK
    <3>4. CASE stored' = [stored EXCEPT ![key[c]] = "live"]
      <4>1. stored' \in [Key -> States \cup {"dropped"}]
        BY <3>2, <3>3, <3>4
      <4> QED BY <3>1, <3>3, <4>1
    <3> QED BY <3>1, <3>3, <3>4
  <2>4. accessList' \in Seq(Key) /\ plan' \in Seq(Key)
    BY DEF TypeOK, Called
  <2>5. /\ op' \in [Actor -> Ops \cup {"none", "evict"}] /\ key' \in [Actor -> Key \cup {NoKey}]
        /\ todo' \in [Actor -> SUBSET Key]
    BY DEF TypeOK, Ops, Indexed, Actor
  <2>6. closed' \in BOOLEAN /\ saved' \in BOOLEAN
    BY DEF TypeOK
  <2>7. /\ writer' \in Actor \cup {NoActor} /\ readers' \in SUBSET Actor
        /\ late' \in SUBSET Key /\ unlisted' \in SUBSET Key
    BY DEF TypeOK, Called, Actor
  <2> QED BY <2>1, <2>2, <2>3, <2>4, <2>5, <2>6, <2>7 DEF TypeOK
<1>2. ASSUME NEW a \in Actor PROVE Locked(a)'
  BY DEF TypeOK, Locked, Called, Writing, Reading, ClientPoints, CleanerPoints, Actor
<1>3. ASSUME NEW d \in Client PROVE Called(d)'
  BY DEF TypeOK, Called, KeyOps, Actor, CleanerPoints
<1>4. LastSaved'
  BY DEF TypeOK, LastSaved, Actor, ClientPoints
<1>5. IndexBacked'
  BY DEF TypeOK, IndexBacked, Called
<1>6. IndexedIsTracked'
  <2>1. accessList' = accessList /\ unlisted' = unlisted /\ index' = index
    OBVIOUS
  <2>2. BeingPut' = BeingPut
    BY DEF TypeOK, BeingPut, Actor, ClientPoints, CleanerPoints
  <2> QED BY <2>1, <2>2 DEF IndexedIsTracked, Indexed
<1>7. Planned'
  BY DEF TypeOK, Planned, Due, Indexed, Actor
<1> QED BY <1>1, <1>2, <1>3, <1>4, <1>5, <1>6, <1>7

LEMMA PutIndexInv ==
  ASSUME Inv, NEW c \in Client, PutIndex(c)
  PROVE  Inv'
<1> USE CoordinatorAssumption DEF Inv, PutIndex, Goto, data, mutex, call, cleaning, ghosts
<1>1. pc' \in [Actor -> ClientPoints \cup CleanerPoints] /\ TypeOK'
  <2>0. \E l \in {"add", "unlock"} : pc' = [pc EXCEPT ![c] = l]
    OBVIOUS
  <2>1. pc' \in [Actor -> ClientPoints \cup CleanerPoints]
    BY <2>0 DEF TypeOK, ClientPoints, CleanerPoints, Actor
  <2>2. /\ \A d \in Client : pc'[d] \in ClientPoints
        /\ pc'[Cleaner] \in CleanerPoints
    BY <2>0 DEF TypeOK, ClientPoints, CleanerPoints, Actor
  <2>3. /\ stored' \in [Key -> States \cup {"dropped"}]
        /\ index' \in [Key -> States] /\ disk' \in [Key -> States]
    <3>1. /\ stored' = stored /\ index' = [index EXCEPT ![key[c]] = "live"]
          /\ disk' \in {disk, index'}
      BY PersistFacts
    <3>2. "live" \in States
      BY DEF States
    <3>3. index' \in [Key -> States]
      BY <3>1, <3>2 DEF TypeOK
    <3> QED BY ZenonT(30), <3>1, <3>3 DEF TypeOK
  <2>4. accessList' \in Seq(Key) /\ plan' \in Seq(Key)
    BY DEF TypeOK, Called
  <2>5. /\ op' \in [Actor -> Ops \cup {"none", "evict"}] /\ key' \in [Actor -> Key \cup {NoKey}]
        /\ todo' \in [Actor -> SUBSET Key]
    BY DEF TypeOK, Ops, Indexed, Actor
  <2>6. closed' \in BOOLEAN /\ saved' \in BOOLEAN
    
    <3>1. closed' = closed /\ saved' = FALSE
      OBVIOUS
    <3> QED BY <3>1, Zenon DEF TypeOK
  <2>7. /\ writer' \in Actor \cup {NoActor} /\ readers' \in SUBSET Actor
        /\ late' \in SUBSET Key /\ unlisted' \in SUBSET Key
    BY DEF TypeOK, Called, Actor
  <2> QED BY <2>1, <2>2, <2>3, <2>4, <2>5, <2>6, <2>7 DEF TypeOK
<1>2. ASSUME NEW a \in Actor PROVE Locked(a)'
  BY DEF TypeOK, Locked, Called, Writing, Reading, ClientPoints, CleanerPoints, Actor
<1>3. ASSUME NEW d \in Client PROVE Called(d)'
  BY DEF TypeOK, Called, KeyOps, Actor, CleanerPoints
<1>4. LastSaved'
  BY PersistFacts DEF TypeOK, LastSaved, Actor, ClientPoints
<1>5. IndexBacked'
  <2>1. stored' = stored /\ index' = [index EXCEPT ![key[c]] = "live"] /\ stored[key[c]] # "none"
    BY DEF Called
  <2>2. disk' \in {disk, index'}
    BY PersistFacts
  <2> QED BY <2>1, <2>2 DEF TypeOK, IndexBacked
<1>6. IndexedIsTracked'
  <2>1. /\ accessList' = accessList /\ index' = [index EXCEPT ![key[c]] = "live"]
        /\ pc[c] = "index" /\ key' = key /\ key[c] \in Key
    BY DEF TypeOK, Called, KeyOps
  <2>2. Indexed' \subseteq Indexed \cup {key[c]}
    BY <2>1 DEF TypeOK, Indexed
  <2>3. \A d \in Client \ {c} : pc'[d] = pc[d]
    BY DEF TypeOK, Actor
  <2>4. BeingPut \subseteq BeingPut'
    BY <2>1, <2>3 DEF BeingPut
  <2>5. \/ pc'[c] = "add" /\ unlisted' = unlisted \ {key[c]}
        \/ unlisted' = unlisted \cup {key[c]}
    BY DEF TypeOK, Actor
  <2>6. key[c] \in unlisted' \cup BeingPut' /\ unlisted \subseteq unlisted' \cup {key[c]}
    BY <2>1, <2>5 DEF BeingPut
  <2> QED BY <2>1, <2>2, <2>4, <2>6 DEF IndexedIsTracked
<1>7. Planned'
  BY PersistFacts DEF TypeOK, Planned, Due, Indexed, Actor
<1> QED BY <1>1, <1>2, <1>3, <1>4, <1>5, <1>6, <1>7

LEMMA NotifyAddInv ==
  ASSUME Inv, NEW c \in Client, NotifyAdd(c)
  PROVE  Inv'
<1> USE CoordinatorAssumption DEF Inv, NotifyAdd, Stuck, Goto, data, mutex, call, cleaning, ghosts
<1>1. pc' \in [Actor -> ClientPoints \cup CleanerPoints] /\ TypeOK'
  <2>0. \E l \in {"stuck", "unlock"} : pc' = [pc EXCEPT ![c] = l]
    OBVIOUS
  <2>1. pc' \in [Actor -> ClientPoints \cup CleanerPoints]
    BY <2>0 DEF TypeOK, ClientPoints, CleanerPoints, Actor
  <2>2. /\ \A d \in Client : pc'[d] \in ClientPoints
        /\ pc'[Cleaner] \in CleanerPoints
    BY <2>0 DEF TypeOK, ClientPoints, CleanerPoints, Actor
  <2>3. /\ stored' \in [Key -> States \cup {"dropped"}]
        /\ index' \in [Key -> States] /\ disk' \in [Key -> States]
    BY DEF TypeOK, States, Called, ClientPoints
  <2>4. accessList' \in Seq(Key) /\ plan' \in Seq(Key)
    BY MoveToFrontFacts DEF TypeOK, Called
  <2>5. /\ op' \in [Actor -> Ops \cup {"none", "evict"}] /\ key' \in [Actor -> Key \cup {NoKey}]
        /\ todo' \in [Actor -> SUBSET Key]
    BY DEF TypeOK, Ops, Indexed, Actor
  <2>6. closed' \in BOOLEAN /\ saved' \in BOOLEAN
    BY DEF TypeOK
  <2>7. /\ writer' \in Actor \cup {NoActor} /\ readers' \in SUBSET Actor
        /\ late' \in SUBSET Key /\ unlisted' \in SUBSET Key
    BY DEF TypeOK, Called, Actor
  <2> QED BY <2>1, <2>2, <2>3, <2>4, <2>5, <2>6, <2>7 DEF TypeOK
<1>2. ASSUME NEW a \in Actor PROVE Locked(a)'
  BY DEF TypeOK, Locked, Called, Writing, Reading, ClientPoints, CleanerPoints, Actor
<1>3. ASSUME NEW d \in Client PROVE Called(d)'
  BY DEF TypeOK, Called, KeyOps, Actor, CleanerPoints
<1>4. LastSaved'
  BY MoveToFrontFacts DEF TypeOK, LastSaved, Actor, ClientPoints
<1>5. IndexBacked'
  BY MoveToFrontFacts DEF TypeOK, IndexBacked, Called
<1>6. IndexedIsTracked'
  <2>1. accessList \in Seq(Key) /\ key[c] \in Key /\ pc[c] = "add" /\ key' = key
    BY DEF TypeOK, Called, KeyOps
  <2>2. Indexed' = Indexed /\ unlisted' = unlisted
    BY DEF Indexed
  <2>3. \A d \in Client \ {c} : pc'[d] = pc[d]
    BY DEF TypeOK, Actor
  <2>4. BeingPut \subseteq BeingPut' \cup {key[c]}
    BY <2>1, <2>3 DEF BeingPut
  <2>5. CASE accessList' = accessList
    <3>1. pc'[c] = "stuck" \/ key[c] \in Tracked(accessList)
      <4>1. CASE key[c] \in Tracked(accessList)
        BY <4>1
      <4>2. CASE accessList' = MoveToFront(accessList, key[c])
        BY <2>1, <2>5, <4>2, MoveToFrontFacts
      <4> QED BY <4>1, <4>2
    <3>2. BeingPut \subseteq BeingPut' \cup Tracked(accessList)
      BY <2>1, <2>4, <3>1 DEF BeingPut
    <3> QED BY <2>2, <2>5, <3>2 DEF IndexedIsTracked
  <2>6. CASE accessList' = MoveToFront(accessList, key[c])
    <3>1. Distinct(accessList)
      BY DEF IndexedIsTracked, Distinct
    <3>2. Distinct(accessList') /\ Tracked(accessList') = Tracked(accessList) \cup {key[c]}
      BY <2>6, <2>1, <3>1, MoveToFrontFacts
    <3> QED BY <2>2, <2>4, <3>2 DEF IndexedIsTracked, Distinct
  <2> QED BY <2>5, <2>6
<1>7. Planned'
  <2>1. Due' = Due /\ plan' = plan /\ todo'[Cleaner] = todo[Cleaner]
        /\ key'[Cleaner] = key[Cleaner] /\ op'[Cleaner] = op[Cleaner]
    BY DEF TypeOK, Due, Indexed, Actor
  <2>2. accessList \in Seq(Key) /\ key[c] \in Key /\ pc'[Cleaner] = pc[Cleaner]
    BY DEF TypeOK, Called, KeyOps, Actor
  <2>3. Tracked(accessList) \subseteq Tracked(accessList')
    BY <2>2, MoveToFrontFacts
  <2> QED BY <2>1, <2>2, <2>3 DEF Planned
<1> QED BY <1>1, <1>2, <1>3, <1>4, <1>5, <1>6, <1>7

LEMMA ReadFileInv ==
  ASSUME Inv, NEW c \in Client, ReadFile(c)
  PROVE  Inv'
<1> USE CoordinatorAssumption DEF Inv, ReadFile, Goto, data, mutex, call, cleaning, ghosts
<1>1. pc' \in [Actor -> ClientPoints \cup CleanerPoints] /\ TypeOK'
  <2>0. \E l \in {"touch", "unlock"} : pc' = [pc EXCEPT ![c] = l]
    OBVIOUS
  <2>1. pc' \in [Actor -> ClientPoints \cup CleanerPoints]
    BY <2>0 DEF TypeOK, ClientPoints, CleanerPoints, Actor
  <2>2. /\ \A d \in Client : pc'[d] \in ClientPoints
        /\ pc'[Cleaner] \in CleanerPoints
    BY <2>0 DEF TypeOK, ClientPoints, CleanerPoints, Actor
  <2>3. /\ stored' \in [Key -> States \cup {"dropped"}]
        /\ index' \in [Key -> States] /\ disk' \in [Key -> States]
    <3>1. stored' \in {stored, [stored EXCEPT ![key[c]] = "dropped"]} /\ index' = index /\ disk' = disk
      OBVIOUS
    <3> QED BY ZenonT(30), <3>1 DEF TypeOK, States
  <2>4. accessList' \in Seq(Key) /\ plan' \in Seq(Key)
    BY DEF TypeOK, Called
  <2>5. /\ op' \in [Actor -> Ops \cup {"none", "evict"}] /\ key' \in [Actor -> Key \cup {NoKey}]
        /\ todo' \in [Actor -> SUBSET Key]
    BY DEF TypeOK, Ops, Indexed, Actor
  <2>6. closed' \in BOOLEAN /\ saved' \in BOOLEAN
    BY DEF TypeOK
  <2>7. /\ writer' \in Actor \cup {NoActor} /\ readers' \in SUBSET Actor
        /\ late' \in SUBSET Key /\ unlisted' \in SUBSET Key
    BY DEF TypeOK, Called, Actor
  <2> QED BY <2>1, <2>2, <2>3, <2>4, <2>5, <2>6, <2>7 DEF TypeOK
<1>2. ASSUME NEW a \in Actor PROVE Locked(a)'
  BY DEF TypeOK, Locked, Called, Writing, Reading, ClientPoints, CleanerPoints, Actor
<1>3. ASSUME NEW d \in Client PROVE Called(d)'
  BY DEF TypeOK, Called, KeyOps, Actor, CleanerPoints
<1>4. LastSaved'
  BY DEF TypeOK, LastSaved, Actor, ClientPoints
<1>5. IndexBacked'
  BY DEF TypeOK, IndexBacked, Called
<1>6. IndexedIsTracked'
  <2>1. accessList' = accessList /\ unlisted' = unlisted /\ index' = index
    OBVIOUS
  <2>2. BeingPut' = BeingPut
    BY DEF TypeOK, BeingPut, Actor, ClientPoints, CleanerPoints
  <2> QED BY <2>1, <2>2 DEF IndexedIsTracked, Indexed
<1>7. Planned'
  BY DEF TypeOK, Planned, Due, Indexed, Actor
<1> QED BY <1>1, <1>2, <1>3, <1>4, <1>5, <1>6, <1>7

LEMMA TouchEntryInv ==
  ASSUME Inv, NEW c \in Client, TouchEntry(c)
  PROVE  Inv'
<1> USE CoordinatorAssumption DEF Inv, TouchEntry, Goto, data, mutex, call, cleaning, ghosts
<1>1. pc' \in [Actor -> ClientPoints \cup CleanerPoints] /\ TypeOK'
  BY MoveToFrontFacts DEF TypeOK, Called, Ops, States, ClientPoints, CleanerPoints, Actor
<1>2. ASSUME NEW a \in Actor PROVE Locked(a)'
  BY DEF TypeOK, Locked, Called, Writing, Reading, ClientPoints, CleanerPoints, Actor
<1>3. ASSUME NEW d \in Client PROVE Called(d)'
  BY DEF TypeOK, Called, KeyOps, Actor, CleanerPoints
<1>4. LastSaved'
  BY MoveToFrontFacts DEF TypeOK, LastSaved, Actor, ClientPoints
<1>5. IndexBacked'
  BY MoveToFrontFacts DEF TypeOK, IndexBacked, Called
<1>6. IndexedIsTracked'
  <2>1. accessList \in Seq(Key) /\ key[c] \in Key
    BY DEF TypeOK, Called, KeyOps
  <2>2. Indexed' = Indexed /\ unlisted' = unlisted
    BY DEF Indexed
  <2>3. BeingPut' = BeingPut
    BY DEF TypeOK, BeingPut, Actor
  <2>4. CASE accessList' = accessList
    BY <2>2, <2>3, <2>4 DEF IndexedIsTracked
  <2>5. CASE accessList' = MoveToFront(accessList, key[c])
    <3>1. Distinct(accessList)
      BY DEF IndexedIsTracked, Distinct
    <3>2. Distinct(accessList') /\ Tracked(accessList') = Tracked(accessList) \cup {key[c]}
      BY <2>5, <2>1, <3>1, MoveToFrontFacts
    <3> QED BY <2>2, <2>3, <3>2 DEF IndexedIsTracked, Distinct
  <2> QED BY <2>4, <2>5
<1>7. Planned'
  BY MoveToFrontFacts DEF TypeOK, Planned, Due, Indexed, Actor
<1> QED BY <1>1, <1>2, <1>3, <1>4, <1>5, <1>6, <1>7

LEMMA ReadSizeInv ==
  ASSUME Inv, NEW c \in Client, ReadSize(c)
  PROVE  Inv'
<1> USE CoordinatorAssumption DEF Inv, ReadSize, Goto, data, mutex, call, cleaning, ghosts
<1>1. pc' \in [Actor -> ClientPoints \cup CleanerPoints] /\ TypeOK'
  BY DEF TypeOK, Called, Ops, States, ClientPoints, CleanerPoints, Actor
<1>2. ASSUME NEW a \in Actor PROVE Locked(a)'
  BY DEF TypeOK, Locked, Called, Writing, Reading, ClientPoints, CleanerPoints, Actor
<1>3. ASSUME NEW d \in Client PROVE Called(d)'
  BY DEF TypeOK, Called, KeyOps, Actor, CleanerPoints
<1>4. LastSaved'
  BY DEF TypeOK, LastSaved, Actor, ClientPoints
<1>5. IndexBacked'
  BY DEF TypeOK, IndexBacked, Called
<1>6. IndexedIsTracked'
  BY DEF TypeOK, IndexedIsTracked, Indexed, BeingPut, Actor
<1>7. Planned'
  BY DEF TypeOK, Planned, Due, Indexed, Actor
<1> QED BY <1>1, <1>2, <1>3, <1>4, <1>5, <1>6, <1>7

LEMMA ClearListInv ==
  ASSUME Inv, NEW c \in Client, ClearList(c)
  PROVE  Inv'
<1> USE CoordinatorAssumption DEF Inv, ClearList, Holds, Goto, data, mutex, call, cleaning, ghosts
<1>1. pc' \in [Actor -> ClientPoints \cup CleanerPoints] /\ TypeOK'
  <2>1. pc' \in [Actor -> ClientPoints \cup CleanerPoints]
    BY DEF TypeOK, ClientPoints, CleanerPoints, Actor, Called, Ops, KeyOps
  <2>2. /\ \A d \in Client : pc'[d] \in ClientPoints
        /\ pc'[Cleaner] \in CleanerPoints
    BY DEF TypeOK, ClientPoints, CleanerPoints, Actor, Called, Ops, KeyOps
  <2>3. /\ stored' \in [Key -> States \cup {"dropped"}]
        /\ index' \in [Key -> States] /\ disk' \in [Key -> States]
    BY DEF TypeOK, States, Called, ClientPoints
  <2>4. accessList' \in Seq(Key) /\ plan' \in Seq(Key)
    BY DEF TypeOK, Called
  <2>5. /\ op' \in [Actor -> Ops \cup {"none", "evict"}] /\ key' \in [Actor -> Key \cup {NoKey}]
        /\ todo' \in [Actor -> SUBSET Key]
    BY DEF TypeOK, Ops, Indexed, Actor
  <2>6. closed' \in BOOLEAN /\ saved' \in BOOLEAN
    BY DEF TypeOK
  <2>7. /\ writer' \in Actor \cup {NoActor} /\ readers' \in SUBSET Actor
        /\ late' \in SUBSET Key /\ unlisted' \in SUBSET Key
    BY DEF TypeOK, Called, Actor
  <2> QED BY <2>1, <2>2, <2>3, <2>4, <2>5, <2>6, <2>7 DEF TypeOK
<1>2. ASSUME NEW a \in Actor PROVE Locked(a)'
  BY DEF TypeOK, Locked, Called, Writing, Reading, ClientPoints, CleanerPoints, Actor
<1>3. ASSUME NEW d \in Client PROVE Called(d)'
  BY DEF TypeOK, Called, KeyOps, Actor, CleanerPoints
<1>4. LastSaved'
  BY DEF TypeOK, LastSaved, Actor, ClientPoints
<1>5. IndexBacked'
  BY DEF TypeOK, IndexBacked, Called
<1>6. IndexedIsTracked'
  BY DEF TypeOK, IndexedIsTracked, Indexed, BeingPut, Actor
<1>7. Planned'
  BY DEF TypeOK, Planned, Due, Indexed, Actor
<1> QED BY <1>1, <1>2, <1>3, <1>4, <1>5, <1>6, <1>7

LEMMA ClearNextInv ==
  ASSUME Inv, NEW c \in Client, NEW k \in Key, ClearNext(c, k)
  PROVE  Inv'
<1> USE CoordinatorAssumption DEF Inv, ClearNext, Goto, data, mutex, call, cleaning, ghosts
<1>1. pc' \in [Actor -> ClientPoints \cup CleanerPoints] /\ TypeOK'
  BY DeleteFacts DEF TypeOK, Called, Ops, States, ClientPoints, CleanerPoints, Actor
<1>2. ASSUME NEW a \in Actor PROVE Locked(a)'
  BY DEF TypeOK, Locked, Called, Writing, Reading, ClientPoints, CleanerPoints, Actor
<1>3. ASSUME NEW d \in Client PROVE Called(d)'
  BY DEF TypeOK, Called, KeyOps, Actor, CleanerPoints
<1>4. LastSaved'
  BY DeleteFacts DEF TypeOK, LastSaved, Actor, ClientPoints
<1>5. IndexBacked'
  BY DeleteFacts DEF TypeOK, IndexBacked, Called
<1>6. IndexedIsTracked'
  BY DeleteFacts DEF TypeOK, IndexedIsTracked, Indexed, BeingPut, Actor
<1>7. Planned'
  BY DeleteFacts DEF TypeOK, Planned, Due, Indexed, Actor
<1> QED BY <1>1, <1>2, <1>3, <1>4, <1>5, <1>6, <1>7

LEMMA ClearEndInv ==
  ASSUME Inv, NEW c \in Client, ClearEnd(c)
  PROVE  Inv'
<1> USE CoordinatorAssumption DEF Inv, ClearEnd, Goto, data, mutex, call, cleaning, ghosts
<1>1. pc' \in [Actor -> ClientPoints \cup CleanerPoints] /\ TypeOK'
  <2>1. pc' \in [Actor -> ClientPoints \cup CleanerPoints]
    BY DEF TypeOK, ClientPoints, CleanerPoints, Actor, Called, Ops, KeyOps
  <2>2. /\ \A d \in Client : pc'[d] \in ClientPoints
        /\ pc'[Cleaner] \in CleanerPoints
    BY DEF TypeOK, ClientPoints, CleanerPoints, Actor, Called, Ops, KeyOps
  <2>3. /\ stored' \in [Key -> States \cup {"dropped"}]
        /\ index' \in [Key -> States] /\ disk' \in [Key -> States]
    <3>1. stored' = stored /\ index' = index /\ disk' \in {disk, index}
      BY PersistAgainFacts
    <3> QED BY <3>1 DEF TypeOK
  <2>4. accessList' \in Seq(Key) /\ plan' \in Seq(Key)
    BY DEF TypeOK, Called
  <2>5. /\ op' \in [Actor -> Ops \cup {"none", "evict"}] /\ key' \in [Actor -> Key \cup {NoKey}]
        /\ todo' \in [Actor -> SUBSET Key]
    BY DEF TypeOK, Ops, Indexed, Actor
  <2>6. closed' \in BOOLEAN /\ saved' \in BOOLEAN
    BY PersistAgainFacts DEF TypeOK
  <2>7. /\ writer' \in Actor \cup {NoActor} /\ readers' \in SUBSET Actor
        /\ late' \in SUBSET Key /\ unlisted' \in SUBSET Key
    BY DEF TypeOK, Called, Actor
  <2> QED BY <2>1, <2>2, <2>3, <2>4, <2>5, <2>6, <2>7 DEF TypeOK
<1>2. ASSUME NEW a \in Actor PROVE Locked(a)'
  BY DEF TypeOK, Locked, Called, Writing, Reading, ClientPoints, CleanerPoints, Actor
<1>3. ASSUME NEW d \in Client PROVE Called(d)'
  BY DEF TypeOK, Called, KeyOps, Actor, CleanerPoints
<1>4. LastSaved'
  BY PersistAgainFacts DEF TypeOK, LastSaved, Actor, ClientPoints
<1>5. IndexBacked'
  <2>1. stored' = stored /\ index' = index /\ disk' \in {disk, index}
    BY PersistAgainFacts
  <2> QED BY <2>1 DEF IndexBacked
<1>6. IndexedIsTracked'
  <2>1. accessList' = accessList /\ unlisted' = unlisted /\ index' = index
    OBVIOUS
  <2>2. BeingPut' = BeingPut
    BY DEF TypeOK, BeingPut, Actor, ClientPoints, CleanerPoints
  <2> QED BY <2>1, <2>2 DEF IndexedIsTracked, Indexed
<1>7. Planned'
  BY PersistAgainFacts DEF TypeOK, Planned, Due, Indexed, Actor
<1> QED BY <1>1, <1>2, <1>3, <1>4, <1>5, <1>6, <1>7

LEMMA CloseIndexInv ==
  ASSUME Inv, NEW c \in Client, CloseIndex(c)
  PROVE  Inv'
<1> USE CoordinatorAssumption DEF Inv, CloseIndex, Holds, Goto, data, mutex, call, cleaning, ghosts
<1>1. pc' \in [Actor -> ClientPoints \cup CleanerPoints] /\ TypeOK'
  <2>1. pc' \in [Actor -> ClientPoints \cup CleanerPoints]
    BY DEF TypeOK, ClientPoints, CleanerPoints, Actor, Called, Ops, KeyOps
  <2>2. /\ \A d \in Client : pc'[d] \in ClientPoints
        /\ pc'[Cleaner] \in CleanerPoints
    BY DEF TypeOK, ClientPoints, CleanerPoints, Actor, Called, Ops, KeyOps
  <2>3. /\ stored' \in [Key -> States \cup {"dropped"}]
        /\ index' \in [Key -> States] /\ disk' \in [Key -> States]
    <3>1. stored' = stored /\ index' = index /\ disk' \in {disk, index}
      BY PersistFacts
    <3> QED BY <3>1 DEF TypeOK
  <2>4. accessList' \in Seq(Key) /\ plan' \in Seq(Key)
    BY DEF TypeOK, Called
  <2>5. /\ op' \in [Actor -> Ops \cup {"none", "evict"}] /\ key' \in [Actor -> Key \cup {NoKey}]
        /\ todo' \in [Actor -> SUBSET Key]
    BY DEF TypeOK, Ops, Indexed, Actor
  <2>6. closed' \in BOOLEAN /\ saved' \in BOOLEAN
    
    <3>1. closed' = TRUE /\ \E ok \in BOOLEAN : saved' = ok
      OBVIOUS
    <3> QED BY <3>1, Zenon
  <2>7. /\ writer' \in Actor \cup {NoActor} /\ readers' \in SUBSET Actor
        /\ late' \in SUBSET Key /\ unlisted' \in SUBSET Key
    BY DEF TypeOK, Called, Actor
  <2> QED BY <2>1, <2>2, <2>3, <2>4, <2>5, <2>6, <2>7 DEF TypeOK
<1>2. ASSUME NEW a \in Actor PROVE Locked(a)'
  BY DEF TypeOK, Locked, Called, Writing, Reading, ClientPoints, CleanerPoints, Actor
<1>3. ASSUME NEW d \in Client PROVE Called(d)'
  BY DEF TypeOK, Called, KeyOps, Actor, CleanerPoints
<1>4. LastSaved'
  <2>1. PICK ok \in BOOLEAN : Persist(index, ok) /\ saved' = ok
    OBVIOUS
  <2>2. saved' => disk' = index
    BY <2>1, PersistFacts
  <2> QED BY <2>2 DEF LastSaved
<1>5. IndexBacked'
  BY SMTT(30), PersistFacts DEF TypeOK, IndexBacked, Called
<1>6. IndexedIsTracked'
  BY PersistFacts DEF TypeOK, IndexedIsTracked, Indexed, BeingPut, Actor
<1>7. Planned'
  BY PersistFacts DEF TypeOK, Planned, Due, Indexed, Actor
<1> QED BY <1>1, <1>2, <1>3, <1>4, <1>5, <1>6, <1>7

LEMMA TickInv ==
  ASSUME Inv, Tick
  PROVE  Inv'
<1> USE CoordinatorAssumption DEF Inv, Tick, CleanerGoes, At, Goto, data, mutex, call, cleaning, ghosts
<1>1. pc' \in [Actor -> ClientPoints \cup CleanerPoints] /\ TypeOK'
  BY DEF TypeOK, Called, Ops, States, ClientPoints, CleanerPoints, Actor
<1>2. ASSUME NEW a \in Actor PROVE Locked(a)'
  BY DEF TypeOK, Locked, Called, Writing, Reading, ClientPoints, CleanerPoints, Actor
<1>3. ASSUME NEW d \in Client PROVE Called(d)'
  BY DEF TypeOK, Called, KeyOps, Actor, CleanerPoints
<1>4. LastSaved'
  BY DEF TypeOK, LastSaved, Actor, ClientPoints
<1>5. IndexBacked'
  BY DEF TypeOK, IndexBacked, Called
<1>6. IndexedIsTracked'
  BY DEF TypeOK, IndexedIsTracked, Indexed, BeingPut, Actor
<1>7. Planned'
  BY DEF TypeOK, Planned, Due, Indexed, Actor
<1> QED BY <1>1, <1>2, <1>3, <1>4, <1>5, <1>6, <1>7

LEMMA ListExpiredInv ==
  ASSUME Inv, ListExpired
  PROVE  Inv'
<1> USE CoordinatorAssumption DEF Inv, ListExpired, CleanerGoes, At, Goto, data, mutex, call, cleaning, ghosts
<1>1. pc' \in [Actor -> ClientPoints \cup CleanerPoints] /\ TypeOK'
  BY DEF TypeOK, Called, Ops, States, ClientPoints, CleanerPoints, Actor
<1>2. ASSUME NEW a \in Actor PROVE Locked(a)'
  BY DEF TypeOK, Locked, Called, Writing, Reading, ClientPoints, CleanerPoints, Actor
<1>3. ASSUME NEW d \in Client PROVE Called(d)'
  BY DEF TypeOK, Called, KeyOps, Actor, CleanerPoints
<1>4. LastSaved'
  BY DEF TypeOK, LastSaved, Actor, ClientPoints
<1>5. IndexBacked'
  BY DEF TypeOK, IndexBacked, Called
<1>6. IndexedIsTracked'
  BY DEF TypeOK, IndexedIsTracked, Indexed, BeingPut, Actor
<1>7. Planned'
  BY DEF TypeOK, Planned, Due, Indexed, Actor
<1> QED BY <1>1, <1>2, <1>3, <1>4, <1>5, <1>6, <1>7

LEMMA ExpireNextInv ==
  ASSUME Inv, NEW k \in Key, ExpireNext(k)
  PROVE  Inv'
<1> USE CoordinatorAssumption DEF Inv, ExpireNext, CleanerGoes, At, Visit, Goto, data, mutex, call, cleaning, ghosts
<1>1. pc' \in [Actor -> ClientPoints \cup CleanerPoints] /\ TypeOK'
  BY DEF TypeOK, Called, Ops, States, ClientPoints, CleanerPoints, Actor
<1>2. ASSUME NEW a \in Actor PROVE Locked(a)'
  BY DEF TypeOK, Locked, Called, Writing, Reading, ClientPoints, CleanerPoints, Actor
<1>3. ASSUME NEW d \in Client PROVE Called(d)'
  BY DEF TypeOK, Called, KeyOps, Actor, CleanerPoints
<1>4. LastSaved'
  BY DEF TypeOK, LastSaved, Actor, ClientPoints
<1>5. IndexBacked'
  BY DEF TypeOK, IndexBacked, Called
<1>6. IndexedIsTracked'
  BY DEF TypeOK, IndexedIsTracked, Indexed, BeingPut, Actor
<1>7. Planned'
  <2>1. op[Cleaner] # "evict"
    BY DEF Planned
  <2> QED BY <2>1 DEF TypeOK, Planned, Actor
<1> QED BY <1>1, <1>2, <1>3, <1>4, <1>5, <1>6, <1>7

LEMMA ExpireEndInv ==
  ASSUME Inv, ExpireEnd
  PROVE  Inv'
<1> USE CoordinatorAssumption DEF Inv, ExpireEnd, CleanerGoes, At, Goto, data, mutex, call, cleaning, ghosts
<1>1. pc' \in [Actor -> ClientPoints \cup CleanerPoints] /\ TypeOK'
  BY DEF TypeOK, Called, Ops, States, ClientPoints, CleanerPoints, Actor
<1>2. ASSUME NEW a \in Actor PROVE Locked(a)'
  BY DEF TypeOK, Locked, Called, Writing, Reading, ClientPoints, CleanerPoints, Actor
<1>3. ASSUME NEW d \in Client PROVE Called(d)'
  BY DEF TypeOK, Called, KeyOps, Actor, CleanerPoints
<1>4. LastSaved'
  BY DEF TypeOK, LastSaved, Actor, ClientPoints
<1>5. IndexBacked'
  BY DEF TypeOK, IndexBacked, Called
<1>6. IndexedIsTracked'
  BY DEF TypeOK, IndexedIsTracked, Indexed, BeingPut, Actor
<1>7. Planned'
  BY DEF TypeOK, Planned, Due, Indexed, Actor
<1> QED BY <1>1, <1>2, <1>3, <1>4, <1>5, <1>6, <1>7

LEMMA CountMetricInv ==
  ASSUME Inv, CountMetric
  PROVE  Inv'
<1> USE CoordinatorAssumption DEF Inv, CountMetric, CleanerGoes, At, Holds, Goto, data, mutex, call, cleaning, ghosts
<1>1. pc' \in [Actor -> ClientPoints \cup CleanerPoints] /\ TypeOK'
  BY DEF TypeOK, Called, Ops, States, ClientPoints, CleanerPoints, Actor
<1>2. ASSUME NEW a \in Actor PROVE Locked(a)'
  BY DEF TypeOK, Locked, Called, Writing, Reading, ClientPoints, CleanerPoints, Actor
<1>3. ASSUME NEW d \in Client PROVE Called(d)'
  BY DEF TypeOK, Called, KeyOps, Actor, CleanerPoints
<1>4. LastSaved'
  BY DEF TypeOK, LastSaved, Actor, ClientPoints
<1>5. IndexBacked'
  BY DEF TypeOK, IndexBacked, Called
<1>6. IndexedIsTracked'
  BY DEF TypeOK, IndexedIsTracked, Indexed, BeingPut, Actor
<1>7. Planned'
  BY DEF TypeOK, Planned, Due, Indexed, Actor
<1> QED BY <1>1, <1>2, <1>3, <1>4, <1>5, <1>6, <1>7

LEMMA DeleteEntryInv ==
  ASSUME Inv, DeleteEntry
  PROVE  Inv'
<1> USE CoordinatorAssumption DEF Inv, DeleteEntry, CleanerGoes, At, Goto, data, mutex, call, cleaning, ghosts
<1>1. pc' \in [Actor -> ClientPoints \cup CleanerPoints] /\ TypeOK'
  BY DeleteFacts DEF TypeOK, Called, Ops, States, ClientPoints, CleanerPoints, Actor
<1>2. ASSUME NEW a \in Actor PROVE Locked(a)'
  BY DEF TypeOK, Locked, Called, Writing, Reading, ClientPoints, CleanerPoints, Actor
<1>3. ASSUME NEW d \in Client PROVE Called(d)'
  BY DEF TypeOK, Called, KeyOps, Actor, CleanerPoints
<1>4. LastSaved'
  BY DeleteFacts DEF TypeOK, LastSaved, Actor, ClientPoints
<1>5. IndexBacked'
  BY DeleteFacts DEF TypeOK, IndexBacked, Called
<1>6. IndexedIsTracked'
  BY DeleteFacts DEF TypeOK, IndexedIsTracked, Indexed, BeingPut, Actor
<1>7. Planned'
  BY DeleteFacts DEF TypeOK, Planned, Due, Indexed, Actor
<1> QED BY <1>1, <1>2, <1>3, <1>4, <1>5, <1>6, <1>7

LEMMA EvictLockInv ==
  ASSUME Inv, EvictLock
  PROVE  Inv'
<1> USE CoordinatorAssumption DEF Inv, EvictLock, CleanerGoes, At, Goto, data, mutex, call, cleaning, ghosts
<1>1. pc' \in [Actor -> ClientPoints \cup CleanerPoints] /\ TypeOK'
  BY DEF TypeOK, Called, Ops, States, ClientPoints, CleanerPoints, Actor
<1>2. ASSUME NEW a \in Actor PROVE Locked(a)'
  BY DEF TypeOK, Locked, Called, Writing, Reading, ClientPoints, CleanerPoints, Actor
<1>3. ASSUME NEW d \in Client PROVE Called(d)'
  BY DEF TypeOK, Called, KeyOps, Actor, CleanerPoints
<1>4. LastSaved'
  BY DEF TypeOK, LastSaved, Actor, ClientPoints
<1>5. IndexBacked'
  BY DEF TypeOK, IndexBacked, Called
<1>6. IndexedIsTracked'
  BY DEF TypeOK, IndexedIsTracked, Indexed, BeingPut, Actor
<1>7. Planned'
  BY DEF TypeOK, Planned, Due, Indexed, Actor
<1> QED BY <1>1, <1>2, <1>3, <1>4, <1>5, <1>6, <1>7

LEMMA CheckSizeInv ==
  ASSUME Inv, CheckSize
  PROVE  Inv'
<1> USE CoordinatorAssumption DEF Inv, CheckSize, CleanerGoes, At, Goto, data, mutex, call, cleaning, ghosts
<1>1. pc' \in [Actor -> ClientPoints \cup CleanerPoints] /\ TypeOK'
  <2>1. pc' \in [Actor -> ClientPoints \cup CleanerPoints]
    BY DEF TypeOK, ClientPoints, CleanerPoints, Actor, Called, Ops, KeyOps
  <2>2. /\ \A d \in Client : pc'[d] \in ClientPoints
        /\ pc'[Cleaner] \in CleanerPoints
    BY ZenonT(30) DEF TypeOK, ClientPoints, CleanerPoints, Actor, Called, Ops, KeyOps
  <2>3. /\ stored' \in [Key -> States \cup {"dropped"}]
        /\ index' \in [Key -> States] /\ disk' \in [Key -> States]
    BY DEF TypeOK, States, Called, ClientPoints
  <2>4. accessList' \in Seq(Key) /\ plan' \in Seq(Key)
    BY DEF TypeOK, Called
  <2>5. /\ op' \in [Actor -> Ops \cup {"none", "evict"}] /\ key' \in [Actor -> Key \cup {NoKey}]
        /\ todo' \in [Actor -> SUBSET Key]
    BY DEF TypeOK, Ops, Indexed, Actor
  <2>6. closed' \in BOOLEAN /\ saved' \in BOOLEAN
    BY DEF TypeOK
  <2>7. /\ writer' \in Actor \cup {NoActor} /\ readers' \in SUBSET Actor
        /\ late' \in SUBSET Key /\ unlisted' \in SUBSET Key
    BY DEF TypeOK, Called, Actor
  <2> QED BY <2>1, <2>2, <2>3, <2>4, <2>5, <2>6, <2>7 DEF TypeOK
<1>2. ASSUME NEW a \in Actor PROVE Locked(a)'
  BY DEF TypeOK, Locked, Called, Writing, Reading, ClientPoints, CleanerPoints, Actor
<1>3. ASSUME NEW d \in Client PROVE Called(d)'
  BY DEF TypeOK, Called, KeyOps, Actor, CleanerPoints
<1>4. LastSaved'
  BY DEF TypeOK, LastSaved, Actor, ClientPoints
<1>5. IndexBacked'
  BY DEF TypeOK, IndexBacked, Called
<1>6. IndexedIsTracked'
  <2>1. accessList' = accessList /\ unlisted' = unlisted /\ index' = index
    OBVIOUS
  <2>2. BeingPut' = BeingPut
    BY DEF TypeOK, BeingPut, Actor, ClientPoints, CleanerPoints
  <2> QED BY <2>1, <2>2 DEF IndexedIsTracked, Indexed
<1>7. Planned'
  <2>1. BeingPut = {}
    BY DEF BeingPut, Locked, Writing, Actor, TypeOK
  <2>2. Due' = Due /\ accessList' = accessList
    BY DEF Due, Indexed
  <2>3. Due \subseteq Indexed \cap Tracked(accessList)
    BY <2>1 DEF Due, IndexedIsTracked
  <2>4. \/ pc'[Cleaner] = "compact"
        \/ pc'[Cleaner] = "collect" /\ op'[Cleaner] = "evict" /\ todo'[Cleaner] = Indexed
    BY DEF TypeOK, Actor
  <2> QED BY <2>2, <2>3, <2>4 DEF Planned
<1> QED BY <1>1, <1>2, <1>3, <1>4, <1>5, <1>6, <1>7

LEMMA CollectEntriesInv ==
  ASSUME Inv, CollectEntries
  PROVE  Inv'
<1> USE CoordinatorAssumption DEF Inv, CollectEntries, CleanerGoes, At, Goto, data, mutex, call, cleaning, ghosts
<1>1. pc' \in [Actor -> ClientPoints \cup CleanerPoints] /\ TypeOK'
  BY DEF TypeOK, Called, Ops, States, ClientPoints, CleanerPoints, Actor
<1>2. ASSUME NEW a \in Actor PROVE Locked(a)'
  BY DEF TypeOK, Locked, Called, Writing, Reading, ClientPoints, CleanerPoints, Actor
<1>3. ASSUME NEW d \in Client PROVE Called(d)'
  BY DEF TypeOK, Called, KeyOps, Actor, CleanerPoints
<1>4. LastSaved'
  BY DEF TypeOK, LastSaved, Actor, ClientPoints
<1>5. IndexBacked'
  BY DEF TypeOK, IndexBacked, Called
<1>6. IndexedIsTracked'
  BY DEF TypeOK, IndexedIsTracked, Indexed, BeingPut, Actor
<1>7. Planned'
  BY DEF TypeOK, Planned, Due, Indexed, Actor
<1> QED BY <1>1, <1>2, <1>3, <1>4, <1>5, <1>6, <1>7

LEMMA SelectEntriesInv ==
  ASSUME Inv, SelectEntries
  PROVE  Inv'
<1> USE CoordinatorAssumption DEF Inv, SelectEntries, CleanerGoes, At, Goto, data, mutex, call, cleaning, ghosts
<1>1. pc' \in [Actor -> ClientPoints \cup CleanerPoints] /\ TypeOK'
  <2>a. PICK bySize \in SelectBySize(Bare(todo[Cleaner]), MaxSizeBytes) :
          plan' = AppendNew(SelectLRU(accessList, Bare(todo[Cleaner])), bySize)
    OBVIOUS
  <2>b. /\ todo[Cleaner] \in SUBSET Key /\ accessList \in Seq(Key)
        /\ pc' = [pc EXCEPT ![Cleaner] = "evict"] /\ todo' = [todo EXCEPT ![Cleaner] = {}]
    BY DEF TypeOK, Actor
  <2>c. /\ plan' \in Seq(Key)
        /\ Tracked(accessList) \cap todo[Cleaner] \subseteq ToSet(plan')
    BY <2>a, <2>b, PlanFacts
  <2>1. pc' \in [Actor -> ClientPoints \cup CleanerPoints]
    BY <2>b DEF CleanerPoints, Actor
  <2>2. (\A d \in Client : pc'[d] \in ClientPoints) /\ pc'[Cleaner] \in CleanerPoints
    BY <2>b DEF TypeOK, CleanerPoints, Actor
  <2>3. todo' \in [Actor -> SUBSET Key]
    BY <2>b DEF TypeOK, Actor
  <2> QED BY <2>1, <2>2, <2>3, <2>c DEF TypeOK
<1>2. ASSUME NEW a \in Actor PROVE Locked(a)'
  BY DEF TypeOK, Locked, Called, Writing, Reading, ClientPoints, CleanerPoints, Actor
<1>3. ASSUME NEW d \in Client PROVE Called(d)'
  BY DEF TypeOK, Called, KeyOps, Actor, CleanerPoints
<1>4. LastSaved'
  BY DEF TypeOK, LastSaved, Actor, ClientPoints
<1>5. IndexBacked'
  BY DEF TypeOK, IndexBacked, Called
<1>6. IndexedIsTracked'
  BY DEF TypeOK, IndexedIsTracked, Indexed, BeingPut, Actor
<1>7. Planned'
  <2>1. PICK bySize \in SelectBySize(Bare(todo[Cleaner]), MaxSizeBytes) :
          plan' = AppendNew(SelectLRU(accessList, Bare(todo[Cleaner])), bySize)
    OBVIOUS
  <2>2. /\ todo[Cleaner] \in SUBSET Key /\ accessList \in Seq(Key)
        /\ pc' = [pc EXCEPT ![Cleaner] = "evict"] /\ todo' = [todo EXCEPT ![Cleaner] = {}]
    BY DEF TypeOK, Actor
  <2>3. /\ plan' \in Seq(Key)
        /\ Tracked(accessList) \cap todo[Cleaner] \subseteq ToSet(plan')
    BY <2>1, <2>2, PlanFacts
  <2>4. Due \subseteq todo[Cleaner] \cap Tracked(accessList) /\ Due' = Due /\ op' = op
    BY DEF Planned, Due, Indexed
  <2>5. pc'[Cleaner] = "evict" /\ op[Cleaner] = "evict"
    BY <2>2 DEF Planned, Actor, TypeOK
  <2> QED BY <2>3, <2>4, <2>5 DEF Planned
<1> QED BY <1>1, <1>2, <1>3, <1>4, <1>5, <1>6, <1>7

LEMMA EvictNextInv ==
  ASSUME Inv, EvictNext
  PROVE  Inv'
<1> USE CoordinatorAssumption DEF Inv, EvictNext, CleanerGoes, At, Visit, Goto, data, mutex, call, cleaning, ghosts
<1>1. pc' \in [Actor -> ClientPoints \cup CleanerPoints] /\ TypeOK'
  BY TailFacts DEF TypeOK, Called, Ops, States, ClientPoints, CleanerPoints, Actor
<1>2. ASSUME NEW a \in Actor PROVE Locked(a)'
  BY DEF TypeOK, Locked, Called, Writing, Reading, ClientPoints, CleanerPoints, Actor
<1>3. ASSUME NEW d \in Client PROVE Called(d)'
  BY DEF TypeOK, Called, KeyOps, Actor, CleanerPoints
<1>4. LastSaved'
  BY TailFacts DEF TypeOK, LastSaved, Actor, ClientPoints
<1>5. IndexBacked'
  BY TailFacts DEF TypeOK, IndexBacked, Called
<1>6. IndexedIsTracked'
  BY TailFacts DEF TypeOK, IndexedIsTracked, Indexed, BeingPut, Actor
<1>7. Planned'
  BY TailFacts DEF TypeOK, Planned, Due, Indexed, Actor
<1> QED BY <1>1, <1>2, <1>3, <1>4, <1>5, <1>6, <1>7

LEMMA EvictEndInv ==
  ASSUME Inv, EvictEnd
  PROVE  Inv'
<1> USE CoordinatorAssumption DEF Inv, EvictEnd, CleanerGoes, At, Goto, data, mutex, call, cleaning, ghosts
<1>1. pc' \in [Actor -> ClientPoints \cup CleanerPoints] /\ TypeOK'
  BY DEF TypeOK, Called, Ops, States, ClientPoints, CleanerPoints, Actor
<1>2. ASSUME NEW a \in Actor PROVE Locked(a)'
  BY DEF TypeOK, Locked, Called, Writing, Reading, ClientPoints, CleanerPoints, Actor
<1>3. ASSUME NEW d \in Client PROVE Called(d)'
  BY DEF TypeOK, Called, KeyOps, Actor, CleanerPoints
<1>4. LastSaved'
  BY DEF TypeOK, LastSaved, Actor, ClientPoints
<1>5. IndexBacked'
  BY DEF TypeOK, IndexBacked, Called
<1>6. IndexedIsTracked'
  BY DEF TypeOK, IndexedIsTracked, Indexed, BeingPut, Actor
<1>7. Planned'
  BY DEF TypeOK, Planned, Due, Indexed, Actor
<1> QED BY <1>1, <1>2, <1>3, <1>4, <1>5, <1>6, <1>7

LEMMA CompactIndexInv ==
  ASSUME Inv, CompactIndex
  PROVE  Inv'
<1> USE CoordinatorAssumption DEF Inv, CompactIndex, CleanerGoes, At, Goto, data, mutex, call, cleaning, ghosts
<1>1. pc' \in [Actor -> ClientPoints \cup CleanerPoints] /\ TypeOK'
  <2>0. \E l \in {"persist", "error"} : pc' = [pc EXCEPT ![Cleaner] = l]
    OBVIOUS
  <2>1. pc' \in [Actor -> ClientPoints \cup CleanerPoints]
    BY <2>0 DEF TypeOK, ClientPoints, CleanerPoints, Actor
  <2>2. /\ \A d \in Client : pc'[d] \in ClientPoints
        /\ pc'[Cleaner] \in CleanerPoints
    BY <2>0 DEF TypeOK, ClientPoints, CleanerPoints, Actor
  <2>3. /\ stored' \in [Key -> States \cup {"dropped"}]
        /\ index' \in [Key -> States] /\ disk' \in [Key -> States]
    <3>1. stored' = stored /\ index' = Live(index) /\ disk' \in {disk, index'}
      BY PersistAgainFacts
    <3> QED BY <3>1, LiveFacts DEF TypeOK
  <2>4. accessList' \in Seq(Key) /\ plan' \in Seq(Key)
    BY DEF TypeOK, Called
  <2>5. /\ op' \in [Actor -> Ops \cup {"none", "evict"}] /\ key' \in [Actor -> Key \cup {NoKey}]
        /\ todo' \in [Actor -> SUBSET Key]
    BY DEF TypeOK, Ops, Indexed, Actor
  <2>6. closed' \in BOOLEAN /\ saved' \in BOOLEAN
    BY PersistAgainFacts, LiveFacts DEF TypeOK
  <2>7. /\ writer' \in Actor \cup {NoActor} /\ readers' \in SUBSET Actor
        /\ late' \in SUBSET Key /\ unlisted' \in SUBSET Key
    BY DEF TypeOK, Called, Actor
  <2> QED BY <2>1, <2>2, <2>3, <2>4, <2>5, <2>6, <2>7 DEF TypeOK
<1>2. ASSUME NEW a \in Actor PROVE Locked(a)'
  BY DEF TypeOK, Locked, Called, Writing, Reading, ClientPoints, CleanerPoints, Actor
<1>3. ASSUME NEW d \in Client PROVE Called(d)'
  BY DEF TypeOK, Called, KeyOps, Actor, CleanerPoints
<1>4. LastSaved'
  <2>1. CASE UNCHANGED <<disk, saved>> /\ CleanerGoes("persist")
    BY <2>1 DEF TypeOK, LastSaved, Actor
  <2>2. ASSUME NEW ok \in BOOLEAN, PersistAgain(index', ok) PROVE LastSaved'
    BY <2>2, PersistAgainFacts DEF LastSaved
  <2> QED BY <2>1, <2>2
<1>5. IndexBacked'
  BY SMTT(30), PersistAgainFacts, LiveFacts DEF TypeOK, IndexBacked, Called
<1>6. IndexedIsTracked'
  <2>1. accessList' = accessList /\ unlisted' = unlisted /\ index' = Live(index)
    OBVIOUS
  <2>2. BeingPut' = BeingPut
    BY DEF TypeOK, BeingPut, Actor
  <2>3. Indexed' \subseteq Indexed
    BY <2>1, LiveFacts DEF TypeOK, Indexed
  <2> QED BY <2>1, <2>2, <2>3 DEF IndexedIsTracked
<1>7. Planned'
  BY PersistAgainFacts, LiveFacts DEF TypeOK, Planned, Due, Indexed, Actor
<1> QED BY <1>1, <1>2, <1>3, <1>4, <1>5, <1>6, <1>7

LEMMA PersistIndexInv ==
  ASSUME Inv, PersistIndex
  PROVE  Inv'
<1> USE CoordinatorAssumption DEF Inv, PersistIndex, CleanerGoes, At, Goto, data, mutex, call, cleaning, ghosts
<1>1. pc' \in [Actor -> ClientPoints \cup CleanerPoints] /\ TypeOK'
  BY PersistAgainFacts DEF TypeOK, Called, Ops, States, ClientPoints, CleanerPoints, Actor
<1>2. ASSUME NEW a \in Actor PROVE Locked(a)'
  BY DEF TypeOK, Locked, Called, Writing, Reading, ClientPoints, CleanerPoints, Actor
<1>3. ASSUME NEW d \in Client PROVE Called(d)'
  BY DEF TypeOK, Called, KeyOps, Actor, CleanerPoints
<1>4. LastSaved'
  BY PersistAgainFacts DEF TypeOK, LastSaved, Actor, ClientPoints
<1>5. IndexBacked'
  <2>1. stored' = stored /\ index' = index /\ disk' \in {disk, index}
    BY PersistAgainFacts
  <2> QED BY <2>1 DEF IndexBacked
<1>6. IndexedIsTracked'
  BY PersistAgainFacts DEF TypeOK, IndexedIsTracked, Indexed, BeingPut, Actor
<1>7. Planned'
  BY PersistAgainFacts DEF TypeOK, Planned, Due, Indexed, Actor
<1> QED BY <1>1, <1>2, <1>3, <1>4, <1>5, <1>6, <1>7

LEMMA CountErrorInv ==
  ASSUME Inv, CountError
  PROVE  Inv'
<1> USE CoordinatorAssumption DEF Inv, CountError, CleanerGoes, At, Holds, Goto, data, mutex, call, cleaning, ghosts
<1>1. pc' \in [Actor -> ClientPoints \cup CleanerPoints] /\ TypeOK'
  BY DEF TypeOK, Called, Ops, States, ClientPoints, CleanerPoints, Actor
<1>2. ASSUME NEW a \in Actor PROVE Locked(a)'
  BY DEF TypeOK, Locked, Called, Writing, Reading, ClientPoints, CleanerPoints, Actor
<1>3. ASSUME NEW d \in Client PROVE Called(d)'
  BY DEF TypeOK, Called, KeyOps, Actor, CleanerPoints
<1>4. LastSaved'
  BY DEF TypeOK, LastSaved, Actor, ClientPoints
<1>5. IndexBacked'
  BY DEF TypeOK, IndexBacked, Called
<1>6. IndexedIsTracked'
  BY DEF TypeOK, IndexedIsTracked, Indexed, BeingPut, Actor
<1>7. Planned'
  BY DEF TypeOK, Planned, Due, Indexed, Actor
<1> QED BY <1>1, <1>2, <1>3, <1>4, <1>5, <1>6, <1>7

LEMMA SeeDoneInv ==
  ASSUME Inv, SeeDone
  PROVE  Inv'
<1> USE CoordinatorAssumption DEF Inv, SeeDone, CleanerGoes, At, Goto, data, mutex, call, cleaning, ghosts
<1>1. pc' \in [Actor -> ClientPoints \cup CleanerPoints] /\ TypeOK'
  BY DEF TypeOK, Called, Ops, States, ClientPoints, CleanerPoints, Actor
<1>2. ASSUME NEW a \in Actor PROVE Locked(a)'
  BY DEF TypeOK, Locked, Called, Writing, Reading, ClientPoints, CleanerPoints, Actor
<1>3. ASSUME NEW d \in Client PROVE Called(d)'
  BY DEF TypeOK, Called, KeyOps, Actor, CleanerPoints
<1>4. LastSaved'
  BY DEF TypeOK, LastSaved, Actor, ClientPoints
<1>5. IndexBacked'
  BY DEF TypeOK, IndexBacked, Called
<1>6. IndexedIsTracked'
  BY DEF TypeOK, IndexedIsTracked, Indexed, BeingPut, Actor
<1>7. Planned'
  BY DEF TypeOK, Planned, Due, Indexed, Actor
<1> QED BY <1>1, <1>2, <1>3, <1>4, <1>5, <1>6, <1>7

LEMMA SeeCancelledInv ==
  ASSUME Inv, SeeCancelled
  PROVE  Inv'
<1> USE CoordinatorAssumption DEF Inv, SeeCancelled, CleanerGoes, At, Goto, data, mutex, call, cleaning, ghosts
<1>1. pc' \in [Actor -> ClientPoints \cup CleanerPoints] /\ TypeOK'
  BY DEF TypeOK, Called, Ops, States, ClientPoints, CleanerPoints, Actor
<1>2. ASSUME NEW a \in Actor PROVE Locked(a)'
  BY DEF TypeOK, Locked, Called, Writing, Reading, ClientPoints, CleanerPoints, Actor
<1>3. ASSUME NEW d \in Client PROVE Called(d)'
  BY DEF TypeOK, Called, KeyOps, Actor, CleanerPoints
<1>4. LastSaved'
  BY DEF TypeOK, LastSaved, Actor, ClientPoints
<1>5. IndexBacked'
  BY DEF TypeOK, IndexBacked, Called
<1>6. IndexedIsTracked'
  BY DEF TypeOK, IndexedIsTracked, Indexed, BeingPut, Actor
<1>7. Planned'
  BY DEF TypeOK, Planned, Due, Indexed, Actor
<1> QED BY <1>1, <1>2, <1>3, <1>4, <1>5, <1>6, <1>7

LEMMA StopTickerInv ==
  ASSUME Inv, StopTicker
  PROVE  Inv'
<1> USE CoordinatorAssumption DEF Inv, StopTicker, CleanerGoes, At, Holds, Goto, data, mutex, call, cleaning, ghosts
<1>1. pc' \in [Actor -> ClientPoints \cup CleanerPoints] /\ TypeOK'
  BY DEF TypeOK, Called, Ops, States, ClientPoints, CleanerPoints, Actor
<1>2. ASSUME NEW a \in Actor PROVE Locked(a)'
  BY DEF TypeOK, Locked, Called, Writing, Reading, ClientPoints, CleanerPoints, Actor
<1>3. ASSUME NEW d \in Client PROVE Called(d)'
  BY DEF TypeOK, Called, KeyOps, Actor, CleanerPoints
<1>4. LastSaved'
  BY DEF TypeOK, LastSaved, Actor, ClientPoints
<1>5. IndexBacked'
  BY DEF TypeOK, IndexBacked, Called
<1>6. IndexedIsTracked'
  BY DEF TypeOK, IndexedIsTracked, Indexed, BeingPut, Actor
<1>7. Planned'
  BY DEF TypeOK, Planned, Due, Indexed, Actor
<1> QED BY <1>1, <1>2, <1>3, <1>4, <1>5, <1>6, <1>7

LEMMA ExpireEntryInv ==
  ASSUME Inv, NEW k \in Key, ExpireEntry(k)
  PROVE  Inv'
<1> USE CoordinatorAssumption DEF Inv, ExpireEntry, Aged, Goto, data, mutex, call, cleaning, ghosts
<1>1. pc' \in [Actor -> ClientPoints \cup CleanerPoints] /\ TypeOK'
  BY DEF TypeOK, Called, Ops, States, ClientPoints, CleanerPoints, Actor
<1>2. ASSUME NEW a \in Actor PROVE Locked(a)'
  BY DEF TypeOK, Locked, Called, Writing, Reading, ClientPoints, CleanerPoints, Actor
<1>3. ASSUME NEW d \in Client PROVE Called(d)'
  BY DEF TypeOK, Called, KeyOps, Actor, CleanerPoints
<1>4. LastSaved'
  BY DEF TypeOK, LastSaved, Actor, ClientPoints
<1>5. IndexBacked'
  BY DEF TypeOK, IndexBacked, Called
<1>6. IndexedIsTracked'
  BY DEF TypeOK, IndexedIsTracked, Indexed, BeingPut, Actor
<1>7. Planned'
  BY DEF TypeOK, Planned, Due, Indexed, Actor
<1> QED BY <1>1, <1>2, <1>3, <1>4, <1>5, <1>6, <1>7

LEMMA ExpireFileInv ==
  ASSUME Inv, NEW k \in Key, ExpireFile(k)
  PROVE  Inv'
<1> USE CoordinatorAssumption DEF Inv, ExpireFile, Goto, data, mutex, call, cleaning, ghosts
<1>1. pc' \in [Actor -> ClientPoints \cup CleanerPoints] /\ TypeOK'
  BY DEF TypeOK, Called, Ops, States, ClientPoints, CleanerPoints, Actor
<1>2. ASSUME NEW a \in Actor PROVE Locked(a)'
  BY DEF TypeOK, Locked, Called, Writing, Reading, ClientPoints, CleanerPoints, Actor
<1>3. ASSUME NEW d \in Client PROVE Called(d)'
  BY DEF TypeOK, Called, KeyOps, Actor, CleanerPoints
<1>4. LastSaved'
  BY DEF TypeOK, LastSaved, Actor, ClientPoints
<1>5. IndexBacked'
  BY DEF TypeOK, IndexBacked, Called
<1>6. IndexedIsTracked'
  BY DEF TypeOK, IndexedIsTracked, Indexed, BeingPut, Actor
<1>7. Planned'
  BY DEF TypeOK, Planned, Due, Indexed, Actor
<1> QED BY <1>1, <1>2, <1>3, <1>4, <1>5, <1>6, <1>7

LEMMA RestartInv ==
  ASSUME Inv, Restart
  PROVE  Inv'
<1> USE CoordinatorAssumption DEF Inv, Restart, Goto, data, mutex, call, cleaning, ghosts
<1>1. pc' \in [Actor -> ClientPoints \cup CleanerPoints] /\ TypeOK'
  <2>1. pc' \in [Actor -> ClientPoints \cup CleanerPoints]
    BY DEF TypeOK, ClientPoints, CleanerPoints, Actor, Called, Ops, KeyOps
  <2>2. /\ \A d \in Client : pc'[d] \in ClientPoints
        /\ pc'[Cleaner] \in CleanerPoints
    BY DEF TypeOK, ClientPoints, CleanerPoints, Actor, Called, Ops, KeyOps
  <2>3. /\ stored' \in [Key -> States \cup {"dropped"}]
        /\ index' \in [Key -> States] /\ disk' \in [Key -> States]
    BY DEF TypeOK, States, Called, ClientPoints
  <2>4. accessList' \in Seq(Key) /\ plan' \in Seq(Key)
    BY DEF TypeOK, Called
  <2>5. /\ op' \in [Actor -> Ops \cup {"none", "evict"}] /\ key' \in [Actor -> Key \cup {NoKey}]
        /\ todo' \in [Actor -> SUBSET Key]
    BY DEF TypeOK, Ops, Indexed, Actor
  <2>6. closed' \in BOOLEAN /\ saved' \in BOOLEAN
    
    <3>1. closed' = FALSE /\ saved' = FALSE
      OBVIOUS
    <3> QED BY <3>1, Zenon
  <2>7. /\ writer' \in Actor \cup {NoActor} /\ readers' \in SUBSET Actor
        /\ late' \in SUBSET Key /\ unlisted' \in SUBSET Key
    BY DEF TypeOK, Called, Actor
  <2> QED BY <2>1, <2>2, <2>3, <2>4, <2>5, <2>6, <2>7 DEF TypeOK
<1>2. ASSUME NEW a \in Actor PROVE Locked(a)'
  BY DEF TypeOK, Locked, Called, Writing, Reading, ClientPoints, CleanerPoints, Actor
<1>3. ASSUME NEW d \in Client PROVE Called(d)'
  BY DEF TypeOK, Called, KeyOps, Actor, CleanerPoints
<1>4. LastSaved'
  BY DEF TypeOK, LastSaved, Actor, ClientPoints
<1>5. IndexBacked'
  BY DEF TypeOK, IndexBacked, Called
<1>6. IndexedIsTracked'
  BY DEF TypeOK, IndexedIsTracked, Indexed, BeingPut, Actor
<1>7. Planned'
  BY DEF TypeOK, Planned, Due, Indexed, Actor
<1> QED BY <1>1, <1>2, <1>3, <1>4, <1>5, <1>6, <1>7
----------------------------------------------------------------------------
LEMMA StepInv ==
  ASSUME Inv, [Next]_vars
  PROVE  Inv'
<1>1. CASE UNCHANGED vars
  <2>1. Inv' = Inv
    BY <1>1 DEF vars, Inv, TypeOK, Locked, Called, LastSaved, IndexBacked, IndexedIsTracked,
         Planned, Due, Indexed, BeingPut, Writing, Reading
  <2> QED BY <2>1
<1>2. ASSUME NEW c \in Client, NEW o \in Ops \ {"cleanup"}, NEW k \in Key \cup {NoKey}, Begin(c, o, k) PROVE Inv'
  BY <1>2, BeginInv
<1>3. ASSUME NEW c \in Client, ClientStep(c) PROVE Inv'
  BY <1>3,
     AnnounceInv, RLockInv, UnlockInv, PutFileInv, PutIndexInv, NotifyAddInv,
     ReadFileInv, TouchEntryInv, ReadSizeInv, ClearListInv, ClearNextInv,
     ClearEndInv, CloseIndexInv
     DEF ClientStep, Actor
<1>4. ASSUME CleanerStep PROVE Inv'
  BY <1>4, AnnounceInv,
     ListExpiredInv, ExpireNextInv, ExpireEndInv, CountMetricInv,
     DeleteEntryInv, EvictLockInv, CheckSizeInv, CollectEntriesInv,
     SelectEntriesInv, EvictNextInv, EvictEndInv, CompactIndexInv,
     PersistIndexInv, CountErrorInv, SeeDoneInv, StopTickerInv
     DEF CleanerStep, Actor
<1>5. ASSUME Tick \/ SeeCancelled PROVE Inv'
  BY <1>5, TickInv, SeeCancelledInv
<1>6. ASSUME NEW k \in Key, ExpireEntry(k) \/ ExpireFile(k) PROVE Inv'
  BY <1>6, ExpireEntryInv, ExpireFileInv
<1>7. ASSUME Restart PROVE Inv'
  BY <1>7, RestartInv
<1> QED BY <1>1, <1>2, <1>3, <1>4, <1>5, <1>6, <1>7 DEF Next

LEMMA Invariant == Spec => []Inv
<1>1. Inv /\ [Next]_vars => Inv'
  BY StepInv
<1> QED BY <1>1, InitInv, PTL DEF Spec

(* IndexIsSound for any number of clients and keys: no failed write, crash *)
(* or cleanup leaves an entry without a file or a put key out of eviction. *)
THEOREM IndexStaysSound == Spec => []IndexIsSound
<1>1. Inv => IndexIsSound
  BY DEF Inv, IndexIsSound
<1> QED BY <1>1, Invariant, PTL

(* CloseIsLast: cm.mu excludes whoever it should, and the save that Close  *)
(* made stays the last one although the cleanup may still be running.      *)
THEOREM CloseStaysLast == Spec => []CloseIsLast
<1>1. Inv => CoordinatorExclusive
  BY DEF Inv, CoordinatorExclusive, Locked
<1>2. Inv => ClosedIndexSaved
  BY DEF Inv, ClosedIndexSaved, Quiet, LastSaved
<1>3. Inv => CloseIsLast
  BY <1>1, <1>2 DEF CloseIsLast
<1> QED BY <1>3, Invariant, PTL

(* EvictionFreesTracked for any sizes and limit: everything that was       *)
(* indexed when performEviction listed the keys, and that the list knew,   *)
(* is gone when the selected keys are deleted, whatever clients did since. *)
THEOREM EvictionFrees == Spec => []EvictionFreesTracked
<1>1. Inv => EvictionFreesTracked
  <2> SUFFICES ASSUME Inv, At("evict"), plan = <<>>
               PROVE  TotalOf(Indexed \ (late \cup unlisted)) <= MaxSizeBytes
    BY DEF EvictionFreesTracked
  <2>1. Indexed \ (late \cup unlisted) = {}
    BY DEF Inv, Planned, Due, At, ToSet
  <2>2. SumFunctionOnSet(Size, {}) = 0
    <3>1. IsFiniteSet({}) /\ Numbers(Size, {})
      BY FS_EmptySet DEF Numbers
    <3> QED BY <3>1, SumFacts
  <2>3. TotalOf(Indexed \ (late \cup unlisted)) = 0
    BY <2>1, <2>2 DEF TotalOf
  <2>4. MaxSizeBytes \in Nat
    BY CoordinatorAssumption
  <2> QED BY <2>3, <2>4
<1> QED BY <1>1, Invariant, PTL
============================================================================
