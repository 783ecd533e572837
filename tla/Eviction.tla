------------------------------ MODULE Eviction ------------------------------
(***************************************************************************)
(* The eviction strategies of oci/internal/cache/eviction.go as the        *)
(* Coordinator sets them up: an LRU list and a size limit, combined by     *)
(* priority.  The environment adds, accesses and removes keys and asks for *)
(* a selection among any map of entries.                                   *)
(***************************************************************************)
EXTENDS EvictionOrder, FiniteSets

CONSTANTS EntrySizes,                 \* sizes of entries
          LRUPriority, SizePriority,  \* the priorities in initializeCaches
          MaxUses                     \* bound on the uses explored

ASSUME EvictionAssumption ==
  /\ IsFiniteSet(Key) /\ EntrySizes \subseteq Nat /\ MaxSizeBytes \in Nat
  /\ LRUPriority \in Nat /\ SizePriority \in Nat /\ MaxUses \in Nat

VARIABLES stuck,     \* OnAdd waits for the mutex its own goroutine holds
          lastUse,   \* lastUse[k]: when k was added or accessed last
          uses,
          asked, given    \* the last selection: the entries and the answer

evictionVars == <<accessList, stuck, lastUse, uses, asked, given>>

Strategies == {"lru", "size", "ttl", "composite"}

(* Expiry times 0 and 1 are past. *)
Entry(s, x) == [size |-> s, expiry |-> x, expired |-> x < 2]
EntryMaps == UNION {[K -> {Entry(s, x) : s \in EntrySizes, x \in 0..2}] : K \in SUBSET Key}
Nothing == [strategy |-> "none", keys |-> <<>>]

StrategyTypeOK ==
  /\ accessList \in Seq(Key) /\ \A k \in Key : k \in Tracked(accessList) <=> lastUse[k] > 0
  /\ stuck \in BOOLEAN
  /\ uses \in 0..MaxUses
  /\ given.keys \in Seq(Key) /\ \A k \in ToSet(given.keys) : k \in DOMAIN asked

StrategyInit ==
  /\ accessList = <<>> /\ stuck = FALSE
  /\ lastUse = [k \in Key |-> 0] /\ uses = 0
  /\ asked = <<>> /\ given = Nothing

Ready == ~stuck /\ given = Nothing
answer == <<asked, given>>

Use(k) ==
  /\ uses < MaxUses /\ uses' = uses + 1
  /\ lastUse' = [lastUse EXCEPT ![k] = uses + 1]
  /\ accessList' = MoveToFront(accessList, k)

OnAdd(k) ==
  /\ Ready
  /\ \/ k \notin Tracked(accessList) /\ Use(k) /\ UNCHANGED stuck
     \/ /\ k \in Tracked(accessList)      \* calls OnAccess with l.mu held
        /\ stuck' = TRUE
        /\ UNCHANGED <<accessList, lastUse, uses>>
  /\ UNCHANGED answer

OnAccess(k) ==
  /\ Ready
  /\ \/ k \in Tracked(accessList) /\ Use(k)
     \/ k \notin Tracked(accessList) /\ UNCHANGED <<accessList, lastUse, uses>>
  /\ UNCHANGED <<stuck, answer>>

OnRemove(k) ==
  /\ Ready
  /\ accessList' = Untrack(accessList, k)
  /\ lastUse' = [lastUse EXCEPT ![k] = 0]
  /\ UNCHANGED <<stuck, uses, answer>>

(* SelectForEviction; only the LRU strategy takes the mutex. *)
Select(strategy, entries) ==
  /\ given = Nothing
  /\ strategy \in {"lru", "composite"} => ~stuck
  /\ asked' = entries
  /\ LET lru == [priority |-> LRUPriority, keys |-> SelectLRU(accessList, entries)] IN
     \E s \in SelectBySize(entries, MaxSizeBytes) :
       \E keys \in CASE strategy = "lru" -> {lru.keys}
                        [] strategy = "size" -> {s}
                        [] strategy = "ttl" -> SelectExpired(entries)
                        [] strategy = "composite" ->
                             Combine(<<lru, [priority |-> SizePriority, keys |-> s]>>) :
         given' = [strategy |-> strategy, keys |-> keys]
  /\ UNCHANGED <<accessList, stuck, lastUse, uses>>

(* The caller is done with the answer. *)
Consume ==
  /\ given # Nothing
  /\ asked' = <<>> /\ given' = Nothing
  /\ UNCHANGED <<accessList, stuck, lastUse, uses>>

StrategyNext ==
  \/ \E k \in Key : OnAdd(k) \/ OnAccess(k) \/ OnRemove(k)
  \/ Consume
  \/ \E strategy \in Strategies, entries \in EntryMaps : Select(strategy, entries)

StrategySpec == StrategyInit /\ [][StrategyNext]_evictionVars
----------------------------------------------------------------------------
Chosen == ToSet(given.keys)
Kept == DOMAIN asked \ Chosen
Answered(strategy) == given.strategy = strategy

(* LRU answers with every tracked entry, the one used longest ago first:   *)
(* moving list elements on access keeps the list in order of last use.     *)
LruIsLeastRecentlyUsed ==
  Answered("lru") =>
    /\ Chosen = {k \in DOMAIN asked : lastUse[k] > 0}
    /\ \A i, j \in DOMAIN given.keys : i < j => lastUse[given.keys[i]] < lastUse[given.keys[j]]

(* The size strategy frees enough and stops there: without its selection   *)
(* the entries fit, and they would not with its last key put back.         *)
SizeFreesJustEnough ==
  Answered("size") =>
    /\ TotalSize(asked, Kept) <= MaxSizeBytes
    /\ given.keys # <<>> => TotalSize(asked, Kept \cup {Last(given.keys)}) > MaxSizeBytes

(* It keeps no entry that should have gone before one it takes: nothing    *)
(* expired while it takes a live one, nothing larger of the same kind.     *)
SizeKeepsTheRightOnes ==
  Answered("size") =>
    \A c \in Chosen, k \in Kept :
      /\ asked[k].expired => asked[c].expired
      /\ asked[k].expired = asked[c].expired => asked[k].size <= asked[c].size

(* TTL answers with the expired entries in the order in which they expired.*)
TtlIsOldestFirst ==
  Answered("ttl") =>
    /\ Kept = {k \in DOMAIN asked : ~asked[k].expired}
    /\ \A i, j \in DOMAIN given.keys :
         i < j => asked[given.keys[i]].expiry <= asked[given.keys[j]].expiry

(* The combined answer names no key twice and leaves entries that fit the  *)
(* limit, also those the LRU list does not know.                           *)
CompositeFreesEnough ==
  Answered("composite") =>
    /\ \A i, j \in DOMAIN given.keys : i # j => given.keys[i] # given.keys[j]
    /\ TotalSize(asked, Kept) <= MaxSizeBytes

(* Each strategy takes the right keys in the right order ...               *)
SelectsTheRightOnes == SizeKeepsTheRightOnes /\ TtlIsOldestFirst

(* ... and together they make room, without a key named twice.             *)
SelectsEnough == StrategyTypeOK /\ SizeFreesJustEnough /\ CompositeFreesEnough
============================================================================
