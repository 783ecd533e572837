--------------------------- MODULE EvictionOrder ---------------------------
(***************************************************************************)
(* oci/internal/cache/eviction.go: what each strategy selects.  A strategy *)
(* is given the cache's entries, a function from keys to records with a    *)
(* size, an expiry time and whether that time is past; it answers with a   *)
(* sequence of keys.  sort.Slice is not stable and a Go map has no order,  *)
(* so a selection with ties is a set of possible answers.                  *)
(***************************************************************************)
EXTENDS Naturals, Sequences, SequencesExt, Functions

CONSTANTS Key, MaxSizeBytes

VARIABLE accessList  \* the list of LRUEviction, most recently used key first

(* The members of K in s, in their order: what a loop over s appends. *)
Picked(s, K) ==
  LET upTo[n \in 0..Len(s)] ==
        IF n = 0 THEN <<>>
        ELSE IF s[n] \in K THEN Append(upTo[n - 1], s[n]) ELSE upTo[n - 1]
  IN upTo[Len(s)]

Tracked(list) == ToSet(list)

(* Broken: a key already on the list stays where it is. *)
PushOnly(list, k) == IF k \in Tracked(list) THEN list ELSE <<k>> \o list

Untrack(list, k) == Picked(list, Tracked(list) \ {k})
MoveToFront(list, k) == <<k>> \o Untrack(list, k)

Sorted(K, Before(_, _)) ==
  {s \in SetToSeqs(K) : \A i, j \in 1..Len(s) : i < j => ~Before(s[j], s[i])}

SelectLRU(list, entries) == Picked(Reverse(list), DOMAIN entries)

TotalSize(entries, K) == SumFunctionOnSet([k \in K |-> entries[k].size], K)

(* Broken: smallest first. *)
ExpiredThenSmallest(e, f) ==
  \/ e.expired /\ ~f.expired
  \/ e.expired = f.expired /\ e.size < f.size

ExpiredThenLargest(e, f) ==
  \/ e.expired /\ ~f.expired
  \/ e.expired = f.expired /\ e.size > f.size

(* The shortest prefix that frees at least need bytes. *)
FreeingPrefix(s, entries, need) ==
  LET enough == {n \in 0..Len(s) : TotalSize(entries, ToSet(SubSeq(s, 1, n))) >= need}
      n == CHOOSE i \in enough : \A j \in enough : i <= j
  IN SubSeq(s, 1, n)

SelectBySize(entries, maxSize) ==
  LET total == TotalSize(entries, DOMAIN entries)
      Before(a, b) == ExpiredThenLargest(entries[a], entries[b])
  IN IF total <= maxSize THEN {<<>>}
     ELSE {FreeingPrefix(s, entries, total - maxSize) : s \in Sorted(DOMAIN entries, Before)}

SelectExpired(entries) ==
  LET Before(a, b) == entries[a].expiry < entries[b].expiry
  IN Sorted({k \in DOMAIN entries : entries[k].expired}, Before)

(* Broken: without the check for keys selected already. *)
AppendAll(s, t) == s \o t

(* CompositeEviction: the strategies' answers in the order of their        *)
(* priority numbers, lowest first, each key once.                          *)
AppendNew(s, t) == s \o Picked(t, ToSet(t) \ ToSet(s))

Merged(parts, order) ==
  LET upTo[n \in 0..Len(order)] ==
        IF n = 0 THEN <<>> ELSE AppendNew(upTo[n - 1], parts[order[n]].keys)
  IN upTo[Len(order)]

Combine(parts) ==
  LET Before(i, j) == parts[i].priority < parts[j].priority
  IN {Merged(parts, order) : order \in Sorted(DOMAIN parts, Before)}
============================================================================
