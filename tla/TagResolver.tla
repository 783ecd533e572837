---------------------------- MODULE TagResolver ----------------------------
(***************************************************************************)
(* oci/internal/cache/resolver.go over the tag cache (TagCache) and the    *)
(* manifest cache (manifest.go).  A process is a goroutine in one call of  *)
(* the resolver or of the manifest cache; each call of the tag cache it    *)
(* makes runs as TagCache's own actions, each Storage call of the manifest *)
(* cache is one action, and so is each HEAD request to the registry, whose *)
(* tags somebody else moves.  A batch resolves one reference per process.  *)
(***************************************************************************)
EXTENDS TagCache, FiniteSets

CONSTANTS Cached,       \* the digests whose cached manifests are about to expire
          DefaultTTL,   \* how long a cached manifest lives, 0 for ever
          MaxTime, MaxMoves, MaxCalls   \* bounds of the exploration

ASSUME ResolverAssumption ==
  /\ Cached \subseteq Digest /\ IsFiniteSet(Proc)
  /\ MaxTime \in Nat /\ DefaultTTL \in 0..MaxTime /\ MaxMoves \in Nat
  /\ MaxCalls \in 0..MaxPuts

VARIABLES registry,   \* registry[r]: the digest of tag r in the registry, or None
          manifests,  \* manifests[d]: when the cached entry of d was made, or None
          now, moves, calls,
          at,         \* at[p]: the step of p's call
          call, target,
          carried,    \* carried[p]: the digest p's call works on
          entry,      \* entry[p]: the manifest entry p has read
          batch,      \* the goroutines whose results a batch still waits for
          putTimes,   \* putTimes[d]: when manifests were put for d
          began,      \* began[p]: when p's call began
          since,      \* since[q]: what the registry held for the tags of file q
                      \* since an invalidation of one ran alone, or ever
          alone       \* alone[p]: p's invalidation has met no other call on its file

world == <<registry, now, moves>>
calling == <<calls, call, target, batch, began>>
ghosts == <<putTimes, since, alone>>
allVars == <<tagVars, world, manifests, at, calling, carried, entry, ghosts>>

TagCalls == {"resolve", "validate", "invalidate", "history", "detect"}
Forgetting == {"invalidate", "detect"}
ManifestCalls == {"getManifest", "putManifest", "hasManifest"}
Steps == {"idle", "lookup", "lookedUp", "entry", "drop", "touch", "create", "head",
          "store", "stored", "forget", "forgotten", "served", "done", "failed"}

ResolverTypeOK ==
  /\ TypeOK
  /\ registry \in [Reference -> Digest \cup {None}]
  /\ manifests \in [Digest -> 0..MaxTime \cup {None}]
  /\ now \in 0..MaxTime /\ moves \in 0..MaxMoves /\ calls \in 0..MaxCalls
  /\ at \in [Proc -> Steps]
  /\ call \in [Proc -> TagCalls \cup ManifestCalls \cup {"batched", "none"}]
  /\ target \in [Proc -> Reference \cup {None}]
  /\ carried \in [Proc -> Digest \cup {None}]
  /\ entry \in [Proc -> 0..MaxTime \cup {None}]
  /\ batch \in SUBSET Proc

(* What the registry holds for the tags of file q. *)
HeldFor(q) == {registry[r] : r \in {x \in Reference : TagPath[x] = q}}

ResolverInit ==
  /\ Init
  /\ registry \in [Reference -> Digest]
  /\ manifests = [d \in Digest |-> IF d \in Cached THEN 0 ELSE None]
  /\ now = DefaultTTL /\ moves = 0 /\ calls = 0
  /\ at = [p \in Proc |-> "idle"]
  /\ call = [p \in Proc |-> "none"]
  /\ target = [p \in Proc |-> None]
  /\ carried = [p \in Proc |-> None]
  /\ entry = [p \in Proc |-> None]
  /\ batch = {}
  /\ putTimes = [d \in Digest |-> IF d \in Cached THEN {0} ELSE {}]
  /\ began = [p \in Proc |-> 0]
  /\ since = [q \in Path |-> HeldFor(q)]
  /\ alone = [p \in Proc |-> TRUE]
----------------------------------------------------------------------------
Step(p, l) == at' = [at EXCEPT ![p] = l]
Carry(p, d) == carried' = [carried EXCEPT ![p] = d]
Resolving(p) == call[p] \in {"resolve", "batched"}

(* The calls on the file of reference r that a new call of p meets. *)
Meets(p, r) ==
  {q \in Proc \ {p} : at[q] # "idle" /\ target[q] # None /\ TagPath[target[q]] = TagPath[r]}

(* ResolveTag, ValidateTag, InvalidateTag, GetTagHistory, and              *)
(* DetectTagMovement, whose caller expects digest d.                       *)
CallResolver(p, c, r, d) ==
  /\ at[p] = "idle" /\ calls < MaxCalls
  /\ c = "detect" <=> d # None
  /\ calls' = calls + 1
  /\ Step(p, CASE c = "invalidate" -> "forget" [] c = "detect" -> "head" [] OTHER -> "lookup")
  /\ call' = [call EXCEPT ![p] = c]
  /\ target' = [target EXCEPT ![p] = r]
  /\ Carry(p, d)
  /\ began' = [began EXCEPT ![p] = now]
  /\ alone' = [q \in Proc |-> IF q = p THEN Meets(p, r) = {} \/ c \notin Forgetting
                              ELSE alone[q] /\ (q \in Meets(p, r) => call[q] \notin Forgetting)]
  /\ UNCHANGED <<world, manifests, entry, batch, putTimes, since, tagVars>>

(* GetManifest, HasManifest or ValidateManifest, and PutManifest of a      *)
(* manifest that is valid.                                                 *)
CallManifestCache(p, c, d) ==
  /\ at[p] = "idle" /\ calls < MaxCalls
  /\ calls' = calls + 1
  /\ Step(p, IF c = "putManifest" THEN "create" ELSE "entry")
  /\ call' = [call EXCEPT ![p] = c]
  /\ Carry(p, d)
  /\ began' = [began EXCEPT ![p] = now]
  /\ UNCHANGED <<world, manifests, target, entry, batch, ghosts, tagVars>>

(* A goroutine for each reference; refs[p] is that of goroutine p. *)
BatchResolveTags(refs) ==
  /\ batch = {} /\ calls + Cardinality(Proc) <= MaxCalls
  /\ \A p \in Proc : at[p] = "idle"
  /\ calls' = calls + Cardinality(Proc)
  /\ batch' = Proc
  /\ at' = [p \in Proc |-> "lookup"]
  /\ call' = [p \in Proc |-> "batched"]
  /\ target' = refs
  /\ began' = [p \in Proc |-> now]
  /\ UNCHANGED <<world, manifests, carried, entry, ghosts, tagVars>>
----------------------------------------------------------------------------
(* GetTagMapping of ResolveTag, HasTagMapping or GetTagHistory. *)
LookUp(p) ==
  /\ at[p] = "lookup"
  /\ Begin(p, IF Resolving(p) THEN "get" ELSE "look", target[p], None)
  /\ Step(p, "lookedUp")
  /\ UNCHANGED <<world, manifests, calling, carried, entry, ghosts>>

(* Broken: goes on with the mapping in place of its digest. *)
LookedUpMapping(p) ==
  /\ at[p] = "lookedUp"
  /\ Return(p)
  /\ IF pc[p] = "ok" THEN Carry(p, seen[p]) /\ Step(p, "entry")
     ELSE Step(p, "head") /\ UNCHANGED carried
  /\ UNCHANGED <<world, manifests, calling, entry, ghosts>>

LookedUp(p) ==
  /\ at[p] = "lookedUp"
  /\ Return(p)
  /\ \/ /\ pc[p] = "ok" /\ Resolving(p)
        /\ Carry(p, seen[p].digest)
        /\ Step(p, "entry")
     \/ pc[p] = "ok" /\ ~Resolving(p) /\ Step(p, "done") /\ UNCHANGED carried
     \/ /\ pc[p] = "err"
        /\ Step(p, IF call[p] = "history" THEN "failed" ELSE "head")
        /\ UNCHANGED carried
  /\ UNCHANGED <<world, manifests, calling, entry, ghosts>>

Expired(t) == DefaultTTL > 0 /\ now - t > DefaultTTL

(* No manifest: a resolution asks the registry, HasManifest answers. *)
AfterMiss(p) ==
  IF Resolving(p) THEN "head" ELSE IF call[p] = "getManifest" THEN "failed" ELSE "done"

(* readManifestEntry and isExpired; a read that fails is taken for none. *)
ReadManifest(p) ==
  /\ at[p] = "entry"
  /\ \E e \in {manifests[carried[p]], None} :
     \/ e = None /\ Step(p, AfterMiss(p)) /\ UNCHANGED entry
     \/ e # None /\ Expired(e) /\ Step(p, "drop") /\ UNCHANGED entry
     \/ /\ e # None /\ ~Expired(e)
        /\ Step(p, IF call[p] = "getManifest" THEN "touch" ELSE "served")
        /\ entry' = [entry EXCEPT ![p] = IF call[p] = "getManifest" THEN e ELSE None]
  /\ UNCHANGED <<world, manifests, calling, carried, ghosts, tagVars>>

(* The entry that is there now is removed, an error ignored. *)
DropManifest(p) ==
  /\ at[p] = "drop"
  /\ \/ manifests' = [manifests EXCEPT ![carried[p]] = None]
     \/ UNCHANGED manifests
  /\ Step(p, AfterMiss(p))
  /\ UNCHANGED <<world, calling, carried, entry, ghosts, tagVars>>

(* Broken: the entry is stored as if it were made now. *)
TouchAnew(p) ==
  /\ at[p] = "touch"
  /\ \/ manifests' = [manifests EXCEPT ![carried[p]] = now]
     \/ UNCHANGED manifests
  /\ Step(p, "served")
  /\ UNCHANGED <<world, calling, carried, entry, ghosts, tagVars>>

(* GetManifest writes the entry it read with a new access time. *)
TouchManifest(p) ==
  /\ at[p] = "touch"
  /\ \/ manifests' = [manifests EXCEPT ![carried[p]] = entry[p]]
     \/ UNCHANGED manifests
  /\ Step(p, "served")
  /\ UNCHANGED <<world, calling, carried, entry, ghosts, tagVars>>

PutManifest(p) ==
  /\ at[p] = "create"
  /\ \/ /\ manifests' = [manifests EXCEPT ![carried[p]] = now]
        /\ putTimes' = [putTimes EXCEPT ![carried[p]] = @ \cup {now}]
        /\ Step(p, "done")
     \/ Step(p, "failed") /\ UNCHANGED <<manifests, putTimes>>
  /\ UNCHANGED <<world, calling, carried, entry, since, alone, tagVars>>

(* validateWithRegistry: the HEAD request, which may fail or find no tag. *)
AskRegistry(p) ==
  LET d == registry[target[p]] IN
  /\ at[p] = "head"
  /\ \/ Step(p, "failed") /\ UNCHANGED carried
     \/ d = None /\ call[p] = "validate" /\ Step(p, "done") /\ UNCHANGED carried
     \/ d # None /\ Resolving(p) /\ Carry(p, d) /\ Step(p, "store")
     \/ /\ d # None /\ ~Resolving(p)
        /\ Step(p, IF call[p] = "detect" /\ d # carried[p] THEN "forget" ELSE "done")
        /\ UNCHANGED carried
  /\ UNCHANGED <<world, manifests, calling, entry, ghosts, tagVars>>

Store(p) ==
  /\ at[p] = "store"
  /\ Begin(p, "put", target[p], carried[p])
  /\ Step(p, "stored")
  /\ UNCHANGED <<world, manifests, calling, carried, entry, ghosts>>

(* The resolution succeeds, whatever became of the put. *)
Stored(p) ==
  /\ at[p] = "stored"
  /\ Return(p)
  /\ Step(p, "done")
  /\ UNCHANGED <<world, manifests, calling, carried, entry, ghosts>>

Forget(p) ==
  /\ at[p] = "forget"
  /\ Begin(p, "delete", target[p], None)
  /\ Step(p, "forgotten")
  /\ UNCHANGED <<world, manifests, calling, carried, entry, ghosts>>

(* InvalidateTag reports an error, DetectTagMovement ignores it. *)
Forgotten(p) ==
  /\ at[p] = "forgotten"
  /\ Return(p)
  /\ Step(p, IF pc[p] = "err" /\ call[p] = "invalidate" THEN "failed" ELSE "done")
  /\ since' = IF pc[p] = "ok" /\ alone[p]
              THEN [since EXCEPT ![TagPath[target[p]]] = HeldFor(TagPath[target[p]])] ELSE since
  /\ UNCHANGED <<world, manifests, calling, carried, entry, putTimes, alone>>

(* p's call is over and forgotten. *)
Leave(p) ==
  /\ Step(p, "idle")
  /\ call' = [call EXCEPT ![p] = "none"]
  /\ target' = [target EXCEPT ![p] = None]
  /\ Carry(p, None)
  /\ entry' = [entry EXCEPT ![p] = None]
  /\ began' = [began EXCEPT ![p] = 0]
  /\ alone' = [alone EXCEPT ![p] = TRUE]
  /\ UNCHANGED <<world, manifests, calls, putTimes, since, tagVars>>

(* Broken: a batch ends at the first reference it cannot resolve. *)
FinishAtFailure(p) ==
  /\ at[p] \in {"served", "done", "failed"}
  /\ Leave(p)
  /\ batch' = IF call[p] = "batched" /\ at[p] = "failed" THEN {} ELSE batch \ {p}

(* A call returns; the batch takes the result of a goroutine of its own,   *)
(* and fails only when no goroutine has resolved its reference.            *)
Finish(p) ==
  /\ at[p] \in {"served", "done", "failed"}
  /\ Leave(p)
  /\ batch' = batch \ {p}

ResolverStep(p) ==
  \/ LookUp(p) \/ LookedUp(p) \/ ReadManifest(p) \/ DropManifest(p)
  \/ TouchManifest(p) \/ PutManifest(p) \/ AskRegistry(p) \/ Store(p) \/ Stored(p)
  \/ Forget(p) \/ Forgotten(p) \/ Finish(p)
  \/ TagStep(p) /\ UNCHANGED <<world, manifests, at, calling, carried, entry, ghosts>>

(* Somebody moves or deletes tag r in the registry. *)
MoveTag(r, d) ==
  /\ moves < MaxMoves
  /\ registry[r] # d
  /\ registry' = [registry EXCEPT ![r] = d]
  /\ since' = [since EXCEPT ![TagPath[r]] = @ \cup {d}]
  /\ moves' = moves + 1
  /\ UNCHANGED <<now, manifests, at, calling, carried, entry, putTimes, alone, tagVars>>

Tick ==
  /\ now < MaxTime
  /\ now' = now + 1
  /\ UNCHANGED <<registry, moves, manifests, at, calling, carried, entry, ghosts, tagVars>>

ResolverNext ==
  \/ \E p \in Proc, c \in TagCalls, r \in Reference, d \in Digest \cup {None} :
       CallResolver(p, c, r, d)
  \/ \E p \in Proc, c \in ManifestCalls, d \in Digest : CallManifestCache(p, c, d)
  \/ \E refs \in [Proc -> Reference] : BatchResolveTags(refs)
  \/ \E p \in Proc : ResolverStep(p)
  \/ \E q \in Path :
       Expire(q) /\ UNCHANGED <<world, manifests, at, calling, carried, entry, ghosts>>
  \/ \E r \in Reference, d \in Digest \cup {None} : MoveTag(r, d)
  \/ Tick

ResolverSpec == ResolverInit /\ [][ResolverNext]_allVars
----------------------------------------------------------------------------
(* ResolveTag never answers what the registry held only before an          *)
(* invalidation that ran alone: neither the access times that lookups      *)
(* write nor the mappings that later resolutions store bring it back.      *)
(* References that tagPath gives one name count as one tag.                *)
ResolvedSinceInvalidated ==
  \A p \in Proc : Resolving(p) /\ at[p] \in {"served", "done"} =>
    carried[p] \in since[TagPath[target[p]]]

(* The manifest cache serves a manifest only for DefaultTTL after a        *)
(* PutManifest of it, however often it is read and written back meanwhile. *)
ServedIsYoung ==
  \A p \in Proc : at[p] = "served" =>
    \E t \in putTimes[carried[p]] : DefaultTTL > 0 => began[p] - t <= DefaultTTL

(* When BatchResolveTags returns, none of its goroutines is still at work. *)
BatchIsWhole == batch = {} => \A p \in Proc : call[p] # "batched"
============================================================================
