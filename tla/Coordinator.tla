---------------------------- MODULE Coordinator ----------------------------
(***************************************************************************)
(* oci/internal/cache/manager.go with index.go: clients and the cleanup    *)
(* goroutine share the index and the access list of the LRU strategy.      *)
(* cm.mu is a Go RWMutex: a writer first announces itself, which keeps new *)
(* readers out, then waits for the readers inside.  The index and the list *)
(* have mutexes of their own, so each call on one of them is one action;   *)
(* the cleanup calls the index without holding cm.mu.                      *)
(***************************************************************************)
EXTENDS EvictionOrder, FiniteSets

CONSTANTS Client, Cleaner,
          Size,          \* Size[k]: what the index records for k
          EntrySize,     \* Entry.Size() of the entries performEviction builds
          MaxEntries,    \* 10000 in initializeCaches
          Work,          \* the operations called in this instance
          IOFails,       \* files and the index may fail to be written
          Crashes,
          NoActor, NoKey

Ops == {"get", "put", "reput", "size", "clear", "close", "cleanup"}

ASSUME CoordinatorAssumption ==
  /\ Cleaner \notin Client /\ NoActor \notin Client \cup {Cleaner}
  /\ NoKey \notin Key /\ IsFiniteSet(Key)
  /\ Size \in [Key -> Nat] /\ EntrySize \in Nat /\ MaxSizeBytes \in Nat
  /\ MaxEntries \in Nat \ {0}
  /\ Work \subseteq Ops /\ IOFails \in BOOLEAN /\ Crashes \in BOOLEAN

Actor == Client \cup {Cleaner}

VARIABLES stored,      \* stored[k]: the data file of k
          index,       \* index[k]: its index entry
          disk,        \* index.db
          writer,      \* announced or inside cm.mu.Lock, or NoActor
          readers,     \* inside cm.mu.RLock
          pc, op, key,
          todo,        \* keys a loop still has to visit
          plan,        \* the keys selected for eviction, in order
          closed,      \* cleanupDone is closed
          saved,       \* Close has saved the index and no Put has come since
          late,        \* keys indexed since performEviction listed the keys
          unlisted     \* keys indexed without an OnAdd: loaded from index.db,
                       \* or put by a call that then failed to persist

vars == <<stored, index, disk, accessList, writer, readers, pc, op, key, todo, plan,
          closed, saved, late, unlisted>>

States == {"none", "live", "expired"}
ClientPoints == {"idle", "lock", "rlock", "put", "index", "add", "stuck", "get", "touch",
                 "size", "clear", "close", "unlock"}
CleanerPoints == {"idle", "expired", "expire", "metrics", "delete", "total", "nested", "collect",
                  "select", "evict", "compact", "persist", "error", "exit", "gone"}

TypeOK ==
  /\ stored \in [Key -> States \cup {"dropped"}]
  /\ index \in [Key -> States] /\ disk \in [Key -> States]
  /\ accessList \in Seq(Key)
  /\ writer \in Actor \cup {NoActor} /\ readers \in SUBSET Actor
  /\ \A c \in Client : pc[c] \in ClientPoints
  /\ pc[Cleaner] \in CleanerPoints
  /\ op \in [Actor -> Ops \cup {"none", "evict"}] /\ key \in [Actor -> Key \cup {NoKey}]
  /\ todo \in [Actor -> SUBSET Key] /\ plan \in Seq(Key)
  /\ closed \in BOOLEAN /\ saved \in BOOLEAN
  /\ late \in SUBSET Key /\ unlisted \in SUBSET Key

NoKeys == [k \in Key |-> "none"]

Init ==
  /\ stored = NoKeys /\ index = NoKeys /\ disk = NoKeys
  /\ accessList = <<>>
  /\ writer = NoActor /\ readers = {}
  /\ pc = [a \in Actor |-> "idle"]
  /\ op = [a \in Actor |-> "none"]
  /\ key = [a \in Actor |-> NoKey]
  /\ todo = [a \in Actor |-> {}] /\ plan = <<>>
  /\ closed = FALSE /\ saved = FALSE
  /\ late = {} /\ unlisted = {}
----------------------------------------------------------------------------
Goto(a, l) == pc' = [pc EXCEPT ![a] = l]
data == <<stored, index, disk, accessList>>
mutex == <<writer, readers>>
call == <<op, key>>
cleaning == <<todo, plan>>
ghosts == <<closed, saved, late, unlisted>>

Indexed == {k \in Key : index[k] # "none"}
Stuck == \E c \in Client : pc[c] = "stuck"     \* LRUEviction.mu is never released

(* cm.mu.Lock: announce, then proceed once no reader is left. *)
Announce(a) ==
  /\ pc[a] \in {"lock", "metrics", "error", "exit"}
  /\ writer = NoActor
  /\ writer' = a
  /\ Goto(a, IF pc[a] = "lock" THEN IF op[a] = "reput" THEN "put" ELSE op[a] ELSE pc[a])
  /\ UNCHANGED <<data, readers, call, cleaning, ghosts>>

Holds(a) == writer = a /\ readers = {}

RLock(a) ==
  /\ pc[a] = "rlock"
  /\ writer = NoActor
  /\ readers' = readers \cup {a}
  /\ Goto(a, op[a])
  /\ UNCHANGED <<data, writer, call, cleaning, ghosts>>

(* The deferred unlock and the return. *)
Unlock(a) ==
  /\ pc[a] = "unlock"
  /\ writer' = IF writer = a THEN NoActor ELSE writer
  /\ readers' = readers \ {a}
  /\ Goto(a, "idle")
  /\ op' = [op EXCEPT ![a] = "none"]
  /\ key' = [key EXCEPT ![a] = NoKey]
  /\ UNCHANGED <<data, cleaning, ghosts>>

(* A "put" is of a key this process has not put before, a "reput" of any.  *)
KeyOps == {"get", "put", "reput"}

Begin(c, o, k) ==
  /\ pc[c] = "idle" /\ o \in Work
  /\ k \in Key <=> o \in KeyOps
  /\ o = "put" => /\ k \notin Tracked(accessList)
                  /\ \A d \in Client : op[d] \in {"put", "reput"} => key[d] # k
  /\ op' = [op EXCEPT ![c] = o]
  /\ key' = [key EXCEPT ![c] = k]
  /\ Goto(c, IF o \in {"get", "size"} THEN "rlock" ELSE "lock")
  /\ UNCHANGED <<data, mutex, cleaning, ghosts>>
----------------------------------------------------------------------------
(* index.go.  Expired entries go when the index is compacted, and index.db *)
(* is replaced by a rename, so it holds either the old index or the new.   *)
Live(idx) == [k \in Key |-> IF idx[k] = "expired" THEN "none" ELSE idx[k]]
Count(idx) == Cardinality({k \in Key : idx[k] # "none"})
NeedsCompaction(idx) == 4 * Count(idx) < 3 * MaxEntries

(* Persist with the result ok or not. *)
Persist(idx, ok) ==
  \/ ok /\ disk' = idx
  \/ ~ok /\ IOFails /\ UNCHANGED disk

(* The same after Close: what a failure leaves unsaved is not Close's. *)
PersistAgain(idx, ok) == Persist(idx, ok) /\ saved' = (saved /\ ok)

Without(k) == [index EXCEPT ![k] = "none"]

IndexDelete(k) ==
  IF NeedsCompaction(Without(k))
  THEN /\ index' = Live(Without(k))
       /\ \E ok \in BOOLEAN : PersistAgain(index', ok)
  ELSE index' = Without(k) /\ UNCHANGED <<disk, saved>>
----------------------------------------------------------------------------
(* PutManifest and PutBlob. *)
PutFile(c) ==
  /\ pc[c] = "put" /\ Holds(c)
  /\ \/ /\ stored' = [stored EXCEPT ![key[c]] = "live"]
        /\ Goto(c, "index")
     \/ IOFails /\ Goto(c, "unlock") /\ UNCHANGED stored
  /\ UNCHANGED <<index, disk, accessList, mutex, call, cleaning, ghosts>>

PutIndex(c) ==
  /\ pc[c] = "index"
  /\ index' = [index EXCEPT ![key[c]] = "live"]
  /\ \/ /\ Count(index') < MaxEntries
        /\ Goto(c, "add")
        /\ unlisted' = unlisted \ {key[c]}
        /\ UNCHANGED disk
     \/ /\ Count(index') >= MaxEntries
        /\ \E ok \in BOOLEAN :
             /\ Persist(index', ok)
             /\ Goto(c, IF ok THEN "add" ELSE "unlock")
             /\ unlisted' = IF ok THEN unlisted \ {key[c]} ELSE unlisted \cup {key[c]}
  /\ saved' = FALSE
  /\ late' = IF op[Cleaner] = "evict" THEN late \cup {key[c]} ELSE late
  /\ UNCHANGED <<stored, accessList, mutex, call, cleaning, closed>>

(* Broken: the eviction strategy is not told. *)
NotifyNobody(c) ==
  /\ pc[c] = "add"
  /\ Goto(c, "unlock")
  /\ UNCHANGED <<data, mutex, call, cleaning, ghosts>>

(* OnAdd of a key it knows calls OnAccess, which waits for the mutex that  *)
(* OnAdd holds.                                                            *)
NotifyAdd(c) ==
  /\ pc[c] = "add" /\ ~Stuck
  /\ IF key[c] \in Tracked(accessList)
     THEN Goto(c, "stuck") /\ UNCHANGED accessList
     ELSE Goto(c, "unlock") /\ accessList' = MoveToFront(accessList, key[c])
  /\ UNCHANGED <<stored, index, disk, mutex, call, cleaning, ghosts>>

(* Broken: a miss is tried again under the lock. *)
ReadFileRetrying(c) ==
  /\ pc[c] = "get"
  /\ \/ stored[key[c]] = "live" /\ Goto(c, "touch")
     \/ stored[key[c]] # "live" /\ UNCHANGED pc
  /\ UNCHANGED <<data, mutex, call, cleaning, ghosts>>

(* GetManifest and GetBlob: an expired file is removed and is a miss. *)
ReadFile(c) ==
  /\ pc[c] = "get"
  /\ \/ stored[key[c]] = "live" /\ Goto(c, "touch") /\ UNCHANGED stored
     \/ /\ stored[key[c]] = "expired"
        /\ stored' = [stored EXCEPT ![key[c]] = "dropped"]
        /\ Goto(c, "unlock")
     \/ /\ stored[key[c]] \in {"none", "dropped"} \/ IOFails
        /\ Goto(c, "unlock")
        /\ UNCHANGED stored
  /\ UNCHANGED <<index, disk, accessList, mutex, call, cleaning, ghosts>>

TouchEntry(c) ==
  /\ pc[c] = "touch"
  /\ \/ /\ key[c] \in Indexed /\ ~Stuck
        /\ accessList' = IF key[c] \in Tracked(accessList)
                         THEN MoveToFront(accessList, key[c]) ELSE accessList
     \/ key[c] \notin Indexed /\ UNCHANGED accessList
  /\ Goto(c, "unlock")
  /\ UNCHANGED <<stored, index, disk, mutex, call, cleaning, ghosts>>

ReadSize(c) ==
  /\ pc[c] = "size"
  /\ Goto(c, "unlock")
  /\ UNCHANGED <<data, mutex, call, cleaning, ghosts>>

(* Clear: list the keys, delete each from the index, persist. *)
ClearList(c) ==
  /\ pc[c] = "clear" /\ Holds(c) /\ todo[c] = {} /\ op[c] = "clear"
  /\ todo' = [todo EXCEPT ![c] = Indexed]
  /\ op' = [op EXCEPT ![c] = "none"]
  /\ UNCHANGED <<data, mutex, pc, key, plan, ghosts>>

ClearNext(c, k) ==
  /\ pc[c] = "clear" /\ k \in todo[c]
  /\ IndexDelete(k)
  /\ todo' = [todo EXCEPT ![c] = @ \ {k}]
  /\ UNCHANGED <<stored, accessList, mutex, pc, call, plan, closed, late, unlisted>>

ClearEnd(c) ==
  /\ pc[c] = "clear" /\ todo[c] = {} /\ op[c] = "none"
  /\ \E ok \in BOOLEAN : PersistAgain(index, ok)
  /\ Goto(c, "unlock")
  /\ UNCHANGED <<stored, index, accessList, mutex, call, cleaning, closed, late, unlisted>>

(* Broken: Close does not persist. *)
CloseUnsaved(c) ==
  /\ pc[c] = "close" /\ Holds(c)
  /\ closed' = TRUE /\ saved' = TRUE
  /\ Goto(c, "unlock")
  /\ UNCHANGED <<data, mutex, call, cleaning, late, unlisted>>

(* Close does not wait for the cleanup goroutine to stop. *)
CloseIndex(c) ==
  /\ pc[c] = "close" /\ Holds(c)
  /\ closed' = TRUE
  /\ \E ok \in BOOLEAN : Persist(index, ok) /\ saved' = ok
  /\ Goto(c, "unlock")
  /\ UNCHANGED <<stored, index, accessList, mutex, call, cleaning, late, unlisted>>
----------------------------------------------------------------------------
(* The cleanup goroutine. *)
CleanerGoes(l) == Goto(Cleaner, l)
At(l) == pc[Cleaner] = l

(* A tick that is pending when cleanupDone is closed may still be chosen. *)
Tick ==
  /\ At("idle") /\ "cleanup" \in Work
  /\ CleanerGoes("expired")
  /\ op' = [op EXCEPT ![Cleaner] = "cleanup"]
  /\ UNCHANGED <<data, mutex, key, cleaning, ghosts>>

(* cleanupExpiredEntries: list under RLock, then delete one by one. *)
ListExpired ==
  /\ At("expired") /\ writer = NoActor
  /\ todo' = [todo EXCEPT ![Cleaner] = {k \in Key : index[k] = "expired"}]
  /\ CleanerGoes("expire")
  /\ UNCHANGED <<data, mutex, call, plan, ghosts>>

(* index.Get(k): an entry that is there is counted first, under cm.mu. *)
Visit(k) ==
  /\ key' = [key EXCEPT ![Cleaner] = k]
  /\ CleanerGoes(IF k \in Indexed THEN "metrics" ELSE "delete")

ExpireNext(k) ==
  /\ At("expire") /\ k \in todo[Cleaner]
  /\ todo' = [todo EXCEPT ![Cleaner] = @ \ {k}]
  /\ Visit(k)
  /\ UNCHANGED <<data, mutex, op, plan, ghosts>>

ExpireEnd ==
  /\ At("expire") /\ todo[Cleaner] = {}
  /\ CleanerGoes("total")
  /\ UNCHANGED <<data, mutex, call, cleaning, ghosts>>

CountMetric ==
  /\ At("metrics") /\ Holds(Cleaner)
  /\ writer' = NoActor
  /\ CleanerGoes("delete")
  /\ UNCHANGED <<data, readers, call, cleaning, ghosts>>

DeleteEntry ==
  /\ At("delete")
  /\ IndexDelete(key[Cleaner])
  /\ CleanerGoes(IF op[Cleaner] = "evict" THEN "evict" ELSE "expire")
  /\ key' = [key EXCEPT ![Cleaner] = NoKey]
  /\ UNCHANGED <<stored, accessList, mutex, op, cleaning, closed, late, unlisted>>

(* performEviction: RLock, then Size, which calls RLock again. *)
EvictLock ==
  /\ At("total") /\ writer = NoActor
  /\ readers' = readers \cup {Cleaner}
  /\ CleanerGoes("nested")
  /\ UNCHANGED <<data, writer, call, cleaning, ghosts>>

TotalOf(K) == SumFunctionOnSet(Size, K)

CheckSize ==
  /\ At("nested") /\ writer = NoActor
  /\ readers' = readers \ {Cleaner}
  /\ \/ /\ TotalOf(Indexed) <= MaxSizeBytes
        /\ CleanerGoes("compact")
        /\ UNCHANGED <<op, todo>>
     \/ /\ TotalOf(Indexed) > MaxSizeBytes
        /\ todo' = [todo EXCEPT ![Cleaner] = Indexed]
        /\ op' = [op EXCEPT ![Cleaner] = "evict"]
        /\ CleanerGoes("collect")
  /\ UNCHANGED <<data, writer, key, plan, ghosts>>

(* An index.Get for each key listed. *)
CollectEntries ==
  /\ At("collect")
  /\ todo' = [todo EXCEPT ![Cleaner] = @ \cap Indexed]
  /\ CleanerGoes("select")
  /\ UNCHANGED <<data, mutex, call, plan, ghosts>>

(* The entries handed to the strategies have no data and no creation time: *)
(* they are all of one size and, with a TTL, all expired.                  *)
Bare(K) == [k \in K |-> [size |-> EntrySize, expired |-> TRUE, expiry |-> 0]]

(* Broken: the LRU strategy's answer is dropped. *)
SelectBySizeOnly ==
  /\ At("select") /\ ~Stuck
  /\ plan' \in SelectBySize(Bare(todo[Cleaner]), MaxSizeBytes)
  /\ todo' = [todo EXCEPT ![Cleaner] = {}]
  /\ CleanerGoes("evict")
  /\ UNCHANGED <<data, mutex, call, ghosts>>

SelectEntries ==
  /\ At("select") /\ ~Stuck
  /\ LET entries == Bare(todo[Cleaner]) IN
     \E bySize \in SelectBySize(entries, MaxSizeBytes) :
       plan' = AppendNew(SelectLRU(accessList, entries), bySize)
  /\ todo' = [todo EXCEPT ![Cleaner] = {}]
  /\ CleanerGoes("evict")
  /\ UNCHANGED <<data, mutex, call, ghosts>>

EvictNext ==
  /\ At("evict") /\ plan # <<>>
  /\ plan' = Tail(plan)
  /\ Visit(Head(plan))
  /\ UNCHANGED <<data, mutex, op, todo, ghosts>>

EvictEnd ==
  /\ At("evict") /\ plan = <<>>
  /\ op' = [op EXCEPT ![Cleaner] = "cleanup"]
  /\ late' = {}
  /\ CleanerGoes("compact")
  /\ UNCHANGED <<data, mutex, key, cleaning, closed, saved, unlisted>>

(* index.Cleanup: compacts below the threshold or after 24 hours. *)
CompactIndex ==
  /\ At("compact")
  /\ index' = Live(index)
  /\ \/ ~NeedsCompaction(index') /\ UNCHANGED <<disk, saved>> /\ CleanerGoes("persist")
     \/ \E ok \in BOOLEAN :
          PersistAgain(index', ok) /\ CleanerGoes(IF ok THEN "persist" ELSE "error")
  /\ UNCHANGED <<stored, accessList, mutex, call, cleaning, closed, late, unlisted>>

PersistIndex ==
  /\ At("persist")
  /\ \E ok \in BOOLEAN :
       PersistAgain(index, ok) /\ CleanerGoes(IF ok THEN "idle" ELSE "error")
  /\ op' = [op EXCEPT ![Cleaner] = "none"]
  /\ UNCHANGED <<stored, index, accessList, mutex, key, cleaning, closed, late, unlisted>>

CountError ==
  /\ At("error") /\ Holds(Cleaner)
  /\ writer' = NoActor
  /\ op' = [op EXCEPT ![Cleaner] = "none"]
  /\ CleanerGoes("idle")
  /\ UNCHANGED <<data, readers, key, cleaning, ghosts>>

(* cleanupDone is closed: stop the ticker under cm.mu and return. *)
SeeDone ==
  /\ At("idle") /\ closed
  /\ CleanerGoes("exit")
  /\ UNCHANGED <<data, mutex, call, cleaning, ghosts>>

(* The context given to NewCoordinator is cancelled, at any time. *)
SeeCancelled ==
  /\ At("idle") /\ ~closed
  /\ CleanerGoes("exit")
  /\ UNCHANGED <<data, mutex, call, cleaning, ghosts>>

StopTicker ==
  /\ At("exit") /\ Holds(Cleaner)
  /\ writer' = NoActor
  /\ CleanerGoes("gone")
  /\ UNCHANGED <<data, readers, call, cleaning, ghosts>>
----------------------------------------------------------------------------
(* Time passes: the entry of k expires in the index and in index.db. *)
Aged(s) == IF s = "live" THEN "expired" ELSE s

ExpireEntry(k) ==
  /\ index[k] = "live" \/ disk[k] = "live"
  /\ index' = [index EXCEPT ![k] = Aged(@)]
  /\ disk' = [disk EXCEPT ![k] = Aged(@)]
  /\ UNCHANGED <<stored, accessList, mutex, pc, call, cleaning, ghosts>>

ExpireFile(k) ==
  /\ stored[k] = "live"
  /\ stored' = [stored EXCEPT ![k] = "expired"]
  /\ UNCHANGED <<index, disk, accessList, mutex, pc, call, cleaning, ghosts>>

(* The process ends and a new Coordinator loads index.db. *)
Restart ==
  /\ Crashes
  /\ index' = disk
  /\ accessList' = <<>>
  /\ writer' = NoActor /\ readers' = {}
  /\ pc' = [a \in Actor |-> "idle"]
  /\ op' = [a \in Actor |-> "none"] /\ key' = [a \in Actor |-> NoKey]
  /\ todo' = [a \in Actor |-> {}] /\ plan' = <<>>
  /\ closed' = FALSE /\ saved' = FALSE
  /\ late' = {} /\ unlisted' = Key
  /\ UNCHANGED <<stored, disk>>

ClientStep(c) ==
  \/ Announce(c) \/ RLock(c) \/ Unlock(c)
  \/ PutFile(c) \/ PutIndex(c) \/ NotifyAdd(c)
  \/ ReadFile(c) \/ TouchEntry(c) \/ ReadSize(c)
  \/ ClearList(c) \/ (\E k \in Key : ClearNext(c, k)) \/ ClearEnd(c) \/ CloseIndex(c)

CleanerStep ==
  \/ Announce(Cleaner)
  \/ ListExpired \/ (\E k \in Key : ExpireNext(k)) \/ ExpireEnd \/ CountMetric \/ DeleteEntry
  \/ EvictLock \/ CheckSize \/ CollectEntries \/ SelectEntries \/ EvictNext \/ EvictEnd
  \/ CompactIndex \/ PersistIndex \/ CountError \/ SeeDone \/ StopTicker

Next ==
  \/ \E c \in Client, o \in Ops \ {"cleanup"}, k \in Key \cup {NoKey} : Begin(c, o, k)
  \/ \E c \in Client : ClientStep(c)
  \/ Tick \/ SeeCancelled
  \/ CleanerStep
  \/ \E k \in Key : ExpireEntry(k) \/ ExpireFile(k)
  \/ Restart

Spec == Init /\ [][Next]_vars

(* Goroutines keep running; a Go RWMutex starves neither a writer nor a    *)
(* reader.                                                                 *)
FairSpec ==
  /\ Spec
  /\ \A c \in Client : WF_vars(ClientStep(c)) /\ SF_vars(Announce(c)) /\ SF_vars(RLock(c))
  /\ SF_vars(CleanerStep)
----------------------------------------------------------------------------
(* The index, in memory and on disk, never runs ahead of the files: an     *)
(* entry there was stored before, whatever failed or crashed in between.   *)
IndexBacked ==
  \A k \in Key : index[k] # "none" \/ disk[k] # "none" => stored[k] # "none"

(* The access list names no key twice, and every entry indexed by a Put    *)
(* that succeeded is on it, so that eviction can choose it, although the   *)
(* cleanup deletes entries and clears expiries meanwhile.                  *)
BeingPut == {key[c] : c \in {d \in Client : pc[d] \in {"add", "stuck"}}}

IndexedIsTracked ==
  /\ \A i, j \in DOMAIN accessList : i # j => accessList[i] # accessList[j]
  /\ Indexed \ (unlisted \cup BeingPut) \subseteq Tracked(accessList)

(* An eviction that has run leaves no more than MaxSizeBytes of what was   *)
(* indexed when it began and went through OnAdd.                           *)
EvictionFreesTracked ==
  At("evict") /\ plan = <<>> => TotalOf(Indexed \ (late \cup unlisted)) <= MaxSizeBytes

(* cm.mu: while a goroutine is inside Lock no other is inside Lock or      *)
(* RLock, the cleanup's nested RLock and metrics sections included.        *)
Writing(a) == pc[a] \in {"index", "add", "stuck"} \/ (pc[a] = "unlock" /\ a \notin readers)
Reading(a) == pc[a] \in {"get", "touch", "size", "nested"}

CoordinatorExclusive ==
  \A a, b \in Actor : Writing(a) /\ a # b => ~Writing(b) /\ ~Reading(b)

(* "Persist final state": after a Close that succeeded, and until the next *)
(* Put, index.db holds the index whenever nobody is at work, though the    *)
(* cleanup may still have been running when Close returned.                *)
Quiet == pc[Cleaner] \in {"idle", "exit", "gone"} /\ \A c \in Client : pc[c] = "idle"
ClosedIndexSaved == saved /\ Quiet => disk = index

(* The two ways a goroutine can wait for ever: NotifyAdd waits for the     *)
(* mutex it holds, or the cleanup waits in its second RLock for a writer   *)
(* that waits for the cleanup's first.                                     *)
Deadlocked == Stuck \/ (At("nested") /\ writer # NoActor)

(* Every call on the Coordinator returns, whatever else runs, unless one   *)
(* of these two deadlocks is there; the locks can deadlock in no other way.*)
CallReturnsUnlessDeadlocked ==
  \A c \in Client : pc[c] # "idle" ~> pc[c] = "idle" \/ Deadlocked

(* interfaces.go:11: "Implementations should be safe for concurrent use by *)
(* multiple goroutines": every call returns.                               *)
EveryCallReturns == \A c \in Client : pc[c] # "idle" ~> pc[c] = "idle"

(* The index is backed by files and known to the eviction.                 *)
IndexIsSound == TypeOK /\ IndexBacked /\ IndexedIsTracked

(* cm.mu keeps the last save the last: Close saves under the lock that     *)
(* every change of the index by a client holds.                            *)
CloseIsLast == CoordinatorExclusive /\ ClosedIndexSaved
============================================================================
