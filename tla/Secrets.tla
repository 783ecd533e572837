------------------------------ MODULE Secrets ------------------------------
(***************************************************************************)
(* secrets/core and its providers: the managers that route a call to a     *)
(* registered provider and log it, SecretString, and the secrets handed    *)
(* out, which clear themselves when they are used; the memory provider     *)
(* and the AWS provider over the Secrets Manager service.  The processes   *)
(* share one RotatableManager and one SecretString.                        *)
(***************************************************************************)
EXTENDS Naturals, Sequences, FiniteSets

CONSTANTS Proc, Path, Value,
          Kept,      \* values the providers may hold at the start
          Version,   \* versions the memory provider makes up when it rotates
          Batch,     \* the references of a batch, a sequence
          Shared,    \* the reference of the SecretString
          Work,      \* Work[p]: the operations of p
          MaxCalls,  \* MaxCalls[p]: bound on the calls of p
          Parallel,  \* how many references the AWS provider resolves at once
          None       \* no value, provider or process

Provider == {"memory", "aws"}
Refs == [path : Path, version : {"latest", "previous"} \cup Version]

ASSUME SecretsAssumption ==
  /\ None \notin Value \cup Path \cup Proc /\ Kept \subseteq Value /\ Parallel \in Nat \ {0}
  /\ \A i \in DOMAIN Batch : Batch[i] \in Refs
  /\ Shared \in Refs

VARIABLES registered, \* names the manager has a provider for
          closer,     \* the process that holds the manager's mutex to close it
          toClose,    \* providers it has still to close
          store,      \* store[r]: what the memory provider holds for reference r
          vault,      \* vault[s]: the secret s in the Secrets Manager
          options,    \* autoClear of the manager, oneTime and caching of the SecretString
          mutex,      \* the process that holds the SecretString's mutex
          cached, consumed, \* its fields resolved and consumed
          pc, calls, op, prov, ref,
          arg,        \* the value to store
          held,       \* held[p]: the secret p was given, its place and its value
          got,        \* what String() gave p
          worker,     \* worker[p][i]: the goroutine that resolves Batch[i]
          found,      \* found[p][s]: what the batch of p has collected for path s
          failing,    \* failing[p]: the provider's answer to p was an error
          log,        \* log[p]: the audit entries of p's call
          \* What the properties speak of:
          late,       \* a write reached a provider after it was closed
          disturbed   \* calls whose secret another call changed while they ran

mgrVars == <<registered, closer, toClose>>
strVars == <<options, mutex, cached, consumed>>
callVars == <<calls, op, prov, ref, arg>>
batchVars == <<worker, found>>
ghosts == <<late, disturbed>>
vars == <<mgrVars, store, vault, strVars, pc, callVars, held, got, batchVars, failing, log, ghosts>>

Nothing == [place |-> "own", value |-> None, clears |-> FALSE]
LatestOf(s) == [path |-> s, version |-> "latest"]
Keys == [path : Path, version : {"latest"} \cup Version]

Init ==
  /\ registered = Provider /\ closer = None /\ toClose = {}
  /\ store \in {f \in [Keys -> {None} \cup Kept] : \A r \in Keys : r.version # "latest" => f[r] = None}
  /\ vault \in [Path -> {[state |-> "absent", current |-> None, previous |-> None]}
                       \cup {[state |-> "active", current |-> x, previous |-> None] : x \in Kept}]
  /\ options \in [autoClear : BOOLEAN, oneTime : BOOLEAN, caching : BOOLEAN]
  /\ mutex = None /\ cached = None /\ consumed = FALSE
  /\ pc = [p \in Proc |-> "idle"] /\ calls = [p \in Proc |-> 0]
  /\ op = [p \in Proc |-> "none"] /\ prov = [p \in Proc |-> None]
  /\ ref = [p \in Proc |-> Shared] /\ arg = [p \in Proc |-> None]
  /\ held = [p \in Proc |-> Nothing] /\ got = [p \in Proc |-> None]
  /\ worker = [p \in Proc |-> << >>] /\ found = [p \in Proc |-> [s \in Path |-> None]]
  /\ failing = [p \in Proc |-> FALSE] /\ log = [p \in Proc |-> << >>]
  /\ late = FALSE /\ disturbed = {}
----------------------------------------------------------------------------
At(p, l) == pc[p] = l
Goto(p, l) == pc' = [pc EXCEPT ![p] = l]
Running(p) == pc[p] # "idle"

Call(p, o, v, r, a, at) ==
  /\ At(p, "idle") /\ calls[p] < MaxCalls[p] /\ o \in Work[p]
  /\ calls' = [calls EXCEPT ![p] = @ + 1]
  /\ op' = [op EXCEPT ![p] = o] /\ prov' = [prov EXCEPT ![p] = v]
  /\ ref' = [ref EXCEPT ![p] = r] /\ arg' = [arg EXCEPT ![p] = a]
  /\ Goto(p, at)
  /\ UNCHANGED <<mgrVars, store, vault, strVars, held, got, batchVars, failing, log, ghosts>>

Resolve(p) == \E v \in Provider, s \in Path, n \in {"latest", "previous"} \cup Version :
                Call(p, "resolve", v, [path |-> s, version |-> n], None, "lookup")
ResolveBatch(p) == \E v \in Provider : Call(p, "batch", v, Shared, None, "lookup")
Exists(p) == \E v \in Provider, s \in Path : Call(p, "exists", v, LatestOf(s), None, "lookup")
Store(p) == \E v \in Provider, s \in Path, x \in Value : Call(p, "store", v, LatestOf(s), x, "lookup")
Delete(p) == \E v \in Provider, s \in Path : Call(p, "delete", v, LatestOf(s), None, "lookup")
Rotate(p) == \E v \in Provider, s \in Path : Call(p, "rotate", v, LatestOf(s), None, "lookup")
ResolveString(p) == Call(p, "string", "memory", Shared, None, "lock")
ClearString(p) == Call(p, "clear", "memory", Shared, None, "lock")
Close(p) == Call(p, "close", None, Shared, None, "close")
Register(p) == \E v \in Provider : Call(p, "register", v, Shared, None, "register")

Begin(p) == Resolve(p) \/ ResolveBatch(p) \/ Exists(p) \/ Store(p) \/ Delete(p) \/ Rotate(p)
            \/ ResolveString(p) \/ ClearString(p) \/ Close(p) \/ Register(p)
----------------------------------------------------------------------------
(* The manager.  A name that is taken is refused. *)
RegisterProvider(p) ==
  /\ At(p, "register") /\ closer = None
  /\ registered' = registered \cup {prov[p]}
  /\ Goto(p, IF prov[p] \in registered THEN "err" ELSE "ok")
  /\ UNCHANGED <<closer, toClose, store, vault, strVars, callVars, held, got, batchVars, failing, log, ghosts>>

(* The provider is looked up with the mutex held for reading, and used     *)
(* after it is released.  Only the memory provider rotates.                *)
Lookup(p) ==
  /\ At(p, "lookup") /\ closer = None
  /\ LET known == prov[p] \in registered /\ ~(op[p] = "rotate" /\ prov[p] = "aws") IN
     /\ failing' = [failing EXCEPT ![p] = ~known]
     /\ Goto(p, IF ~known THEN "finish" ELSE IF prov[p] = "memory" THEN "memory" ELSE "request")
  /\ UNCHANGED <<mgrVars, store, vault, strVars, callVars, held, got, batchVars, log, ghosts>>

LogAccess(p) ==
  log' = IF op[p] \in {"resolve", "string", "store", "delete", "rotate"}
         THEN [log EXCEPT ![p] = Append(@, ~failing[p])] ELSE log

(* The call is logged, and what it returns told to clear itself or not. *)
Finish(p) ==
  /\ At(p, "finish")
  /\ LogAccess(p)
  /\ held' = [held EXCEPT ![p].clears = options.autoClear]
  /\ Goto(p, IF op[p] = "string" THEN "resolved" ELSE IF failing[p] THEN "err" ELSE "ok")
  /\ UNCHANGED <<mgrVars, store, vault, strVars, callVars, got, batchVars, failing, ghosts>>

(* Close takes the mutex, closes one provider after the other and forgets  *)
(* them.  Lookups are one step here: no process holds the mutex to read.   *)
CloseBegin(p) ==
  /\ At(p, "close") /\ closer = None
  /\ closer' = p /\ toClose' = registered /\ Goto(p, "closing")
  /\ UNCHANGED <<registered, store, vault, strVars, callVars, held, got, batchVars, failing, log, ghosts>>

ClearStore == store' = [r \in Keys |-> None]

CloseProvider(p) ==
  /\ At(p, "closing")
  /\ \E v \in toClose :
       /\ toClose' = toClose \ {v}
       /\ IF v = "memory" THEN ClearStore /\ disturbed' = disturbed \cup {q \in Proc : Running(q)}
          ELSE UNCHANGED <<store, disturbed>>
  /\ UNCHANGED <<registered, closer, vault, strVars, pc, callVars, held, got, batchVars, failing, log, late>>

CloseEnd(p) ==
  /\ At(p, "closing") /\ toClose = {}
  /\ closer' = None /\ registered' = {} /\ Goto(p, "ok")
  /\ UNCHANGED <<toClose, store, vault, strVars, callVars, held, got, batchVars, failing, log, ghosts>>
----------------------------------------------------------------------------
(* The memory provider: each call is atomic, its mutex is held throughout. *)
Give(p, place, x) == held' = [held EXCEPT ![p] = [place |-> place, value |-> x, clears |-> FALSE]]
Fails(p) == failing' = [failing EXCEPT ![p] = TRUE]
Hit(p, s) == disturbed' = disturbed \cup {q \in Proc \ {p} : Running(q) /\ ref[q].path = s}
Finished == "memory" \notin registered \/ (closer # None /\ "memory" \notin toClose)

Stored(r) == IF r \in Keys THEN store[r] ELSE None

MemoryStep(p) == At(p, "memory") /\ Goto(p, "finish")
                 /\ UNCHANGED <<mgrVars, vault, strVars, callVars, got, worker, log>>

MemoryResolve(p) ==
  /\ op[p] \in {"resolve", "string"} /\ Stored(ref[p]) # None
  /\ MemoryStep(p) /\ Give(p, "own", store[ref[p]])
  /\ UNCHANGED <<store, found, failing, late, disturbed>>

MemoryBatch(p) ==
  /\ op[p] = "batch"
  /\ MemoryStep(p)
  /\ LET hits(s) == {i \in DOMAIN Batch : Batch[i].path = s /\ Stored(Batch[i]) # None}
         last(s) == CHOOSE i \in hits(s) : \A j \in hits(s) : j <= i IN
     found' = [found EXCEPT ![p] = [s \in Path |-> IF hits(s) = {} THEN None ELSE Stored(Batch[last(s)])]]
  /\ UNCHANGED <<store, held, failing, late, disturbed>>

MemoryExists(p) ==
  /\ op[p] = "exists" /\ MemoryStep(p)
  /\ UNCHANGED <<store, held, found, failing, late, disturbed>>

MemoryWrite(p, r, x) ==
  /\ store' = [store EXCEPT ![r] = x]
  /\ late' = (late \/ Finished) /\ Hit(p, ref[p].path)

MemoryStore(p) ==
  /\ op[p] = "store" /\ MemoryStep(p)
  /\ MemoryWrite(p, ref[p], arg[p])
  /\ UNCHANGED <<held, found, failing>>

MemoryDelete(p) ==
  /\ op[p] = "delete" /\ Stored(ref[p]) # None /\ MemoryStep(p)
  /\ MemoryWrite(p, ref[p], None)
  /\ UNCHANGED <<held, found, failing>>

(* Rotate adds a version of its own beside the latest, and returns a copy. *)
MemoryRotate(p) ==
  /\ op[p] = "rotate" /\ \E r \in Keys : r.path = ref[p].path /\ store[r] # None
  /\ MemoryStep(p)
  /\ \E n \in Version, x \in Value :
       LET r == [path |-> ref[p].path, version |-> n] IN
       /\ store[r] = None
       /\ MemoryWrite(p, r, x) /\ Give(p, "own", x)
  /\ UNCHANGED <<found, failing>>

(* The context is cancelled, or there is no such secret. *)
MemoryFails(p) ==
  /\ MemoryStep(p) /\ Fails(p)
  /\ UNCHANGED <<store, held, found, late, disturbed>>

MemoryCall(p) == MemoryResolve(p) \/ MemoryBatch(p) \/ MemoryExists(p) \/ MemoryStore(p)
                 \/ MemoryDelete(p) \/ MemoryRotate(p) \/ MemoryFails(p)
----------------------------------------------------------------------------
(* The AWS provider: one request at a time, Store and Delete look first.   *)
Held(r) ==
  IF vault[r.path].state # "active" THEN None
  ELSE CASE r.version = "latest" -> vault[r.path].current
         [] r.version = "previous" -> vault[r.path].previous
         [] OTHER -> None

VaultStep(p) == UNCHANGED <<mgrVars, store, strVars, callVars, got, log, late>>

AwsResolve(p) ==
  /\ At(p, "request") /\ op[p] = "resolve"
  /\ VaultStep(p) /\ Goto(p, "finish")
  /\ \/ Held(ref[p]) # None /\ Give(p, "own", Held(ref[p])) /\ UNCHANGED failing
     \/ Fails(p) /\ UNCHANGED held
  /\ UNCHANGED <<vault, batchVars, disturbed>>

(* DescribeSecret: a secret that is marked deleted counts as missing. *)
AwsExists(p) ==
  /\ At(p, "request") /\ op[p] \in {"exists", "store", "delete"}
  /\ VaultStep(p)
  /\ \/ /\ Goto(p, CASE op[p] = "exists" -> "finish"
                     [] op[p] = "store" -> IF vault[ref[p].path].state = "active" THEN "put" ELSE "create"
                     [] op[p] = "delete" -> IF vault[ref[p].path].state = "active" THEN "schedule" ELSE "finish")
        /\ UNCHANGED failing
     \/ Fails(p) /\ Goto(p, "finish")
  /\ UNCHANGED <<vault, held, batchVars, disturbed>>

(* A write to the vault is served, refused, or served without an answer.   *)
AwsWrite(p, l, s, ok, new) ==
  /\ At(p, l) /\ VaultStep(p) /\ Goto(p, "finish")
  /\ \/ ok /\ vault' = [vault EXCEPT ![s] = new] /\ Hit(p, s) /\ UNCHANGED failing
     \/ ok /\ vault' = [vault EXCEPT ![s] = new] /\ Hit(p, s) /\ Fails(p)
     \/ Fails(p) /\ UNCHANGED <<vault, disturbed>>
  /\ UNCHANGED <<held, batchVars>>

AwsCreate(p) ==
  LET s == ref[p].path IN
  AwsWrite(p, "create", s, vault[s].state = "absent",
           [state |-> "active", current |-> arg[p], previous |-> None])

(* Broken: the new value is staged and does not become current. *)
AwsPutPending(p) ==
  LET s == ref[p].path IN
  AwsWrite(p, "put", s, vault[s].state = "active", [vault[s] EXCEPT !.previous = arg[p]])

AwsPut(p) ==
  LET s == ref[p].path IN
  AwsWrite(p, "put", s, vault[s].state = "active",
           [state |-> "active", current |-> arg[p], previous |-> vault[s].current])

(* The deletion is scheduled; the name stays taken. *)
AwsSchedule(p) ==
  LET s == ref[p].path IN
  AwsWrite(p, "schedule", s, vault[s].state # "absent", [vault[s] EXCEPT !.state = "deleted"])

(* ResolveBatch: a goroutine for each reference, some at a time.           *)
AwsBatch(p) ==
  /\ At(p, "request") /\ op[p] = "batch"
  /\ VaultStep(p) /\ Goto(p, "wait")
  /\ worker' = [worker EXCEPT ![p] = [i \in DOMAIN Batch |-> "waiting"]]
  /\ UNCHANGED <<vault, held, found, failing, disturbed>>

AcquireSlot(p, i) ==
  /\ At(p, "wait") /\ worker[p][i] = "waiting"
  /\ Cardinality({j \in DOMAIN Batch : worker[p][j] = "busy"}) < Parallel
  /\ worker' = [worker EXCEPT ![p][i] = "busy"]
  /\ UNCHANGED <<mgrVars, store, vault, strVars, pc, callVars, held, got, found, failing, log, ghosts>>

(* Broken: a reference that fails keeps its slot. *)
ResolveOneLeaks(p, i) ==
  /\ At(p, "wait") /\ worker[p][i] = "busy"
  /\ Held(Batch[i]) # None
  /\ found' = [found EXCEPT ![p][Batch[i].path] = Held(Batch[i])]
  /\ worker' = [worker EXCEPT ![p][i] = "good"]
  /\ UNCHANGED <<mgrVars, store, vault, strVars, pc, callVars, held, got, failing, log, ghosts>>

ResolveOne(p, i) ==
  /\ At(p, "wait") /\ worker[p][i] = "busy"
  /\ \/ /\ Held(Batch[i]) # None
        /\ found' = [found EXCEPT ![p][Batch[i].path] = Held(Batch[i])]
        /\ worker' = [worker EXCEPT ![p][i] = "good"]
     \/ worker' = [worker EXCEPT ![p][i] = "bad"] /\ UNCHANGED found
  /\ UNCHANGED <<mgrVars, store, vault, strVars, pc, callVars, held, got, failing, log, ghosts>>

(* The errors are dropped, unless the context was cancelled. *)
BatchEnd(p) ==
  /\ At(p, "wait") /\ \A i \in DOMAIN Batch : worker[p][i] \in {"good", "bad"}
  /\ failing' \in {failing, [failing EXCEPT ![p] = TRUE]}
  /\ Goto(p, "finish")
  /\ UNCHANGED <<mgrVars, store, vault, strVars, callVars, held, got, batchVars, log, ghosts>>

AwsStep(p) ==
  \/ AwsResolve(p) \/ AwsExists(p) \/ AwsCreate(p) \/ AwsPut(p) \/ AwsSchedule(p) \/ AwsBatch(p)
  \/ \E i \in DOMAIN worker[p] : AcquireSlot(p, i) \/ ResolveOne(p, i)
  \/ BatchEnd(p)
----------------------------------------------------------------------------
(* SecretString.  Its mutex is held while the manager resolves.  A second  *)
(* use of a one-time string is refused, a cached secret copied.            *)
LockString(p) ==
  /\ At(p, "lock") /\ mutex = None
  /\ IF op[p] = "string" /\ ~(options.oneTime /\ consumed) /\ ~(options.caching /\ cached # None)
     THEN mutex' = p /\ Goto(p, "lookup") /\ UNCHANGED <<cached, consumed, held>>
     ELSE /\ UNCHANGED mutex
          /\ IF op[p] = "clear"
             THEN /\ cached' = None /\ consumed' = options.oneTime /\ Goto(p, "ok") /\ UNCHANGED held
             ELSE /\ UNCHANGED <<cached, consumed>>
                  /\ IF options.oneTime /\ consumed THEN Goto(p, "err") /\ UNCHANGED held
                     ELSE /\ held' = [held EXCEPT ![p] = [place |-> "own", value |-> cached,
                                                          clears |-> options.autoClear]]
                          /\ Goto(p, "ok")
  /\ UNCHANGED <<mgrVars, store, vault, options, callVars, got, batchVars, failing, log, ghosts>>

(* Broken: the string is spent only when it is cleared. *)
Unspent(p) == UNCHANGED consumed

Consume(p) == consumed' = (consumed \/ (options.oneTime /\ ~failing[p]))

(* Broken: the caller and the string share the secret. *)
ShareCached(p) == held' = [held EXCEPT ![p].place = IF cached' # None THEN "cached" ELSE @]

KeepCopy(p) == UNCHANGED held

Resolved(p) ==
  /\ At(p, "resolved") /\ mutex' = None
  /\ Consume(p)
  /\ cached' = IF ~failing[p] /\ options.caching /\ ~options.oneTime THEN held[p].value ELSE cached
  /\ KeepCopy(p)
  /\ Goto(p, IF failing[p] THEN "err" ELSE "ok")
  /\ UNCHANGED <<mgrVars, store, vault, options, callVars, got, batchVars, failing, log, late, disturbed>>

(* The caller reads the secret, String or Bytes, which may clear it. *)
Use(p) ==
  /\ At(p, "ok") /\ op[p] \in {"resolve", "string", "rotate"} /\ ~failing[p]
  /\ LET h == held[p]
         now == CASE h.place = "own" -> h.value
                  [] h.place = "cached" -> cached IN
     /\ got' = [got EXCEPT ![p] = now]
     /\ cached' = IF h.clears /\ h.place = "cached" THEN None ELSE cached
  /\ Goto(p, "used")
  /\ UNCHANGED <<mgrVars, store, vault, options, mutex, consumed, callVars, held, batchVars, failing, log, ghosts>>

Return(p) ==
  /\ pc[p] \in {"used", "err"} \/ (At(p, "ok") /\ op[p] \notin {"resolve", "string", "rotate"})
  /\ Goto(p, "idle")
  /\ op' = [op EXCEPT ![p] = "none"] /\ prov' = [prov EXCEPT ![p] = None]
  /\ ref' = [ref EXCEPT ![p] = Shared] /\ arg' = [arg EXCEPT ![p] = None]
  /\ held' = [held EXCEPT ![p] = Nothing] /\ got' = [got EXCEPT ![p] = None]
  /\ worker' = [worker EXCEPT ![p] = << >>]
  /\ found' = [found EXCEPT ![p] = [s \in Path |-> None]]
  /\ failing' = [failing EXCEPT ![p] = FALSE] /\ log' = [log EXCEPT ![p] = << >>]
  /\ disturbed' = disturbed \ {p}
  /\ UNCHANGED <<mgrVars, store, vault, strVars, calls, late>>

Step(p) ==
  \/ RegisterProvider(p) \/ Lookup(p) \/ Finish(p) \/ CloseBegin(p) \/ CloseProvider(p) \/ CloseEnd(p)
  \/ MemoryCall(p) \/ AwsStep(p) \/ LockString(p) \/ Resolved(p) \/ Use(p) \/ Return(p)

Next == \E p \in Proc : Begin(p) \/ Step(p)

Spec == Init /\ [][Next]_vars
FairSpec == Spec /\ WF_vars(\E p \in Proc : Step(p))
----------------------------------------------------------------------------
(* How far a use of the SecretString is, and what it has been given.       *)
PhaseOf(p) ==
  CASE op[p] = "string" -> (CASE pc[p] = "ok" -> "given"
                              [] pc[p] = "used" -> "read"
                              [] pc[p] = "err" -> "refused"
                              [] OTHER -> "asking")
    [] op[p] = "clear" -> (IF pc[p] = "lock" THEN "clearing" ELSE "cleared")
    [] OTHER -> "idle"

OutOf(p) == CASE PhaseOf(p) = "given" -> held[p].value
              [] PhaseOf(p) = "read" -> got[p]
              [] OTHER -> None

Abstract == INSTANCE AtomicSecret WITH
  rules <- [oneTime |-> options.oneTime, caching |-> options.caching],
  spent <- consumed,
  memo <- cached,
  phase <- [p \in Proc |-> PhaseOf(p)],
  out <- [p \in Proc |-> OutOf(p)]

(* SecretString implements AtomicSecret: whoever else resolves, clears or  *)
(* waits for it, a one-time secret is given to one caller only, a cached   *)
(* one is the same until it is cleared, a resolution that fails spends     *)
(* nothing, and what a caller was given is what it reads.                  *)
ImplementsAtomicSecret == Abstract!Spec

(* Types: the two mutexes are held only by calls that release them. *)
TypeOK ==
  /\ registered \subseteq Provider /\ toClose \subseteq Provider
  /\ closer # None => At(closer, "closing")
  /\ mutex # None => pc[mutex] \in {"lookup", "memory", "finish", "resolved"} /\ op[mutex] = "string"
  /\ store \in [Keys -> {None} \cup Value] /\ cached \in {None} \cup Value
  /\ \A s \in Path : vault[s].state = "active" => vault[s].current \in Value

(* Every secret a caller was given still has its value when it is used:    *)
(* that others use, and so clear, theirs, or delete or close the provider, *)
(* does not reach it.                                                      *)
GivenIsKept == \A p \in Proc : At(p, "used") => got[p] \in Value

(* With auditing on, a resolve, store, delete or rotate that returns has   *)
(* been logged once, with its outcome.                                     *)
LoggedOnce ==
  \A p \in Proc : pc[p] \in {"ok", "used", "err"} /\ op[p] \in {"resolve", "store", "delete", "rotate"} =>
    log[p] = <<~failing[p]>>

(* A manager that was closed leaves no secret in the memory provider,      *)
(* unless a write that had found its provider before came after.           *)
ClosedIsEmpty == registered = {} /\ ~late => \A r \in Keys : store[r] = None

(* A store or delete that succeeded, and beside which nobody wrote the     *)
(* secret, has taken effect, in the memory provider and in the vault.      *)
UndisturbedIsDone ==
  \A p \in Proc : At(p, "ok") /\ p \notin disturbed =>
    LET r == ref[p] IN
    /\ op[p] = "store" /\ prov[p] = "memory" => store[r] = arg[p]
    /\ op[p] = "delete" /\ prov[p] = "memory" => store[r] = None
    /\ op[p] = "store" /\ prov[p] = "aws" => Held(r) = arg[p]
    /\ op[p] = "delete" /\ prov[p] = "aws" => Held(r) = None

(* Every call returns: the mutexes and the slots of a batch are released.  *)
CallsReturn == []<>(\A p \in Proc : ~Running(p))

(* What a call that returns says is true: its audit entry tells how it     *)
(* ended, and what it was asked to write is written.                       *)
CallsAreTrue == LoggedOnce /\ UndisturbedIsDone

(* Secrets are in good hands: whole where they were given, gone where the  *)
(* manager was closed, the mutexes held by those who release them.         *)
SecretsAreKept == TypeOK /\ GivenIsKept /\ ClosedIsEmpty
============================================================================
