--------------------------- MODULE SecretsProofs ---------------------------
(***************************************************************************)
(* Proofs about Secrets for any number of processes, secrets, values and   *)
(* calls, any batch, and every way a request to a provider may fail.       *)
(***************************************************************************)
EXTENDS Secrets, TLAPS

Points == {"idle", "lock", "close", "closing", "register", "lookup", "memory", "request", "create",
           "put", "schedule", "wait", "finish", "resolved", "ok", "used", "err"}
Asked == {"resolve", "batch", "exists", "store", "delete", "rotate", "string"}
Giving == {"resolve", "string", "rotate"}
Serving == {"lookup", "memory", "request", "create", "put", "schedule", "wait"}
Secret == {None} \cup Value

Copy == [place : {"own"}, value : Secret, clears : {options.autoClear, FALSE}]
Shelf == [state : {"absent", "active", "deleted"}, current : Secret, previous : Secret]

Shapes ==
  /\ pc \in [Proc -> Points] /\ op \in [Proc -> Asked \cup {"clear", "close", "register", "none"}]
  /\ prov \in [Proc -> Provider \cup {None}] /\ ref \in [Proc -> Refs] /\ arg \in [Proc -> Secret]
  /\ held \in [Proc -> Copy]
  /\ got \in [Proc -> Secret]
  /\ failing = [p \in Proc |-> failing[p]] /\ log = [p \in Proc |-> log[p]]
  /\ vault \in [Path -> Shelf]
  /\ mutex \in Proc \cup {None} /\ closer \in Proc \cup {None}

(* What a call has been asked is what its point is for.                    *)
Called(p) ==
  /\ pc[p] = "idle" => op[p] = "none"
  /\ pc[p] = "lock" => op[p] \in {"string", "clear"}
  /\ pc[p] \in Serving \cup {"finish"} => op[p] \in Asked
  /\ pc[p] \in {"close", "closing"} => op[p] = "close"
  /\ pc[p] = "register" => op[p] = "register" /\ prov[p] \in Provider
  /\ pc[p] = "resolved" => op[p] = "string"
  /\ pc[p] \in {"create", "put"} => op[p] = "store"
  /\ pc[p] = "schedule" => op[p] = "delete"
  /\ pc[p] = "wait" => op[p] = "batch"
  /\ pc[p] = "memory" \/ op[p] = "string" => prov[p] = "memory"
  /\ pc[p] \in {"request", "create", "put", "schedule", "wait"} => prov[p] = "aws"
  /\ op[p] \in {"store", "delete"} => ref[p].version = "latest"
  /\ op[p] = "store" => arg[p] \in Value

(* A call fails at its provider or later.                                  *)
Failing(p) ==
  pc[p] \in Serving \cup {"idle", "lock", "close", "closing", "register", "ok", "used"} => ~failing[p]

Logged(p) ==
  /\ pc[p] \in Serving \cup {"idle", "lock", "close", "closing", "register", "finish"} => log[p] = << >>
  /\ pc[p] \in {"ok", "used", "err"} /\ op[p] \in {"resolve", "store", "delete", "rotate"} =>
       log[p] = <<~failing[p]>>

(* A secret that is given is the caller's own copy.                        *)
Given(p) ==
  /\ pc[p] \in {"finish", "resolved", "ok"} /\ op[p] \in Giving /\ ~failing[p] => held[p].value \in Value
  /\ pc[p] = "used" => got[p] \in Value

(* Who is inside a mutex holds it.                                         *)
Locked(p) ==
  /\ pc[p] = "closing" => closer = p
  /\ pc[p] \in {"lookup", "memory", "finish", "resolved"} /\ op[p] = "string" => mutex = p

(* What a write has done is there until another call disturbs it.          *)
Done(p) ==
  pc[p] \in {"finish", "ok"} /\ ~failing[p] /\ p \notin disturbed =>
    LET r == ref[p] IN
    /\ op[p] = "store" /\ prov[p] = "memory" => store[r] = arg[p]
    /\ op[p] = "delete" /\ prov[p] = "memory" => store[r] = None
    /\ op[p] = "store" /\ prov[p] = "aws" => Held(r) = arg[p]
    /\ op[p] = "delete" /\ prov[p] = "aws" => Held(r) = None

(* A secret that is cached may be cached, and whoever holds the mutex of   *)
(* the string found it unspent and without a secret.                       *)
Fresh ==
  /\ consumed \in BOOLEAN /\ options.oneTime \in BOOLEAN
  /\ cached # None => options.caching /\ ~options.oneTime
  /\ mutex # None => ~(options.oneTime /\ consumed) /\ cached = None

Emptied == Finished /\ ~late => \A r \in Keys : store[r] = None

Inv ==
  /\ Shapes /\ TypeOK
  /\ \A p \in Proc : Called(p) /\ Failing(p) /\ Logged(p) /\ Given(p) /\ Locked(p) /\ Done(p)
  /\ Fresh /\ Emptied

LEMMA InitInv == Init => Inv
<1> SUFFICES ASSUME Init PROVE Inv
  OBVIOUS
<1> USE SecretsAssumption DEF Init
<1>1. Shapes
  BY DEF Shapes, Points, Refs, Nothing, Secret, Copy, Shelf
<1>2. TypeOK
  BY DEF TypeOK
<1>3. ASSUME NEW p \in Proc
      PROVE  Called(p) /\ Failing(p) /\ Logged(p) /\ Given(p) /\ Locked(p) /\ Done(p)
  BY DEF Called, Failing, Logged, Given, Locked, Done, Serving
<1>4. Fresh /\ Emptied
  BY DEF Fresh, Emptied, Finished, Provider
<1> QED BY <1>1, <1>2, <1>3, <1>4 DEF Inv

(* A write names a key; what is held is a value or nothing.                *)
LEMMA KeyFacts ==
  ASSUME NEW r \in Refs, r.version = "latest"
  PROVE  r \in Keys
BY DEF Refs, Keys

LEMMA HeldFacts ==
  ASSUME Shapes, NEW r \in Refs
  PROVE  Held(r) \in Secret /\ (Held(r) # None => Held(r) \in Value)
<1>1. vault[r.path] \in Shelf
  BY DEF Shapes, Refs
<1>2. vault[r.path].current \in Secret /\ vault[r.path].previous \in Secret /\ None \in Secret
  BY <1>1 DEF Shelf, Secret
<1>3. Held(r) \in Secret
  BY <1>2 DEF Held
<1> QED BY <1>3 DEF Secret

LEMMA GiveFacts ==
  ASSUME Shapes, NEW p \in Proc, NEW x \in Secret, Give(p, "own", x), UNCHANGED options
  PROVE  held' \in [Proc -> Copy'] /\ held'[p].value = x
<1>1. [place |-> "own", value |-> x, clears |-> FALSE] \in Copy
  BY DEF Copy
<1>2. Copy' = Copy
  BY DEF Copy
<1> QED BY <1>1, <1>2 DEF Shapes, Give

(* What Begin calls for.                                                   *)
Proper(o, v, r, a, at) ==
  /\ o \in Asked \cup {"clear", "close", "register"} /\ v \in Provider \cup {None}
  /\ r \in Refs /\ a \in Secret
  /\ \/ at = "lookup" /\ o \in Asked \ {"string"}
     \/ at = "lock" /\ o \in {"string", "clear"}
     \/ at = "close" /\ o = "close"
     \/ at = "register" /\ o = "register" /\ v \in Provider
  /\ o = "string" => v = "memory"
  /\ o \in {"store", "delete"} => r.version = "latest"
  /\ o = "store" => a \in Value

LEMMA BeginIsProper ==
  ASSUME NEW p \in Proc, Begin(p)
  PROVE  \E o, v, r, a, at : Proper(o, v, r, a, at) /\ Call(p, o, v, r, a, at)
<1> USE SecretsAssumption DEF Proper, Asked, Provider, Refs, Secret, LatestOf
<1>1. CASE Resolve(p)
  BY <1>1 DEF Resolve
<1>2. CASE ResolveBatch(p)
  BY <1>2 DEF ResolveBatch
<1>3. CASE Exists(p)
  BY <1>3 DEF Exists
<1>4. CASE Store(p)
  BY <1>4 DEF Store
<1>5. CASE Delete(p)
  BY <1>5 DEF Delete
<1>6. CASE Rotate(p)
  BY <1>6 DEF Rotate
<1>7. CASE ResolveString(p)
  BY <1>7 DEF ResolveString
<1>8. CASE ClearString(p)
  BY <1>8 DEF ClearString
<1>9. CASE Close(p)
  BY <1>9 DEF Close
<1>10. CASE Register(p)
  BY <1>10 DEF Register
<1> QED BY <1>1, <1>2, <1>3, <1>4, <1>5, <1>6, <1>7, <1>8, <1>9, <1>10 DEF Begin
----------------------------------------------------------------------------

LEMMA CallInv ==
  ASSUME Inv, NEW p \in Proc, NEW o, NEW v, NEW r, NEW a, NEW at, Proper(o, v, r, a, at), Call(p, o, v, r, a, at)
  PROVE  Inv'
<1> USE SecretsAssumption DEF Inv, Call, At, Goto, Proper,
      mgrVars, strVars, callVars, batchVars, ghosts
<1>1. Shapes'
  BY DEF Shapes, TypeOK, Called, Points, Secret, Provider, Copy, Shelf
<1>2. TypeOK'
  BY DEF Shapes, TypeOK, Called, Locked, Provider, Secret
<1>3. ASSUME NEW q \in Proc PROVE Called(q)'
  BY DEF Shapes, Called, Serving, Asked, Provider
<1>4. ASSUME NEW q \in Proc PROVE Failing(q)' /\ Logged(q)'
  BY DEF Shapes, Called, Failing, Logged, Serving, Asked
<1>5. ASSUME NEW q \in Proc PROVE Given(q)'
  BY DEF Shapes, TypeOK, Called, Failing, Given, Giving, Secret, Serving
<1>6. ASSUME NEW q \in Proc PROVE Locked(q)'
  BY DEF Shapes, Called, Locked
<1>7. ASSUME NEW q \in Proc PROVE Done(q)'
  BY DEF Shapes, Called, Failing, Done, Held, Serving
<1>8. Fresh'
  BY DEF Shapes, Fresh
<1>9. Emptied'
  BY DEF Shapes, Emptied, Finished
<1> QED BY <1>1, <1>2, <1>3, <1>4, <1>5, <1>6, <1>7, <1>8, <1>9

LEMMA RegisterProviderInv ==
  ASSUME Inv, NEW p \in Proc, RegisterProvider(p)
  PROVE  Inv'
<1> USE SecretsAssumption DEF Inv, RegisterProvider, At, Goto,
      mgrVars, strVars, callVars, batchVars, ghosts
<1>1. Shapes'
  BY DEF Shapes, TypeOK, Called, Points, Secret, Provider, Copy, Shelf
<1>2. TypeOK'
  BY DEF Shapes, TypeOK, Called, Locked, Provider, Secret
<1>3. ASSUME NEW q \in Proc PROVE Called(q)'
  BY DEF Shapes, Called, Serving, Asked, Provider
<1>4. ASSUME NEW q \in Proc PROVE Failing(q)' /\ Logged(q)'
  BY DEF Shapes, Called, Failing, Logged, Serving, Asked
<1>5. ASSUME NEW q \in Proc PROVE Given(q)'
  BY DEF Shapes, TypeOK, Called, Failing, Given, Giving, Secret, Serving
<1>6. ASSUME NEW q \in Proc PROVE Locked(q)'
  BY DEF Shapes, Called, Locked
<1>7. ASSUME NEW q \in Proc PROVE Done(q)'
  BY DEF Shapes, Called, Failing, Done, Held, Serving
<1>8. Fresh'
  BY DEF Shapes, Fresh
<1>9. Emptied'
  BY DEF Shapes, Emptied, Finished
<1> QED BY <1>1, <1>2, <1>3, <1>4, <1>5, <1>6, <1>7, <1>8, <1>9

LEMMA LookupInv ==
  ASSUME Inv, NEW p \in Proc, Lookup(p)
  PROVE  Inv'
<1> USE SecretsAssumption DEF Inv, Lookup, At, Goto,
      mgrVars, strVars, callVars, batchVars, ghosts
<1>1. Shapes'
  BY DEF Shapes, TypeOK, Called, Points, Secret, Provider, Copy, Shelf
<1>2. TypeOK'
  BY DEF Shapes, TypeOK, Called, Locked, Provider, Secret
<1>3. ASSUME NEW q \in Proc PROVE Called(q)'
  <2>1. CASE q = p
    <3>1. /\ pc[p] = "lookup" /\ op' = op /\ prov' = prov /\ ref' = ref /\ arg' = arg
          /\ \/ pc'[p] = "finish"
             \/ pc'[p] = "memory" /\ prov[p] = "memory"
             \/ pc'[p] = "request" /\ prov[p] = "aws"
      BY DEF Shapes, Provider, TypeOK
    <3> QED BY <2>1, <3>1 DEF Called, Serving
  <2>2. CASE q # p
    <3>1. pc'[q] = pc[q] /\ op' = op /\ prov' = prov /\ ref' = ref /\ arg' = arg
      BY <2>2 DEF Shapes
    <3> QED BY <3>1 DEF Called
  <2> QED BY <2>1, <2>2
<1>4. ASSUME NEW q \in Proc PROVE Failing(q)' /\ Logged(q)'
  BY DEF Shapes, Called, Failing, Logged, Serving, Asked
<1>5. ASSUME NEW q \in Proc PROVE Given(q)'
  BY DEF Shapes, TypeOK, Called, Failing, Given, Giving, Secret, Serving
<1>6. ASSUME NEW q \in Proc PROVE Locked(q)'
  BY DEF Shapes, Called, Locked
<1>7. ASSUME NEW q \in Proc PROVE Done(q)'
  BY DEF Shapes, Called, Failing, Done, Held, Serving
<1>8. Fresh'
  BY DEF Shapes, Fresh
<1>9. Emptied'
  BY DEF Shapes, Emptied, Finished
<1> QED BY <1>1, <1>2, <1>3, <1>4, <1>5, <1>6, <1>7, <1>8, <1>9

LEMMA FinishInv ==
  ASSUME Inv, NEW p \in Proc, Finish(p)
  PROVE  Inv'
<1> USE SecretsAssumption DEF Inv, Finish, At, Goto, LogAccess,
      mgrVars, strVars, callVars, batchVars, ghosts
<1>1. Shapes'
  <2>1. pc' \in [Proc -> Points]
    BY DEF Shapes, Points, Called
  <2>2. /\ op' \in [Proc -> Asked \cup {"clear", "close", "register", "none"}]
        /\ prov' \in [Proc -> Provider \cup {None}] /\ ref' \in [Proc -> Refs] /\ arg' \in [Proc -> Secret]
    BY DEF Shapes
  <2>3. held' \in [Proc -> Copy'] /\ got' \in [Proc -> Secret]
    <3>1. held[p] \in Copy /\ options' = options
      BY DEF Shapes
    <3>2. [held[p] EXCEPT !.clears = options.autoClear] \in Copy
      BY <3>1 DEF Copy
    <3>3. held' = [held EXCEPT ![p] = [held[p] EXCEPT !.clears = options.autoClear]] /\ got' = got
      OBVIOUS
    <3>4. Copy' = Copy
      BY <3>1 DEF Copy
    <3> QED BY <3>2, <3>3, <3>4 DEF Shapes
  <2>4. failing' = [q \in Proc |-> failing'[q]] /\ log' = [q \in Proc |-> log'[q]]
    BY DEF Shapes
  <2>5. vault' \in [Path -> Shelf]
    BY DEF Shapes
  <2>6. mutex' \in Proc \cup {None} /\ closer' \in Proc \cup {None}
    BY DEF Shapes
  <2> QED BY <2>1, <2>2, <2>3, <2>4, <2>5, <2>6 DEF Shapes
<1>2. TypeOK'
  BY DEF Shapes, TypeOK, Called, Locked, Provider, Secret
<1>3. ASSUME NEW q \in Proc PROVE Called(q)'
  BY DEF Shapes, Called, Serving, Asked, Provider
<1>4. ASSUME NEW q \in Proc PROVE Failing(q)' /\ Logged(q)'
  <2>1. CASE q = p
    <3>1. Append(<< >>, ~failing[p]) = <<~failing[p]>>
      OBVIOUS
    <3>2. log[p] = << >> /\ failing' = failing /\ op' = op
      BY DEF Logged
    <3>3. op[p] \in {"resolve", "string", "store", "delete", "rotate"} => log'[p] = <<~failing[p]>>
      BY <3>1, <3>2 DEF Shapes
    <3>4. pc'[p] = IF op[p] = "string" THEN "resolved" ELSE IF failing[p] THEN "err" ELSE "ok"
      BY DEF Shapes
    <3> QED BY <2>1, <3>2, <3>3, <3>4 DEF Failing, Logged, Serving
  <2>2. CASE q # p
    <3>1. pc'[q] = pc[q] /\ log'[q] = log[q] /\ failing' = failing /\ op' = op
      BY <2>2 DEF Shapes
    <3> QED BY <3>1 DEF Failing, Logged
  <2> QED BY <2>1, <2>2
<1>5. ASSUME NEW q \in Proc PROVE Given(q)'
  BY DEF Shapes, TypeOK, Called, Failing, Given, Giving, Secret, Serving
<1>6. ASSUME NEW q \in Proc PROVE Locked(q)'
  BY DEF Shapes, Called, Locked
<1>7. ASSUME NEW q \in Proc PROVE Done(q)'
  BY DEF Shapes, Called, Failing, Done, Held, Serving
<1>8. Fresh'
  BY DEF Shapes, Fresh
<1>9. Emptied'
  BY DEF Shapes, Emptied, Finished
<1> QED BY <1>1, <1>2, <1>3, <1>4, <1>5, <1>6, <1>7, <1>8, <1>9

LEMMA CloseBeginInv ==
  ASSUME Inv, NEW p \in Proc, CloseBegin(p)
  PROVE  Inv'
<1> USE SecretsAssumption DEF Inv, CloseBegin, At, Goto,
      mgrVars, strVars, callVars, batchVars, ghosts
<1>1. Shapes'
  BY DEF Shapes, TypeOK, Called, Points, Secret, Provider, Copy, Shelf
<1>2. TypeOK'
  BY DEF Shapes, TypeOK, Called, Locked, Provider, Secret
<1>3. ASSUME NEW q \in Proc PROVE Called(q)'
  BY DEF Shapes, Called, Serving, Asked, Provider
<1>4. ASSUME NEW q \in Proc PROVE Failing(q)' /\ Logged(q)'
  BY DEF Shapes, Called, Failing, Logged, Serving, Asked
<1>5. ASSUME NEW q \in Proc PROVE Given(q)'
  BY DEF Shapes, TypeOK, Called, Failing, Given, Giving, Secret, Serving
<1>6. ASSUME NEW q \in Proc PROVE Locked(q)'
  BY DEF Shapes, Called, Locked
<1>7. ASSUME NEW q \in Proc PROVE Done(q)'
  BY DEF Shapes, Called, Failing, Done, Held, Serving
<1>8. Fresh'
  BY DEF Shapes, Fresh
<1>9. Emptied'
  BY DEF Shapes, Emptied, Finished
<1> QED BY <1>1, <1>2, <1>3, <1>4, <1>5, <1>6, <1>7, <1>8, <1>9

LEMMA CloseProviderInv ==
  ASSUME Inv, NEW p \in Proc, CloseProvider(p)
  PROVE  Inv'
<1> USE SecretsAssumption DEF Inv, CloseProvider, At, Goto, ClearStore, Running,
      mgrVars, strVars, callVars, batchVars, ghosts
<1>1. Shapes'
  BY DEF Shapes, TypeOK, Called, Points, Secret, Provider, Copy, Shelf
<1>2. TypeOK'
  BY DEF Shapes, TypeOK, Called, Locked, Provider, Secret
<1>3. ASSUME NEW q \in Proc PROVE Called(q)'
  BY DEF Shapes, Called, Serving, Asked, Provider
<1>4. ASSUME NEW q \in Proc PROVE Failing(q)' /\ Logged(q)'
  BY DEF Shapes, Called, Failing, Logged, Serving, Asked
<1>5. ASSUME NEW q \in Proc PROVE Given(q)'
  BY DEF Shapes, TypeOK, Called, Failing, Given, Giving, Secret, Serving
<1>6. ASSUME NEW q \in Proc PROVE Locked(q)'
  BY DEF Shapes, Called, Locked
<1>7. ASSUME NEW q \in Proc PROVE Done(q)'
  BY DEF Shapes, Called, Failing, Done, Held, Serving
<1>8. Fresh'
  BY DEF Shapes, Fresh
<1>9. Emptied'
  BY DEF Shapes, Emptied, Finished
<1> QED BY <1>1, <1>2, <1>3, <1>4, <1>5, <1>6, <1>7, <1>8, <1>9

LEMMA CloseEndInv ==
  ASSUME Inv, NEW p \in Proc, CloseEnd(p)
  PROVE  Inv'
<1> USE SecretsAssumption DEF Inv, CloseEnd, At, Goto,
      mgrVars, strVars, callVars, batchVars, ghosts
<1>1. Shapes'
  BY DEF Shapes, TypeOK, Called, Points, Secret, Provider, Copy, Shelf
<1>2. TypeOK'
  BY DEF Shapes, TypeOK, Called, Locked, Provider, Secret
<1>3. ASSUME NEW q \in Proc PROVE Called(q)'
  BY DEF Shapes, Called, Serving, Asked, Provider
<1>4. ASSUME NEW q \in Proc PROVE Failing(q)' /\ Logged(q)'
  BY DEF Shapes, Called, Failing, Logged, Serving, Asked
<1>5. ASSUME NEW q \in Proc PROVE Given(q)'
  BY DEF Shapes, TypeOK, Called, Failing, Given, Giving, Secret, Serving
<1>6. ASSUME NEW q \in Proc PROVE Locked(q)'
  BY DEF Shapes, Called, Locked
<1>7. ASSUME NEW q \in Proc PROVE Done(q)'
  BY DEF Shapes, Called, Failing, Done, Held, Serving
<1>8. Fresh'
  BY DEF Shapes, Fresh
<1>9. Emptied'
  <2>1. closer = p /\ p # None
    BY DEF Locked
  <2>2. Finished /\ store' = store /\ late' = late
    BY <2>1 DEF Finished
  <2> QED BY <2>2 DEF Emptied
<1> QED BY <1>1, <1>2, <1>3, <1>4, <1>5, <1>6, <1>7, <1>8, <1>9

LEMMA MemoryResolveInv ==
  ASSUME Inv, NEW p \in Proc, MemoryResolve(p)
  PROVE  Inv'
<1> USE SecretsAssumption DEF Inv, MemoryResolve, At, Goto, MemoryStep, Give, Stored,
      mgrVars, strVars, callVars, batchVars, ghosts
<1>1. Shapes'
  BY DEF Shapes, TypeOK, Called, Points, Secret, Provider, Copy, Shelf
<1>2. TypeOK'
  BY DEF Shapes, TypeOK, Called, Locked, Provider, Secret
<1>3. ASSUME NEW q \in Proc PROVE Called(q)'
  BY DEF Shapes, Called, Serving, Asked, Provider
<1>4. ASSUME NEW q \in Proc PROVE Failing(q)' /\ Logged(q)'
  BY DEF Shapes, Called, Failing, Logged, Serving, Asked
<1>5. ASSUME NEW q \in Proc PROVE Given(q)'
  BY DEF Shapes, TypeOK, Called, Failing, Given, Giving, Secret, Serving
<1>6. ASSUME NEW q \in Proc PROVE Locked(q)'
  BY DEF Shapes, Called, Locked
<1>7. ASSUME NEW q \in Proc PROVE Done(q)'
  BY DEF Shapes, Called, Failing, Done, Held, Serving
<1>8. Fresh'
  BY DEF Shapes, Fresh
<1>9. Emptied'
  BY DEF Shapes, Emptied, Finished
<1> QED BY <1>1, <1>2, <1>3, <1>4, <1>5, <1>6, <1>7, <1>8, <1>9

LEMMA MemoryBatchInv ==
  ASSUME Inv, NEW p \in Proc, MemoryBatch(p)
  PROVE  Inv'
<1> USE SecretsAssumption DEF Inv, MemoryBatch, At, Goto, MemoryStep,
      mgrVars, strVars, callVars, batchVars, ghosts
<1>1. Shapes'
  BY DEF Shapes, TypeOK, Called, Points, Secret, Provider, Copy, Shelf
<1>2. TypeOK'
  BY DEF Shapes, TypeOK, Called, Locked, Provider, Secret
<1>3. ASSUME NEW q \in Proc PROVE Called(q)'
  BY DEF Shapes, Called, Serving, Asked, Provider
<1>4. ASSUME NEW q \in Proc PROVE Failing(q)' /\ Logged(q)'
  BY DEF Shapes, Called, Failing, Logged, Serving, Asked
<1>5. ASSUME NEW q \in Proc PROVE Given(q)'
  BY DEF Shapes, TypeOK, Called, Failing, Given, Giving, Secret, Serving
<1>6. ASSUME NEW q \in Proc PROVE Locked(q)'
  BY DEF Shapes, Called, Locked
<1>7. ASSUME NEW q \in Proc PROVE Done(q)'
  BY DEF Shapes, Called, Failing, Done, Held, Serving
<1>8. Fresh'
  BY DEF Shapes, Fresh
<1>9. Emptied'
  BY DEF Shapes, Emptied, Finished
<1> QED BY <1>1, <1>2, <1>3, <1>4, <1>5, <1>6, <1>7, <1>8, <1>9

LEMMA MemoryExistsInv ==
  ASSUME Inv, NEW p \in Proc, MemoryExists(p)
  PROVE  Inv'
<1> USE SecretsAssumption DEF Inv, MemoryExists, At, Goto, MemoryStep,
      mgrVars, strVars, callVars, batchVars, ghosts
<1>1. Shapes'
  BY DEF Shapes, TypeOK, Called, Points, Secret, Provider, Copy, Shelf
<1>2. TypeOK'
  BY DEF Shapes, TypeOK, Called, Locked, Provider, Secret
<1>3. ASSUME NEW q \in Proc PROVE Called(q)'
  BY DEF Shapes, Called, Serving, Asked, Provider
<1>4. ASSUME NEW q \in Proc PROVE Failing(q)' /\ Logged(q)'
  BY DEF Shapes, Called, Failing, Logged, Serving, Asked
<1>5. ASSUME NEW q \in Proc PROVE Given(q)'
  BY DEF Shapes, TypeOK, Called, Failing, Given, Giving, Secret, Serving
<1>6. ASSUME NEW q \in Proc PROVE Locked(q)'
  BY DEF Shapes, Called, Locked
<1>7. ASSUME NEW q \in Proc PROVE Done(q)'
  BY DEF Shapes, Called, Failing, Done, Held, Serving
<1>8. Fresh'
  BY DEF Shapes, Fresh
<1>9. Emptied'
  BY DEF Shapes, Emptied, Finished
<1> QED BY <1>1, <1>2, <1>3, <1>4, <1>5, <1>6, <1>7, <1>8, <1>9

LEMMA MemoryStoreInv ==
  ASSUME Inv, NEW p \in Proc, MemoryStore(p)
  PROVE  Inv'
<1> USE SecretsAssumption DEF Inv, MemoryStore, At, Goto, MemoryStep, MemoryWrite, Hit, Running,
      mgrVars, strVars, callVars, batchVars, ghosts
<1>1. Shapes'
  BY DEF Shapes, TypeOK, Called, Points, Secret, Provider, Copy, Shelf
<1>2. TypeOK'
  BY DEF Shapes, TypeOK, Called, Locked, Provider, Secret
<1>3. ASSUME NEW q \in Proc PROVE Called(q)'
  BY DEF Shapes, Called, Serving, Asked, Provider
<1>4. ASSUME NEW q \in Proc PROVE Failing(q)' /\ Logged(q)'
  BY DEF Shapes, Called, Failing, Logged, Serving, Asked
<1>5. ASSUME NEW q \in Proc PROVE Given(q)'
  BY DEF Shapes, TypeOK, Called, Failing, Given, Giving, Secret, Serving
<1>6. ASSUME NEW q \in Proc PROVE Locked(q)'
  BY DEF Shapes, Called, Locked
<1>7. ASSUME NEW q \in Proc PROVE Done(q)'
  <2>1. CASE q # p
    <3>1. /\ pc'[q] = pc[q] /\ failing'[q] = failing[q]
          /\ op' = op /\ prov' = prov /\ ref' = ref /\ arg' = arg
      BY <2>1 DEF Shapes
    <3>2. pc[q] \in {"finish", "ok"} /\ q \notin disturbed' =>
            q \notin disturbed /\ (store' = store \/ ref[q].path # ref[p].path)
      BY <2>1
    <3>3. ASSUME op[q] \in {"store", "delete"}, store' = store \/ ref[q].path # ref[p].path
          PROVE  store'[ref[q]] = store[ref[q]] /\ Held(ref[q])' = Held(ref[q])
      <4>1. ref[p] \in Keys /\ ref[q] \in Keys
        BY <3>3, KeyFacts DEF Shapes, Called
      <4>2. store'[ref[q]] = store[ref[q]]
        BY <3>3, <4>1 DEF TypeOK
      <4> QED BY <3>1, <4>2 DEF Held
    <3> QED BY <3>1, <3>2, <3>3 DEF Done
  <2>2. CASE q = p
    <3>1. ref[p] \in Keys /\ op[p] = "store" /\ prov[p] = "memory"
      BY KeyFacts DEF Shapes, Called
    <3>2. store'[ref[p]] = arg[p] /\ op' = op /\ prov' = prov /\ ref' = ref /\ arg' = arg
      BY <3>1 DEF TypeOK
    <3> QED BY <2>2, <3>1, <3>2 DEF Done
  <2> QED BY <2>1, <2>2
<1>8. Fresh'
  BY DEF Shapes, Fresh
<1>9. Emptied'
  BY DEF Shapes, Emptied, Finished
<1> QED BY <1>1, <1>2, <1>3, <1>4, <1>5, <1>6, <1>7, <1>8, <1>9

LEMMA MemoryDeleteInv ==
  ASSUME Inv, NEW p \in Proc, MemoryDelete(p)
  PROVE  Inv'
<1> USE SecretsAssumption DEF Inv, MemoryDelete, At, Goto, MemoryStep, MemoryWrite, Hit, Running, Stored,
      mgrVars, strVars, callVars, batchVars, ghosts
<1>1. Shapes'
  BY DEF Shapes, TypeOK, Called, Points, Secret, Provider, Copy, Shelf
<1>2. TypeOK'
  BY DEF Shapes, TypeOK, Called, Locked, Provider, Secret
<1>3. ASSUME NEW q \in Proc PROVE Called(q)'
  BY DEF Shapes, Called, Serving, Asked, Provider
<1>4. ASSUME NEW q \in Proc PROVE Failing(q)' /\ Logged(q)'
  BY DEF Shapes, Called, Failing, Logged, Serving, Asked
<1>5. ASSUME NEW q \in Proc PROVE Given(q)'
  BY DEF Shapes, TypeOK, Called, Failing, Given, Giving, Secret, Serving
<1>6. ASSUME NEW q \in Proc PROVE Locked(q)'
  BY DEF Shapes, Called, Locked
<1>7. ASSUME NEW q \in Proc PROVE Done(q)'
  <2>1. CASE q # p
    <3>1. /\ pc'[q] = pc[q] /\ failing'[q] = failing[q]
          /\ op' = op /\ prov' = prov /\ ref' = ref /\ arg' = arg
      BY <2>1 DEF Shapes
    <3>2. pc[q] \in {"finish", "ok"} /\ q \notin disturbed' =>
            q \notin disturbed /\ (store' = store \/ ref[q].path # ref[p].path)
      BY <2>1
    <3>3. ASSUME op[q] \in {"store", "delete"}, store' = store \/ ref[q].path # ref[p].path
          PROVE  store'[ref[q]] = store[ref[q]] /\ Held(ref[q])' = Held(ref[q])
      <4>1. ref[p] \in Keys /\ ref[q] \in Keys
        BY <3>3, KeyFacts DEF Shapes, Called
      <4>2. store'[ref[q]] = store[ref[q]]
        BY <3>3, <4>1 DEF TypeOK
      <4> QED BY <3>1, <4>2 DEF Held
    <3> QED BY <3>1, <3>2, <3>3 DEF Done
  <2>2. CASE q = p
    <3>1. ref[p] \in Keys /\ op[p] = "delete" /\ prov[p] = "memory"
      BY KeyFacts DEF Shapes, Called
    <3>2. store'[ref[p]] = None /\ op' = op /\ prov' = prov /\ ref' = ref /\ arg' = arg
      BY <3>1 DEF TypeOK
    <3> QED BY <2>2, <3>1, <3>2 DEF Done
  <2> QED BY <2>1, <2>2
<1>8. Fresh'
  BY DEF Shapes, Fresh
<1>9. Emptied'
  BY DEF Shapes, Emptied, Finished
<1> QED BY <1>1, <1>2, <1>3, <1>4, <1>5, <1>6, <1>7, <1>8, <1>9

LEMMA MemoryRotateInv ==
  ASSUME Inv, NEW p \in Proc, MemoryRotate(p)
  PROVE  Inv'
<1> USE SecretsAssumption DEF Inv, MemoryRotate, At, Goto, MemoryStep, MemoryWrite, Hit, Running, Give,
      mgrVars, strVars, callVars, batchVars, ghosts
<1>1. Shapes'
  <2>1. pc' \in [Proc -> Points]
    BY DEF Shapes, Points, Called
  <2>2. /\ op' \in [Proc -> Asked \cup {"clear", "close", "register", "none"}]
        /\ prov' \in [Proc -> Provider \cup {None}] /\ ref' \in [Proc -> Refs] /\ arg' \in [Proc -> Secret]
    BY DEF Shapes
  <2>3. held' \in [Proc -> Copy'] /\ got' \in [Proc -> Secret]
    <3>1. PICK x \in Value : Give(p, "own", x)
      BY DEF Give
    <3>2. x \in Secret /\ options' = options /\ got' = got
      BY DEF Secret
    <3> QED BY ZenonT(30), <3>1, <3>2, GiveFacts DEF Shapes
  <2>4. failing' = [q \in Proc |-> failing'[q]] /\ log' = [q \in Proc |-> log'[q]]
    BY DEF Shapes
  <2>5. vault' \in [Path -> Shelf]
    BY DEF Shapes
  <2>6. mutex' \in Proc \cup {None} /\ closer' \in Proc \cup {None}
    BY DEF Shapes
  <2> QED BY <2>1, <2>2, <2>3, <2>4, <2>5, <2>6 DEF Shapes
<1>2. TypeOK'
  <2>1. store' \in [Keys -> {None} \cup Value]
    BY DEF TypeOK
  <2> QED BY <2>1 DEF Shapes, TypeOK, Called, Locked
<1>3. ASSUME NEW q \in Proc PROVE Called(q)'
  BY DEF Shapes, Called, Serving, Asked, Provider
<1>4. ASSUME NEW q \in Proc PROVE Failing(q)' /\ Logged(q)'
  BY DEF Shapes, Called, Failing, Logged, Serving, Asked
<1>5. ASSUME NEW q \in Proc PROVE Given(q)'
  BY DEF Shapes, TypeOK, Called, Failing, Given, Giving, Secret, Serving
<1>6. ASSUME NEW q \in Proc PROVE Locked(q)'
  BY DEF Shapes, Called, Locked
<1>7. ASSUME NEW q \in Proc PROVE Done(q)'
  BY DEF Shapes, Called, Failing, Done, Held, Serving
<1>8. Fresh'
  BY DEF Shapes, Fresh
<1>9. Emptied'
  BY DEF Shapes, Emptied, Finished
<1> QED BY <1>1, <1>2, <1>3, <1>4, <1>5, <1>6, <1>7, <1>8, <1>9

LEMMA MemoryFailsInv ==
  ASSUME Inv, NEW p \in Proc, MemoryFails(p)
  PROVE  Inv'
<1> USE SecretsAssumption DEF Inv, MemoryFails, At, Goto, MemoryStep, Fails,
      mgrVars, strVars, callVars, batchVars, ghosts
<1>1. Shapes'
  BY DEF Shapes, TypeOK, Called, Points, Secret, Provider, Copy, Shelf
<1>2. TypeOK'
  BY DEF Shapes, TypeOK, Called, Locked, Provider, Secret
<1>3. ASSUME NEW q \in Proc PROVE Called(q)'
  BY DEF Shapes, Called, Serving, Asked, Provider
<1>4. ASSUME NEW q \in Proc PROVE Failing(q)' /\ Logged(q)'
  BY DEF Shapes, Called, Failing, Logged, Serving, Asked
<1>5. ASSUME NEW q \in Proc PROVE Given(q)'
  BY DEF Shapes, TypeOK, Called, Failing, Given, Giving, Secret, Serving
<1>6. ASSUME NEW q \in Proc PROVE Locked(q)'
  BY DEF Shapes, Called, Locked
<1>7. ASSUME NEW q \in Proc PROVE Done(q)'
  BY DEF Shapes, Called, Failing, Done, Held, Serving
<1>8. Fresh'
  BY DEF Shapes, Fresh
<1>9. Emptied'
  BY DEF Shapes, Emptied, Finished
<1> QED BY <1>1, <1>2, <1>3, <1>4, <1>5, <1>6, <1>7, <1>8, <1>9

LEMMA AwsResolveInv ==
  ASSUME Inv, NEW p \in Proc, AwsResolve(p)
  PROVE  Inv'
<1> USE SecretsAssumption DEF Inv, AwsResolve, At, Goto, VaultStep, Give, Fails,
      mgrVars, strVars, callVars, batchVars, ghosts
<1>1. Shapes'
  <2>1. pc' \in [Proc -> Points]
    BY DEF Shapes, Points, Called
  <2>2. /\ op' \in [Proc -> Asked \cup {"clear", "close", "register", "none"}]
        /\ prov' \in [Proc -> Provider \cup {None}] /\ ref' \in [Proc -> Refs] /\ arg' \in [Proc -> Secret]
    BY DEF Shapes
  <2>3. held' \in [Proc -> Copy'] /\ got' \in [Proc -> Secret]
    <3>1. Held(ref[p]) \in Secret /\ options' = options /\ got' = got
      BY HeldFacts DEF Shapes
    <3>2. CASE Give(p, "own", Held(ref[p]))
      BY <3>1, <3>2, GiveFacts DEF Shapes
    <3>3. CASE held' = held
      BY <3>1, <3>3 DEF Shapes, Copy
    <3> QED BY <3>2, <3>3 DEF Give
  <2>4. failing' = [q \in Proc |-> failing'[q]] /\ log' = [q \in Proc |-> log'[q]]
    BY DEF Shapes
  <2>5. vault' \in [Path -> Shelf]
    BY DEF Shapes
  <2>6. mutex' \in Proc \cup {None} /\ closer' \in Proc \cup {None}
    BY DEF Shapes
  <2> QED BY <2>1, <2>2, <2>3, <2>4, <2>5, <2>6 DEF Shapes
<1>2. TypeOK'
  BY DEF Shapes, TypeOK, Called, Locked, Provider, Secret
<1>3. ASSUME NEW q \in Proc PROVE Called(q)'
  BY DEF Shapes, Called, Serving, Asked, Provider
<1>4. ASSUME NEW q \in Proc PROVE Failing(q)' /\ Logged(q)'
  BY DEF Shapes, Called, Failing, Logged, Serving, Asked
<1>5. ASSUME NEW q \in Proc PROVE Given(q)'
  <2>1. CASE q = p
    <3>1. failing'[p] \/ (Held(ref[p]) # None /\ held'[p].value = Held(ref[p]))
      BY DEF Shapes
    <3>2. Held(ref[p]) # None => Held(ref[p]) \in Value
      BY HeldFacts DEF Shapes
    <3>3. pc'[p] = "finish"
      BY DEF Shapes
    <3> QED BY <2>1, <3>1, <3>2, <3>3 DEF Given
  <2>2. CASE q # p
    <3>1. /\ pc'[q] = pc[q] /\ held'[q] = held[q] /\ failing'[q] = failing[q] /\ got' = got /\ op' = op
      BY <2>2 DEF Shapes
    <3> QED BY <3>1 DEF Given
  <2> QED BY <2>1, <2>2
<1>6. ASSUME NEW q \in Proc PROVE Locked(q)'
  BY DEF Shapes, Called, Locked
<1>7. ASSUME NEW q \in Proc PROVE Done(q)'
  BY DEF Shapes, Called, Failing, Done, Held, Serving
<1>8. Fresh'
  BY DEF Shapes, Fresh
<1>9. Emptied'
  BY DEF Shapes, Emptied, Finished
<1> QED BY <1>1, <1>2, <1>3, <1>4, <1>5, <1>6, <1>7, <1>8, <1>9

LEMMA AwsExistsInv ==
  ASSUME Inv, NEW p \in Proc, AwsExists(p)
  PROVE  Inv'
<1> USE SecretsAssumption DEF Inv, AwsExists, At, Goto, VaultStep, Fails,
      mgrVars, strVars, callVars, batchVars, ghosts
<1>1. Shapes'
  <2>1. pc' \in [Proc -> Points]
    <3>1. \E l \in {"finish", "put", "create", "schedule"} : pc' = [pc EXCEPT ![p] = l]
      OBVIOUS
    <3> QED BY <3>1 DEF Shapes, Points
  <2>2. /\ op' \in [Proc -> Asked \cup {"clear", "close", "register", "none"}]
        /\ prov' \in [Proc -> Provider \cup {None}] /\ ref' \in [Proc -> Refs] /\ arg' \in [Proc -> Secret]
    BY DEF Shapes
  <2>3. held' \in [Proc -> Copy'] /\ got' \in [Proc -> Secret]
    BY DEF Shapes, Copy
  <2>4. failing' = [q \in Proc |-> failing'[q]] /\ log' = [q \in Proc |-> log'[q]]
    BY DEF Shapes
  <2>5. vault' \in [Path -> Shelf]
    BY DEF Shapes
  <2>6. mutex' \in Proc \cup {None} /\ closer' \in Proc \cup {None}
    BY DEF Shapes
  <2> QED BY <2>1, <2>2, <2>3, <2>4, <2>5, <2>6 DEF Shapes
<1>2. TypeOK'
  BY DEF Shapes, TypeOK, Called, Locked, Provider, Secret
<1>3. ASSUME NEW q \in Proc PROVE Called(q)'
  BY DEF Shapes, Called, Serving, Asked, Provider
<1>4. ASSUME NEW q \in Proc PROVE Failing(q)' /\ Logged(q)'
  BY DEF Shapes, Called, Failing, Logged, Serving, Asked
<1>5. ASSUME NEW q \in Proc PROVE Given(q)'
  BY DEF Shapes, TypeOK, Called, Failing, Given, Giving, Secret, Serving
<1>6. ASSUME NEW q \in Proc PROVE Locked(q)'
  BY DEF Shapes, Called, Locked
<1>7. ASSUME NEW q \in Proc PROVE Done(q)'
  BY DEF Shapes, Called, Failing, Done, Held, Serving
<1>8. Fresh'
  BY DEF Shapes, Fresh
<1>9. Emptied'
  BY DEF Shapes, Emptied, Finished
<1> QED BY <1>1, <1>2, <1>3, <1>4, <1>5, <1>6, <1>7, <1>8, <1>9

LEMMA AwsCreateInv ==
  ASSUME Inv, NEW p \in Proc, AwsCreate(p)
  PROVE  Inv'
<1> USE SecretsAssumption DEF Inv, AwsCreate, At, Goto, AwsWrite, VaultStep, Fails, Hit, Running,
      mgrVars, strVars, callVars, batchVars, ghosts
<1>1. Shapes'
  <2>1. pc' \in [Proc -> Points]
    BY DEF Shapes, Points, Called
  <2>2. /\ op' \in [Proc -> Asked \cup {"clear", "close", "register", "none"}]
        /\ prov' \in [Proc -> Provider \cup {None}] /\ ref' \in [Proc -> Refs] /\ arg' \in [Proc -> Secret]
    BY DEF Shapes
  <2>3. held' \in [Proc -> Copy'] /\ got' \in [Proc -> Secret]
    BY DEF Shapes, Copy
  <2>4. failing' = [q \in Proc |-> failing'[q]] /\ log' = [q \in Proc |-> log'[q]]
    BY DEF Shapes
  <2>5. vault' \in [Path -> Shelf]
    <3>1. [state |-> "active", current |-> arg[p], previous |-> None] \in Shelf
      <4>1. vault[ref[p].path] \in Shelf /\ arg[p] \in Secret /\ None \in Secret
        BY DEF Shapes, Refs, Secret
      <4> QED BY <4>1 DEF Shelf
    <3>2. vault' \in {vault, [vault EXCEPT ![ref[p].path] = [state |-> "active", current |-> arg[p], previous |-> None]]}
      OBVIOUS
    <3> QED BY <3>1, <3>2 DEF Shapes
  <2>6. mutex' \in Proc \cup {None} /\ closer' \in Proc \cup {None}
    BY DEF Shapes
  <2> QED BY <2>1, <2>2, <2>3, <2>4, <2>5, <2>6 DEF Shapes
<1>2. TypeOK'
  BY DEF Shapes, TypeOK, Called, Locked, Provider, Secret
<1>3. ASSUME NEW q \in Proc PROVE Called(q)'
  BY DEF Shapes, Called, Serving, Asked, Provider
<1>4. ASSUME NEW q \in Proc PROVE Failing(q)' /\ Logged(q)'
  BY DEF Shapes, Called, Failing, Logged, Serving, Asked
<1>5. ASSUME NEW q \in Proc PROVE Given(q)'
  BY DEF Shapes, TypeOK, Called, Failing, Given, Giving, Secret, Serving
<1>6. ASSUME NEW q \in Proc PROVE Locked(q)'
  BY DEF Shapes, Called, Locked
<1>7. ASSUME NEW q \in Proc PROVE Done(q)'
  <2>1. CASE q # p
    <3>1. /\ pc'[q] = pc[q] /\ failing'[q] = failing[q]
          /\ op' = op /\ prov' = prov /\ ref' = ref /\ arg' = arg
      BY <2>1 DEF Shapes
    <3>2. pc[q] \in {"finish", "ok"} /\ q \notin disturbed' =>
            q \notin disturbed /\ (vault' = vault \/ ref[q].path # ref[p].path)
      BY <2>1
    <3>3. ASSUME op[q] \in {"store", "delete"}, vault' = vault \/ ref[q].path # ref[p].path
          PROVE  store'[ref[q]] = store[ref[q]] /\ Held(ref[q])' = Held(ref[q])
      <4>1. store' = store /\ ref' = ref /\ ref[q].path \in Path /\ ref[p].path \in Path
        BY DEF Shapes, Refs
      <4>2. vault'[ref[q].path] = vault[ref[q].path]
        BY <3>3, <4>1 DEF Shapes
      <4> QED BY <4>1, <4>2 DEF Held
    <3> QED BY <3>1, <3>2, <3>3 DEF Done
  <2>2. CASE q = p
    <3>1. /\ ref[p].path \in Path /\ vault[ref[p].path] \in Shelf /\ ref[p].version = "latest"
          /\ op[p] = "store" /\ prov[p] = "aws" /\ op' = op /\ prov' = prov /\ ref' = ref /\ arg' = arg
      BY DEF Shapes, Called, Refs
    <3>2. failing'[p] \/ vault'[ref[p].path] = [state |-> "active", current |-> arg[p], previous |-> None]
      BY <3>1 DEF Shapes
    <3>3. failing'[p] \/ Held(ref[p])' = arg[p]
      BY <3>1, <3>2 DEF Held, Shelf
    <3> QED BY <2>2, <3>1, <3>3 DEF Done
  <2> QED BY <2>1, <2>2
<1>8. Fresh'
  BY DEF Shapes, Fresh
<1>9. Emptied'
  BY DEF Shapes, Emptied, Finished
<1> QED BY <1>1, <1>2, <1>3, <1>4, <1>5, <1>6, <1>7, <1>8, <1>9

LEMMA AwsPutInv ==
  ASSUME Inv, NEW p \in Proc, AwsPut(p)
  PROVE  Inv'
<1> USE SecretsAssumption DEF Inv, AwsPut, At, Goto, AwsWrite, VaultStep, Fails, Hit, Running,
      mgrVars, strVars, callVars, batchVars, ghosts
<1>1. Shapes'
  <2>1. pc' \in [Proc -> Points]
    BY DEF Shapes, Points, Called
  <2>2. /\ op' \in [Proc -> Asked \cup {"clear", "close", "register", "none"}]
        /\ prov' \in [Proc -> Provider \cup {None}] /\ ref' \in [Proc -> Refs] /\ arg' \in [Proc -> Secret]
    BY DEF Shapes
  <2>3. held' \in [Proc -> Copy'] /\ got' \in [Proc -> Secret]
    BY DEF Shapes, Copy
  <2>4. failing' = [q \in Proc |-> failing'[q]] /\ log' = [q \in Proc |-> log'[q]]
    BY DEF Shapes
  <2>5. vault' \in [Path -> Shelf]
    <3>1. [state |-> "active", current |-> arg[p], previous |-> vault[ref[p].path].current] \in Shelf
      <4>1. vault[ref[p].path] \in Shelf /\ arg[p] \in Secret /\ None \in Secret
        BY DEF Shapes, Refs, Secret
      <4> QED BY <4>1 DEF Shelf
    <3>2. vault' \in {vault, [vault EXCEPT ![ref[p].path] = [state |-> "active", current |-> arg[p], previous |-> vault[ref[p].path].current]]}
      OBVIOUS
    <3> QED BY <3>1, <3>2 DEF Shapes
  <2>6. mutex' \in Proc \cup {None} /\ closer' \in Proc \cup {None}
    BY DEF Shapes
  <2> QED BY <2>1, <2>2, <2>3, <2>4, <2>5, <2>6 DEF Shapes
<1>2. TypeOK'
  BY DEF Shapes, TypeOK, Called, Locked, Provider, Secret
<1>3. ASSUME NEW q \in Proc PROVE Called(q)'
  BY DEF Shapes, Called, Serving, Asked, Provider
<1>4. ASSUME NEW q \in Proc PROVE Failing(q)' /\ Logged(q)'
  BY DEF Shapes, Called, Failing, Logged, Serving, Asked
<1>5. ASSUME NEW q \in Proc PROVE Given(q)'
  BY DEF Shapes, TypeOK, Called, Failing, Given, Giving, Secret, Serving
<1>6. ASSUME NEW q \in Proc PROVE Locked(q)'
  BY DEF Shapes, Called, Locked
<1>7. ASSUME NEW q \in Proc PROVE Done(q)'
  <2>1. CASE q # p
    <3>1. /\ pc'[q] = pc[q] /\ failing'[q] = failing[q]
          /\ op' = op /\ prov' = prov /\ ref' = ref /\ arg' = arg
      BY <2>1 DEF Shapes
    <3>2. pc[q] \in {"finish", "ok"} /\ q \notin disturbed' =>
            q \notin disturbed /\ (vault' = vault \/ ref[q].path # ref[p].path)
      BY <2>1
    <3>3. ASSUME op[q] \in {"store", "delete"}, vault' = vault \/ ref[q].path # ref[p].path
          PROVE  store'[ref[q]] = store[ref[q]] /\ Held(ref[q])' = Held(ref[q])
      <4>1. store' = store /\ ref' = ref /\ ref[q].path \in Path /\ ref[p].path \in Path
        BY DEF Shapes, Refs
      <4>2. vault'[ref[q].path] = vault[ref[q].path]
        BY <3>3, <4>1 DEF Shapes
      <4> QED BY <4>1, <4>2 DEF Held
    <3> QED BY <3>1, <3>2, <3>3 DEF Done
  <2>2. CASE q = p
    <3>1. /\ ref[p].path \in Path /\ vault[ref[p].path] \in Shelf /\ ref[p].version = "latest"
          /\ op[p] = "store" /\ prov[p] = "aws" /\ op' = op /\ prov' = prov /\ ref' = ref /\ arg' = arg
      BY DEF Shapes, Called, Refs
    <3>2. failing'[p] \/ vault'[ref[p].path] = [state |-> "active", current |-> arg[p], previous |-> vault[ref[p].path].current]
      BY <3>1 DEF Shapes
    <3>3. failing'[p] \/ Held(ref[p])' = arg[p]
      BY <3>1, <3>2 DEF Held, Shelf
    <3> QED BY <2>2, <3>1, <3>3 DEF Done
  <2> QED BY <2>1, <2>2
<1>8. Fresh'
  BY DEF Shapes, Fresh
<1>9. Emptied'
  BY DEF Shapes, Emptied, Finished
<1> QED BY <1>1, <1>2, <1>3, <1>4, <1>5, <1>6, <1>7, <1>8, <1>9

LEMMA AwsScheduleInv ==
  ASSUME Inv, NEW p \in Proc, AwsSchedule(p)
  PROVE  Inv'
<1> USE SecretsAssumption DEF Inv, AwsSchedule, At, Goto, AwsWrite, VaultStep, Fails, Hit, Running,
      mgrVars, strVars, callVars, batchVars, ghosts
<1>1. Shapes'
  <2>1. pc' \in [Proc -> Points]
    BY DEF Shapes, Points, Called
  <2>2. /\ op' \in [Proc -> Asked \cup {"clear", "close", "register", "none"}]
        /\ prov' \in [Proc -> Provider \cup {None}] /\ ref' \in [Proc -> Refs] /\ arg' \in [Proc -> Secret]
    BY DEF Shapes
  <2>3. held' \in [Proc -> Copy'] /\ got' \in [Proc -> Secret]
    BY DEF Shapes, Copy
  <2>4. failing' = [q \in Proc |-> failing'[q]] /\ log' = [q \in Proc |-> log'[q]]
    BY DEF Shapes
  <2>5. vault' \in [Path -> Shelf]
    <3>1. [vault[ref[p].path] EXCEPT !.state = "deleted"] \in Shelf
      <4>1. vault[ref[p].path] \in Shelf /\ arg[p] \in Secret /\ None \in Secret
        BY DEF Shapes, Refs, Secret
      <4> QED BY <4>1 DEF Shelf
    <3>2. vault' \in {vault, [vault EXCEPT ![ref[p].path] = [vault[ref[p].path] EXCEPT !.state = "deleted"]]}
      OBVIOUS
    <3> QED BY <3>1, <3>2 DEF Shapes
  <2>6. mutex' \in Proc \cup {None} /\ closer' \in Proc \cup {None}
    BY DEF Shapes
  <2> QED BY <2>1, <2>2, <2>3, <2>4, <2>5, <2>6 DEF Shapes
<1>2. TypeOK'
  <2>1. ASSUME NEW s \in Path, vault'[s].state = "active" PROVE vault'[s].current \in Value
    <3>1. vault[s] \in Shelf /\ vault[ref[p].path] \in Shelf
      BY DEF Shapes, Refs
    <3>2. vault'[s] = vault[s] \/ vault'[s] = [vault[ref[p].path] EXCEPT !.state = "deleted"]
      BY DEF Shapes, Refs
    <3>3. vault'[s] = vault[s]
      BY <3>1, <3>2, <2>1 DEF Shelf
    <3> QED BY <2>1, <3>3 DEF TypeOK
  <2> QED BY <2>1 DEF Shapes, TypeOK, Called, Locked
<1>3. ASSUME NEW q \in Proc PROVE Called(q)'
  BY DEF Shapes, Called, Serving, Asked, Provider
<1>4. ASSUME NEW q \in Proc PROVE Failing(q)' /\ Logged(q)'
  BY DEF Shapes, Called, Failing, Logged, Serving, Asked
<1>5. ASSUME NEW q \in Proc PROVE Given(q)'
  BY DEF Shapes, TypeOK, Called, Failing, Given, Giving, Secret, Serving
<1>6. ASSUME NEW q \in Proc PROVE Locked(q)'
  BY DEF Shapes, Called, Locked
<1>7. ASSUME NEW q \in Proc PROVE Done(q)'
  <2>1. CASE q # p
    <3>1. /\ pc'[q] = pc[q] /\ failing'[q] = failing[q]
          /\ op' = op /\ prov' = prov /\ ref' = ref /\ arg' = arg
      BY <2>1 DEF Shapes
    <3>2. pc[q] \in {"finish", "ok"} /\ q \notin disturbed' =>
            q \notin disturbed /\ (vault' = vault \/ ref[q].path # ref[p].path)
      BY <2>1
    <3>3. ASSUME op[q] \in {"store", "delete"}, vault' = vault \/ ref[q].path # ref[p].path
          PROVE  store'[ref[q]] = store[ref[q]] /\ Held(ref[q])' = Held(ref[q])
      <4>1. store' = store /\ ref' = ref /\ ref[q].path \in Path /\ ref[p].path \in Path
        BY DEF Shapes, Refs
      <4>2. vault'[ref[q].path] = vault[ref[q].path]
        BY <3>3, <4>1 DEF Shapes
      <4> QED BY <4>1, <4>2 DEF Held
    <3> QED BY <3>1, <3>2, <3>3 DEF Done
  <2>2. CASE q = p
    <3>1. /\ ref[p].path \in Path /\ vault[ref[p].path] \in Shelf /\ ref[p].version = "latest"
          /\ op[p] = "delete" /\ prov[p] = "aws" /\ op' = op /\ prov' = prov /\ ref' = ref /\ arg' = arg
      BY DEF Shapes, Called, Refs
    <3>2. failing'[p] \/ vault'[ref[p].path] = [vault[ref[p].path] EXCEPT !.state = "deleted"]
      BY <3>1 DEF Shapes
    <3>3. failing'[p] \/ Held(ref[p])' = None
      BY <3>1, <3>2 DEF Held, Shelf
    <3> QED BY <2>2, <3>1, <3>3 DEF Done
  <2> QED BY <2>1, <2>2
<1>8. Fresh'
  BY DEF Shapes, Fresh
<1>9. Emptied'
  BY DEF Shapes, Emptied, Finished
<1> QED BY <1>1, <1>2, <1>3, <1>4, <1>5, <1>6, <1>7, <1>8, <1>9

LEMMA AwsBatchInv ==
  ASSUME Inv, NEW p \in Proc, AwsBatch(p)
  PROVE  Inv'
<1> USE SecretsAssumption DEF Inv, AwsBatch, At, Goto, VaultStep,
      mgrVars, strVars, callVars, batchVars, ghosts
<1>1. Shapes'
  BY DEF Shapes, TypeOK, Called, Points, Secret, Provider, Copy, Shelf
<1>2. TypeOK'
  BY DEF Shapes, TypeOK, Called, Locked, Provider, Secret
<1>3. ASSUME NEW q \in Proc PROVE Called(q)'
  BY DEF Shapes, Called, Serving, Asked, Provider
<1>4. ASSUME NEW q \in Proc PROVE Failing(q)' /\ Logged(q)'
  BY DEF Shapes, Called, Failing, Logged, Serving, Asked
<1>5. ASSUME NEW q \in Proc PROVE Given(q)'
  BY DEF Shapes, TypeOK, Called, Failing, Given, Giving, Secret, Serving
<1>6. ASSUME NEW q \in Proc PROVE Locked(q)'
  BY DEF Shapes, Called, Locked
<1>7. ASSUME NEW q \in Proc PROVE Done(q)'
  BY DEF Shapes, Called, Failing, Done, Held, Serving
<1>8. Fresh'
  BY DEF Shapes, Fresh
<1>9. Emptied'
  BY DEF Shapes, Emptied, Finished
<1> QED BY <1>1, <1>2, <1>3, <1>4, <1>5, <1>6, <1>7, <1>8, <1>9

LEMMA AcquireSlotInv ==
  ASSUME Inv, NEW p \in Proc, NEW i, AcquireSlot(p, i)
  PROVE  Inv'
<1> USE SecretsAssumption DEF Inv, AcquireSlot, At, Goto,
      mgrVars, strVars, callVars, batchVars, ghosts
<1>1. Shapes'
  BY DEF Shapes, TypeOK, Called, Points, Secret, Provider, Copy, Shelf
<1>2. TypeOK'
  BY DEF Shapes, TypeOK, Called, Locked, Provider, Secret
<1>3. ASSUME NEW q \in Proc PROVE Called(q)'
  BY DEF Shapes, Called, Serving, Asked, Provider
<1>4. ASSUME NEW q \in Proc PROVE Failing(q)' /\ Logged(q)'
  BY DEF Shapes, Called, Failing, Logged, Serving, Asked
<1>5. ASSUME NEW q \in Proc PROVE Given(q)'
  BY DEF Shapes, TypeOK, Called, Failing, Given, Giving, Secret, Serving
<1>6. ASSUME NEW q \in Proc PROVE Locked(q)'
  BY DEF Shapes, Called, Locked
<1>7. ASSUME NEW q \in Proc PROVE Done(q)'
  BY DEF Shapes, Called, Failing, Done, Held, Serving
<1>8. Fresh'
  BY DEF Shapes, Fresh
<1>9. Emptied'
  BY DEF Shapes, Emptied, Finished
<1> QED BY <1>1, <1>2, <1>3, <1>4, <1>5, <1>6, <1>7, <1>8, <1>9

LEMMA ResolveOneInv ==
  ASSUME Inv, NEW p \in Proc, NEW i, ResolveOne(p, i)
  PROVE  Inv'
<1> USE SecretsAssumption DEF Inv, ResolveOne, At, Goto,
      mgrVars, strVars, callVars, batchVars, ghosts
<1>1. Shapes'
  BY DEF Shapes, TypeOK, Called, Points, Secret, Provider, Copy, Shelf
<1>2. TypeOK'
  BY DEF Shapes, TypeOK, Called, Locked, Provider, Secret
<1>3. ASSUME NEW q \in Proc PROVE Called(q)'
  BY DEF Shapes, Called, Serving, Asked, Provider
<1>4. ASSUME NEW q \in Proc PROVE Failing(q)' /\ Logged(q)'
  BY DEF Shapes, Called, Failing, Logged, Serving, Asked
<1>5. ASSUME NEW q \in Proc PROVE Given(q)'
  BY DEF Shapes, TypeOK, Called, Failing, Given, Giving, Secret, Serving
<1>6. ASSUME NEW q \in Proc PROVE Locked(q)'
  BY DEF Shapes, Called, Locked
<1>7. ASSUME NEW q \in Proc PROVE Done(q)'
  BY DEF Shapes, Called, Failing, Done, Held, Serving
<1>8. Fresh'
  BY DEF Shapes, Fresh
<1>9. Emptied'
  BY DEF Shapes, Emptied, Finished
<1> QED BY <1>1, <1>2, <1>3, <1>4, <1>5, <1>6, <1>7, <1>8, <1>9

LEMMA BatchEndInv ==
  ASSUME Inv, NEW p \in Proc, BatchEnd(p)
  PROVE  Inv'
<1> USE SecretsAssumption DEF Inv, BatchEnd, At, Goto,
      mgrVars, strVars, callVars, batchVars, ghosts
<1>1. Shapes'
  BY ZenonT(30) DEF Shapes, TypeOK, Called, Points, Secret, Provider, Copy, Shelf
<1>2. TypeOK'
  BY DEF Shapes, TypeOK, Called, Locked, Provider, Secret
<1>3. ASSUME NEW q \in Proc PROVE Called(q)'
  BY DEF Shapes, Called, Serving, Asked, Provider
<1>4. ASSUME NEW q \in Proc PROVE Failing(q)' /\ Logged(q)'
  BY DEF Shapes, Called, Failing, Logged, Serving, Asked
<1>5. ASSUME NEW q \in Proc PROVE Given(q)'
  BY DEF Shapes, TypeOK, Called, Failing, Given, Giving, Secret, Serving
<1>6. ASSUME NEW q \in Proc PROVE Locked(q)'
  BY DEF Shapes, Called, Locked
<1>7. ASSUME NEW q \in Proc PROVE Done(q)'
  BY DEF Shapes, Called, Failing, Done, Held, Serving
<1>8. Fresh'
  BY DEF Shapes, Fresh
<1>9. Emptied'
  BY DEF Shapes, Emptied, Finished
<1> QED BY <1>1, <1>2, <1>3, <1>4, <1>5, <1>6, <1>7, <1>8, <1>9

LEMMA LockStringInv ==
  ASSUME Inv, NEW p \in Proc, LockString(p)
  PROVE  Inv'
<1> USE SecretsAssumption DEF Inv, LockString, At, Goto,
      mgrVars, strVars, callVars, batchVars, ghosts
<1>1. Shapes'
  <2>1. pc' \in [Proc -> Points]
    <3>1. \E l \in {"lookup", "ok", "err"} : pc' = [pc EXCEPT ![p] = l]
      OBVIOUS
    <3> QED BY <3>1 DEF Shapes, Points
  <2>2. /\ op' \in [Proc -> Asked \cup {"clear", "close", "register", "none"}]
        /\ prov' \in [Proc -> Provider \cup {None}] /\ ref' \in [Proc -> Refs] /\ arg' \in [Proc -> Secret]
    BY DEF Shapes
  <2>3. held' \in [Proc -> Copy'] /\ got' \in [Proc -> Secret]
    <3>1. /\ held' \in {held, [held EXCEPT ![p] = [place |-> "own", value |-> cached, clears |-> options.autoClear]]}
          /\ options' = options /\ got' = got
      OBVIOUS
    <3>2. [place |-> "own", value |-> cached, clears |-> options.autoClear] \in Copy
      BY DEF Copy, TypeOK, Secret
    <3>3. Copy' = Copy
      BY <3>1 DEF Copy
    <3> QED BY <3>1, <3>2, <3>3 DEF Shapes
  <2>4. failing' = [q \in Proc |-> failing'[q]] /\ log' = [q \in Proc |-> log'[q]]
    BY DEF Shapes
  <2>5. vault' \in [Path -> Shelf]
    BY DEF Shapes
  <2>6. mutex' \in Proc \cup {None} /\ closer' \in Proc \cup {None}
    BY DEF Shapes
  <2> QED BY <2>1, <2>2, <2>3, <2>4, <2>5, <2>6 DEF Shapes
<1>2. TypeOK'
  BY DEF Shapes, TypeOK, Called, Locked, Provider, Secret
<1>3. ASSUME NEW q \in Proc PROVE Called(q)'
  BY DEF Shapes, Called, Serving, Asked, Provider
<1>4. ASSUME NEW q \in Proc PROVE Failing(q)' /\ Logged(q)'
  BY DEF Shapes, Called, Failing, Logged, Serving, Asked
<1>5. ASSUME NEW q \in Proc PROVE Given(q)'
  BY DEF Shapes, TypeOK, Called, Failing, Given, Giving, Secret, Serving
<1>6. ASSUME NEW q \in Proc PROVE Locked(q)'
  BY DEF Shapes, Called, Locked
<1>7. ASSUME NEW q \in Proc PROVE Done(q)'
  BY DEF Shapes, Called, Failing, Done, Held, Serving
<1>8. Fresh'
  BY DEF Shapes, Fresh
<1>9. Emptied'
  BY DEF Shapes, Emptied, Finished
<1> QED BY <1>1, <1>2, <1>3, <1>4, <1>5, <1>6, <1>7, <1>8, <1>9

LEMMA ResolvedInv ==
  ASSUME Inv, NEW p \in Proc, Resolved(p)
  PROVE  Inv'
<1> USE SecretsAssumption DEF Inv, Resolved, At, Goto, Consume, KeepCopy,
      mgrVars, strVars, callVars, batchVars, ghosts
<1>1. Shapes'
  <2>1. pc' \in [Proc -> Points]
    <3>1. \E l \in {"ok", "err"} : pc' = [pc EXCEPT ![p] = l]
      OBVIOUS
    <3> QED BY <3>1 DEF Shapes, Points
  <2>2. /\ op' \in [Proc -> Asked \cup {"clear", "close", "register", "none"}]
        /\ prov' \in [Proc -> Provider \cup {None}] /\ ref' \in [Proc -> Refs] /\ arg' \in [Proc -> Secret]
    BY DEF Shapes
  <2>3. held' \in [Proc -> Copy'] /\ got' \in [Proc -> Secret]
    BY DEF Shapes, Copy
  <2>4. failing' = [q \in Proc |-> failing'[q]] /\ log' = [q \in Proc |-> log'[q]]
    BY DEF Shapes
  <2>5. vault' \in [Path -> Shelf]
    BY DEF Shapes
  <2>6. mutex' \in Proc \cup {None} /\ closer' \in Proc \cup {None}
    BY DEF Shapes
  <2> QED BY <2>1, <2>2, <2>3, <2>4, <2>5, <2>6 DEF Shapes
<1>2. TypeOK'
  <2>1. held[p] \in Copy
    BY DEF Shapes
  <2>2. held[p].value \in Secret
    BY <2>1 DEF Copy
  <2>3. cached' = cached \/ cached' = held[p].value
    OBVIOUS
  <2>4. cached' \in {None} \cup Value
    BY <2>2, <2>3 DEF TypeOK, Secret
  <2>5. mutex' = None /\ closer' = closer
    OBVIOUS
  <2>6. ASSUME closer # None PROVE closer # p /\ pc'[closer] = pc[closer]
    BY <2>6 DEF TypeOK, Shapes
  <2>7. store' = store /\ vault' = vault /\ registered' = registered /\ toClose' = toClose
    OBVIOUS
  <2> QED BY <2>4, <2>5, <2>6, <2>7 DEF TypeOK
<1>3. ASSUME NEW q \in Proc PROVE Called(q)'
  BY DEF Shapes, Called, Serving, Asked, Provider
<1>4. ASSUME NEW q \in Proc PROVE Failing(q)' /\ Logged(q)'
  BY DEF Shapes, Called, Failing, Logged, Serving, Asked
<1>5. ASSUME NEW q \in Proc PROVE Given(q)'
  BY DEF Shapes, TypeOK, Called, Failing, Given, Giving, Secret, Serving
<1>6. ASSUME NEW q \in Proc PROVE Locked(q)'
  BY DEF Shapes, Called, Locked
<1>7. ASSUME NEW q \in Proc PROVE Done(q)'
  BY DEF Shapes, Called, Failing, Done, Held, Serving
<1>8. Fresh'
  <2>1. mutex' = None /\ options' = options
    OBVIOUS
  <2>2. consumed' \in BOOLEAN
    BY Zenon DEF Fresh
  <2>3. cached' # None => options.caching /\ ~options.oneTime
    BY DEF Fresh
  <2> QED BY <2>1, <2>2, <2>3 DEF Fresh
<1>9. Emptied'
  BY DEF Shapes, Emptied, Finished
<1> QED BY <1>1, <1>2, <1>3, <1>4, <1>5, <1>6, <1>7, <1>8, <1>9

LEMMA UseInv ==
  ASSUME Inv, NEW p \in Proc, Use(p)
  PROVE  Inv'
<1> USE SecretsAssumption DEF Inv, Use, At, Goto,
      mgrVars, strVars, callVars, batchVars, ghosts
<1>1. Shapes'
  <2>1. pc' \in [Proc -> Points]
    BY DEF Shapes, Points, Called
  <2>2. /\ op' \in [Proc -> Asked \cup {"clear", "close", "register", "none"}]
        /\ prov' \in [Proc -> Provider \cup {None}] /\ ref' \in [Proc -> Refs] /\ arg' \in [Proc -> Secret]
    BY DEF Shapes
  <2>3. held' \in [Proc -> Copy'] /\ got' \in [Proc -> Secret]
    <3>1. held[p].place = "own" /\ held[p].value \in Secret
      BY DEF Shapes, Copy
    <3>2. got' = [got EXCEPT ![p] = held[p].value] /\ held' = held /\ options' = options
      BY <3>1
    <3> QED BY <3>1, <3>2 DEF Shapes, Copy
  <2>4. failing' = [q \in Proc |-> failing'[q]] /\ log' = [q \in Proc |-> log'[q]]
    BY DEF Shapes
  <2>5. vault' \in [Path -> Shelf]
    BY DEF Shapes
  <2>6. mutex' \in Proc \cup {None} /\ closer' \in Proc \cup {None}
    BY DEF Shapes
  <2> QED BY <2>1, <2>2, <2>3, <2>4, <2>5, <2>6 DEF Shapes
<1>2. TypeOK'
  BY DEF Shapes, TypeOK, Called, Locked, Provider, Secret
<1>3. ASSUME NEW q \in Proc PROVE Called(q)'
  BY DEF Shapes, Called, Serving, Asked, Provider
<1>4. ASSUME NEW q \in Proc PROVE Failing(q)' /\ Logged(q)'
  BY DEF Shapes, Called, Failing, Logged, Serving, Asked
<1>5. ASSUME NEW q \in Proc PROVE Given(q)'
  <2>1. CASE q = p
    <3>1. held[p].place = "own" /\ held[p].value \in Secret
      BY DEF Shapes, Copy
    <3>2. got' = [got EXCEPT ![p] = held[p].value] /\ held' = held /\ options' = options
      BY <3>1
    <3>3. pc'[p] = "used"
      BY DEF Shapes
    <3>4. held[p].value \in Value
      BY DEF Given, Giving
    <3> QED BY <2>1, <3>2, <3>3, <3>4 DEF Given, Shapes
  <2>2. CASE q # p
    <3>1. /\ pc'[q] = pc[q] /\ held' = held /\ failing' = failing /\ got'[q] = got[q] /\ op' = op
      BY <2>2 DEF Shapes
    <3> QED BY <3>1 DEF Given
  <2> QED BY <2>1, <2>2
<1>6. ASSUME NEW q \in Proc PROVE Locked(q)'
  BY DEF Shapes, Called, Locked
<1>7. ASSUME NEW q \in Proc PROVE Done(q)'
  BY DEF Shapes, Called, Failing, Done, Held, Serving
<1>8. Fresh'
  BY DEF Shapes, Fresh
<1>9. Emptied'
  BY DEF Shapes, Emptied, Finished
<1> QED BY <1>1, <1>2, <1>3, <1>4, <1>5, <1>6, <1>7, <1>8, <1>9

LEMMA ReturnInv ==
  ASSUME Inv, NEW p \in Proc, Return(p)
  PROVE  Inv'
<1> USE SecretsAssumption DEF Inv, Return, At, Goto, Nothing,
      mgrVars, strVars, callVars, batchVars, ghosts
<1>1. Shapes'
  BY DEF Shapes, TypeOK, Called, Points, Secret, Provider, Copy, Shelf
<1>2. TypeOK'
  BY DEF Shapes, TypeOK, Called, Locked, Provider, Secret
<1>3. ASSUME NEW q \in Proc PROVE Called(q)'
  BY DEF Shapes, Called, Serving, Asked, Provider
<1>4. ASSUME NEW q \in Proc PROVE Failing(q)' /\ Logged(q)'
  BY DEF Shapes, Called, Failing, Logged, Serving, Asked
<1>5. ASSUME NEW q \in Proc PROVE Given(q)'
  BY DEF Shapes, TypeOK, Called, Failing, Given, Giving, Secret, Serving
<1>6. ASSUME NEW q \in Proc PROVE Locked(q)'
  BY DEF Shapes, Called, Locked
<1>7. ASSUME NEW q \in Proc PROVE Done(q)'
  BY DEF Shapes, Called, Failing, Done, Held, Serving
<1>8. Fresh'
  BY DEF Shapes, Fresh
<1>9. Emptied'
  BY DEF Shapes, Emptied, Finished
<1> QED BY <1>1, <1>2, <1>3, <1>4, <1>5, <1>6, <1>7, <1>8, <1>9
----------------------------------------------------------------------------
LEMMA StepInv ==
  ASSUME Inv, [Next]_vars
  PROVE  Inv'
<1>1. CASE UNCHANGED vars
  <2>1. Inv' = Inv
    BY <1>1 DEF vars, mgrVars, strVars, callVars, batchVars, ghosts, Inv, Shapes, Copy, TypeOK, At,
         Called, Failing, Logged, Given, Locked, Done, Held, Fresh, Emptied, Finished
  <2> QED BY <2>1
<1>2. ASSUME NEW p \in Proc, Begin(p) PROVE Inv'
  BY <1>2, BeginIsProper, CallInv
<1>3. ASSUME NEW p \in Proc, MemoryCall(p) PROVE Inv'
  BY <1>3, MemoryResolveInv, MemoryBatchInv, MemoryExistsInv, MemoryStoreInv, MemoryDeleteInv,
     MemoryRotateInv, MemoryFailsInv DEF MemoryCall
<1>4. ASSUME NEW p \in Proc, AwsStep(p) PROVE Inv'
  BY <1>4, AwsResolveInv, AwsExistsInv, AwsCreateInv, AwsPutInv, AwsScheduleInv, AwsBatchInv,
     AcquireSlotInv, ResolveOneInv, BatchEndInv DEF AwsStep
<1>5. ASSUME NEW p \in Proc, Step(p) PROVE Inv'
  BY <1>3, <1>4, <1>5, RegisterProviderInv, LookupInv, FinishInv, CloseBeginInv, CloseProviderInv,
     CloseEndInv, LockStringInv, ResolvedInv, UseInv, ReturnInv DEF Step
<1> QED BY <1>1, <1>2, <1>5 DEF Next

LEMMA Invariant == Spec => []Inv
<1>1. Inv /\ [Next]_vars => Inv'
  BY StepInv
<1> QED BY <1>1, InitInv, PTL DEF Spec

(* SecretsAreKept: what a caller was given stays whole whatever others     *)
(* clear, delete or close, and a closed manager leaves nothing behind.     *)
THEOREM SecretsStayKept == Spec => []SecretsAreKept
<1>1. Inv => SecretsAreKept
  <2>1. Inv => TypeOK
    BY DEF Inv
  <2>2. Inv => GivenIsKept
    BY DEF Inv, Given, GivenIsKept, At
  <2>3. Inv => ClosedIsEmpty
    BY DEF Inv, Emptied, Finished, ClosedIsEmpty
  <2> QED BY <2>1, <2>2, <2>3 DEF SecretsAreKept
<1> QED BY <1>1, Invariant, PTL

(* CallsAreTrue: each call is audited once with its outcome, and a store   *)
(* or delete that succeeds has taken effect, in either provider, whatever  *)
(* failed and was answered late.                                           *)
THEOREM CallsStayTrue == Spec => []CallsAreTrue
<1>1. Inv => LoggedOnce
  BY DEF Inv, Logged, LoggedOnce
<1>2. Inv => UndisturbedIsDone
  BY DEF Inv, Failing, Done, UndisturbedIsDone, At
<1>3. Inv => CallsAreTrue
  BY <1>1, <1>2 DEF CallsAreTrue
<1> QED BY <1>3, Invariant, PTL
----------------------------------------------------------------------------
(***************************************************************************)
(* SecretString implements AtomicSecret.  A call of the manager shows      *)
(* nothing of itself; a use of the string takes effect where it leaves the *)
(* mutex, or finds what is cached.                                         *)
(***************************************************************************)
Phases == [q \in Proc |-> PhaseOf(q)]
Outs == [q \in Proc |-> OutOf(q)]
Rules == [oneTime |-> options.oneTime, caching |-> options.caching]

Stutter == options' = options /\ consumed' = consumed /\ cached' = cached /\ Phases' = Phases /\ Outs' = Outs
AbstractStep == Abstract!Next \/ Stutter

LEMMA StepFacts == AbstractStep => [Abstract!Next]_(Abstract!vars)
BY DEF AbstractStep, Stutter, Abstract!vars, Phases, Outs

Answers == {"ok", "used", "err"}
OfString == {"string", "clear"}

(* How far a call is, by its operation and its point.                      *)
LEMMA PhaseFacts ==
  ASSUME NEW p
  PROVE  /\ op[p] = "string" /\ pc[p] \notin Answers => PhaseOf(p) = "asking" /\ OutOf(p) = None
         /\ op[p] = "string" /\ pc[p] = "ok" => PhaseOf(p) = "given" /\ OutOf(p) = held[p].value
         /\ op[p] = "string" /\ pc[p] = "used" => PhaseOf(p) = "read" /\ OutOf(p) = got[p]
         /\ op[p] = "string" /\ pc[p] = "err" => PhaseOf(p) = "refused" /\ OutOf(p) = None
         /\ op[p] = "clear" /\ pc[p] = "lock" => PhaseOf(p) = "clearing" /\ OutOf(p) = None
         /\ op[p] = "clear" /\ pc[p] # "lock" => PhaseOf(p) = "cleared" /\ OutOf(p) = None
         /\ op[p] \notin OfString => PhaseOf(p) = "idle" /\ OutOf(p) = None
BY DEF PhaseOf, OutOf, Answers, OfString

LEMMA NextPhaseFacts ==
  ASSUME NEW p
  PROVE  /\ op'[p] = "string" /\ pc'[p] \notin Answers => PhaseOf(p)' = "asking" /\ OutOf(p)' = None
         /\ op'[p] = "string" /\ pc'[p] = "ok" => PhaseOf(p)' = "given" /\ OutOf(p)' = held'[p].value
         /\ op'[p] = "string" /\ pc'[p] = "used" => PhaseOf(p)' = "read" /\ OutOf(p)' = got'[p]
         /\ op'[p] = "string" /\ pc'[p] = "err" => PhaseOf(p)' = "refused" /\ OutOf(p)' = None
         /\ op'[p] = "clear" /\ pc'[p] = "lock" => PhaseOf(p)' = "clearing" /\ OutOf(p)' = None
         /\ op'[p] = "clear" /\ pc'[p] # "lock" => PhaseOf(p)' = "cleared" /\ OutOf(p)' = None
         /\ op'[p] \notin OfString => PhaseOf(p)' = "idle" /\ OutOf(p)' = None
BY DEF PhaseOf, OutOf, Answers, OfString

(* A step of p leaves the others' calls where they are.                    *)
Others(p) == \A q \in Proc \ {p} :
  op'[q] = op[q] /\ pc'[q] = pc[q] /\ held'[q] = held[q] /\ got'[q] = got[q]

LEMMA OthersStay ==
  ASSUME NEW p \in Proc, Others(p)
  PROVE  Phases' = [Phases EXCEPT ![p] = PhaseOf(p)'] /\ Outs' = [Outs EXCEPT ![p] = OutOf(p)']
<1>1. ASSUME NEW q \in Proc, q # p PROVE PhaseOf(q)' = PhaseOf(q) /\ OutOf(q)' = OutOf(q)
  <2>1. op'[q] = op[q] /\ pc'[q] = pc[q] /\ held'[q] = held[q] /\ got'[q] = got[q]
    BY <1>1 DEF Others
  <2>2. PhaseOf(q)' = PhaseOf(q)
    BY <2>1 DEF PhaseOf
  <2> QED BY <2>1, <2>2 DEF OutOf
<1> QED BY <1>1 DEF Phases, Outs

(* A step of a call that is not the string's, or that is still asking.     *)
LEMMA Silent ==
  ASSUME NEW p \in Proc, Others(p), options' = options, consumed' = consumed, cached' = cached,
         \/ op[p] \notin OfString /\ op'[p] \notin OfString
         \/ op[p] = "string" /\ op'[p] = "string" /\ pc[p] \notin Answers /\ pc'[p] \notin Answers
  PROVE  AbstractStep
<1>1. PhaseOf(p)' = PhaseOf(p) /\ OutOf(p)' = OutOf(p)
  BY PhaseFacts, NextPhaseFacts
<1>2. Phases' = Phases /\ Outs' = Outs
  BY <1>1, OthersStay DEF Phases, Outs
<1> QED BY <1>2 DEF AbstractStep, Stutter

(* The steps of the manager and the providers.                             *)
LEMMA ManagerRefines ==
  ASSUME Inv, NEW p \in Proc,
         \/ RegisterProvider(p) \/ Lookup(p) \/ Finish(p)
         \/ CloseBegin(p) \/ CloseProvider(p) \/ CloseEnd(p)
  PROVE  AbstractStep
<1> USE DEF mgrVars, strVars, callVars, batchVars, ghosts, At, Goto
<1>1. Called(p) /\ Shapes
  BY DEF Inv
<1>2. Others(p) /\ options' = options /\ consumed' = consumed /\ cached' = cached /\ op' = op
  BY <1>1 DEF Shapes, Others, RegisterProvider, Lookup, Finish, CloseBegin, CloseProvider, CloseEnd
<1>3. CASE Lookup(p)
  <2>1. pc[p] = "lookup" /\ pc'[p] \notin Answers
    BY <1>1, <1>3 DEF Lookup, Shapes, Answers
  <2> QED BY <1>1, <1>2, <2>1, Silent DEF Called, Serving, Asked, OfString, Answers
<1>4. CASE Finish(p)
  <2>1. pc[p] = "finish" /\ (op[p] = "string" => pc'[p] = "resolved")
    BY <1>1, <1>4 DEF Finish, Shapes
  <2> QED BY <1>1, <1>2, <2>1, Silent DEF Called, Serving, Asked, OfString, Answers
<1>5. CASE RegisterProvider(p) \/ CloseBegin(p) \/ CloseProvider(p) \/ CloseEnd(p)
  <2>1. pc[p] \in {"register", "close", "closing"}
    BY <1>5 DEF RegisterProvider, CloseBegin, CloseProvider, CloseEnd
  <2> QED BY <1>1, <1>2, <2>1, Silent DEF Called, OfString
<1> QED BY <1>3, <1>4, <1>5

LEMMA MemoryRefines ==
  ASSUME Inv, NEW p \in Proc, MemoryCall(p)
  PROVE  AbstractStep
<1> USE DEF mgrVars, strVars, callVars, batchVars, At, Goto
<1>1. Called(p) /\ Shapes
  BY DEF Inv
<1>2. /\ pc[p] = "memory" /\ pc' = [pc EXCEPT ![p] = "finish"] /\ op' = op /\ got' = got
      /\ options' = options /\ consumed' = consumed /\ cached' = cached
  BY DEF MemoryCall, MemoryResolve, MemoryBatch, MemoryExists, MemoryStore, MemoryDelete, MemoryRotate,
         MemoryFails, MemoryStep
<1>3. \A q \in Proc \ {p} : held'[q] = held[q]
  BY <1>1 DEF MemoryCall, MemoryResolve, MemoryBatch, MemoryExists, MemoryStore, MemoryDelete,
     MemoryRotate, MemoryFails, Give, Shapes
<1>4. Others(p) /\ pc'[p] = "finish"
  BY <1>1, <1>2, <1>3 DEF Others, Shapes
<1> QED BY <1>1, <1>2, <1>4, Silent DEF Called, Serving, Asked, OfString, Answers

LEMMA AwsRefines ==
  ASSUME Inv, NEW p \in Proc, AwsStep(p)
  PROVE  AbstractStep
<1> USE DEF mgrVars, strVars, callVars, batchVars, ghosts, At, Goto
<1>1. Called(p) /\ Shapes
  BY DEF Inv
<1>2. /\ pc[p] \in {"request", "create", "put", "schedule", "wait"} /\ op' = op /\ got' = got
      /\ options' = options /\ consumed' = consumed /\ cached' = cached
  BY DEF AwsStep, AwsResolve, AwsExists, AwsCreate, AwsPut, AwsSchedule, AwsBatch, AwsWrite, VaultStep,
         AcquireSlot, ResolveOne, BatchEnd
<1>3. \A q \in Proc \ {p} : pc'[q] = pc[q] /\ held'[q] = held[q]
  BY <1>1 DEF AwsStep, AwsResolve, AwsExists, AwsCreate, AwsPut, AwsSchedule, AwsBatch, AwsWrite, Give,
     AcquireSlot, ResolveOne, BatchEnd, Shapes
<1>4. Others(p)
  BY <1>2, <1>3 DEF Others
<1>5. op[p] \notin OfString
  BY <1>1, <1>2 DEF Called, Serving, Asked, OfString
<1> QED BY <1>2, <1>4, <1>5, Silent

LEMMA CallRefines ==
  ASSUME Inv, NEW p \in Proc, NEW o, NEW v, NEW r, NEW a, NEW at, Proper(o, v, r, a, at), Call(p, o, v, r, a, at)
  PROVE  AbstractStep
<1> USE DEF mgrVars, strVars, callVars, batchVars, ghosts, At, Goto
<1>1. Shapes /\ op[p] = "none" /\ op'[p] = o /\ pc'[p] = at
  BY DEF Inv, Called, Call, Shapes
<1>2. Others(p) /\ options' = options /\ consumed' = consumed /\ cached' = cached
  BY <1>1 DEF Shapes, Others, Call
<1>3. CASE o \notin OfString
  BY <1>1, <1>2, <1>3, Silent DEF OfString
<1>4. CASE o \in OfString
  <2>1. PhaseOf(p) = "idle" /\ OutOf(p) = None
    BY <1>1, PhaseFacts DEF OfString
  <2>2. at = "lock"
    BY <1>4 DEF Proper, OfString, Asked
  <2>3. PhaseOf(p)' \in {"asking", "clearing"} /\ OutOf(p)' = None
    BY <1>1, <1>4, <2>2, NextPhaseFacts DEF OfString, Answers
  <2>4. Phases[p] = "idle" /\ Outs[p] = None
    BY <2>1 DEF Phases, Outs
  <2>5. Phases' = [Phases EXCEPT ![p] = PhaseOf(p)'] /\ Outs' = Outs
    BY <1>2, <2>3, <2>4, OthersStay DEF Outs
  <2>6. Abstract!Call(p)
    BY <1>2, <2>3, <2>4, <2>5 DEF Abstract!Call, Abstract!Move, Phases, Outs
  <2> QED BY <2>6 DEF AbstractStep, Abstract!Next
<1> QED BY <1>3, <1>4

(* The secret is given: unspent, as it is remembered, and it is spent then *)
(* or remembered.                                                          *)
LEMMA Gives ==
  ASSUME NEW p \in Proc, NEW x \in Value, Others(p), Inv, options' = options,
         op[p] = "string", op' = op, pc[p] \notin Answers, pc'[p] = "ok", held'[p].value = x,
         ~(options.oneTime /\ consumed), cached # None => x = cached,
         consumed' = (consumed \/ options.oneTime),
         cached' = IF options.caching /\ ~options.oneTime THEN x ELSE cached
  PROVE  AbstractStep
<1>1. Phases[p] = "asking"
  BY PhaseFacts DEF Phases
<1>2. Phases' = [Phases EXCEPT ![p] = "given"] /\ Outs' = [Outs EXCEPT ![p] = x]
  BY NextPhaseFacts, OthersStay
<1>3. Rules.oneTime = options.oneTime /\ Rules.caching = options.caching /\ Rules' = Rules
  BY DEF Rules
<1>4. Abstract!Give(p)
  BY <1>1, <1>2, <1>3 DEF Abstract!Give, Abstract!Move, Phases, Outs, Rules
<1> QED BY <1>4 DEF AbstractStep, Abstract!Next

LEMMA Refuses ==
  ASSUME NEW p \in Proc, Others(p), options' = options, consumed' = consumed, cached' = cached,
         op[p] = "string", op' = op, pc[p] \notin Answers, pc'[p] = "err"
  PROVE  AbstractStep
<1>1. Phases[p] = "asking" /\ Outs[p] = None
  BY PhaseFacts DEF Phases, Outs
<1>2. Phases' = [Phases EXCEPT ![p] = "refused"] /\ Outs' = Outs
  BY <1>1, NextPhaseFacts, OthersStay DEF Outs
<1>3. Abstract!Refuse(p)
  BY <1>1, <1>2 DEF Abstract!Refuse, Abstract!Move, Phases, Outs
<1> QED BY <1>3 DEF AbstractStep, Abstract!Next

LEMMA LockStringRefines ==
  ASSUME Inv, NEW p \in Proc, LockString(p)
  PROVE  AbstractStep
<1> USE DEF mgrVars, strVars, callVars, batchVars, ghosts, At, Goto
<1>1. Shapes /\ TypeOK /\ Fresh /\ op[p] \in OfString /\ pc[p] = "lock" /\ pc[p] \notin Answers
  BY DEF Inv, Called, LockString, OfString, Answers
<1>2. Others(p) /\ options' = options /\ op' = op
  BY <1>1 DEF Shapes, Others, LockString
<1>3. CASE op[p] = "clear"
  <2>1. pc'[p] = "ok" /\ cached' = None /\ consumed' = options.oneTime
    BY <1>1, <1>3 DEF LockString, Shapes
  <2>2. Phases[p] = "clearing" /\ Outs[p] = None
    BY <1>1, <1>3, PhaseFacts DEF Phases, Outs
  <2>3. Phases' = [Phases EXCEPT ![p] = "cleared"] /\ Outs' = Outs
    BY <1>2, <1>3, <2>1, <2>2, NextPhaseFacts, OthersStay DEF Outs
  <2>4. Abstract!Clear(p)
    BY <1>2, <2>1, <2>2, <2>3 DEF Abstract!Clear, Abstract!Move, Phases, Outs
  <2> QED BY <2>4 DEF AbstractStep, Abstract!Next
<1>4. CASE op[p] = "string" /\ ~(options.oneTime /\ consumed) /\ ~(options.caching /\ cached # None)
  <2>1. pc'[p] = "lookup" /\ cached' = cached /\ consumed' = consumed
    BY <1>1, <1>4 DEF LockString, Shapes
  <2> QED BY <1>1, <1>2, <1>4, <2>1, Silent DEF Answers
<1>5. CASE op[p] = "string" /\ options.oneTime /\ consumed
  <2>1. pc'[p] = "err" /\ cached' = cached /\ consumed' = consumed
    BY <1>1, <1>5 DEF LockString, Shapes
  <2> QED BY <1>1, <1>2, <1>5, <2>1, Refuses
<1>6. CASE op[p] = "string" /\ ~(options.oneTime /\ consumed) /\ options.caching /\ cached # None
  <2>1. ~options.oneTime /\ cached \in Value /\ consumed \in BOOLEAN
    BY <1>1, <1>6 DEF Fresh, TypeOK
  <2>2. pc'[p] = "ok" /\ cached' = cached /\ consumed' = consumed /\ held'[p].value = cached
    BY <1>1, <1>6 DEF LockString, Shapes
  <2>3. consumed' = (consumed \/ options.oneTime)
    BY <2>1, <2>2, Zenon
  <2> QED BY <1>1, <1>2, <1>6, <2>1, <2>2, <2>3, Gives
<1> QED BY <1>1, <1>3, <1>4, <1>5, <1>6 DEF OfString

LEMMA ResolvedRefines ==
  ASSUME Inv, NEW p \in Proc, Resolved(p)
  PROVE  AbstractStep
<1> USE DEF mgrVars, strVars, callVars, batchVars, ghosts, At, Goto
<1>1. Shapes /\ Called(p) /\ Given(p) /\ Locked(p) /\ Fresh
  BY DEF Inv
<1>2. pc[p] = "resolved" /\ pc[p] \notin Answers /\ op[p] = "string" /\ mutex = p
  BY <1>1 DEF Called, Locked, Resolved, Answers
<1>3. Others(p) /\ options' = options /\ op' = op /\ held' = held
  BY <1>1 DEF Shapes, Others, Resolved, KeepCopy
<1>4. ~(options.oneTime /\ consumed) /\ cached = None /\ consumed \in BOOLEAN /\ options.oneTime \in BOOLEAN
  BY <1>1, <1>2, SecretsAssumption DEF Fresh
<1>5. CASE failing[p]
  <2>1. pc'[p] = "err" /\ cached' = cached
    BY <1>1, <1>5 DEF Resolved, Shapes
  <2>2. consumed' = consumed
    BY <1>4, <1>5, Zenon DEF Resolved, Consume
  <2> QED BY <1>2, <1>3, <2>1, <2>2, Refuses
<1>6. CASE ~failing[p]
  <2>1. pc'[p] = "ok"
    BY <1>1, <1>6 DEF Resolved, Shapes
  <2>2. held'[p].value = held[p].value /\ held[p].value \in Value
    BY <1>1, <1>2, <1>3, <1>6 DEF Given, Giving
  <2>3. cached' = IF options.caching /\ ~options.oneTime THEN held[p].value ELSE cached
    BY <1>6 DEF Resolved
  <2>4. consumed' = (consumed \/ options.oneTime)
    BY <1>6, Zenon DEF Resolved, Consume
  <2> QED BY <1>2, <1>3, <1>4, <2>1, <2>2, <2>3, <2>4, Gives
<1> QED BY <1>5, <1>6

LEMMA UseRefines ==
  ASSUME Inv, NEW p \in Proc, Use(p)
  PROVE  AbstractStep
<1> USE DEF mgrVars, strVars, callVars, batchVars, ghosts, At, Goto
<1>1. /\ Shapes /\ pc[p] = "ok" /\ pc'[p] = "used" /\ op[p] \in Giving
      /\ held[p].place = "own" /\ held[p].value \in Secret
  <2>1. Shapes
    BY DEF Inv
  <2>2. held[p] \in Copy
    BY <2>1 DEF Shapes
  <2> QED BY <2>1, <2>2 DEF Use, Shapes, Copy, Giving
<1>2. Others(p) /\ options' = options /\ op' = op /\ consumed' = consumed /\ cached' = cached
  BY <1>1 DEF Shapes, Others, Use
<1>3. got'[p] = held[p].value
  BY <1>1 DEF Shapes, Use
<1>4. CASE op[p] \notin OfString
  BY <1>2, <1>4, Silent
<1>5. CASE op[p] = "string"
  <2>1. Phases[p] = "given" /\ Outs[p] = held[p].value
    BY <1>1, <1>5, PhaseFacts DEF Phases, Outs
  <2>2. PhaseOf(p)' = "read" /\ OutOf(p)' = held[p].value
    BY <1>1, <1>2, <1>3, <1>5, NextPhaseFacts
  <2>3. Phases' = [Phases EXCEPT ![p] = "read"] /\ Outs' = [Outs EXCEPT ![p] = Outs[p]]
    BY <1>2, <2>1, <2>2, OthersStay
  <2>4. Outs' = Outs
    BY <2>3 DEF Outs
  <2>5. Abstract!Read(p)
    BY <1>2, <2>1, <2>3, <2>4 DEF Abstract!Read, Abstract!Move, Phases, Outs
  <2> QED BY <2>5 DEF AbstractStep, Abstract!Next
<1> QED BY <1>1, <1>4, <1>5 DEF Giving, OfString

LEMMA ReturnRefines ==
  ASSUME Inv, NEW p \in Proc, Return(p)
  PROVE  AbstractStep
<1> USE DEF mgrVars, strVars, callVars, batchVars, ghosts, At, Goto
<1>1. Shapes /\ op'[p] = "none"
  BY DEF Inv, Shapes, Return
<1>2. Others(p) /\ options' = options /\ consumed' = consumed /\ cached' = cached
  BY <1>1 DEF Shapes, Others, Return
<1>3. CASE op[p] \notin OfString
  BY <1>1, <1>2, <1>3, Silent DEF OfString
<1>4. CASE op[p] \in OfString
  <2>1. /\ op[p] = "string" => pc[p] \in {"used", "err"}
        /\ op[p] = "clear" => pc[p] # "lock"
    BY DEF Return
  <2>2. Phases[p] \in {"read", "refused", "cleared"}
    BY <1>4, <2>1, PhaseFacts DEF Phases, OfString
  <2>3. Phases' = [Phases EXCEPT ![p] = "idle"] /\ Outs' = [Outs EXCEPT ![p] = None]
    BY <1>1, <1>2, NextPhaseFacts, OthersStay DEF OfString
  <2>4. Abstract!Return(p)
    BY <1>2, <2>2, <2>3 DEF Abstract!Return, Abstract!Move, Phases, Outs
  <2> QED BY <2>4 DEF AbstractStep, Abstract!Next
<1> QED BY <1>3, <1>4

LEMMA NextRefines == Inv /\ [Next]_vars => [Abstract!Next]_(Abstract!vars)
<1> SUFFICES ASSUME Inv, [Next]_vars PROVE AbstractStep
  BY StepFacts
<1>1. CASE UNCHANGED vars
  BY <1>1 DEF vars, mgrVars, strVars, callVars, batchVars, ghosts, AbstractStep, Stutter, Phases, Outs,
              PhaseOf, OutOf
<1>2. ASSUME NEW p \in Proc, Begin(p) PROVE AbstractStep
  BY <1>2, BeginIsProper, CallRefines
<1>3. ASSUME NEW p \in Proc, Step(p) PROVE AbstractStep
  BY <1>3, ManagerRefines, MemoryRefines, AwsRefines, LockStringRefines, ResolvedRefines, UseRefines,
     ReturnRefines DEF Step
<1> QED BY <1>1, <1>2, <1>3 DEF Next

LEMMA InitRefines == Init => Abstract!Init
<1> SUFFICES ASSUME Init PROVE Abstract!Init
  OBVIOUS
<1>1. options.oneTime \in BOOLEAN /\ options.caching \in BOOLEAN /\ consumed = FALSE /\ cached = None
  BY DEF Init
<1>2. \A q \in Proc : PhaseOf(q) = "idle" /\ OutOf(q) = None
  BY PhaseFacts DEF Init, OfString
<1> QED BY <1>1, <1>2 DEF Abstract!Init

(* ImplementsAtomicSecret: for any number of callers, and whatever else    *)
(* the manager and its providers do, each use of a SecretString gives its  *)
(* secret at one instant or refuses it, once if it is for one use, and the *)
(* caller reads what it was given.                                         *)
THEOREM SecretStringIsAtomic == Spec => ImplementsAtomicSecret
<1> QED BY InitRefines, NextRefines, Invariant, PTL DEF Spec, ImplementsAtomicSecret, Abstract!Spec
============================================================================
