----------------------------- MODULE DiskProofs -----------------------------
(***************************************************************************)
(* Proofs about what the cache keeps on disk.  First BlobCache, for any    *)
(* number of goroutines and digests, any count and any combination of      *)
(* failures.  Then Storage, for any number of goroutines, paths, contents  *)
(* and temporary names, and any set of filesystem calls that may fail: its *)
(* inductive invariant says which lock and which temporary file belongs to *)
(* a goroutine at each of its program points.                              *)
(***************************************************************************)
EXTENDS Storage, BlobCache, TLAPS


(* Between the lock and the unlock of refCountMutex. *)
RefWork == {"addRead", "addWrite", "delRead", "delRef", "delBlob", "delWrite"}

Held == \A p \in User : at[p] \in RefWork => refMutex = p

(* The points of a call belong to its operation. *)
Belongs(p) ==
  /\ at[p] = "idle" <=> op[p] = "none"
  /\ at[p] \in HasBlobPoints => op[p] \in {"get", "put"}
  /\ at[p] = "read" => op[p] = "get"
  /\ at[p] \in AddPoints \cup {"open", "copy", "close"} => op[p] = "put"
  /\ at[p] \in DelPoints => op[p] = "delete"

(* What is about to be written was computed from the reference that is     *)
(* there, unless an expiry check has dropped it.                           *)
Counted(p) ==
  /\ at[p] \in {"addWrite", "delWrite"} /\ refs[dig[p]] # NoRef =>
       seen[p] # NoRef /\ seen[p].count = refs[dig[p]].count
  /\ at[p] = "delWrite" => seen[p] # NoRef /\ seen[p].count > 1

(* A put that comes through the Coordinator is alone. *)
Alone ==
  \A p, q \in User : op[p] # "delete" /\ (op[p] = "put" /\ q # p => op[q] = "none")

(* What a call through the Coordinator has found still holds. *)
Found(p) ==
  LET d == dig[p] IN
  /\ at[p] \in {"open", "copy", "close"} => refs[d] = NoRef
  /\ at[p] \in {"blobExists", "read"} \cup AddPoints => blobs[d] = "whole"
  /\ at[p] = "refDrop" => refs[d] = NoRef \/ refs[d].age = "expired"
  /\ at[p] = "addWrite" => seen[p] = refs[d]
  /\ at[p] = "ok" /\ op[p] = "get" => got[p] = "whole"

Backed ==
  \A d \in Digest :
    /\ refs[d] # NoRef => blobs[d] = "whole"
    /\ d \in promised => refs[d] # NoRef /\ refs[d].age # "expired"

Through == Alone /\ (\A p \in User : Found(p)) /\ Backed

BlobInv ==
  /\ BlobTypeOK /\ Held
  /\ \A p \in User : Belongs(p) /\ Counted(p)
  /\ serialized => Through
----------------------------------------------------------------------------
(* A reference keeps its count as it ages, and stays one.                  *)
LEMMA OlderFacts ==
  ASSUME NEW r \in Ref
  PROVE  /\ Older(r) \in Ref /\ Older(r) # NoRef /\ Older(r).count = r.count
         /\ r.age = "fresh" => Older(r).age # "expired"
         /\ r.age = "expired" => Older(r).age = "expired"
<1>1. Ref \subseteq [age : Ages, count : Nat] /\ r # NoRef
  BY BlobAssumption, NoRefAssumption DEF Ref
<1>2. Older(r) = [r EXCEPT !.age = IF @ = "fresh" THEN "old" ELSE "expired"]
  BY <1>1 DEF Older
<1>3. Older(r) \in Ref /\ Older(r).count = r.count
  BY <1>2 DEF Ref, Ages
<1> QED BY <1>1, <1>2, <1>3, NoRefAssumption DEF Ref

LEMMA NewRefFacts ==
  ASSUME NEW r \in Ref \cup {NoRef}, r # NoRef => r.count < MaxCount
  PROVE  /\ NewRef(r) \in Ref /\ NewRef(r) # NoRef
         /\ r # NoRef => NewRef(r).age = r.age
<1>1. NewRef(r) \in Ref /\ (r # NoRef => NewRef(r).age = r.age)
  BY BlobAssumption DEF NewRef, Ref, Ages
<1>2. Ref \subseteq [age : Ages, count : Nat]
  BY BlobAssumption DEF Ref
<1> QED BY <1>1, <1>2, NoRefAssumption

LEMMA BlobInitInv == BlobInit => BlobInv
<1> SUFFICES ASSUME BlobInit PROVE BlobInv
  OBVIOUS
<1>1. BlobTypeOK
  BY DEF BlobInit, BlobTypeOK, Points, Contents
<1> QED BY <1>1 DEF BlobInit, BlobInv, Held, RefWork, Belongs, Counted, Through, Alone, Found, Backed, HasBlobPoints, AddPoints, DelPoints

LEMMA RefExistsInv ==
  ASSUME BlobInv, NEW p \in User, RefExists(p)
  PROVE  BlobInv'
<1> USE BlobAssumption, NoRefAssumption DEF BlobInv, RefExists, Missing, Move, disk, locks, call
<1>1. BlobTypeOK'
  BY DEF BlobTypeOK, Points, HasBlobPoints, AddPoints, DelPoints, Contents, Ref, Ages
<1>2. Held'
  BY DEF BlobTypeOK, Held, RefWork
<1>3. ASSUME NEW q \in User PROVE Belongs(q)'
  BY DEF BlobTypeOK, Belongs, HasBlobPoints, AddPoints, DelPoints
<1>4. ASSUME NEW q \in User PROVE Counted(q)'
  BY DEF BlobTypeOK, Counted, Held, RefWork, Ref
<1>5. ASSUME serialized PROVE Through'
  <2>1. Alone'
    BY <1>5 DEF BlobTypeOK, Through, Alone, Belongs, HasBlobPoints, AddPoints, DelPoints
  <2>2. ASSUME NEW q \in User PROVE Found(q)'
    BY <1>5 DEF BlobTypeOK, Through, Alone, Found, Backed, Belongs, HasBlobPoints, AddPoints, DelPoints, Ref
  <2>3. Backed'
    BY <1>5 DEF BlobTypeOK, Through, Alone, Found, Backed, Belongs, HasBlobPoints, AddPoints, DelPoints, Ref
  <2> QED BY <2>1, <2>2, <2>3 DEF Through
<1> QED BY <1>1, <1>2, <1>3, <1>4, <1>5

LEMMA RefReadInv ==
  ASSUME BlobInv, NEW p \in User, RefRead(p)
  PROVE  BlobInv'
<1> USE BlobAssumption, NoRefAssumption DEF BlobInv, RefRead, Move, disk, locks, call
<1>1. BlobTypeOK'
  BY DEF BlobTypeOK, Points, HasBlobPoints, AddPoints, DelPoints, Contents, Ref, Ages
<1>2. Held'
  BY DEF BlobTypeOK, Held, RefWork
<1>3. ASSUME NEW q \in User PROVE Belongs(q)'
  BY DEF BlobTypeOK, Belongs, HasBlobPoints, AddPoints, DelPoints
<1>4. ASSUME NEW q \in User PROVE Counted(q)'
  BY DEF BlobTypeOK, Counted, Held, RefWork, Ref
<1>5. ASSUME serialized PROVE Through'
  <2>1. Alone'
    BY <1>5 DEF BlobTypeOK, Through, Alone, Belongs, HasBlobPoints, AddPoints, DelPoints
  <2>2. ASSUME NEW q \in User PROVE Found(q)'
    BY <1>5 DEF BlobTypeOK, Through, Alone, Found, Backed, Belongs, HasBlobPoints, AddPoints, DelPoints, Ref
  <2>3. Backed'
    BY <1>5 DEF BlobTypeOK, Through, Alone, Found, Backed, Belongs, HasBlobPoints, AddPoints, DelPoints, Ref
  <2> QED BY <2>1, <2>2, <2>3 DEF Through
<1> QED BY <1>1, <1>2, <1>3, <1>4, <1>5

LEMMA RefDropInv ==
  ASSUME BlobInv, NEW p \in User, RefDrop(p)
  PROVE  BlobInv'
<1> USE BlobAssumption, NoRefAssumption DEF BlobInv, RefDrop, Missing, Move, disk, locks, call
<1>1. BlobTypeOK'
  BY DEF BlobTypeOK, Points, HasBlobPoints, AddPoints, DelPoints, Contents, Ref, Ages
<1>2. Held'
  BY DEF BlobTypeOK, Held, RefWork
<1>3. ASSUME NEW q \in User PROVE Belongs(q)'
  BY DEF BlobTypeOK, Belongs, HasBlobPoints, AddPoints, DelPoints
<1>4. ASSUME NEW q \in User PROVE Counted(q)'
  BY DEF BlobTypeOK, Counted, Held, RefWork, Ref
<1>5. ASSUME serialized PROVE Through'
  <2>1. Alone'
    BY <1>5 DEF BlobTypeOK, Through, Alone, Belongs, HasBlobPoints, AddPoints, DelPoints
  <2>2. ASSUME NEW q \in User PROVE Found(q)'
    BY <1>5 DEF BlobTypeOK, Through, Alone, Found, Backed, Belongs, HasBlobPoints, AddPoints, DelPoints, Ref
  <2>3. Backed'
    BY <1>5 DEF BlobTypeOK, Through, Alone, Found, Backed, Belongs, HasBlobPoints, AddPoints, DelPoints, Ref
  <2> QED BY <2>1, <2>2, <2>3 DEF Through
<1> QED BY <1>1, <1>2, <1>3, <1>4, <1>5

LEMMA BlobExistsInv ==
  ASSUME BlobInv, NEW p \in User, BlobExists(p)
  PROVE  BlobInv'
<1> USE BlobAssumption, NoRefAssumption DEF BlobInv, BlobExists, Missing, Move, disk, locks, call
<1>1. BlobTypeOK'
  BY DEF BlobTypeOK, Points, HasBlobPoints, AddPoints, DelPoints, Contents, Ref, Ages
<1>2. Held'
  BY DEF BlobTypeOK, Held, RefWork
<1>3. ASSUME NEW q \in User PROVE Belongs(q)'
  BY DEF BlobTypeOK, Belongs, HasBlobPoints, AddPoints, DelPoints
<1>4. ASSUME NEW q \in User PROVE Counted(q)'
  BY DEF BlobTypeOK, Counted, Held, RefWork, Ref
<1>5. ASSUME serialized PROVE Through'
  <2>1. Alone'
    BY <1>5 DEF BlobTypeOK, Through, Alone, Belongs, HasBlobPoints, AddPoints, DelPoints
  <2>2. ASSUME NEW q \in User PROVE Found(q)'
    BY <1>5 DEF BlobTypeOK, Through, Alone, Found, Backed, Belongs, HasBlobPoints, AddPoints, DelPoints, Ref
  <2>3. Backed'
    BY <1>5 DEF BlobTypeOK, Through, Alone, Found, Backed, Belongs, HasBlobPoints, AddPoints, DelPoints, Ref
  <2> QED BY <2>1, <2>2, <2>3 DEF Through
<1> QED BY <1>1, <1>2, <1>3, <1>4, <1>5

LEMMA ReadBlobInv ==
  ASSUME BlobInv, NEW p \in User, ReadBlob(p)
  PROVE  BlobInv'
<1> USE BlobAssumption, NoRefAssumption DEF BlobInv, ReadBlob, Move, disk, locks, call
<1>1. BlobTypeOK'
  BY DEF BlobTypeOK, Points, HasBlobPoints, AddPoints, DelPoints, Contents, Ref, Ages
<1>2. Held'
  BY DEF BlobTypeOK, Held, RefWork
<1>3. ASSUME NEW q \in User PROVE Belongs(q)'
  BY DEF BlobTypeOK, Belongs, HasBlobPoints, AddPoints, DelPoints
<1>4. ASSUME NEW q \in User PROVE Counted(q)'
  BY DEF BlobTypeOK, Counted, Held, RefWork, Ref
<1>5. ASSUME serialized PROVE Through'
  <2>1. Alone'
    BY <1>5 DEF BlobTypeOK, Through, Alone, Belongs, HasBlobPoints, AddPoints, DelPoints
  <2>2. ASSUME NEW q \in User PROVE Found(q)'
    BY <1>5 DEF BlobTypeOK, Through, Alone, Found, Backed, Belongs, HasBlobPoints, AddPoints, DelPoints, Ref
  <2>3. Backed'
    BY <1>5 DEF BlobTypeOK, Through, Alone, Found, Backed, Belongs, HasBlobPoints, AddPoints, DelPoints, Ref
  <2> QED BY <2>1, <2>2, <2>3 DEF Through
<1> QED BY <1>1, <1>2, <1>3, <1>4, <1>5

LEMMA OpenStreamInv ==
  ASSUME BlobInv, NEW p \in User, OpenStream(p)
  PROVE  BlobInv'
<1> USE BlobAssumption, NoRefAssumption DEF BlobInv, OpenStream, Move, disk, locks, call
<1>1. BlobTypeOK'
  BY DEF BlobTypeOK, Points, HasBlobPoints, AddPoints, DelPoints, Contents, Ref, Ages
<1>2. Held'
  BY DEF BlobTypeOK, Held, RefWork
<1>3. ASSUME NEW q \in User PROVE Belongs(q)'
  BY DEF BlobTypeOK, Belongs, HasBlobPoints, AddPoints, DelPoints
<1>4. ASSUME NEW q \in User PROVE Counted(q)'
  BY DEF BlobTypeOK, Counted, Held, RefWork, Ref
<1>5. ASSUME serialized PROVE Through'
  <2>1. Alone'
    BY <1>5 DEF BlobTypeOK, Through, Alone, Belongs, HasBlobPoints, AddPoints, DelPoints
  <2>2. ASSUME NEW q \in User PROVE Found(q)'
    BY <1>5 DEF BlobTypeOK, Through, Alone, Found, Backed, Belongs, HasBlobPoints, AddPoints, DelPoints, Ref
  <2>3. Backed'
    BY <1>5 DEF BlobTypeOK, Through, Alone, Found, Backed, Belongs, HasBlobPoints, AddPoints, DelPoints, Ref
  <2> QED BY <2>1, <2>2, <2>3 DEF Through
<1> QED BY <1>1, <1>2, <1>3, <1>4, <1>5

LEMMA CopyDataInv ==
  ASSUME BlobInv, NEW p \in User, CopyData(p)
  PROVE  BlobInv'
<1> USE BlobAssumption, NoRefAssumption DEF BlobInv, CopyData, Move, disk, locks, call
<1>1. BlobTypeOK'
  BY DEF BlobTypeOK, Points, HasBlobPoints, AddPoints, DelPoints, Contents, Ref, Ages
<1>2. Held'
  BY DEF BlobTypeOK, Held, RefWork
<1>3. ASSUME NEW q \in User PROVE Belongs(q)'
  BY DEF BlobTypeOK, Belongs, HasBlobPoints, AddPoints, DelPoints
<1>4. ASSUME NEW q \in User PROVE Counted(q)'
  BY DEF BlobTypeOK, Counted, Held, RefWork, Ref
<1>5. ASSUME serialized PROVE Through'
  <2>1. Alone'
    BY <1>5 DEF BlobTypeOK, Through, Alone, Belongs, HasBlobPoints, AddPoints, DelPoints
  <2>2. ASSUME NEW q \in User PROVE Found(q)'
    BY <1>5 DEF BlobTypeOK, Through, Alone, Found, Backed, Belongs, HasBlobPoints, AddPoints, DelPoints, Ref
  <2>3. Backed'
    BY <1>5 DEF BlobTypeOK, Through, Alone, Found, Backed, Belongs, HasBlobPoints, AddPoints, DelPoints, Ref
  <2> QED BY <2>1, <2>2, <2>3 DEF Through
<1> QED BY <1>1, <1>2, <1>3, <1>4, <1>5

LEMMA CloseBlobInv ==
  ASSUME BlobInv, NEW p \in User, CloseBlob(p)
  PROVE  BlobInv'
<1> USE BlobAssumption, NoRefAssumption DEF BlobInv, CloseBlob, Move, disk, locks, call
<1>1. BlobTypeOK'
  BY DEF BlobTypeOK, Points, HasBlobPoints, AddPoints, DelPoints, Contents, Ref, Ages
<1>2. Held'
  BY DEF BlobTypeOK, Held, RefWork
<1>3. ASSUME NEW q \in User PROVE Belongs(q)'
  BY DEF BlobTypeOK, Belongs, HasBlobPoints, AddPoints, DelPoints
<1>4. ASSUME NEW q \in User PROVE Counted(q)'
  BY DEF BlobTypeOK, Counted, Held, RefWork, Ref
<1>5. ASSUME serialized PROVE Through'
  <2>1. Alone'
    BY <1>5 DEF BlobTypeOK, Through, Alone, Belongs, HasBlobPoints, AddPoints, DelPoints
  <2>2. ASSUME NEW q \in User PROVE Found(q)'
    BY <1>5 DEF BlobTypeOK, Through, Alone, Found, Backed, Belongs, HasBlobPoints, AddPoints, DelPoints, Ref
  <2>3. Backed'
    BY <1>5 DEF BlobTypeOK, Through, Alone, Found, Backed, Belongs, HasBlobPoints, AddPoints, DelPoints, Ref
  <2> QED BY <2>1, <2>2, <2>3 DEF Through
<1> QED BY <1>1, <1>2, <1>3, <1>4, <1>5

LEMMA ReadFailsInv ==
  ASSUME BlobInv, NEW p \in User, ReadFails(p)
  PROVE  BlobInv'
<1> USE BlobAssumption, NoRefAssumption DEF BlobInv, ReadFails, Move, disk, locks, call
<1>1. BlobTypeOK'
  BY DEF BlobTypeOK, Points, HasBlobPoints, AddPoints, DelPoints, Contents, Ref, Ages
<1>2. Held'
  BY DEF BlobTypeOK, Held, RefWork
<1>3. ASSUME NEW q \in User PROVE Belongs(q)'
  BY DEF BlobTypeOK, Belongs, HasBlobPoints, AddPoints, DelPoints
<1>4. ASSUME NEW q \in User PROVE Counted(q)'
  BY DEF BlobTypeOK, Counted, Held, RefWork, Ref
<1>5. ASSUME serialized PROVE Through'
  <2>1. Alone'
    BY <1>5 DEF BlobTypeOK, Through, Alone, Belongs, HasBlobPoints, AddPoints, DelPoints
  <2>2. ASSUME NEW q \in User PROVE Found(q)'
    BY <1>5 DEF BlobTypeOK, Through, Alone, Found, Backed, Belongs, HasBlobPoints, AddPoints, DelPoints, Ref
  <2>3. Backed'
    BY <1>5 DEF BlobTypeOK, Through, Alone, Found, Backed, Belongs, HasBlobPoints, AddPoints, DelPoints, Ref
  <2> QED BY <2>1, <2>2, <2>3 DEF Through
<1> QED BY <1>1, <1>2, <1>3, <1>4, <1>5

LEMMA AddLockInv ==
  ASSUME BlobInv, NEW p \in User, AddLock(p)
  PROVE  BlobInv'
<1> USE BlobAssumption, NoRefAssumption DEF BlobInv, AddLock, Move, disk, locks, call
<1>1. BlobTypeOK'
  BY DEF BlobTypeOK, Points, HasBlobPoints, AddPoints, DelPoints, Contents, Ref, Ages
<1>2. Held'
  BY DEF BlobTypeOK, Held, RefWork
<1>3. ASSUME NEW q \in User PROVE Belongs(q)'
  BY DEF BlobTypeOK, Belongs, HasBlobPoints, AddPoints, DelPoints
<1>4. ASSUME NEW q \in User PROVE Counted(q)'
  BY DEF BlobTypeOK, Counted, Held, RefWork, Ref
<1>5. ASSUME serialized PROVE Through'
  <2>1. Alone'
    BY <1>5 DEF BlobTypeOK, Through, Alone, Belongs, HasBlobPoints, AddPoints, DelPoints
  <2>2. ASSUME NEW q \in User PROVE Found(q)'
    BY <1>5 DEF BlobTypeOK, Through, Alone, Found, Backed, Belongs, HasBlobPoints, AddPoints, DelPoints, Ref
  <2>3. Backed'
    BY <1>5 DEF BlobTypeOK, Through, Alone, Found, Backed, Belongs, HasBlobPoints, AddPoints, DelPoints, Ref
  <2> QED BY <2>1, <2>2, <2>3 DEF Through
<1> QED BY <1>1, <1>2, <1>3, <1>4, <1>5

LEMMA AddReadInv ==
  ASSUME BlobInv, NEW p \in User, AddRead(p)
  PROVE  BlobInv'
<1> USE BlobAssumption, NoRefAssumption DEF BlobInv, AddRead, Move, disk, locks, call
<1>1. BlobTypeOK'
  BY DEF BlobTypeOK, Points, HasBlobPoints, AddPoints, DelPoints, Contents, Ref, Ages
<1>2. Held'
  BY DEF BlobTypeOK, Held, RefWork
<1>3. ASSUME NEW q \in User PROVE Belongs(q)'
  BY DEF BlobTypeOK, Belongs, HasBlobPoints, AddPoints, DelPoints
<1>4. ASSUME NEW q \in User PROVE Counted(q)'
  BY DEF BlobTypeOK, Counted, Held, RefWork, Ref
<1>5. ASSUME serialized PROVE Through'
  <2>1. Alone'
    BY <1>5 DEF BlobTypeOK, Through, Alone, Belongs, HasBlobPoints, AddPoints, DelPoints
  <2>2. ASSUME NEW q \in User PROVE Found(q)'
    BY <1>5 DEF BlobTypeOK, Through, Alone, Found, Backed, Belongs, HasBlobPoints, AddPoints, DelPoints, Ref
  <2>3. Backed'
    BY <1>5 DEF BlobTypeOK, Through, Alone, Found, Backed, Belongs, HasBlobPoints, AddPoints, DelPoints, Ref
  <2> QED BY <2>1, <2>2, <2>3 DEF Through
<1> QED BY <1>1, <1>2, <1>3, <1>4, <1>5

LEMMA AddWriteInv ==
  ASSUME BlobInv, NEW p \in User, AddWrite(p)
  PROVE  BlobInv'
<1> USE BlobAssumption, NoRefAssumption DEF BlobInv, AddWrite, Move, disk, locks, call
<1>1. seen[p] \in Ref \cup {NoRef}
  BY DEF BlobTypeOK
<1>2. BlobTypeOK'
  BY <1>1, NewRefFacts DEF BlobTypeOK, Points, HasBlobPoints, AddPoints, DelPoints, Contents, Ref, Ages
<1>3. Held'
  BY DEF BlobTypeOK, Held, RefWork
<1>4. ASSUME NEW q \in User PROVE Belongs(q)'
  BY DEF BlobTypeOK, Belongs, HasBlobPoints, AddPoints, DelPoints
<1>5. ASSUME NEW q \in User PROVE Counted(q)'
  BY DEF BlobTypeOK, Counted, Held, RefWork, Ref
<1>6. ASSUME serialized PROVE Through'
  <2>1. Alone'
    BY <1>6, <1>1, NewRefFacts DEF BlobTypeOK, Through, Alone, Belongs, HasBlobPoints, AddPoints, DelPoints
  <2>2. ASSUME NEW q \in User PROVE Found(q)'
    BY <1>6, <1>1, NewRefFacts DEF BlobTypeOK, Through, Alone, Found, Backed, Belongs, HasBlobPoints, AddPoints, DelPoints
  <2>3. Backed'
    <3>1. dig[p] \in Digest /\ blobs[dig[p]] = "whole" /\ seen[p] = refs[dig[p]] /\ UNCHANGED blobs
      BY <1>6 DEF BlobTypeOK, Through, Found, AddPoints
    <3>2. CASE UNCHANGED <<refs, promised>>
      BY <1>6, <3>1, <3>2 DEF Through, Backed
    <3>3. CASE /\ refs' = [refs EXCEPT ![dig[p]] = NewRef(seen[p])]
               /\ promised' = IF NewRef(seen[p]).age = "expired" \/ BeingDeleted(dig[p])
                              THEN promised ELSE promised \cup {dig[p]}
      <4>1. refs'[dig[p]] = NewRef(seen[p]) /\ NewRef(seen[p]) # NoRef
        BY <1>1, <3>1, <3>3, NewRefFacts DEF BlobTypeOK
      <4>2. dig[p] \in promised => NewRef(seen[p]).age # "expired"
        BY <1>6, <1>1, <3>1, NewRefFacts DEF Through, Backed
      <4>3. dig[p] \in promised' => NewRef(seen[p]).age # "expired"
        BY <3>3, <4>2
      <4>4. \A e \in Digest \ {dig[p]} : refs'[e] = refs[e] /\ (e \in promised' <=> e \in promised)
        BY <3>3 DEF BlobTypeOK
      <4> QED BY <1>6, <3>1, <4>1, <4>3, <4>4 DEF Through, Backed
    <3> QED BY <3>2, <3>3
  <2> QED BY <2>1, <2>2, <2>3 DEF Through
<1> QED BY <1>2, <1>3, <1>4, <1>5, <1>6

LEMMA DelLockInv ==
  ASSUME BlobInv, NEW p \in User, DelLock(p)
  PROVE  BlobInv'
<1> USE BlobAssumption, NoRefAssumption DEF BlobInv, DelLock, Move, disk, locks, call
<1>1. BlobTypeOK'
  BY DEF BlobTypeOK, Points, HasBlobPoints, AddPoints, DelPoints, Contents, Ref, Ages
<1>2. Held'
  BY DEF BlobTypeOK, Held, RefWork
<1>3. ASSUME NEW q \in User PROVE Belongs(q)'
  BY DEF BlobTypeOK, Belongs, HasBlobPoints, AddPoints, DelPoints
<1>4. ASSUME NEW q \in User PROVE Counted(q)'
  BY DEF BlobTypeOK, Counted, Held, RefWork, Ref
<1>5. ASSUME serialized PROVE Through'
  <2>1. Alone'
    BY <1>5 DEF BlobTypeOK, Through, Alone, Belongs, HasBlobPoints, AddPoints, DelPoints
  <2>2. ASSUME NEW q \in User PROVE Found(q)'
    BY <1>5 DEF BlobTypeOK, Through, Alone, Found, Backed, Belongs, HasBlobPoints, AddPoints, DelPoints, Ref
  <2>3. Backed'
    BY <1>5 DEF BlobTypeOK, Through, Alone, Found, Backed, Belongs, HasBlobPoints, AddPoints, DelPoints, Ref
  <2> QED BY <2>1, <2>2, <2>3 DEF Through
<1> QED BY <1>1, <1>2, <1>3, <1>4, <1>5

LEMMA DelReadInv ==
  ASSUME BlobInv, NEW p \in User, DelRead(p)
  PROVE  BlobInv'
<1> USE BlobAssumption, NoRefAssumption DEF BlobInv, DelRead, Move, disk, locks, call
<1>1. BlobTypeOK'
  BY DEF BlobTypeOK, Points, HasBlobPoints, AddPoints, DelPoints, Contents, Ref, Ages
<1>2. Held'
  BY DEF BlobTypeOK, Held, RefWork
<1>3. ASSUME NEW q \in User PROVE Belongs(q)'
  BY DEF BlobTypeOK, Belongs, HasBlobPoints, AddPoints, DelPoints
<1>4. ASSUME NEW q \in User PROVE Counted(q)'
  BY DEF BlobTypeOK, Counted, Held, RefWork, Ref
<1>5. ASSUME serialized PROVE Through'
  <2>1. Alone'
    BY <1>5 DEF BlobTypeOK, Through, Alone, Belongs, HasBlobPoints, AddPoints, DelPoints
  <2>2. ASSUME NEW q \in User PROVE Found(q)'
    BY <1>5 DEF BlobTypeOK, Through, Alone, Found, Backed, Belongs, HasBlobPoints, AddPoints, DelPoints, Ref
  <2>3. Backed'
    BY <1>5 DEF BlobTypeOK, Through, Alone, Found, Backed, Belongs, HasBlobPoints, AddPoints, DelPoints, Ref
  <2> QED BY <2>1, <2>2, <2>3 DEF Through
<1> QED BY <1>1, <1>2, <1>3, <1>4, <1>5

LEMMA DelRefInv ==
  ASSUME BlobInv, NEW p \in User, DelRef(p)
  PROVE  BlobInv'
<1> USE BlobAssumption, NoRefAssumption DEF BlobInv, DelRef, Move, disk, locks, call
<1>1. BlobTypeOK'
  BY DEF BlobTypeOK, Points, HasBlobPoints, AddPoints, DelPoints, Contents, Ref, Ages
<1>2. Held'
  BY DEF BlobTypeOK, Held, RefWork
<1>3. ASSUME NEW q \in User PROVE Belongs(q)'
  BY DEF BlobTypeOK, Belongs, HasBlobPoints, AddPoints, DelPoints
<1>4. ASSUME NEW q \in User PROVE Counted(q)'
  BY DEF BlobTypeOK, Counted, Held, RefWork, Ref
<1>5. ASSUME serialized PROVE Through'
  <2>1. Alone'
    BY <1>5 DEF BlobTypeOK, Through, Alone, Belongs, HasBlobPoints, AddPoints, DelPoints
  <2>2. ASSUME NEW q \in User PROVE Found(q)'
    BY <1>5 DEF BlobTypeOK, Through, Alone, Found, Backed, Belongs, HasBlobPoints, AddPoints, DelPoints, Ref
  <2>3. Backed'
    BY <1>5 DEF BlobTypeOK, Through, Alone, Found, Backed, Belongs, HasBlobPoints, AddPoints, DelPoints, Ref
  <2> QED BY <2>1, <2>2, <2>3 DEF Through
<1> QED BY <1>1, <1>2, <1>3, <1>4, <1>5

LEMMA DelBlobInv ==
  ASSUME BlobInv, NEW p \in User, DelBlob(p)
  PROVE  BlobInv'
<1> USE BlobAssumption, NoRefAssumption DEF BlobInv, DelBlob, Move, disk, locks, call
<1>1. BlobTypeOK'
  BY DEF BlobTypeOK, Points, HasBlobPoints, AddPoints, DelPoints, Contents, Ref, Ages
<1>2. Held'
  BY DEF BlobTypeOK, Held, RefWork
<1>3. ASSUME NEW q \in User PROVE Belongs(q)'
  BY DEF BlobTypeOK, Belongs, HasBlobPoints, AddPoints, DelPoints
<1>4. ASSUME NEW q \in User PROVE Counted(q)'
  BY DEF BlobTypeOK, Counted, Held, RefWork, Ref
<1>5. ASSUME serialized PROVE Through'
  <2>1. Alone'
    BY <1>5 DEF BlobTypeOK, Through, Alone, Belongs, HasBlobPoints, AddPoints, DelPoints
  <2>2. ASSUME NEW q \in User PROVE Found(q)'
    BY <1>5 DEF BlobTypeOK, Through, Alone, Found, Backed, Belongs, HasBlobPoints, AddPoints, DelPoints, Ref
  <2>3. Backed'
    BY <1>5 DEF BlobTypeOK, Through, Alone, Found, Backed, Belongs, HasBlobPoints, AddPoints, DelPoints, Ref
  <2> QED BY <2>1, <2>2, <2>3 DEF Through
<1> QED BY <1>1, <1>2, <1>3, <1>4, <1>5

LEMMA DelWriteInv ==
  ASSUME BlobInv, NEW p \in User, DelWrite(p)
  PROVE  BlobInv'
<1> USE BlobAssumption, NoRefAssumption DEF BlobInv, DelWrite, Move, disk, locks, call
<1>1. BlobTypeOK'
  BY SMTT(30) DEF Counted, BlobTypeOK, Points, HasBlobPoints, AddPoints, DelPoints, Contents, Ref, Ages
<1>2. Held'
  BY DEF BlobTypeOK, Held, RefWork
<1>3. ASSUME NEW q \in User PROVE Belongs(q)'
  BY DEF BlobTypeOK, Belongs, HasBlobPoints, AddPoints, DelPoints
<1>4. ASSUME NEW q \in User PROVE Counted(q)'
  BY DEF BlobTypeOK, Counted, Held, RefWork, Ref
<1>5. ASSUME serialized PROVE Through'
  <2>1. Alone'
    BY <1>5 DEF BlobTypeOK, Through, Alone, Belongs, HasBlobPoints, AddPoints, DelPoints
  <2>2. ASSUME NEW q \in User PROVE Found(q)'
    BY <1>5 DEF BlobTypeOK, Through, Alone, Found, Backed, Belongs, HasBlobPoints, AddPoints, DelPoints, Ref
  <2>3. Backed'
    BY <1>5 DEF BlobTypeOK, Through, Alone, Found, Backed, Belongs, HasBlobPoints, AddPoints, DelPoints, Ref
  <2> QED BY <2>1, <2>2, <2>3 DEF Through
<1> QED BY <1>1, <1>2, <1>3, <1>4, <1>5

LEMMA BlobReturnInv ==
  ASSUME BlobInv, NEW p \in User, BlobReturn(p)
  PROVE  BlobInv'
<1> USE BlobAssumption, NoRefAssumption DEF BlobInv, BlobReturn, Move, disk, locks, call
<1>1. BlobTypeOK'
  BY DEF BlobTypeOK, Points, HasBlobPoints, AddPoints, DelPoints, Contents, Ref, Ages
<1>2. Held'
  BY DEF BlobTypeOK, Held, RefWork
<1>3. ASSUME NEW q \in User PROVE Belongs(q)'
  BY DEF BlobTypeOK, Belongs, HasBlobPoints, AddPoints, DelPoints
<1>4. ASSUME NEW q \in User PROVE Counted(q)'
  BY DEF BlobTypeOK, Counted, Held, RefWork, Ref
<1>5. ASSUME serialized PROVE Through'
  <2>1. Alone'
    BY <1>5 DEF BlobTypeOK, Through, Alone, Belongs, HasBlobPoints, AddPoints, DelPoints
  <2>2. ASSUME NEW q \in User PROVE Found(q)'
    BY <1>5 DEF BlobTypeOK, Through, Alone, Found, Backed, Belongs, HasBlobPoints, AddPoints, DelPoints, Ref
  <2>3. Backed'
    BY <1>5 DEF BlobTypeOK, Through, Alone, Found, Backed, Belongs, HasBlobPoints, AddPoints, DelPoints, Ref
  <2> QED BY <2>1, <2>2, <2>3 DEF Through
<1> QED BY <1>1, <1>2, <1>3, <1>4, <1>5

LEMMA BeginCallInv ==
  ASSUME BlobInv, NEW p \in User, NEW o \in {"get", "put", "delete"}, NEW d \in Digest, BeginCall(p, o, d)
  PROVE  BlobInv'
<1> USE BlobAssumption, NoRefAssumption DEF BlobInv, BeginCall, Admitted, Move, disk, locks
<1>1. BlobTypeOK'
  BY DEF BlobTypeOK, Points, HasBlobPoints, AddPoints, DelPoints, Contents, Ref, Ages
<1>2. Held'
  BY DEF BlobTypeOK, Held, RefWork
<1>3. ASSUME NEW q \in User PROVE Belongs(q)'
  BY DEF BlobTypeOK, Belongs, HasBlobPoints, AddPoints, DelPoints
<1>4. ASSUME NEW q \in User PROVE Counted(q)'
  BY DEF BlobTypeOK, Counted, Held, RefWork, Ref
<1>5. ASSUME serialized PROVE Through'
  <2>1. Alone'
    BY <1>5 DEF BlobTypeOK, Through, Alone, Belongs, HasBlobPoints, AddPoints, DelPoints
  <2>2. ASSUME NEW q \in User PROVE Found(q)'
    BY <1>5 DEF BlobTypeOK, Through, Alone, Found, Backed, Belongs, HasBlobPoints, AddPoints, DelPoints, Ref
  <2>3. Backed'
    BY <1>5 DEF BlobTypeOK, Through, Alone, Found, Backed, Belongs, HasBlobPoints, AddPoints, DelPoints, Ref
  <2> QED BY <2>1, <2>2, <2>3 DEF Through
<1> QED BY <1>1, <1>2, <1>3, <1>4, <1>5

LEMMA AgeInv ==
  ASSUME BlobInv, NEW d \in Digest, Age(d)
  PROVE  BlobInv'
<1> USE BlobAssumption, NoRefAssumption DEF BlobInv, Age, locks, call
<1>1. refs[d] \in Ref /\ (\A q \in User : seen[q] \in Ref \/ (seen[q] = NoRef /\ Older(seen[q]) = NoRef))
  BY DEF BlobTypeOK, Older
<1>2. refs' = [refs EXCEPT ![d] = Older(refs[d])]
  OBVIOUS
<1>3. BlobTypeOK'
  BY <1>1, <1>2, OlderFacts DEF BlobTypeOK, Points, HasBlobPoints, AddPoints, DelPoints, Contents, Ref, Ages
<1>4. Held'
  BY DEF BlobTypeOK, Held, RefWork
<1>5. ASSUME NEW q \in User PROVE Belongs(q)'
  BY DEF BlobTypeOK, Belongs, HasBlobPoints, AddPoints, DelPoints
<1>6. ASSUME NEW q \in User PROVE Counted(q)'
  BY <1>1, <1>2, OlderFacts DEF BlobTypeOK, Counted
<1>7. ASSUME serialized PROVE Through'
  <2>1. Alone'
    BY <1>7 DEF BlobTypeOK, Through, Alone, Belongs, HasBlobPoints, AddPoints, DelPoints
  <2>2. ASSUME NEW q \in User PROVE Found(q)'
    BY <1>7, <1>1, <1>2, OlderFacts DEF BlobTypeOK, Through, Alone, Found, Backed, Belongs, HasBlobPoints, AddPoints, DelPoints
  <2>3. Backed'
    BY <1>7, <1>1, <1>2, OlderFacts DEF BlobTypeOK, Through, Alone, Found, Backed, Belongs, HasBlobPoints, AddPoints, DelPoints, Ages, Ref
  <2> QED BY <2>1, <2>2, <2>3 DEF Through
<1> QED BY <1>3, <1>4, <1>5, <1>6, <1>7

LEMMA BlobCrashInv ==
  ASSUME BlobInv, BlobCrash
  PROVE  BlobInv'
<1> USE BlobAssumption, NoRefAssumption DEF BlobInv, BlobCrash, disk
<1>1. BlobTypeOK'
  BY DEF BlobTypeOK, Points, HasBlobPoints, AddPoints, DelPoints, Contents, Ref, Ages
<1>2. Held'
  BY DEF BlobTypeOK, Held, RefWork
<1>3. ASSUME NEW q \in User PROVE Belongs(q)'
  BY DEF BlobTypeOK, Belongs, HasBlobPoints, AddPoints, DelPoints
<1>4. ASSUME NEW q \in User PROVE Counted(q)'
  BY DEF BlobTypeOK, Counted, Held, RefWork, Ref
<1>5. ASSUME serialized PROVE Through'
  <2>1. Alone'
    BY <1>5 DEF BlobTypeOK, Through, Alone, Belongs, HasBlobPoints, AddPoints, DelPoints
  <2>2. ASSUME NEW q \in User PROVE Found(q)'
    BY <1>5 DEF BlobTypeOK, Through, Alone, Found, Backed, Belongs, HasBlobPoints, AddPoints, DelPoints, Ref
  <2>3. Backed'
    BY <1>5 DEF BlobTypeOK, Through, Alone, Found, Backed, Belongs, HasBlobPoints, AddPoints, DelPoints, Ref
  <2> QED BY <2>1, <2>2, <2>3 DEF Through
<1> QED BY <1>1, <1>2, <1>3, <1>4, <1>5

LEMMA BlobStepInv == BlobInv /\ [BlobNext]_blobVars => BlobInv'
<1> SUFFICES ASSUME BlobInv, [BlobNext]_blobVars PROVE BlobInv'
  OBVIOUS
<1>1. CASE UNCHANGED blobVars
  BY <1>1 DEF blobVars, BlobInv, BlobTypeOK, Held, Belongs, Counted, Through, Alone, Found, Backed
<1>2. CASE BlobNext
  BY <1>2, BeginCallInv, RefExistsInv, RefReadInv, RefDropInv, BlobExistsInv, ReadBlobInv, OpenStreamInv,
     CopyDataInv, CloseBlobInv, ReadFailsInv, AddLockInv, AddReadInv, AddWriteInv, DelLockInv,
     DelReadInv, DelRefInv, DelBlobInv, DelWriteInv, BlobReturnInv, AgeInv, BlobCrashInv DEF BlobNext, BlobStep
<1> QED BY <1>1, <1>2

LEMMA BlobInvariant == BlobSpec => []BlobInv
BY BlobInitInv, BlobStepInv, PTL DEF BlobSpec
----------------------------------------------------------------------------
(* Through the Coordinator, GetBlob hands out whole blobs only, whatever   *)
(* readers and Storage calls fail: no reference ever names the partial     *)
(* blob that the clean-up of a failed copy leaves.                         *)
THEOREM BlobsAreWhole == BlobSpec => []GetReturnsWhole
<1>1. BlobInv => GetReturnsWhole
  BY DEF BlobInv, Through, Found, GetReturnsWhole
<1> QED BY <1>1, BlobInvariant, PTL

(* Through the Coordinator, an accepted blob stays whole and referenced    *)
(* until its TTL is over, expiry checks and crashes included.              *)
THEOREM BlobsStay == BlobSpec => []AcceptedBlobStays
<1>1. BlobInv => AcceptedBlobStays
  BY DEF BlobInv, BlobTypeOK, Through, Backed, AcceptedBlobStays
<1> QED BY <1>1, BlobInvariant, PTL

(* The count that an action writes was computed from the one it replaces,  *)
(* in either use of the cache.                                             *)
LEMMA CountsAreKept ==
  BlobInv /\ [BlobNext]_blobVars =>
    [\A p \in User :
       (AddWrite(p) \/ DelWrite(p)) /\ at'[p] = "ok" /\ refs[dig[p]] # NoRef
         => seen[p] # NoRef /\ refs[dig[p]].count = seen[p].count]_blobVars
BY DEF BlobInv, Counted, AddWrite, DelWrite

(* The types, no reference without its blob, and no count lost between     *)
(* goroutines that add and remove references of one blob.                  *)
THEOREM ReferencesStaySound == BlobSpec => ReferencesAreSound
<1>1. BlobInv => BlobTypeOK /\ NoDanglingRef
  BY DEF BlobInv, Through, Backed, NoDanglingRef
<1> QED BY <1>1, BlobInvariant, CountsAreKept, PTL DEF BlobSpec, ReferencesAreSound, NoLostCount
-----------------------------------------------------------------------------
(* Between its lock and its unlock a goroutine has a request and is the    *)
(* holder of that path's lock.                                             *)
LockInv ==
  \A p \in Proc :
    /\ pc[p] # "idle" => req[p] \in Request
    /\ pc[p] \in Critical => lock[req[p].path] = p

(* The program points of a request are those of its operation. *)
OpInv ==
  \A p \in Proc :
    /\ pc[p] \in Writing \cup {"tempdir"} => req[p].op \in {"write", "stream"}
    /\ pc[p] = "streaming" => req[p].op = "stream"
    /\ pc[p] = "read" => req[p].op = "read"
    /\ pc[p] = "remove" => req[p].op = "remove"

(* A temporary directory belongs to one goroutine, until its call returns. *)
TempOwned ==
  /\ \A p \in Proc : pc[p] \in Writing => tmp[p] \in TempDir
  /\ \A p1, p2 \in Proc : tmp[p1] = tmp[p2] /\ tmp[p1] # NoTemp => p1 = p2
  /\ \A p \in Proc : pc[p] \in {"idle", "lock", "tempdir", "cancelled"} => tmp[p] = NoTemp

(* What a goroutine has written so far is what its temporary file holds. *)
Written(p) ==
  /\ pc[p] \in {"streaming", "sum"} => temps[tmp[p]] = EmptyFile
  /\ pc[p] = "data" => temps[tmp[p]] = [sum |-> req[p].data, data |-> NoData]
  /\ pc[p] = "rename" => temps[tmp[p]] = Complete(req[p].data)

TempWritten == \A p \in Proc : Written(p)

Inv == TypeOK /\ LockInv /\ OpInv /\ TempOwned /\ TempWritten /\ NoPartialFile
----------------------------------------------------------------------------
USE StorageAssumption, NoReqAssumption
USE DEF Goto, FailWrite, Critical, Writing

(* The shapes of a file and of a temporary directory tell apart: no file,  *)
(* an empty directory and the files a writer makes.                        *)
LEMMA FileFacts ==
  /\ EmptyFile \in File /\ EmptyDir \notin File /\ Absent \notin File /\ EmptyDir # Absent
  /\ \A f \in File : [f EXCEPT !.data = Torn] \in File
BY DEF EmptyFile, EmptyDir, Absent, File, Complete, Valid

(* A file a writer has finished is valid, and one it has begun is a file. *)
LEMMA CompleteFacts ==
  ASSUME NEW d \in Data
  PROVE  /\ Complete(d) \in File /\ Valid(Complete(d))
         /\ [sum |-> d, data |-> NoData] \in File
BY DEF Complete, File, Valid

(* What each kind of request is. *)
LEMMA RequestFacts ==
  ASSUME NEW r \in Request
  PROVE  /\ r.path \in Path
         /\ r.op \in {"write", "stream", "read", "remove"}
         /\ r.op \in {"write", "stream"} => r.data \in Data
         /\ r # NoReq
BY DEF Request

(* Writing the checksum line, the data, or part of it. *)
LEMMA WriteFacts ==
  ASSUME NEW d \in Data
  PROVE  /\ [EmptyFile EXCEPT !.sum = d] = [sum |-> d, data |-> NoData]
         /\ [[sum |-> d, data |-> NoData] EXCEPT !.data = d] = Complete(d)
         /\ [[sum |-> d, data |-> NoData] EXCEPT !.data = Torn] \in File
BY DEF EmptyFile, Complete, File

(* Init establishes the invariant. *)
LEMMA InitInv == Init => Inv
BY DEF Init, Inv, TypeOK, LockInv, OpInv, TempOwned, TempWritten, Written, NoPartialFile, NoDir, Request

(* A call starts: it has its request and nothing else yet. *)
LEMMA BeginInv == ASSUME NEW p \in Proc, NEW r \in Request, Inv, Begin(p, r) PROVE Inv'
<1>1. TypeOK'
  BY DEF Inv, TypeOK, Begin
<1>2. LockInv'
  BY DEF Inv, TypeOK, LockInv, Begin
<1>3. OpInv'
  BY DEF Inv, TypeOK, OpInv, Begin
<1>4. TempOwned'
  BY DEF Inv, TypeOK, TempOwned, Begin
<1>5. TempWritten'
  BY DEF Inv, TypeOK, TempWritten, Written, Begin
<1>6. NoPartialFile'
  BY DEF Inv, TypeOK, NoPartialFile, Begin
<1>. QED BY <1>1, <1>2, <1>3, <1>4, <1>5, <1>6 DEF Inv

(* The lock was free, so no other goroutine held it. *)
LEMMA AcquireFileLockInv == ASSUME NEW p \in Proc, Inv, AcquireFileLock(p) PROVE Inv'
<1>1. TypeOK'
  BY RequestFacts DEF Inv, TypeOK, LockInv, AcquireFileLock
<1>2. LockInv'
  BY RequestFacts DEF Inv, TypeOK, LockInv, AcquireFileLock
<1>3. OpInv'
  BY RequestFacts DEF Inv, TypeOK, LockInv, OpInv, AcquireFileLock
<1>4. TempOwned'
  BY RequestFacts DEF Inv, TypeOK, LockInv, TempOwned, AcquireFileLock
<1>5. TempWritten'
  BY RequestFacts DEF Inv, TypeOK, LockInv, TempWritten, Written, AcquireFileLock
<1>6. NoPartialFile'
  BY DEF Inv, TypeOK, NoPartialFile, AcquireFileLock
<1>. QED BY <1>1, <1>2, <1>3, <1>4, <1>5, <1>6 DEF Inv

(* A fresh name is nobody's. *)
LEMMA MakeTempDirInv == ASSUME NEW p \in Proc, Inv, MakeTempDir(p) PROVE Inv'
<1>1. TypeOK'
  BY FileFacts DEF Inv, TypeOK, MakeTempDir, FreshNames
<1>2. LockInv'
  BY DEF Inv, TypeOK, LockInv, MakeTempDir
<1>3. OpInv'
  BY DEF Inv, TypeOK, OpInv, MakeTempDir
<1>4. TempOwned'
  BY DEF Inv, TypeOK, TempOwned, MakeTempDir, FreshNames
<1>5. TempWritten'
  BY DEF Inv, TypeOK, TempOwned, TempWritten, Written, MakeTempDir, FreshNames
<1>6. NoPartialFile'
  BY DEF Inv, TypeOK, NoPartialFile, MakeTempDir
<1>. QED BY <1>1, <1>2, <1>3, <1>4, <1>5, <1>6 DEF Inv

(* The temporary file is the goroutine's own. *)
LEMMA CreateTempInv == ASSUME NEW p \in Proc, Inv, CreateTemp(p) PROVE Inv'
<1>1. TypeOK'
  BY FileFacts DEF Inv, TypeOK, TempOwned, CreateTemp
<1>2. LockInv'
  BY DEF Inv, TypeOK, LockInv, CreateTemp
<1>3. OpInv'
  BY DEF Inv, TypeOK, OpInv, CreateTemp
<1>4. TempOwned'
  BY DEF Inv, TypeOK, TempOwned, CreateTemp
<1>5. TempWritten'
  BY DEF Inv, TypeOK, TempOwned, TempWritten, Written, CreateTemp
<1>6. NoPartialFile'
  BY DEF Inv, TypeOK, NoPartialFile, CreateTemp
<1>. QED BY <1>1, <1>2, <1>3, <1>4, <1>5, <1>6 DEF Inv

(* The temporary file is created anew; it is the goroutine's own. *)
LEMMA CloseStreamInv == ASSUME NEW p \in Proc, Inv, CloseStream(p) PROVE Inv'
<1>1. TypeOK'
  BY FileFacts DEF Inv, TypeOK, TempOwned, CloseStream
<1>2. LockInv'
  BY DEF Inv, TypeOK, LockInv, CloseStream
<1>3. OpInv'
  BY DEF Inv, TypeOK, OpInv, CloseStream
<1>4. TempOwned'
  BY DEF Inv, TypeOK, TempOwned, CloseStream
<1>5. TempWritten'
  BY DEF Inv, TypeOK, TempOwned, TempWritten, Written, CloseStream
<1>6. NoPartialFile'
  BY DEF Inv, TypeOK, NoPartialFile, CloseStream
<1>. QED BY <1>1, <1>2, <1>3, <1>4, <1>5, <1>6 DEF Inv

(* The file was empty: now it has its checksum line. *)
LEMMA WriteChecksumInv == ASSUME NEW p \in Proc, Inv, WriteChecksum(p) PROVE Inv'
<1>1. tmp[p] \in TempDir /\ req[p].data \in Data
  BY RequestFacts DEF Inv, LockInv, OpInv, TempOwned, WriteChecksum
<1>2. \/ /\ temps' = [temps EXCEPT ![tmp[p]] = [sum |-> req[p].data, data |-> NoData]]
        /\ pc' = [pc EXCEPT ![p] = "data"]
     \/ /\ temps' = temps
        /\ \E l \in {"leak", "fail"} : pc' = [pc EXCEPT ![p] = l]
  BY <1>1, WriteFacts DEF Inv, TypeOK, TempWritten, Written, WriteChecksum
<1>3. TypeOK'
  BY <1>1, <1>2, CompleteFacts DEF Inv, TypeOK, WriteChecksum
<1>4. LockInv'
  BY DEF Inv, TypeOK, LockInv, WriteChecksum
<1>5. OpInv'
  BY DEF Inv, TypeOK, OpInv, WriteChecksum
<1>6. TempOwned'
  BY DEF Inv, TypeOK, TempOwned, WriteChecksum
<1>7. TempWritten'
  <2>. SUFFICES ASSUME NEW q \in Proc PROVE Written(q)'
    BY DEF TempWritten
  <2>1. CASE q = p
    BY <1>1, <1>2, <2>1 DEF Inv, TypeOK, WriteChecksum, Written
  <2>2. CASE q # p
    BY <1>1, <1>2, <2>2 DEF Inv, TypeOK, TempOwned, TempWritten, Written, WriteChecksum
  <2>. QED BY <2>1, <2>2
<1>8. NoPartialFile'
  BY DEF Inv, TypeOK, NoPartialFile, WriteChecksum
<1>. QED BY <1>1, <1>2, <1>3, <1>4, <1>5, <1>6, <1>7, <1>8 DEF Inv

(* The file had its checksum line: now it is complete, or the call fails. *)
LEMMA WriteDataInv == ASSUME NEW p \in Proc, Inv, WriteData(p) PROVE Inv'
<1>1. tmp[p] \in TempDir /\ req[p].data \in Data
  BY RequestFacts DEF Inv, LockInv, OpInv, TempOwned, WriteData
<1>2. \/ /\ temps' = [temps EXCEPT ![tmp[p]] = Complete(req[p].data)]
        /\ pc' = [pc EXCEPT ![p] = "rename"]
     \/ /\ \E f \in File : temps' = [temps EXCEPT ![tmp[p]] = f]
        /\ \E l \in {"leak", "fail"} : pc' = [pc EXCEPT ![p] = l]
  BY <1>1, WriteFacts, FileFacts DEF Inv, TypeOK, TempWritten, Written, WriteData
<1>3. TypeOK'
  <2>0. Complete(req[p].data) \in File
    BY <1>1, CompleteFacts
  <2>1. temps' \in [TempDir -> File \cup {EmptyDir, NoDir}]
    BY <1>1, <1>2, <2>0 DEF Inv, TypeOK
  <2>2. pc' \in [Proc -> Critical \cup {"idle", "lock", "cancelled"}]
    BY <1>2 DEF Inv, TypeOK
  <2>. QED BY <2>1, <2>2 DEF Inv, TypeOK, WriteData
<1>4. LockInv'
  BY DEF Inv, TypeOK, LockInv, WriteData
<1>5. OpInv'
  BY DEF Inv, TypeOK, OpInv, WriteData
<1>6. TempOwned'
  BY DEF Inv, TypeOK, TempOwned, WriteData
<1>7. TempWritten'
  BY <1>1, <1>2 DEF Inv, TypeOK, TempOwned, TempWritten, Written, WriteData
<1>8. NoPartialFile'
  BY DEF Inv, TypeOK, NoPartialFile, WriteData
<1>. QED BY <1>1, <1>2, <1>3, <1>4, <1>5, <1>6, <1>7, <1>8 DEF Inv

(* What is renamed into place is complete. *)
LEMMA RenameInv == ASSUME NEW p \in Proc, Inv, Rename(p) PROVE Inv'
<1>1. /\ tmp[p] \in TempDir /\ req[p].data \in Data /\ req[p].path \in Path
     /\ temps[tmp[p]] = Complete(req[p].data)
  BY RequestFacts DEF Inv, LockInv, OpInv, TempOwned, TempWritten, Written, Rename
<1>2. TypeOK'
  <2>0. Complete(req[p].data) \in File
    BY <1>1, CompleteFacts
  <2>1. files' \in [Path -> File \cup {Absent}]
    BY <1>1, <2>0 DEF Inv, TypeOK, Rename
  <2>2. temps' \in [TempDir -> File \cup {EmptyDir, NoDir}]
    BY <1>1 DEF Inv, TypeOK, Rename
  <2>. QED BY <2>1, <2>2 DEF Inv, TypeOK, Rename
<1>3. LockInv'
  BY DEF Inv, TypeOK, LockInv, Rename
<1>4. OpInv'
  BY DEF Inv, TypeOK, OpInv, Rename
<1>5. TempOwned'
  BY DEF Inv, TypeOK, TempOwned, Rename
<1>6. TempWritten'
  BY <1>1 DEF Inv, TypeOK, TempOwned, TempWritten, Written, Rename
<1>7. NoPartialFile'
  <2>1. Valid(Complete(req[p].data))
    BY <1>1, CompleteFacts
  <2>. QED BY <1>1, <2>1 DEF Inv, TypeOK, NoPartialFile, Rename
<1>. QED BY <1>1, <1>2, <1>3, <1>4, <1>5, <1>6, <1>7 DEF Inv

(* Nothing but the reader's result changes. *)
LEMMA ReadFileInv == ASSUME NEW p \in Proc, Inv, ReadFile(p) PROVE Inv'
<1>1. TypeOK'
  BY RequestFacts DEF Inv, TypeOK, LockInv, ReadFile, Valid
<1>2. LockInv'
  BY DEF Inv, TypeOK, LockInv, ReadFile
<1>3. OpInv'
  BY DEF Inv, TypeOK, OpInv, ReadFile
<1>4. TempOwned'
  BY DEF Inv, TypeOK, TempOwned, ReadFile
<1>5. TempWritten'
  BY DEF Inv, TypeOK, TempWritten, Written, ReadFile
<1>6. NoPartialFile'
  BY DEF Inv, TypeOK, NoPartialFile, ReadFile
<1>. QED BY <1>1, <1>2, <1>3, <1>4, <1>5, <1>6 DEF Inv

(* An absent file is not a partial one. *)
LEMMA RemoveFileInv == ASSUME NEW p \in Proc, Inv, RemoveFile(p) PROVE Inv'
<1>1. TypeOK'
  BY RequestFacts DEF Inv, TypeOK, LockInv, RemoveFile
<1>2. LockInv'
  BY DEF Inv, TypeOK, LockInv, RemoveFile
<1>3. OpInv'
  BY DEF Inv, TypeOK, OpInv, RemoveFile
<1>4. TempOwned'
  BY DEF Inv, TypeOK, TempOwned, RemoveFile
<1>5. TempWritten'
  BY DEF Inv, TypeOK, TempWritten, Written, RemoveFile
<1>6. NoPartialFile'
  BY RequestFacts DEF Inv, TypeOK, LockInv, NoPartialFile, RemoveFile
<1>. QED BY <1>1, <1>2, <1>3, <1>4, <1>5, <1>6 DEF Inv

(* The goroutine gives up its lock and its temporary directory. *)
LEMMA ReturnInv == ASSUME NEW p \in Proc, Inv, Return(p) PROVE Inv'
<1>1. TypeOK'
  BY RequestFacts DEF Inv, TypeOK, LockInv, Return, NoDir
<1>2. LockInv'
  BY RequestFacts DEF Inv, TypeOK, LockInv, Return
<1>3. OpInv'
  BY DEF Inv, TypeOK, OpInv, Return
<1>4. TempOwned'
  BY DEF Inv, TypeOK, TempOwned, Return
<1>5. TempWritten'
  BY DEF Inv, TypeOK, TempOwned, TempWritten, Written, Return, RemovesTempDir
<1>6. NoPartialFile'
  BY DEF Inv, TypeOK, NoPartialFile, Return
<1>. QED BY <1>1, <1>2, <1>3, <1>4, <1>5, <1>6 DEF Inv

(* The lock is nobody's from now on. *)
LEMMA ReturnLockedInv == ASSUME NEW p \in Proc, Inv, ReturnLocked(p) PROVE Inv'
<1>1. TypeOK'
  BY RequestFacts DEF Inv, TypeOK, LockInv, ReturnLocked, NoDir
<1>2. LockInv'
  BY RequestFacts DEF Inv, TypeOK, LockInv, ReturnLocked
<1>3. OpInv'
  BY DEF Inv, TypeOK, OpInv, ReturnLocked
<1>4. TempOwned'
  BY DEF Inv, TypeOK, TempOwned, ReturnLocked
<1>5. TempWritten'
  BY DEF Inv, TypeOK, TempOwned, TempWritten, Written, ReturnLocked, RemovesTempDir
<1>6. NoPartialFile'
  BY DEF Inv, TypeOK, NoPartialFile, ReturnLocked
<1>. QED BY <1>1, <1>2, <1>3, <1>4, <1>5, <1>6 DEF Inv

(* A call that was refused never had a lock. *)
LEMMA ReturnCancelledInv == ASSUME NEW p \in Proc, Inv, ReturnCancelled(p) PROVE Inv'
<1>1. TypeOK'
  BY DEF Inv, TypeOK, ReturnCancelled
<1>2. LockInv'
  BY DEF Inv, TypeOK, LockInv, ReturnCancelled
<1>3. OpInv'
  BY DEF Inv, TypeOK, OpInv, ReturnCancelled
<1>4. TempOwned'
  BY DEF Inv, TypeOK, TempOwned, ReturnCancelled
<1>5. TempWritten'
  BY DEF Inv, TypeOK, TempWritten, Written, ReturnCancelled
<1>6. NoPartialFile'
  BY DEF Inv, TypeOK, NoPartialFile, ReturnCancelled
<1>. QED BY <1>1, <1>2, <1>3, <1>4, <1>5, <1>6 DEF Inv

(* Only empty directories are removed, and a writer's has a file in it.    *)
LEMMA CleanupInv == ASSUME Inv, CleanupTempFiles PROVE Inv'
<1>1. \A t \in TempDir : temps'[t] = temps[t] \/ (temps[t] = EmptyDir /\ temps'[t] = NoDir)
  BY DEF Inv, TypeOK, CleanupTempFiles
<1>2. TypeOK'
  BY <1>1 DEF Inv, TypeOK, CleanupTempFiles
<1>3. LockInv' /\ OpInv' /\ TempOwned' /\ NoPartialFile'
  BY DEF Inv, LockInv, OpInv, TempOwned, NoPartialFile, CleanupTempFiles
<1>4. TempWritten'
  <2>. SUFFICES ASSUME NEW q \in Proc PROVE Written(q)'
    BY DEF TempWritten
  <2>1. CASE pc[q] \in Writing \ {"create"}
    <3>1. tmp[q] \in TempDir
      BY <2>1 DEF Inv, TempOwned
    <3>2. temps[tmp[q]] \in File
      <4>1. req[q].data \in Data
        BY <2>1, RequestFacts DEF Inv, LockInv, OpInv
      <4>2. Complete(req[q].data) \in File /\ [sum |-> req[q].data, data |-> NoData] \in File
        BY <4>1, CompleteFacts
      <4>. QED BY <2>1, <4>2, FileFacts DEF Inv, TempWritten, Written
    <3>3. temps'[tmp[q]] = temps[tmp[q]]
      BY <1>1, <3>1, <3>2, FileFacts
    <3>. QED BY <3>3 DEF Inv, TempWritten, Written, CleanupTempFiles
  <2>2. CASE pc[q] \notin Writing \ {"create"}
    BY <2>2 DEF Written, CleanupTempFiles
  <2>. QED BY <2>1, <2>2
<1>. QED BY <1>2, <1>3, <1>4 DEF Inv

(* A restart forgets the calls; what is on disk may only have been torn,   *)
(* and is then known to be damaged.                                        *)
LEMMA RestartFacts ==
  ASSUME Inv, Restart
  PROVE  LockInv' /\ OpInv' /\ TempOwned' /\ TempWritten'
BY DEF Inv, TypeOK, Restart, LockInv, OpInv, TempOwned, TempWritten, Written

(* A crash forgets every lock and call and leaves the disk: the invariant  *)
(* holds of the restarted process.                                         *)
LEMMA CrashInv == ASSUME Inv, Crash PROVE Inv'
<1>1. TypeOK'
  BY DEF Inv, TypeOK, Crash, Restart
<1>2. NoPartialFile'
  BY DEF Inv, NoPartialFile, Crash
<1>. QED BY <1>1, <1>2, RestartFacts DEF Inv, Crash

(* A power loss tears files, and each torn file is marked as damaged. *)
LEMMA PowerLossInv == ASSUME Inv, PowerLoss PROVE Inv'
<1>. PICK short \in SUBSET {q \in Path : files[q] # Absent} :
       /\ files' = [q \in Path |-> IF q \in short THEN [files[q] EXCEPT !.data = Torn]
                                                ELSE files[q]]
       /\ damaged' = damaged \cup short
  BY DEF PowerLoss
<1>1. TypeOK'
  <2>1. files' \in [Path -> File \cup {Absent}]
    BY FileFacts DEF Inv, TypeOK
  <2>. QED BY <2>1 DEF Inv, TypeOK, PowerLoss, Restart
<1>2. NoPartialFile'
  BY DEF Inv, TypeOK, NoPartialFile
<1>. QED BY <1>1, <1>2, RestartFacts DEF Inv, PowerLoss

(* Every step keeps the invariant. *)
LEMMA NextInv == Inv /\ [Next]_vars => Inv'
<1>. SUFFICES ASSUME Inv, [Next]_vars PROVE Inv'
  OBVIOUS
<1>1. CASE UNCHANGED vars
  BY <1>1 DEF vars, Inv, TypeOK, LockInv, OpInv, TempOwned, TempWritten, Written, NoPartialFile
<1>2. ASSUME NEW p \in Proc, NEW r \in Request, Begin(p, r) PROVE Inv'
  BY <1>2, BeginInv
<1>3. ASSUME NEW p \in Proc, Step(p) PROVE Inv'
  BY <1>3, AcquireFileLockInv, MakeTempDirInv, CreateTempInv, CloseStreamInv, WriteChecksumInv,
     WriteDataInv, RenameInv, ReadFileInv, RemoveFileInv, ReturnInv, ReturnLockedInv,
     ReturnCancelledInv DEF Step
<1>. QED BY <1>1, <1>2, <1>3, CleanupInv, CrashInv, PowerLossInv DEF Next

(* The inductive invariant holds in every reachable state: each of the four *)
(* properties below is one of its conjuncts or follows from two of them.   *)
THEOREM SpecInv == Spec => []Inv
<1>. QED BY InitInv, NextInv, PTL DEF Spec

(* Type correctness. *)
THEOREM TypeCorrect == Spec => []TypeOK
<1>1. Inv => TypeOK
  BY DEF Inv
<1>. QED BY <1>1, SpecInv, PTL

(* The paths' mutexes exclude: two goroutines are never between the lock   *)
(* and the unlock of one path, streams included.                           *)
THEOREM MutualExclusion == Spec => []FileLockExclusive
<1>1. Inv => FileLockExclusive
  BY DEF Inv, LockInv, FileLockExclusive
<1>. QED BY <1>1, SpecInv, PTL

(* Write-to-temporary and rename never leave a partial file at a final     *)
(* path, whatever fails and whenever the process dies; only a power loss   *)
(* can tear one.                                                           *)
THEOREM FilesAreWhole == Spec => []NoPartialFile
<1>1. Inv => NoPartialFile
  BY DEF Inv
<1>. QED BY <1>1, SpecInv, PTL

(* The cleanup of leftovers never disturbs a write in progress. *)
THEOREM CleanupSparesWriters == Spec => []TempFileKept
<1>1. Inv => TempFileKept
  BY DEF Inv, TempWritten, Written, TempFileKept
<1>. QED BY <1>1, SpecInv, PTL
----------------------------------------------------------------------------
(***************************************************************************)
(* Storage implements AtomicStore: every step of the storage layer is the  *)
(* single effect of a call, the start or the return of one, a restart, or  *)
(* nothing at all for whoever sees only calls, results and valid files.    *)
(***************************************************************************)
USE DEF PhaseOf

(* The abstract state, as the refinement mapping defines it. *)
Store == [q \in Path |-> StoredData(files[q])]
Phase == [p \in Proc |-> PhaseOf(pc[p])]

AbstractStep == Abstract!Next \/ UNCHANGED <<Store, req, Phase, out>>

(* A step of the abstract store, in the variables of the refinement. *)
LEMMA StepFacts == [Abstract!Next]_(Abstract!vars) <=> AbstractStep
BY DEF AbstractStep, Abstract!vars, Store, Phase

(* Where the code goes next decides what its caller sees. *)
LEMMA PhaseFacts ==
  ASSUME NEW p \in Proc, NEW l, Inv, pc' = [pc EXCEPT ![p] = l]
  PROVE  Phase' = [Phase EXCEPT ![p] = PhaseOf(l)] /\ Phase[p] = PhaseOf(pc[p])
BY DEF Inv, TypeOK, Phase

(* The abstract store changes only when a file at a final path does. *)
LEMMA SameStore == files' = files => Store' = Store
BY DEF Store

(* A step inside a call that goes on is invisible. *)
LEMMA InvisibleStep ==
  ASSUME NEW p \in Proc, NEW l, Inv, PhaseOf(pc[p]) = "pending", PhaseOf(l) = "pending",
         pc' = [pc EXCEPT ![p] = l], UNCHANGED <<files, req, out>>
  PROVE  AbstractStep
<1>1. Phase' = Phase
  BY PhaseFacts DEF Phase
<1>. QED BY <1>1, SameStore DEF AbstractStep

(* A step that makes the call fail rejects it. *)
LEMMA RejectStep ==
  ASSUME NEW p \in Proc, NEW l, Inv, PhaseOf(pc[p]) = "pending", PhaseOf(l) = "err",
         pc' = [pc EXCEPT ![p] = l], UNCHANGED <<files, req, out>>
  PROVE  AbstractStep
<1>1. Abstract!Reject(p)
  BY PhaseFacts, SameStore DEF Abstract!Reject, Phase, Store
<1>. QED BY <1>1 DEF AbstractStep, Abstract!Next

(* A call starts; ctx.Err() may refuse it at once. *)
LEMMA BeginRefines ==
  ASSUME NEW p \in Proc, NEW r \in Request, Inv, Begin(p, r) PROVE AbstractStep
<1>1. PICK l \in {"lock", "cancelled"} : pc' = [pc EXCEPT ![p] = l]
  BY DEF Begin
<1>2. Abstract!Begin(p)
  BY <1>1, PhaseFacts, SameStore DEF Abstract!Begin, Begin, Phase, Store, Abstract!Request, Request
<1>. QED BY <1>2 DEF AbstractStep, Abstract!Next

(* Taking the path's mutex is invisible to the callers. *)
LEMMA AcquireFileLockRefines ==
  ASSUME NEW p \in Proc, Inv, AcquireFileLock(p) PROVE AbstractStep
<1>1. \E l \in {"tempdir", "read", "remove"} : pc' = [pc EXCEPT ![p] = l]
  BY RequestFacts DEF Inv, LockInv, AcquireFileLock
<1>. QED BY <1>1, InvisibleStep DEF AcquireFileLock

(* So is the temporary directory, unless making it fails the call. *)
LEMMA MakeTempDirRefines ==
  ASSUME NEW p \in Proc, Inv, MakeTempDir(p) PROVE AbstractStep
<1>1. \E l \in {"create", "fail"} : pc' = [pc EXCEPT ![p] = l]
  BY DEF MakeTempDir
<1>. QED BY <1>1, InvisibleStep, RejectStep DEF MakeTempDir

(* So is the empty temporary file. *)
LEMMA CreateTempRefines ==
  ASSUME NEW p \in Proc, Inv, CreateTemp(p) PROVE AbstractStep
<1>1. \E l \in {"streaming", "sum", "fail"} : pc' = [pc EXCEPT ![p] = l]
  BY DEF CreateTemp
<1>. QED BY <1>1, InvisibleStep, RejectStep DEF CreateTemp

(* So is the file StreamWriter.Close starts anew. *)
LEMMA CloseStreamRefines ==
  ASSUME NEW p \in Proc, Inv, CloseStream(p) PROVE AbstractStep
<1>1. \E l \in {"sum", "leak"} : pc' = [pc EXCEPT ![p] = l]
  BY DEF CloseStream
<1>. QED BY <1>1, InvisibleStep, RejectStep DEF CloseStream

(* So is the checksum line of a temporary file. *)
LEMMA WriteChecksumRefines ==
  ASSUME NEW p \in Proc, Inv, WriteChecksum(p) PROVE AbstractStep
<1>1. \E l \in {"data", "fail", "leak"} : pc' = [pc EXCEPT ![p] = l]
  BY DEF WriteChecksum
<1>. QED BY <1>1, InvisibleStep, RejectStep DEF WriteChecksum

(* So are its data, written whole or in part. *)
LEMMA WriteDataRefines ==
  ASSUME NEW p \in Proc, Inv, WriteData(p) PROVE AbstractStep
<1>1. \E l \in {"rename", "fail", "leak"} : pc' = [pc EXCEPT ![p] = l]
  BY DEF WriteData
<1>. QED BY <1>1, InvisibleStep, RejectStep DEF WriteData

(* The rename is the effect of a write: it puts a complete file in place.  *)
LEMMA RenameRefines ==
  ASSUME NEW p \in Proc, Inv, Rename(p) PROVE AbstractStep
<1>1. CASE UNCHANGED files /\ FailWrite(p)
  <2>1. \E l \in {"fail", "leak"} : pc' = [pc EXCEPT ![p] = l]
    BY <1>1
  <2>. QED BY <1>1, <2>1, RejectStep DEF Rename
<1>2. CASE files' = [files EXCEPT ![req[p].path] = temps[tmp[p]]] /\ Goto(p, "done")
  <2>1. /\ req[p].op \in {"write", "stream"} /\ req[p].path \in Path /\ req[p].data \in Data
        /\ temps[tmp[p]] = Complete(req[p].data)
    BY RequestFacts DEF Inv, LockInv, OpInv, TempWritten, Written, Rename
  <2>2. StoredData(Complete(req[p].data)) = req[p].data
    BY <2>1, CompleteFacts DEF StoredData, Complete
  <2>3. Store' = [Store EXCEPT ![req[p].path] = req[p].data]
    BY <1>2, <2>1, <2>2 DEF Store, Inv, TypeOK
  <2>4. Abstract!Apply(p)
    BY <1>2, <2>1, <2>3, PhaseFacts DEF Abstract!Apply, Store, Phase, Rename
  <2>. QED BY <2>4 DEF AbstractStep, Abstract!Next
<1>. QED BY <1>1, <1>2 DEF Rename

(* A read that verifies its checksum returns what the store holds. *)
LEMMA ReadFileRefines ==
  ASSUME NEW p \in Proc, Inv, ReadFile(p) PROVE AbstractStep
<1>1. CASE Goto(p, "fail") /\ UNCHANGED out
  BY <1>1, RejectStep DEF ReadFile
<1>2. CASE /\ Goto(p, "done") /\ Valid(files[req[p].path])
           /\ out' = [out EXCEPT ![p] = files[req[p].path].data]
  <2>1. req[p].op = "read" /\ req[p].path \in Path
    BY RequestFacts DEF Inv, LockInv, OpInv, ReadFile
  <2>2. Store[req[p].path] = files[req[p].path].data /\ Store[req[p].path] # NoData
    BY <1>2, <2>1 DEF Store, StoredData, Valid
  <2>3. Store' = Store /\ req' = req
    BY SameStore DEF ReadFile
  <2>4. Abstract!Apply(p)
    BY <1>2, <2>1, <2>2, <2>3, PhaseFacts DEF Abstract!Apply, Store, Phase, ReadFile
  <2>. QED BY <2>4 DEF AbstractStep, Abstract!Next
<1>. QED BY <1>1, <1>2 DEF ReadFile

(* No file at a path is no entry in the store. *)
LEMMA AbsentStored == StoredData(Absent) = NoData
BY DEF StoredData, Absent, Valid

(* The remove of the file is the effect of Storage.Remove. *)
LEMMA RemoveFileRefines ==
  ASSUME NEW p \in Proc, Inv, RemoveFile(p) PROVE AbstractStep
<1>1. CASE Goto(p, "fail") /\ UNCHANGED files
  BY <1>1, RejectStep DEF RemoveFile
<1>2. CASE Goto(p, "done") /\ files' = [files EXCEPT ![req[p].path] = Absent]
  <2>1. req[p].op = "remove" /\ req[p].path \in Path
    BY RequestFacts DEF Inv, LockInv, OpInv, RemoveFile
  <2>2. Store' = [Store EXCEPT ![req[p].path] = NoData]
    BY <1>2, <2>1, AbsentStored DEF Store, Inv, TypeOK
  <2>3. Abstract!Apply(p)
    BY <1>2, <2>1, <2>2, PhaseFacts DEF Abstract!Apply, Store, Phase, RemoveFile
  <2>. QED BY <2>3 DEF AbstractStep, Abstract!Next
<1>. QED BY <1>1, <1>2 DEF RemoveFile

(* The three ways to return. *)
LEMMA ReturnsRefine ==
  ASSUME NEW p \in Proc, Inv, Return(p) \/ ReturnLocked(p) \/ ReturnCancelled(p)
  PROVE  AbstractStep
<1>1. /\ PhaseOf(pc[p]) \in {"ok", "err"} /\ pc' = [pc EXCEPT ![p] = "idle"]
      /\ req' = [req EXCEPT ![p] = NoReq] /\ out' = [out EXCEPT ![p] = NoData]
      /\ UNCHANGED files
  BY DEF Return, ReturnLocked, ReturnCancelled
<1>2. Abstract!Return(p)
  BY <1>1, PhaseFacts, SameStore DEF Abstract!Return, Store, Phase
<1>. QED BY <1>2 DEF AbstractStep, Abstract!Next

(* CleanupTempFiles touches nothing but .temp, which no caller sees. *)
LEMMA CleanupRefines == ASSUME CleanupTempFiles PROVE AbstractStep
BY DEF CleanupTempFiles, AbstractStep, Store, Phase

(* A crash loses the calls in progress and no entry. *)
LEMMA CrashRefines == ASSUME Crash PROVE AbstractStep
<1>1. Abstract!Restart({})
  BY DEF Abstract!Restart, Crash, Restart
<1>. QED BY <1>1 DEF AbstractStep, Abstract!Next

(* A torn file is not valid: for the readers its entry is lost. *)
LEMMA PowerLossRefines == ASSUME Inv, PowerLoss PROVE AbstractStep
<1>. PICK short \in SUBSET {q \in Path : files[q] # Absent} :
       files' = [q \in Path |-> IF q \in short THEN [files[q] EXCEPT !.data = Torn] ELSE files[q]]
  BY DEF PowerLoss
<1>1. \A f \in File : StoredData([f EXCEPT !.data = Torn]) = NoData
  BY DEF StoredData, Valid, File
<1>2. Store' = [q \in Path |-> IF q \in short THEN NoData ELSE Store[q]]
  BY <1>1 DEF Store, Inv, TypeOK
<1>3. Abstract!Restart(short)
  BY <1>2 DEF Abstract!Restart, PowerLoss, Restart, Store
<1>. QED BY <1>3 DEF AbstractStep, Abstract!Next

(* Every step of the storage layer is a step of the abstract store or a    *)
(* stutter.                                                                *)
LEMMA NextRefines == Inv /\ [Next]_vars => [Abstract!Next]_(Abstract!vars)
<1>. SUFFICES ASSUME Inv, [Next]_vars PROVE AbstractStep
  BY StepFacts
<1>1. CASE UNCHANGED vars
  BY <1>1 DEF vars, AbstractStep, Store, Phase
<1>2. ASSUME NEW p \in Proc, NEW r \in Request, Begin(p, r) PROVE AbstractStep
  BY <1>2, BeginRefines
<1>3. ASSUME NEW p \in Proc, Step(p) PROVE AbstractStep
  BY <1>3, AcquireFileLockRefines, MakeTempDirRefines, CreateTempRefines, CloseStreamRefines,
     WriteChecksumRefines, WriteDataRefines, RenameRefines, ReadFileRefines, RemoveFileRefines,
     ReturnsRefine DEF Step
<1>. QED BY <1>1, <1>2, <1>3, CleanupRefines, CrashRefines, PowerLossRefines DEF Next

(* An empty cache directory is an empty store. *)
LEMMA InitRefines == Init => Abstract!Init
BY AbsentStored DEF Init, Abstract!Init

(* Every call of the storage layer takes effect at one instant between its *)
(* call and its return, or not at all when it returns an error.            *)
THEOREM StorageIsAtomic == Spec => ImplementsAtomicStore
<1>. QED BY InitRefines, NextRefines, SpecInv, PTL DEF Spec, ImplementsAtomicStore, Abstract!Spec
=============================================================================
