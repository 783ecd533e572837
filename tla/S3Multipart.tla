---------------------------- MODULE S3Multipart ----------------------------
(***************************************************************************)
(* aws/s3/internal/transfer/multipart and the multipart half of            *)
(* aws/s3/internal/operations/copy: the goroutines that transfer the parts *)
(* of an upload, a semaphore that bounds them, and the channel on which    *)
(* they report to the caller, which leaves at the first failure.           *)
(***************************************************************************)
EXTENDS S3Service

CONSTANTS Client, PartSize, Concurrency

ASSUME MultipartAssumption == PartSize \in Nat \ {0}

VARIABLES alive,     \* no goroutine has panicked
          pc,        \* the point each client is at
          up,        \* up[p]: the upload client p is running
          cancelled, \* clients and uploads whose context is cancelled
          plan,      \* plan[u]: what upload u transfers
          part,      \* part[u][i]: the goroutine of part i
          results    \* results[u]: the channel of part results

partVars == <<plan, part, results>>

NoPlan == [size |-> 0, data |-> << >>, from |-> None, moved |-> FALSE]

PartInit ==
  /\ plan = [u \in UploadId |-> NoPlan]
  /\ part = [u \in UploadId |-> << >>]
  /\ results = [u \in UploadId |-> << >>]
----------------------------------------------------------------------------
CalculateParts(size) == IF size = 0 THEN 1 ELSE (size + PartSize - 1) \div PartSize

Lowest(i) == (i - 1) * PartSize + 1
Highest(i, size) == IF i * PartSize > size THEN size ELSE i * PartSize

(* The goroutines of all parts start at once. *)
StartParts(u, size, data, from, moved) ==
  /\ plan' = [plan EXCEPT ![u] = [size |-> size, data |-> data, from |-> from, moved |-> moved]]
  /\ part' = [part EXCEPT ![u] = [i \in 1..CalculateParts(size) |-> "waiting"]]

InFlight(u) == {i \in DOMAIN part[u] : part[u][i] \in {"busy", "good", "bad"}}

AcquireSlot(u, i) ==
  /\ alive
  /\ part[u][i] = "waiting"
  /\ Cardinality(InFlight(u)) < Concurrency
  /\ part' = [part EXCEPT ![u][i] = "busy"]
  /\ UNCHANGED <<objects, uploads, alive, pc, up, cancelled, plan, results>>

(* The bytes of part i: of the data read, or of the source object now.  A  *)
(* slice that ends past the data but inside its buffer has zeros there.    *)
Source(u) == IF plan[u].from = None THEN plan[u].data ELSE objects[plan[u].from]
Bytes(u, i) ==
  LET hi == Highest(i, plan[u].size) IN
  SubSeq(Source(u) \o [j \in 1..hi |-> None], Lowest(i), hi)

(* uploadPart, copyPart: refused when the upload is gone, or the source    *)
(* object is, or ends before the range of the part.                        *)
Acceptable(u, i) ==
  /\ uploads[u].state = "open"
  /\ plan[u].from # None =>
       Source(u) # None /\ Len(Source(u)) >= Highest(i, plan[u].size)

SendPart(u, i) ==
  /\ alive
  /\ part[u][i] = "busy"
  /\ \E r \in Outcome(u \in cancelled \/ ~Acceptable(u, i)) :
       /\ IF r = "refused" THEN UNCHANGED uploads ELSE UploadPart(u, i, Bytes(u, i))
       /\ part' = [part EXCEPT ![u][i] = IF r = "ok" THEN "good" ELSE "bad"]
  /\ UNCHANGED <<objects, alive, pc, up, cancelled, plan, results>>

(* The slice of the part ends past the buffer: the process panics. *)
PartPanics(u, i) ==
  /\ alive
  /\ part[u][i] = "busy"
  /\ plan[u].from = None
  /\ Highest(i, plan[u].size) > Len(plan[u].data)
  /\ alive' = FALSE
  /\ UNCHANGED <<objects, uploads, pc, up, cancelled, plan, part, results>>

(* Broken: an unbuffered channel. *)
Unbuffered(u) == 0

ResultsCapacity(u) == Len(part[u])

Collecting(u) == \E p \in Client : up[p] = u /\ pc[p] = "collect"

Report(u, i, S) ==
  /\ alive
  /\ part[u][i] \in S
  /\ Len(results[u]) < ResultsCapacity(u) \/ (Collecting(u) /\ results[u] = << >>)
  /\ results' = [results EXCEPT ![u] = Append(@, [number |-> i, ok |-> part[u][i] = "good"])]
  /\ part' = [part EXCEPT ![u][i] = "done"]
  /\ UNCHANGED <<objects, uploads, alive, pc, up, cancelled, plan>>

(* The result is sent before the slot is released. *)
SendResult(u, i) == Report(u, i, {"good", "bad"})

PartStep(u, i) ==
  AcquireSlot(u, i) \/ SendPart(u, i) \/ PartPanics(u, i) \/ SendResult(u, i)

(* The channel is closed when every goroutine is done. *)
AllDone(u) == \A i \in DOMAIN part[u] : part[u][i] = "done"
============================================================================
