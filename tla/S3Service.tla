----------------------------- MODULE S3Service -----------------------------
(***************************************************************************)
(* The S3 service as the code in aws/s3 uses it (internal/s3api): the      *)
(* objects of one bucket and its multipart uploads.  A request is served   *)
(* at once or fails; a request that fails may have been served, its answer *)
(* lost.  A request with a cancelled context is not sent.                  *)
(***************************************************************************)
EXTENDS S3Data, Sequences

CONSTANTS Key,        \* 1..n, in the order of a listing
          Stored,     \* contents that are there from the start
          UploadId

ASSUME ServiceAssumption ==
  /\ Key \subseteq Nat \ {0} /\ IsFiniteSet(Key) /\ Stored \subseteq Data
  /\ None \notin UploadId \cup Key \cup Seq(Data \cup {None})

VARIABLES objects,   \* objects[k]: the content stored under k, or None
          uploads    \* uploads[u]: a multipart upload, its state, key and parts

(* A content is a sequence, so that a mixture of two shows. *)
Whole(d) == [i \in 1..Size[d] |-> d]

NewUpload(k) == [state |-> "open", key |-> k, parts |-> << >>]

ServiceInit ==
  /\ objects \in [Key -> {None} \cup {Whole(d) : d \in Stored}]
  /\ uploads = [u \in UploadId |-> [state |-> "unused", key |-> None, parts |-> << >>]]

(* What the caller may see of a request that the service accepts. *)
Outcome(cancelled) == IF cancelled THEN {"refused"} ELSE {"ok", "refused", "lost"}

PutObject(k, c) == objects' = [objects EXCEPT ![k] = c]

UploadPart(u, i, c) ==
  uploads' = [uploads EXCEPT ![u].parts =
                [j \in DOMAIN @ \cup {i} |-> IF j = i THEN c ELSE @[j]]]

AbortUpload(u) ==
  uploads' = IF uploads[u].state = "open" THEN [uploads EXCEPT ![u].state = "aborted"] ELSE uploads

(* The concatenation of the parts 1..n. *)
Joined(u, n) ==
  LET join[i \in 0..n] == IF i = 0 THEN << >> ELSE join[i - 1] \o uploads[u].parts[i] IN join[n]

(* The keys of the page of a listing that starts after key k. *)
After(k) == {x \in Key : objects[x] # None /\ x > k}
Page(k) == {x \in After(k) : Cardinality({y \in After(k) : y < x}) < PageSize}
============================================================================
