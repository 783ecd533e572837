----------------------------- MODULE MCS3Sync -----------------------------
(* An instance of S3Sync for TLC. *)
EXTENDS S3Sync, TLC

CONSTANTS a, b, c

(* Two contents of one length and a longer one. *)
Sizes == a :> 1 @@ b :> 1 @@ c :> 2

OldFile(d) == [data |-> d, time |-> 0]
OldObject(d, e) == [data |-> d, time |-> 0, etag |-> e]

(* Names 1 and 2, and 3 which is excluded. *)
Directories ==
  {l \in [Name -> {None, OldFile(a), OldFile(c)}] : l[2] # OldFile(c) /\ l[3] = OldFile(a)}

Buckets ==
  {r \in [NameKey -> {None, OldObject(a, "md5"), OldObject(b, "md5"), OldObject(a, "parts")}] :
     /\ r[<<1, "slash">>] \in {None, OldObject(a, "md5")}
     /\ r[<<2, "plain">>] \in {None, OldObject(b, "md5")} /\ r[<<2, "slash">>] = None
     /\ r[<<3, "plain">>] \in {None, OldObject(a, "md5")} /\ r[<<3, "slash">>] = None}
============================================================================
