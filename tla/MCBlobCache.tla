---------------------------- MODULE MCBlobCache ----------------------------
(* Instances of BlobCache for TLC. *)
EXTENDS BlobCache, TLC

Symmetry == Permutations(User) \cup Permutations(Digest)
============================================================================
