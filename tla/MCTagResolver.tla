---------------------------- MODULE MCTagResolver ---------------------------
(* Instances of TagResolver for TLC. *)
EXTENDS TagResolver, TLC

CONSTANTS r1, f1

OneFile == r1 :> f1

Symmetry == Permutations(Proc) \cup Permutations(Digest)
============================================================================
