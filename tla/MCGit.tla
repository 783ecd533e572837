------------------------------- MODULE MCGit --------------------------------
(* Instances of Git for TLC. *)
EXTENDS Git, TLC

Symmetry == Permutations(Content)
=============================================================================
