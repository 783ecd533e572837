----------------------------- MODULE MCStorage -----------------------------
(* Instances of Storage for TLC. *)
EXTENDS Storage, TLC

(* Goroutines, paths, contents and temp names are interchangeable. *)
Symmetry == Permutations(Proc) \cup Permutations(Path)
            \cup Permutations(Data) \cup Permutations(TempDir)
============================================================================
