--------------------------- MODULE MCCoordinator ---------------------------
(* Instances of Coordinator for TLC. *)
EXTENDS Coordinator, TLC

CONSTANTS m1, b1

(* A manifest and a blob.  The index records 71 bytes for a manifest and   *)
(* 710 for a blob, performEviction reckons 135 for either: 1, 10 and 2.    *)
ManifestAndBlob == m1 :> 1 @@ b1 :> 10
OneManifest == m1 :> 1

Symmetry == Permutations(Client)
============================================================================
