------------------------------- MODULE S3Data -------------------------------
(***************************************************************************)
(* What the modules of aws/s3 share: contents, of which only the length    *)
(* matters, and the pages in which the service lists keys.                 *)
(***************************************************************************)
EXTENDS Naturals, FiniteSets

CONSTANTS Data,      \* contents of objects and files
          Size,      \* Size[d]: the length of content d
          PageSize,  \* keys on a page of a listing
          None       \* no content, file, object, part, upload or key

ASSUME DataAssumption == Size \in [Data -> Nat] /\ PageSize \in Nat \ {0} /\ None \notin Data
============================================================================
