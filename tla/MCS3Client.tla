---------------------------- MODULE MCS3Client ----------------------------
(* An instance of S3Client for TLC. *)
EXTENDS S3Client, TLC

CONSTANTS c1, c2, large, other, small

(* Two contents of two parts, the last of one of them short, and one of one. *)
Sizes == large :> 3 @@ other :> 4 @@ small :> 1

(* A client that does everything, beside one that stores and removes. *)
Works == c1 :> {"upload", "uploadFile", "download", "downloadFile", "delete", "deleteMany", "exists",
                "getMetadata", "copy", "move", "list", "listAll"}
      @@ c2 :> {"put", "delete", "downloadFile"}

Stores == c1 :> {large, small} @@ c2 :> {other, small}
Calls == c1 :> 1 @@ c2 :> 1
============================================================================
