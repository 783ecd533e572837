---------------------------- MODULE MCOciClient ----------------------------
(* An instance of OciClient for TLC. *)
EXTENDS OciClient, TLC

CONSTANTS p1, p2, f1, f2, h

Kinds == f1 :> "file" @@ f2 :> "file" @@ h :> "hidden"
Works == p1 :> {"push", "pullWithCache"} @@ p2 :> {"pull"}
Calls == p1 :> 1 @@ p2 :> 1
Small == [entries |-> << [name |-> f1, size |-> 1, data |-> 1], [name |-> f2, size |-> 2, data |-> 2] >>,
          whole |-> TRUE]
Directory(a, b, c) == f1 :> a @@ f2 :> b @@ h :> c
Directories == {Directory(1, 2, None), Directory(1, None, 1)}
StoredArchives == {Small}
============================================================================
