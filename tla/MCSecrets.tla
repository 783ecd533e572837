----------------------------- MODULE MCSecrets -----------------------------
(* An instance of Secrets for TLC. *)
EXTENDS Secrets, TLC

CONSTANTS p1, p2, s1, v1

Works == p1 :> {"resolve", "batch", "exists", "store", "delete", "rotate", "string", "clear", "close", "register"}
      @@ p2 :> {"store", "delete", "string", "clear", "close", "rotate"}
Calls == p1 :> 1 @@ p2 :> 1
References == << [path |-> s1, version |-> "latest"], [path |-> s1, version |-> "previous"] >>
First == LatestOf(s1)
============================================================================
