--------------------------- MODULE AtomicSecret ---------------------------
(***************************************************************************)
(* What a SecretString promises its callers: a secret that is given at one *)
(* instant between a call and its return, and is the caller's own from     *)
(* then on.  A one-time secret is given once; a cached one is the same for *)
(* everybody until it is cleared.  A call may be refused for reasons of    *)
(* its own, and that has no effect.                                        *)
(***************************************************************************)
CONSTANTS Proc,  \* goroutines that share the SecretString
          Value, \* secrets
          None   \* no secret

VARIABLES rules, \* whether the secret is one-time, and whether it is cached
          spent, \* it has been given, or cleared
          memo,  \* the secret that is cached
          phase, \* phase[p]: how far the call of p is
          out    \* out[p]: the secret p has

vars == <<rules, spent, memo, phase, out>>

Phase == {"idle", "asking", "given", "read", "refused", "clearing", "cleared"}

TypeOK ==
  /\ rules \in [oneTime : BOOLEAN, caching : BOOLEAN]
  /\ spent \in BOOLEAN /\ memo \in Value \cup {None}
  /\ phase \in [Proc -> Phase] /\ out \in [Proc -> Value \cup {None}]

Init ==
  /\ rules \in [oneTime : BOOLEAN, caching : BOOLEAN]
  /\ spent = FALSE /\ memo = None
  /\ phase = [p \in Proc |-> "idle"] /\ out = [p \in Proc |-> None]

Move(p, from, to) == phase[p] = from /\ phase' = [phase EXCEPT ![p] = to]

Call(p) ==
  /\ Move(p, "idle", "asking") \/ Move(p, "idle", "clearing")
  /\ UNCHANGED <<rules, spent, memo, out>>

(* The secret is given: at most once, and as it is remembered. *)
Give(p) == \E x \in Value :
  /\ Move(p, "asking", "given")
  /\ ~(rules.oneTime /\ spent)
  /\ memo # None => x = memo
  /\ spent' = (spent \/ rules.oneTime)
  /\ memo' = IF rules.caching /\ ~rules.oneTime THEN x ELSE memo
  /\ out' = [out EXCEPT ![p] = x]
  /\ UNCHANGED rules

Refuse(p) == Move(p, "asking", "refused") /\ UNCHANGED <<rules, spent, memo, out>>

(* Reading finds what was given. *)
Read(p) == Move(p, "given", "read") /\ UNCHANGED <<rules, spent, memo, out>>

(* A one-time secret that is cleared is spent. *)
Clear(p) ==
  /\ Move(p, "clearing", "cleared")
  /\ spent' = rules.oneTime /\ memo' = None
  /\ UNCHANGED <<rules, out>>

Return(p) ==
  /\ \E f \in {"read", "refused", "cleared"} : Move(p, f, "idle")
  /\ out' = [out EXCEPT ![p] = None]
  /\ UNCHANGED <<rules, spent, memo>>

Next == \E p \in Proc : Call(p) \/ Give(p) \/ Refuse(p) \/ Read(p) \/ Clear(p) \/ Return(p)

Spec == Init /\ [][Next]_vars
============================================================================
