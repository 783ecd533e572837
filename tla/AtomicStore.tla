---------------------------- MODULE AtomicStore ----------------------------
(***************************************************************************)
(* What the cache's Storage promises its callers: a map from paths to data *)
(* whose operations take effect at one instant between their call and      *)
(* their return, or not at all.  A call that returns an error has had no   *)
(* effect; a read that succeeds returns what the map holds at that         *)
(* instant.  A crash forgets the calls in progress; a power loss may also  *)
(* lose entries, never invent or mix them.                                 *)
(***************************************************************************)
CONSTANTS Proc,     \* goroutines that call the store
          Path,     \* cache-relative file paths
          Data,     \* contents
          NoData,   \* no entry / no result
          NoReq     \* no call in progress

VARIABLES store,    \* store[q]: the entry at path q, or NoData
          req,      \* req[p]: the call p is making
          phase,    \* phase[p]: "idle", "pending", "ok" or "err"
          out       \* out[p]: what p's read returns

vars == <<store, req, phase, out>>

Request == [op : {"write", "stream"}, path : Path, data : Data]
           \cup [op : {"read", "remove"}, path : Path, data : {NoData}]

TypeOK ==
  /\ store \in [Path -> Data \cup {NoData}]
  /\ req \in [Proc -> Request \cup {NoReq}]
  /\ phase \in [Proc -> {"idle", "pending", "ok", "err"}]
  /\ out \in [Proc -> Data \cup {NoData}]

Init ==
  /\ store = [q \in Path |-> NoData]
  /\ req = [p \in Proc |-> NoReq]
  /\ phase = [p \in Proc |-> "idle"]
  /\ out = [p \in Proc |-> NoData]

(* A call with a cancelled context is refused at once. *)
Begin(p) ==
  /\ phase[p] = "idle"
  /\ \E r \in Request : req' = [req EXCEPT ![p] = r]
  /\ \E f \in {"pending", "err"} : phase' = [phase EXCEPT ![p] = f]
  /\ UNCHANGED <<store, out>>

(* The call's single effect. *)
Apply(p) ==
  /\ phase[p] = "pending"
  /\ phase' = [phase EXCEPT ![p] = "ok"]
  /\ UNCHANGED req
  /\ \/ /\ req[p].op \in {"write", "stream"}
        /\ store' = [store EXCEPT ![req[p].path] = req[p].data]
        /\ UNCHANGED out
     \/ /\ req[p].op = "remove"
        /\ store' = [store EXCEPT ![req[p].path] = NoData]
        /\ UNCHANGED out
     \/ /\ req[p].op = "read"
        /\ store[req[p].path] # NoData
        /\ out' = [out EXCEPT ![p] = store[req[p].path]]
        /\ UNCHANGED store

Reject(p) ==
  /\ phase[p] = "pending"
  /\ phase' = [phase EXCEPT ![p] = "err"]
  /\ UNCHANGED <<store, req, out>>

Return(p) ==
  /\ phase[p] \in {"ok", "err"}
  /\ phase' = [phase EXCEPT ![p] = "idle"]
  /\ req' = [req EXCEPT ![p] = NoReq]
  /\ out' = [out EXCEPT ![p] = NoData]
  /\ UNCHANGED store

Restart(lost) ==
  /\ phase' = [p \in Proc |-> "idle"]
  /\ store' = [q \in Path |-> IF q \in lost THEN NoData ELSE store[q]]
  /\ req' = [p \in Proc |-> NoReq]
  /\ out' = [p \in Proc |-> NoData]

Next ==
  \/ \E p \in Proc : Begin(p) \/ Apply(p) \/ Reject(p) \/ Return(p)
  \/ \E lost \in SUBSET Path : Restart(lost)

Spec == Init /\ [][Next]_vars
============================================================================
