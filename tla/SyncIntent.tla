----------------------------- MODULE SyncIntent -----------------------------
(***************************************************************************)
(* What one press of "Sync" promises, with no worker, lease, retry or      *)
(* checkpoint in sight.  A run is requested, provider records land in the  *)
(* sales ledger while it is open, and it closes exactly once.  A run that  *)
(* closes by itself hands back a receipt for exactly the records it put in *)
(* the ledger; a run closed from outside (reconnect, disconnect, undo, a   *)
(* dead grant) may account for fewer, never for records it did not land.   *)
(* PosSync, the durable queue of domains/sales/pos_sync.py, implements it. *)
(***************************************************************************)
CONSTANTS Runs, Records

VARIABLES
    phase,    \* "absent", "open", or how the run closed
    landed,   \* the records each run put in the ledger
    receipt   \* the records a closed run reports

vars == <<phase, landed, receipt>>

Open(r) == phase[r] = "open"

Init ==
    /\ phase = [r \in Runs |-> "absent"]
    /\ landed = [r \in Runs |-> {}]
    /\ receipt = [r \in Runs |-> {}]

Request(r) ==
    /\ phase[r] = "absent"
    /\ \A q \in Runs : ~Open(q)
    /\ phase' = [phase EXCEPT ![r] = "open"]
    /\ UNCHANGED <<landed, receipt>>

Land(r, new) ==
    /\ Open(r)
    /\ new \cap landed[r] = {}
    /\ landed' = [landed EXCEPT ![r] = @ \cup new]
    /\ UNCHANGED <<phase, receipt>>

Close(r, how) ==
    /\ Open(r)
    /\ phase' = [phase EXCEPT ![r] = how]
    /\ receipt' = [receipt EXCEPT ![r] = landed[r]]
    /\ UNCHANGED landed

Cancel(r, reported) ==
    /\ Open(r)
    /\ reported \subseteq landed[r]
    /\ phase' = [phase EXCEPT ![r] = "cancelled"]
    /\ receipt' = [receipt EXCEPT ![r] = reported]
    /\ UNCHANGED landed

Next == \E r \in Runs :
    \/ Request(r)
    \/ \E new \in SUBSET Records : Land(r, new)
    \/ \E how \in {"succeeded", "failed"} : Close(r, how)
    \/ \E reported \in SUBSET Records : Cancel(r, reported)

Spec == Init /\ [][Next]_vars
=============================================================================
