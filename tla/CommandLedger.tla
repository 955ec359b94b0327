---------------------------- MODULE CommandLedger ---------------------------
(***************************************************************************)
(* What the media service promises about commands, whatever their ids,       *)
(* repetitions, retries and restarts: the command of one semantic key is     *)
(* accepted once, carried out at least once before it is called completed,   *)
(* and never carried out again after that.                                   *)
(***************************************************************************)
CONSTANT Keys           \* semantic keys: one per intended effect

VARIABLES
    status,             \* "new", "accepted" or "completed", for each key
    performed           \* has the effect of the key happened at least once

vars == <<status, performed>>

Init ==
    /\ status = [key \in Keys |-> "new"]
    /\ performed = [key \in Keys |-> FALSE]

Accept(key) ==
    /\ status[key] = "new"
    /\ status' = [status EXCEPT ![key] = "accepted"]
    /\ UNCHANGED performed

Perform(key) ==
    /\ status[key] = "accepted"
    /\ performed' = [performed EXCEPT ![key] = TRUE]
    /\ UNCHANGED status

Complete(key) ==
    /\ status[key] = "accepted"
    /\ performed[key]
    /\ status' = [status EXCEPT ![key] = "completed"]
    /\ UNCHANGED performed

Next == \E key \in Keys : Accept(key) \/ Perform(key) \/ Complete(key)

Spec == Init /\ [][Next]_vars
=============================================================================
