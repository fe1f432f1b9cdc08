---------------------------- MODULE ControlLoop ----------------------------
(***************************************************************************)
(* What a control loop relies on: it polls, is answered once, may then     *)
(* command, is answered once, and only then polls again.                   *)
(***************************************************************************)
VARIABLE at   \* the answer the loop waits for

Init == at = "idle"

Poll == at = "idle" /\ at' = "status"
Drop == at = "status" /\ at' = "idle"
Transmit == at = "status" /\ at' = "command"
Done == at = "command" /\ at' = "idle"

Next == Poll \/ Drop \/ Transmit \/ Done

Spec == Init /\ [][Next]_at
=============================================================================
