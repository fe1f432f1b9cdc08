------------------------------- MODULE MCTrot -------------------------------
(***************************************************************************)
(* QuadrupedTrot for TLC.                                                  *)
(***************************************************************************)
EXTENDS QuadrupedTrot

WalkCommands ==
  {[speed |-> v, turn |-> t, maximize_flight |-> f] :
     v \in {0, 2}, t \in {0}, f \in BOOLEAN}
    \cup {[speed |-> 0, turn |-> 2, maximize_flight |-> FALSE]}
=============================================================================
