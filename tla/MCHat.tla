------------------------------- MODULE MCHat --------------------------------
(***************************************************************************)
(* QuadrupedHat for TLC: two slots, two values.                            *)
(***************************************************************************)
EXTENDS QuadrupedHat

LoopCallbacks == {"status", "command"}
=============================================================================
