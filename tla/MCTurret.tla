------------------------------ MODULE MCTurret ------------------------------
(***************************************************************************)
(* TurretControl for TLC.                                                  *)
(***************************************************************************)
EXTENDS TurretControl

LoopCallbacks == {"status", "command"}

\* The web asks for the modes, the RF control for shots too.
TurretCommands ==
  {[priority |-> 0, mode |-> m, trigger |-> 0] : m \in {"kStop", "kActive"}}
    \cup {[priority |-> 1, mode |-> "kActive", trigger |-> t] : t \in {1024, 2048}}
=============================================================================
