---------------------------- MODULE MCQuadruped ----------------------------
(***************************************************************************)
(* QuadrupedControl for TLC: the sets of commands of its runs.             *)
(***************************************************************************)
EXTENDS QuadrupedControl

Cmd(m, p, v, j) == [mode |-> m, priority |-> p, moving |-> v, jump |-> j]

\* Jumps that repeat or do not, walks, a velocity that a client keeps
\* sending, and the modes around them.
MotionCommands ==
  {Cmd(m, 0, FALSE, "unset") : m \in {"kStopped", "kZeroVelocity", "kJump", "kWalk", "kBackflip"}}
    \cup {Cmd(m, 0, TRUE, "repeat") : m \in {"kRest", "kJump"}}

\* Two clients of different priority, one of them standing up for its own sake or
\* posing joints, which does not end by itself.
BusCommands ==
  {Cmd("kStopped", p, FALSE, "unset") : p \in {0, 1}}
    \cup {Cmd(m, 0, FALSE, "unset") : m \in {"kStandUp", "kJoint"}}

\* Jumps only, ended by a stop.
JumpCommands ==
  {Cmd("kStopped", 0, FALSE, "unset"), Cmd("kJump", 0, FALSE, "repeat")}
=============================================================================
