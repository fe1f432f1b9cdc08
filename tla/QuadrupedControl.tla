-------------------------- MODULE QuadrupedControl --------------------------
(***************************************************************************)
(* The control loop of the quadruped (mech/quadruped_control.cc).          *)
(*                                                                         *)
(* Everything here runs on one boost.asio executor: a handler runs to its  *)
(* end before another one starts.  HandleStatus is the long one; it is     *)
(* written as the sequence of the functions it calls (UpdateStatus,        *)
(* MaybeChangeMode, a DoControl), with pc saying which of them is next.    *)
(* Command() and the timer are only served while pc = "free", which is     *)
(* what running to completion means.                                       *)
(*                                                                         *)
(* Joint angles, leg positions and forces are not represented: whether a   *)
(* motion has reached its target is a choice made when the code tests it.  *)
(***************************************************************************)
EXTENDS Naturals, FiniteSets

CONSTANTS
  Servos,     \* ids of config_.joints; the code has kNumServos = 12
  Strangers,  \* ids that may answer on the bus without being configured
  Unzeroed,   \* ids that may report rezero_state = 0
  Outdated,   \* ids that may report another register map version
  Commands    \* the commands that clients send

DirectModes == {"kZeroVelocity", "kJoint", "kLeg"}
LegModes == {"kRest", "kJump", "kWalk", "kBackflip"}
Commandable == {"kStopped", "kStandUp"} \cup DirectModes \cup LegModes
Modes == {"kConfiguring", "kFault"} \cup Commandable

\* current_command_.jump is optional; only its repeat flag matters here.
\* Commanding kConfiguring or kFault reaches AssertNotReached.
QuadrupedCommand == [mode: Commandable, priority: Nat, moving: BOOLEAN,
                     jump: {"unset", "once", "repeat"}]

ASSUME ServosFinite == IsFiniteSet(Servos) /\ Servos # {}
ASSUME StrangersApart == IsFiniteSet(Strangers) /\ Servos \cap Strangers = {}
ASSUME CommandsValid == Commands \subseteq QuadrupedCommand

StandUpModes == {"kPrepositioning", "kStanding", "kDone"}
JumpModes ==
  {"kLowering", "kPushing", "kRetracting", "kFalling", "kLanding", "kDone"}
BackflipModes == {"kLowering", "kFrontPush", "kBackPush", "kFlight", "kDone"}

\* A control log's legs_R: absent, all marked stance = 1, or some leg not.
LegLogs == {"none", "stance", "swing"}

\* What the servos are told: nothing, power off, hold zero velocity, take a
\* new zero, or move (joints as commanded by the client, the prepositioning
\* joints, or joints solved from legs_R).
Outputs == {"none", "stop", "zero_velocity", "rezero",
            "client", "preposition", "legs"}

VARIABLES
  pc,               \* "free", or the function HandleStatus calls next
  outstanding,      \* outstanding_
  inflight,         \* operations given to the pi3hat and not yet answered
  current_command,  \* current_command_
  command_age,      \* current_command_timestamp_ against command_timeout_s
  joints,           \* ids in status_.state.joints
  faulted,          \* those of them whose stored fault is not 0
  servos,           \* ids in reported_servo_config_.servos
  unzeroed,         \* those of them with rezero_state = 0
  current_map,      \* those of them with the current register map version
  mode,             \* status_.mode
  timed_out,        \* now - mode_start > stand_up.timeout_s
  fault,            \* status_.fault: "none" when empty, or its subject
  performed_rezero, \* status_.performed_rezero
  stand_up,         \* status_.state.stand_up
  rest_done,        \* status_.state.rest.done
  jump,             \* status_.state.jump: mode, and command.repeat
  idle_count,       \* status_.state.walk.idle_count, capped at 2
  backflip,         \* status_.state.backflip.mode
  control_log,      \* control_log_->legs_R
  old_control_log,  \* old_control_log_->legs_R
  pushed,           \* kPushing already completed in this DoControl_Jump
  transmitted       \* the last client_command_ given to AsyncTransmit

loopVars == <<outstanding, inflight>>
commandVars == <<current_command, command_age>>
servoVars == <<joints, faulted, servos, unzeroed, current_map>>
modeVars == <<mode, timed_out, fault>>
phaseVars == <<stand_up, rest_done, jump, idle_count, backflip>>
logVars == <<control_log, old_control_log>>
vars == <<pc, loopVars, commandVars, servoVars, modeVars, performed_rezero,
          phaseVars, logVars, pushed, transmitted>>

StandUpInit == [mode |-> "kPrepositioning", stage |-> 0]
JumpInit == [mode |-> "kLowering", repeat |-> FALSE]

\* The command in force before any client has spoken.
DefaultCommand ==
  [mode |-> "kStopped", priority |-> 0, moving |-> FALSE, jump |-> "unset"]

TypeOK ==
  /\ pc \in {"free", "mode", "control"}
  /\ outstanding \in BOOLEAN
  /\ inflight \subseteq {"cycle", "transmit"}
  /\ current_command \in QuadrupedCommand
  /\ command_age \in {"never", "fresh", "stale"}
  /\ joints \subseteq Servos
  /\ faulted \subseteq joints
  /\ servos \subseteq Servos \cup Strangers
  /\ unzeroed \subseteq servos
  /\ current_map \subseteq servos
  /\ mode \in Modes
  /\ timed_out \in BOOLEAN
  /\ fault \in {"none", "configuring", "servo", "battery", "timeout"}
  /\ performed_rezero \in BOOLEAN
  /\ stand_up \in [mode: StandUpModes, stage: 0..2]
  /\ rest_done \in BOOLEAN
  /\ jump \in [mode: JumpModes, repeat: BOOLEAN]
  /\ idle_count \in 0..2
  /\ backflip \in BackflipModes
  /\ control_log \in LegLogs
  /\ old_control_log \in LegLogs
  /\ pushed \in BOOLEAN
  /\ transmitted \in Outputs

Init ==
  /\ pc = "free"
  /\ outstanding = FALSE
  /\ inflight = {}
  /\ current_command = DefaultCommand
  /\ command_age = "never"
  /\ joints = {} /\ faulted = {}
  /\ servos = {} /\ unzeroed = {} /\ current_map = {}
  /\ mode = "kConfiguring" /\ timed_out = FALSE /\ fault = "none"
  /\ performed_rezero = FALSE
  /\ stand_up = StandUpInit /\ rest_done = FALSE /\ jump = JumpInit
  /\ idle_count = 0 /\ backflip = "kLowering"
  /\ control_log = "none" /\ old_control_log = "none"
  /\ pushed = FALSE
  /\ transmitted = "none"

-----------------------------------------------------------------------------
(* Clients and the clock.                                                  *)

HigherPriority(c) == c.priority >= current_command.priority

\* A client's command replaces the current one when it has at least its
\* priority, or when the current one is stale.
Command(c) ==
  /\ pc = "free"
  /\ HigherPriority(c) \/ command_age = "stale"
  /\ current_command' = c
  /\ command_age' = "fresh"
  /\ UNCHANGED <<pc, loopVars, servoVars, modeVars, performed_rezero,
                 phaseVars, logVars, pushed, transmitted>>

\* command_timeout_s passes since the command in force was received.
CommandAges ==
  /\ pc = "free"
  /\ command_age = "fresh"
  /\ command_age' = "stale"
  /\ UNCHANGED <<pc, loopVars, current_command, servoVars, modeVars,
                 performed_rezero, phaseVars, logVars, pushed, transmitted>>

\* stand_up.timeout_s passes since the mode was entered.
ModeAges ==
  /\ pc = "free"
  /\ mode = "kStandUp" /\ ~timed_out
  /\ timed_out' = TRUE
  /\ UNCHANGED <<pc, loopVars, commandVars, servoVars, mode, fault,
                 performed_rezero, phaseVars, logVars, pushed, transmitted>>

-----------------------------------------------------------------------------
(* The status half of a cycle.                                             *)

\* Mutant: a tick does not look at outstanding_.
HandleTimer_Unguarded ==
  /\ pc = "free"
  /\ outstanding' = TRUE
  /\ inflight' = inflight \cup {"cycle"}
  /\ UNCHANGED <<pc, commandVars, servoVars, modeVars, performed_rezero,
                 phaseVars, logVars, pushed, transmitted>>

\* A timer tick that finds outstanding_ set returns at once.
HandleTimer ==
  /\ pc = "free"
  /\ ~outstanding
  /\ outstanding' = TRUE
  /\ inflight' = inflight \cup {"cycle"}
  /\ UNCHANGED <<pc, commandVars, servoVars, modeVars, performed_rezero,
                 phaseVars, logVars, pushed, transmitted>>

\* Until every joint has been heard of once, a reply that lacks one of the
\* configured servos is dropped whole.
EnoughReplies(from) == Servos \subseteq from \/ joints = Servos

CycleAnswered ==
  /\ pc = "free"
  /\ "cycle" \in inflight
  /\ inflight' = inflight \ {"cycle"}

\* The servo table kept while configuring.  It takes every id that answers.
UpdateConfiguringStatus(from, zeroless, old) ==
  IF mode = "kConfiguring"
  THEN /\ servos' = servos \cup from
       /\ unzeroed' = (unzeroed \ from) \cup zeroless
       /\ current_map' = (current_map \ from) \cup (from \ old)
  ELSE UNCHANGED <<servos, unzeroed, current_map>>

UpdateJoints(from, faults) ==
  /\ joints' = joints \cup from
  /\ faulted' = (faulted \ from) \cup faults

HandleStatusDropped ==
  /\ CycleAnswered
  /\ \E from \in SUBSET (Servos \cup Strangers) : ~EnoughReplies(from)
  /\ outstanding' = FALSE
  /\ UNCHANGED <<pc, commandVars, servoVars, modeVars, performed_rezero,
                 phaseVars, logVars, pushed, transmitted>>

\* A reply from an id that is not configured ends UpdateStatus where it is
\* met: what came before it has been stored, and no control is run.
HandleStatusStranger(from, zeroless, old, before, faults) ==
  /\ CycleAnswered
  /\ EnoughReplies(from)
  /\ from \cap Strangers # {}
  /\ UpdateConfiguringStatus(from, zeroless, old)
  /\ UpdateJoints(before, faults)
  /\ outstanding' = FALSE
  /\ UNCHANGED <<pc, commandVars, modeVars, performed_rezero, phaseVars,
                 logVars, pushed, transmitted>>

\* Mutant: only faults that this reply brings are looked at.
ServoFault_NewOnly == mode # "kFault" /\ faulted' \ faulted # {}

ServoFault == mode # "kFault" /\ faulted' # {}

Fault(message) ==
  /\ mode' = "kFault"
  /\ fault' = message
  /\ timed_out' = FALSE

\* UpdateStatus runs to its end: kinematics, terrain, filtered voltage.  The
\* zero velocity client_command_ that Fault fills here is refilled by
\* RunControl below before anything is sent.
UpdateStatus(from, faults, battery_low) ==
  LET BatteryLow == battery_low /\ joints' = Servos
  IN /\ UpdateJoints(from, faults)
     /\ IF ServoFault \/ BatteryLow
        THEN Fault(IF BatteryLow THEN "battery" ELSE "servo")
        ELSE UNCHANGED modeVars

\* With every joint known, the two control logs are exchanged and control is
\* run.
HandleStatus(from, zeroless, old, faults, battery_low) ==
  /\ CycleAnswered
  /\ EnoughReplies(from)
  /\ from \subseteq Servos
  /\ UpdateConfiguringStatus(from, zeroless, old)
  /\ UpdateStatus(from, faults, battery_low)
  /\ IF joints' = Servos
     THEN /\ pc' = "mode"
          /\ old_control_log' = control_log
          /\ control_log' = "none"
          /\ UNCHANGED outstanding
     ELSE /\ outstanding' = FALSE
          /\ UNCHANGED <<pc, logVars>>
  /\ UNCHANGED <<commandVars, performed_rezero, phaseVars, pushed,
                 transmitted>>

-----------------------------------------------------------------------------
(* RunControl, first half: MaybeChangeMode.                                *)

\* What MaybeChangeMode asks before leaving kConfiguring; in_position is
\* whether the joints are near their rezero positions.
IsConfiguringDone(in_position) ==
  /\ Cardinality(servos) = Cardinality(Servos)
  /\ unzeroed = {}
  /\ current_map = servos
  /\ performed_rezero => in_position

\* Leaving kConfiguring clears the message IsConfiguringDone had set.
MayLeaveMode ==
  /\ pc = "mode"
  /\ current_command.mode # mode
  /\ mode = "kConfiguring" => \E p \in BOOLEAN : IsConfiguringDone(p)
  /\ fault' = IF mode = "kConfiguring" THEN "none" ELSE fault

\* Nothing is commanded that differs from the present mode.
KeepMode ==
  /\ pc = "mode"
  /\ current_command.mode = mode
  /\ pc' = "control"
  /\ UNCHANGED <<loopVars, commandVars, servoVars, modeVars,
                 performed_rezero, phaseVars, logVars, pushed, transmitted>>

HoldConfiguring ==
  /\ pc = "mode"
  /\ mode = "kConfiguring"
  /\ \E p \in BOOLEAN : ~IsConfiguringDone(p)
  /\ fault' = "configuring"
  /\ pc' = "control"
  /\ UNCHANGED <<loopVars, commandVars, servoVars, mode, timed_out,
                 performed_rezero, phaseVars, logVars, pushed, transmitted>>

\* The data of the mode that is left goes back to its defaults, and so does
\* stand_up when it is entered.  repeat is jump.command.repeat.
ChangeMode(new, repeat) ==
  /\ mode' = new
  /\ timed_out' = FALSE
  /\ stand_up' = IF "kStandUp" \in {mode, new} THEN StandUpInit ELSE stand_up
  /\ rest_done' = IF mode = "kRest" THEN FALSE ELSE rest_done
  /\ jump' = IF mode = "kJump" THEN JumpInit
             ELSE [jump EXCEPT !.repeat = repeat]
  /\ idle_count' = IF mode = "kWalk" THEN 0 ELSE idle_count
  /\ backflip' = IF mode = "kBackflip" THEN "kLowering" ELSE backflip
  /\ pc' = "control"
  /\ UNCHANGED <<loopVars, commandVars, servoVars, performed_rezero, logVars,
                 pushed, transmitted>>

\* Mutant: kFault guards against every command.
EnterStopped_NotFromFault ==
  /\ MayLeaveMode
  /\ current_command.mode = "kStopped"
  /\ mode # "kFault"
  /\ ChangeMode("kStopped", jump.repeat)

\* Stopping is always allowed, and is the way out of kFault.
EnterStopped ==
  /\ MayLeaveMode
  /\ current_command.mode = "kStopped"
  /\ ChangeMode("kStopped", jump.repeat)

EnterDirectMode ==
  /\ MayLeaveMode
  /\ current_command.mode \in DirectModes
  /\ mode # "kFault"
  /\ ChangeMode(current_command.mode, jump.repeat)

\* Mutant: kRest counts as lying down.
EnterStandUp_FromRest ==
  /\ MayLeaveMode
  /\ current_command.mode \in {"kStandUp"} \cup LegModes
  /\ mode \in {"kStopped", "kZeroVelocity", "kRest"}
  /\ ChangeMode("kStandUp", jump.repeat)

\* A leg mode asked for while the robot lies down begins with kStandUp.
EnterStandUp ==
  /\ MayLeaveMode
  /\ current_command.mode \in {"kStandUp"} \cup LegModes
  /\ mode \in {"kStopped", "kZeroVelocity"}
  /\ ChangeMode("kStandUp", jump.repeat)

AllLegsStance == old_control_log \in {"none", "stance"}

\* Mutant: a stand up in progress counts as standing.
Standing_Early ==
  \/ mode = "kRest" /\ rest_done
  \/ mode = "kStandUp"
  \/ mode = "kWalk" /\ idle_count >= 2 /\ AllLegsStance

\* The situations in which a leg mode gives way to the commanded one, with
\* current_command_.jump latched.
Standing ==
  \/ mode = "kRest" /\ rest_done
  \/ mode = "kStandUp" /\ stand_up.mode = "kDone"
  \/ mode = "kWalk" /\ idle_count >= 2 /\ AllLegsStance

EnterLegMode ==
  /\ MayLeaveMode
  /\ current_command.mode \in LegModes
  /\ Standing \/ (mode = "kBackflip" /\ backflip = "kDone")
  /\ ChangeMode(current_command.mode,
                IF Standing THEN current_command.jump = "repeat"
                            ELSE jump.repeat)

\* A finished jump goes to kRest first: IsRestAndSteadyState, asked while
\* the mode is kJump, is false.
LeaveJump ==
  /\ MayLeaveMode
  /\ current_command.mode \in LegModes
  /\ mode = "kJump" /\ jump.mode = "kDone"
  /\ ChangeMode("kRest", jump.repeat)

\* Mutant: the commanded velocity is left as it is.
SlowWalk_KeepsVelocity ==
  /\ MayLeaveMode
  /\ current_command.mode \in LegModes
  /\ mode = "kWalk" /\ ~Standing
  /\ pc' = "control"
  /\ UNCHANGED <<loopVars, commandVars, servoVars, mode, timed_out,
                 performed_rezero, phaseVars, logVars, pushed, transmitted>>

\* Not yet standing still: the commanded velocity is forced to zero.
SlowWalk ==
  /\ MayLeaveMode
  /\ current_command.mode \in LegModes
  /\ mode = "kWalk" /\ ~Standing
  /\ current_command' = [current_command EXCEPT !.moving = FALSE]
  /\ pc' = "control"
  /\ UNCHANGED <<loopVars, command_age, servoVars, mode, timed_out,
                 performed_rezero, phaseVars, logVars, pushed, transmitted>>

\* The commanded mode cannot be entered from here; the mode stays.
MustWait ==
  \/ mode = "kFault" /\ current_command.mode # "kStopped"
  \/ /\ current_command.mode = "kStandUp"
     /\ mode \notin {"kStopped", "kZeroVelocity"}
  \/ /\ current_command.mode \in LegModes
     /\ \/ mode \in {"kConfiguring", "kJoint", "kLeg"}
        \/ mode \in {"kRest", "kStandUp"} /\ ~Standing
        \/ mode = "kJump" /\ jump.mode # "kDone"
        \/ mode = "kBackflip" /\ backflip # "kDone"

WaitForMode ==
  /\ MayLeaveMode
  /\ MustWait
  /\ pc' = "control"
  /\ UNCHANGED <<loopVars, commandVars, servoVars, mode, timed_out,
                 performed_rezero, phaseVars, logVars, pushed, transmitted>>

MaybeChangeMode ==
  \/ KeepMode \/ HoldConfiguring \/ EnterStopped \/ EnterDirectMode
  \/ EnterStandUp \/ EnterLegMode \/ LeaveJump \/ SlowWalk \/ WaitForMode

-----------------------------------------------------------------------------
(* RunControl, second half: the DoControl functions, and the end of        *)
(* HandleStatus.                                                           *)

\* EmitControl fills client_command_ and the control log; HandleStatus then
\* transmits, or with nothing to transmit calls HandleCommand itself.
Emit(output, legs_R) ==
  /\ control_log' = legs_R
  /\ pc' = "free"
  /\ pushed' = FALSE
  /\ IF output = "none"
     THEN /\ outstanding' = FALSE
          /\ UNCHANGED <<inflight, transmitted>>
     ELSE /\ inflight' = inflight \cup {"transmit"}
          /\ transmitted' = output
          /\ UNCHANGED outstanding

\* Driving legs: their joints are solved and emitted, and legs_R is logged.
ControlLegs_B(legs) == Emit("legs", legs)

ControlLegs_R(legs_R) == ControlLegs_B(legs_R)

InControl(m) == pc = "control" /\ mode = m

DoControl_Configuring ==
  /\ InControl("kConfiguring")
  /\ IF Cardinality(unzeroed) = Cardinality(Servos)
     THEN performed_rezero' = TRUE /\ Emit("rezero", "none")
     ELSE UNCHANGED performed_rezero /\ Emit("stop", "none")
  /\ UNCHANGED <<commandVars, servoVars, modeVars, phaseVars,
                 old_control_log>>

DoControl_Stopped ==
  /\ InControl("kStopped")
  /\ fault' = "none"
  /\ Emit("stop", "none")
  /\ UNCHANGED <<commandVars, servoVars, mode, timed_out, performed_rezero,
                 phaseVars, old_control_log>>

DoControl_ZeroVelocity ==
  /\ InControl("kFault") \/ InControl("kZeroVelocity")
  /\ Emit("zero_velocity", "none")
  /\ UNCHANGED <<commandVars, servoVars, modeVars, performed_rezero,
                 phaseVars, old_control_log>>

\* A client may name no joint or leg at all; then nothing is transmitted.
DoControl_Client ==
  /\ InControl("kJoint") \/ InControl("kLeg")
  /\ \E output \in {"client", "none"} : Emit(output, "none")
  /\ UNCHANGED <<commandVars, servoVars, modeVars, performed_rezero,
                 phaseVars, old_control_log>>

\* Mutant: the timeout covers the first phase only.
StandUpTimeout_FirstPhase == stand_up.mode = "kPrepositioning" /\ timed_out

StandUpTimeout == stand_up.mode # "kDone" /\ timed_out

\* Mutant: the faulting cycle still sends its prepositioning command.
DoControl_StandUp_Timeout_Late ==
  /\ InControl("kStandUp")
  /\ StandUpTimeout
  /\ Fault("timeout")
  /\ Emit("preposition", "none")
  /\ UNCHANGED <<commandVars, servoVars, performed_rezero, phaseVars,
                 old_control_log>>

\* Fault("timeout") from within the control function.
DoControl_StandUp_Timeout ==
  /\ InControl("kStandUp")
  /\ StandUpTimeout
  /\ Fault("timeout")
  /\ Emit("zero_velocity", "none")
  /\ UNCHANGED <<commandVars, servoVars, performed_rezero, phaseVars,
                 old_control_log>>

\* Mutant: the stage has no upper limit.
DoControl_StandUp_Prepositioning_NoLimit ==
  /\ InControl("kStandUp")
  /\ ~StandUpTimeout
  /\ stand_up.mode = "kPrepositioning"
  /\ \E stage \in {stand_up.stage, stand_up.stage + 1} :
       stand_up' = [stand_up EXCEPT !.stage = stage]
  /\ Emit("preposition", "none")
  /\ UNCHANGED <<commandVars, servoVars, modeVars, performed_rezero,
                 rest_done, jump, idle_count, backflip, old_control_log>>

\* CheckPrepositioning is false.  The stage advances when its joints are in
\* place.
DoControl_StandUp_Prepositioning ==
  /\ InControl("kStandUp")
  /\ ~StandUpTimeout
  /\ stand_up.mode = "kPrepositioning"
  /\ \E stage \in {stand_up.stage, stand_up.stage + 1} \cap 0..2 :
       stand_up' = [stand_up EXCEPT !.stage = stage]
  /\ Emit("preposition", "none")
  /\ UNCHANGED <<commandVars, servoVars, modeVars, performed_rezero,
                 rest_done, jump, idle_count, backflip, old_control_log>>

\* CheckPrepositioning is true, or was earlier.  The legs continue from the
\* last log, or start at the prepositioned place, marked stance.
DoControl_StandUp_Standing ==
  /\ InControl("kStandUp")
  /\ ~StandUpTimeout
  /\ \E done \in BOOLEAN :
       /\ stand_up.mode = "kDone" => done
       /\ stand_up' = [stand_up EXCEPT !.mode =
                         IF done THEN "kDone" ELSE "kStanding"]
  /\ ControlLegs_R(IF old_control_log = "none" THEN "stance"
                                              ELSE old_control_log)
  /\ UNCHANGED <<commandVars, servoVars, modeVars, performed_rezero,
                 rest_done, jump, idle_count, backflip, old_control_log>>

\* kRest, and the kDone phase of a jump or a backflip.  The code asserts
\* that the old log has legs_R (see LegsKnown).
DoControl_Rest ==
  /\ \/ InControl("kRest")
     \/ InControl("kJump") /\ jump.mode = "kDone"
     \/ InControl("kBackflip") /\ backflip = "kDone"
  /\ rest_done' \in BOOLEAN
  /\ ControlLegs_R("stance")
  /\ UNCHANGED <<commandVars, servoVars, modeVars, performed_rezero,
                 stand_up, jump, idle_count, backflip, old_control_log>>

-----------------------------------------------------------------------------
(* DoControl_Jump is a loop: a phase that completes hands over to the next *)
(* one within the same call, until some phase emits.                       *)

InJump(phase) == InControl("kJump") /\ jump.mode = phase

\* Another turn of the loop.
JumpLoop(phase) ==
  /\ jump' = [jump EXCEPT !.mode = phase]
  /\ UNCHANGED <<pc, loopVars, commandVars, servoVars, modeVars,
                 performed_rezero, stand_up, rest_done, idle_count, backflip,
                 control_log, transmitted>>

JumpLowered ==
  /\ InJump("kLowering")
  /\ JumpLoop("kPushing")
  /\ UNCHANGED <<old_control_log, pushed>>

\* The legs are taken off stance and saved for the next turn.
JumpPushed ==
  /\ InJump("kPushing")
  /\ JumpLoop("kRetracting")
  /\ old_control_log' = "swing"
  /\ pushed' = TRUE

JumpRetracted ==
  /\ InJump("kRetracting")
  /\ JumpLoop("kFalling")
  /\ UNCHANGED <<old_control_log, pushed>>

JumpContact ==
  /\ InJump("kFalling")
  /\ JumpLoop("kLanding")
  /\ UNCHANGED <<old_control_log, pushed>>

Repeating == jump.repeat /\ current_command.mode = "kJump"

\* Landed, and pushing again; the stance given to the legs in this turn is
\* not saved.  A call pushes once only: completing kPushing puts the legs at
\* their measured place, from where kRetracting completes only at standing
\* height and kFalling only well below it.
JumpAgain ==
  /\ InJump("kLanding")
  /\ Repeating /\ ~pushed
  /\ jump' = [mode |-> "kPushing",
              repeat |-> IF current_command.jump = "unset" THEN jump.repeat
                         ELSE current_command.jump = "repeat"]
  /\ UNCHANGED <<pc, loopVars, commandVars, servoVars, modeVars,
                 performed_rezero, stand_up, rest_done, idle_count, backflip,
                 logVars, pushed, transmitted>>

\* The turn that emits, whose phase may have ended in kDone.
DoControl_Jump ==
  /\ InControl("kJump")
  /\ jump.mode # "kDone"
  /\ \/ UNCHANGED jump
     \/ /\ jump.mode = "kLanding" /\ ~Repeating
        /\ jump' = [jump EXCEPT !.mode = "kDone"]
  /\ ControlLegs_R(IF jump.mode = "kLanding" THEN "stance"
                                            ELSE old_control_log)
  /\ UNCHANGED <<commandVars, servoVars, modeVars, performed_rezero,
                 stand_up, rest_done, idle_count, backflip, old_control_log>>

JumpTurn ==
  JumpLowered \/ JumpPushed \/ JumpRetracted \/ JumpContact \/ JumpAgain

-----------------------------------------------------------------------------
(* The remaining leg modes.                                                *)

\* QuadrupedTrot: a virtual leg that lands counts an idle step, or clears
\* the count when the robot is moving.
DoControl_Walk ==
  /\ InControl("kWalk")
  /\ idle_count' \in {0} \cup idle_count..2
  /\ \E legs_R \in {"stance", "swing"} : ControlLegs_R(legs_R)
  /\ UNCHANGED <<commandVars, servoVars, modeVars, performed_rezero,
                 stand_up, rest_done, jump, backflip, old_control_log>>

BackflipLowered ==
  /\ InControl("kBackflip") /\ backflip = "kLowering"
  /\ backflip' = "kFrontPush"
  /\ UNCHANGED <<pc, loopVars, commandVars, servoVars, modeVars,
                 performed_rezero, stand_up, rest_done, jump, idle_count,
                 logVars, pushed, transmitted>>

\* Where the legs are: BackflipUpdateLegs sets those it moves by the phase.
BackflipUpdateLegs ==
  CASE backflip = "kFrontPush" -> "stance"
    [] backflip = "kBackPush" -> "swing"
    [] OTHER -> old_control_log

\* The emitting turn.  No phase ever becomes kDone.
DoControl_Backflip ==
  /\ InControl("kBackflip") /\ backflip # "kDone"
  /\ \/ UNCHANGED backflip
     \/ backflip = "kFrontPush" /\ backflip' = "kBackPush"
     \/ backflip = "kBackPush" /\ backflip' = "kFlight"
  /\ ControlLegs_R(BackflipUpdateLegs)
  /\ UNCHANGED <<commandVars, servoVars, modeVars, performed_rezero,
                 stand_up, rest_done, jump, idle_count, old_control_log>>

DoControl ==
  \/ DoControl_Configuring \/ DoControl_Stopped \/ DoControl_ZeroVelocity
  \/ DoControl_Client \/ DoControl_StandUp_Timeout
  \/ DoControl_StandUp_Prepositioning \/ DoControl_StandUp_Standing
  \/ DoControl_Rest \/ JumpTurn \/ DoControl_Jump \/ DoControl_Walk
  \/ BackflipLowered \/ DoControl_Backflip

\* The transmission is answered and the cycle is over.
HandleCommand ==
  /\ pc = "free"
  /\ "transmit" \in inflight
  /\ inflight' = inflight \ {"transmit"}
  /\ outstanding' = FALSE
  /\ UNCHANGED <<pc, commandVars, servoVars, modeVars, performed_rezero,
                 phaseVars, logVars, pushed, transmitted>>

-----------------------------------------------------------------------------
\* The registers read only while configuring.
Reports(ids) == IF mode = "kConfiguring" THEN SUBSET ids ELSE {{}}

StatusReply ==
  \E from \in SUBSET Servos, battery_low \in BOOLEAN :
    \E zeroless \in Reports(from \cap Unzeroed),
       old \in Reports(from \cap Outdated), faults \in SUBSET from :
      HandleStatus(from, zeroless, old, faults, battery_low)

StrangerReply ==
  \E from \in SUBSET (Servos \cup Strangers) :
    \E zeroless \in Reports(from \cap Unzeroed),
       old \in Reports(from \cap Outdated), before \in SUBSET (from \cap Servos) :
      \E faults \in SUBSET before :
        HandleStatusStranger(from, zeroless, old, before, faults)

Next ==
  \/ \E c \in Commands : Command(c)
  \/ CommandAges \/ ModeAges
  \/ HandleTimer \/ HandleStatusDropped \/ StrangerReply \/ StatusReply
  \/ MaybeChangeMode \/ DoControl \/ HandleCommand

Spec == Init /\ [][Next]_vars

\* The timer repeats, time passes, the executor runs what is queued, the
\* pi3hat answers, and again and again the configured servos, and only they,
\* answer a cycle.
Fairness ==
  /\ WF_vars(HandleTimer)
  /\ SF_vars(ModeAges)
  /\ SF_vars(StatusReply)
  /\ WF_vars(MaybeChangeMode)
  /\ WF_vars(DoControl)
  /\ WF_vars(HandleCommand)

FairSpec == Spec /\ Fairness

-----------------------------------------------------------------------------
(* Safety.                                                                 *)

\* The loop never has two operations at the pi3hat, and outstanding_ is set
\* exactly while one is there: no early return of HandleStatus leaves it set
\* (the loop would stop for good) or clears it too soon (two cycles would
\* share status_reply_ and client_command_).
OneOperation ==
  pc = "free" =>
    /\ inflight # {"cycle", "transmit"}
    /\ outstanding <=> inflight # {}

\* DoControl_Rest asserts, and the leg modes assume (legs_R[0] in kPushing,
\* the stance leg of kBackPush), that the previous cycle logged legs_R.
LegsKnown ==
  pc = "control" /\ mode \in LegModes => old_control_log # "none"

\* Prepositioning moves joints.  When the stand up passes to legs_R it starts
\* from the prepositioned place, never from legs logged by an earlier motion.
StandUpStartsFresh ==
  pc = "control" /\ mode = "kStandUp" /\ stand_up.mode = "kPrepositioning" =>
    old_control_log = "none"

\* Between cycles, what the servos were last told is what the mode promises:
\* no power in kStopped, zero velocity in kFault and kZeroVelocity, no motion
\* while configuring, and legs driven in the leg modes.
OutputMatchesMode ==
  pc = "free" =>
    /\ mode = "kStopped" => transmitted = "stop"
    /\ mode \in {"kFault", "kZeroVelocity"} => transmitted = "zero_velocity"
    /\ mode = "kConfiguring" => transmitted \in {"none", "stop", "rezero"}
    /\ mode \in LegModes => transmitted = "legs"

\* status_.fault says something exactly in kFault, or while configuring; it
\* is never left over from a fault or from configuring in another mode.
FaultTextMatchesMode ==
  pc = "free" =>
    /\ mode = "kFault" => fault \in {"servo", "battery", "timeout"}
    /\ mode = "kConfiguring" => fault \in {"none", "configuring"}
    /\ mode \notin {"kFault", "kConfiguring"} => fault = "none"

\* While kWalk outlives the command for another leg mode, each control step
\* walks with a zero velocity command, whatever the clients keep sending.
WalkWindsDown ==
  pc = "control" /\ mode = "kWalk" /\ current_command.mode \in LegModes \ {"kWalk"}
    => ~current_command.moving

\* No motion is driven while the stored fault of any servo is set, were it
\* stored by a cycle that an unconfigured servo cut short, or long ago by a
\* servo that has not answered since.
NoMotionWithFaultedServo ==
  pc = "control" /\ faulted # {} =>
    mode \in {"kFault", "kStopped"}

-----------------------------------------------------------------------------
(* What a step may never do.                                               *)

\* kFault is latched: it is left for kStopped only, when a client asks so.
FaultLatched ==
  [][mode = "kFault" /\ mode' # mode =>
       mode' = "kStopped" /\ current_command.mode = "kStopped"]_vars

\* A leg mode is entered from another one, or from a stand up that was
\* completed; after a fault or a stop the robot always stands up first.
LegModesAfterStandUp ==
  [][mode \notin LegModes /\ mode' \in LegModes =>
       mode = "kStandUp" /\ stand_up.mode = "kDone"]_vars

\* The loop is a ControlLoop: the status answer is owed from the tick until
\* HandleStatus returns, the command answer while a transmission is at the hat.
Loop == INSTANCE ControlLoop WITH
  at <- IF "transmit" \in inflight THEN "command"
        ELSE IF outstanding THEN "status" ELSE "idle"

\* Whatever is answered, dropped or cut short, a cycle is a poll, its answer,
\* at most one transmission and its answer, in this order.
LoopImplemented == Loop!Spec

-----------------------------------------------------------------------------
(* Liveness, under FairSpec.                                               *)

\* Once configured, the robot stops when it is told to and keeps being told,
\* from every mode, kFault and the middle of a jump included.
StopHonoured ==
  (current_command.mode = "kStopped" /\ mode # "kConfiguring")
    ~> (mode = "kStopped" \/ current_command.mode # "kStopped")

\* A stand up does not last: it completes, faults, or is called off.
StandUpEnds ==
  mode = "kStandUp"
    ~> (stand_up.mode = "kDone" \/ mode # "kStandUp")

-----------------------------------------------------------------------------
(* What comments of the code say and the code does not do.                 *)

\* MaybeChangeMode: "We can only leave this mode after we have heard from all
\* the servos, they are all rezeroed, and have an appropriate register map
\* version."
ConfiguredBeforeUse ==
  mode \notin {"kConfiguring", "kFault"} =>
    servos = Servos /\ unzeroed = {} /\ current_map = Servos

\* QuadrupedState: "Each mode's data is only valid while that mode is
\* active."  So a jump starts at its first phase.
JumpStartsLowering ==
  [][mode # "kJump" /\ mode' = "kJump" => jump'.mode = "kLowering"]_vars
=============================================================================
