---------------------------- MODULE Telepresence ----------------------------
(***************************************************************************)
(* The control of two coupled servos (mech/telepresence_control.cc): a     *)
(* timer starts a cycle, the cycle transmits one frame for both servos,    *)
(* and the answer ends it.  Commands come with a priority; a lower one is  *)
(* taken only when the present command has grown stale.                    *)
(*                                                                         *)
(* Torques and angles are left out: a frame is powered or it is not.       *)
(***************************************************************************)
EXTENDS Naturals, Sequences

CONSTANTS
  Priorities,      \* of the commands
  CommandTimeout   \* command_timeout_s, in steps of the clock

ASSUME TelepresenceAssumption == Priorities \subseteq Nat /\ CommandTimeout \in Nat

VARIABLES
  t_command,     \* current_command_
  t_age,         \* since current_command_timestamp_; 0 also before the first
  t_commanded,   \* the timestamp is a time
  t_mode,        \* status_.mode
  t_servo_fault, \* of each servo, what status_ holds
  t_wire,        \* the power of the frames under way, the oldest first
  t_outstanding, \* outstanding_
  t_powered      \* the servos have power: the last frame they took

teleVars == <<t_command, t_age, t_commanded, t_mode, t_servo_fault, t_wire,
              t_outstanding, t_powered>>

Servos == {"servo1", "servo2"}

\* ReadMultiple(kPosition, 3, 2): what a servo is asked for.  The registers from
\* kVoltage on, kFault among them, are no longer read ("To reach 2kHz").
TeleRegisters == {"position", "velocity", "torque"}

TeleTypeOK ==
  /\ t_command \in [mode: {"stop", "active"}, priority: Nat]
  /\ t_age \in 0..(CommandTimeout + 1) /\ t_commanded \in BOOLEAN
  /\ t_mode \in {"stop", "active", "fault"} /\ t_servo_fault \in [Servos -> BOOLEAN]
  /\ t_wire \in Seq(BOOLEAN) /\ t_outstanding \in BOOLEAN /\ t_powered \in BOOLEAN

TeleInit ==
  /\ t_command = [mode |-> "stop", priority |-> 0] /\ t_age = 0 /\ t_commanded = FALSE
  /\ t_mode = "stop" /\ t_servo_fault = [s \in Servos |-> FALSE]
  /\ t_wire = <<>> /\ t_outstanding = FALSE /\ t_powered = FALSE

-----------------------------------------------------------------------------
\* Command.
TeleStale == t_commanded /\ t_age > CommandTimeout

TeleCommand(data) ==
  /\ data.priority >= t_command.priority \/ TeleStale
  /\ t_command' = data /\ t_age' = 0 /\ t_commanded' = TRUE
  /\ UNCHANGED <<t_mode, t_servo_fault, t_wire, t_outstanding, t_powered>>

\* MaybeChangeMode, for a command other than the mode.
TeleModeAfter ==
  IF t_command.mode = "active" /\ t_mode = "fault" THEN "fault" ELSE t_command.mode

\* RunControl: the change of mode, the control of the mode, and Control.
TeleRunControl ==
  /\ t_mode' = TeleModeAfter
  /\ t_wire' = Append(t_wire, t_mode' = "active")

\* HandleTimer
TeleTimer ==
  /\ ~t_outstanding /\ t_outstanding' = TRUE
  /\ TeleRunControl
  /\ UNCHANGED <<t_command, t_age, t_commanded, t_servo_fault, t_powered>>

\* UpdateServo for the servos that answered.
TeleUpdateServo(answered, faulted) ==
  t_servo_fault' = [s \in Servos |-> IF s \in answered /\ "fault" \in TeleRegisters
                                     THEN s \in faulted ELSE t_servo_fault[s]]

\* UpdateStatus, which transmits once more on a fault it has not seen before.
TeleUpdateStatus(answered, faulted) ==
  /\ TeleUpdateServo(answered, faulted)
  /\ LET Fault == t_mode # "fault" /\ \E s \in Servos : t_servo_fault'[s]
     IN  /\ t_mode' = IF Fault THEN "fault" ELSE t_mode
         /\ t_wire' = IF Fault THEN Append(Tail(t_wire), FALSE) ELSE Tail(t_wire)

\* Mutant: the cycle stays outstanding when no servo answers.
CycleEnds_Answered(answered) == t_outstanding' = (answered = {})

CycleEnds(answered) == t_outstanding' = FALSE

\* HandleCommand, when the hat has sent a frame and gathered the answers.
TeleHandleCommand(answered, faulted) ==
  /\ t_wire # <<>> /\ t_powered' = Head(t_wire)
  /\ TeleUpdateStatus(answered, faulted)
  /\ CycleEnds(answered)
  /\ UNCHANGED <<t_command, t_age, t_commanded>>

TeleClock ==
  /\ t_age <= CommandTimeout /\ t_age' = t_age + 1
  /\ UNCHANGED <<t_command, t_commanded, t_mode, t_servo_fault, t_wire, t_outstanding,
                 t_powered>>

TeleAnswer == \E answered \in SUBSET Servos, faulted \in SUBSET Servos :
                TeleHandleCommand(answered, faulted)

TeleNext == \/ \E data \in [mode: {"stop", "active"}, priority: Priorities] : TeleCommand(data)
            \/ TeleTimer \/ TeleAnswer \/ TeleClock

-----------------------------------------------------------------------------
\* A stop that was taken and is not followed by another command takes the power
\* from the servos, also when servos do not answer: HandleTimer goes on only while
\* every transmission clears outstanding_.
TelePowerOff == t_command.mode = "stop" ~> (~t_powered \/ t_command.mode # "stop")
=============================================================================
