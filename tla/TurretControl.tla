--------------------------- MODULE TurretControl ---------------------------
(***************************************************************************)
(* The turret: its control loop (mech/turret_control.cc), the RF control   *)
(* that commands it (mech/turret_rf_control.cc) and the pi3hat they share. *)
(* Angles, rates and torques are left out; whether a servo is powered and  *)
(* whether a shot is requested are kept.  The camera and the tracker only  *)
(* choose a rate.                                                          *)
(***************************************************************************)
EXTENDS Pi3hatWrapper, Integers

CONSTANTS
  Servos,         \* the gimbal servos
  Commands,       \* the commands clients send
  RfPriority,     \* the priority of the commands of the RF control
  WeaponDivider,  \* kWeaponDivider
  MaxBehind       \* bound: operations unfinished when the timer fires

ASSUME DividerPositive == WeaponDivider \in Nat \ {0}

\* The loop passes these two with its operations.
ASSUME LoopCallbacksKnown == {"status", "command"} \subseteq Callbacks

VARIABLES
  outstanding,           \* outstanding_
  status_outstanding,    \* status_outstanding_
  status_count,          \* status_count_
  mode,                  \* status_.mode
  servo_fault,           \* servos whose stored fault is not 0
  current_command,       \* current_command_
  stale,                 \* its timestamp is older than command_timeout_s
  last_trigger,          \* last_trigger_sequence_
  client_command,        \* client_command_: servo power, shot
  pc,                    \* "run": HandleStatus is about to RunControl
  rf_started,            \* TurretRfControl::AsyncStart has run
  fired                  \* the sequence of the last shot sent, if it is still
                         \* the last one taken

loopVars == <<outstanding, status_outstanding, status_count>>
commandVars == <<current_command, stale>>
controlVars == <<mode, servo_fault, last_trigger, client_command, pc, fired>>
turretVars == <<loopVars, controlVars, commandVars, rf_started>>
vars == <<hatVars, turretVars>>

NoShot == 0
CommandData == [priority: Nat, mode: {"kStop", "kActive"}, trigger: Int]

ASSUME CommandsTyped == Commands \subseteq CommandData

TypeOK ==
  /\ HatTypeOK
  /\ outstanding \in BOOLEAN
  /\ status_outstanding \in Int
  /\ status_count \in 0..WeaponDivider - 1
  /\ mode \in {"kStop", "kActive", "kFault"}
  /\ servo_fault \subseteq Servos
  /\ current_command \in CommandData
  /\ stale \in BOOLEAN
  /\ last_trigger \in {NoShot} \cup 1024..2048
  /\ client_command \in [power: BOOLEAN, shot: {NoShot} \cup 1024..2048]
  /\ pc \in {"free", "run"}
  /\ fired \in {NoShot} \cup 1024..2048
  /\ rf_started \in BOOLEAN

Init ==
  /\ HatInit
  /\ outstanding = FALSE /\ status_outstanding = 0 /\ status_count = 0
  /\ mode = "kStop" /\ servo_fault = {}
  /\ current_command = [priority |-> 0, mode |-> "kStop", trigger |-> 0]
  /\ stale = FALSE
  /\ last_trigger = NoShot
  /\ client_command = [power |-> FALSE, shot |-> NoShot]
  /\ pc = "free"
  /\ fired = NoShot
  /\ rf_started = FALSE

hatOwn == <<child, rf_bitfield, imu_data, power_poll, running, air, rx_rf,
            power_switch>>

-----------------------------------------------------------------------------
(* Commands.                                                               *)

Accepts(c) == c.priority >= current_command.priority \/ stale

SetCommand(c) ==
  IF Accepts(c) THEN current_command' = c /\ stale' = FALSE
  ELSE UNCHANGED commandVars

\* A command from the web control.
Command(c) ==
  /\ running /\ pc = "free"
  /\ SetCommand(c)
  /\ UNCHANGED <<hatVars, loopVars, controlVars, rf_started>>

CommandAges ==
  /\ running /\ ~stale
  /\ stale' = TRUE
  /\ UNCHANGED <<hatVars, loopVars, controlVars, current_command, rf_started>>

-----------------------------------------------------------------------------
(* The RF control.                                                         *)

\* TurretRfControl::AsyncStart.
RfStart ==
  /\ running /\ pc = "free" /\ ~rf_started
  /\ rf_started' = TRUE
  /\ AsyncWaitForSlot
  /\ UNCHANGED <<hatOwn, executor, child_queue, attitude, rf_tx_slots,
                 rf_to_send, pi3data, sample, loopVars, controlVars,
                 commandVars>>

\* ReportTelemetry, which does nothing when it did a moment ago.
ReportTelemetry ==
  \/ \E values \in [Slots -> SlotValues] : tx_slots(values)
  \/ UNCHANGED <<rf_tx_slots, rf_to_send>>

\* HandleSlot: SendCommand when the mode slot was received, ReportTelemetry and
\* StartRead.
HandleSlot ==
  /\ pc = "free" /\ Runs(Call("slot"))
  /\ executor' = Tail(executor)
  /\ IF 0 \in rf_bitfield
     THEN \E c \in Commands : c.priority = RfPriority /\ SetCommand(c)
     ELSE UNCHANGED commandVars
  /\ ReportTelemetry
  /\ AsyncWaitForSlot
  /\ UNCHANGED <<hatOwn, child_queue, attitude, pi3data, sample, loopVars,
                 controlVars, rf_started>>

-----------------------------------------------------------------------------
(* The control loop.                                                       *)

NextCount == (status_count + 1) % WeaponDivider

\* Mutant: an answer more than the poll has callbacks.
Answers_Extra == 3

\* The poll is answered by the servos and by the attitude.
Answers == 2

\* The poll is posted before the attitude is asked for.
HandleTimer ==
  /\ running /\ pc = "free" /\ ~outstanding
  /\ Len(child_queue) + Len(executor)
       + (IF child = Resting THEN 0 ELSE 1) <= MaxBehind
  /\ outstanding' = TRUE
  /\ status_outstanding' = Answers
  /\ status_count' = NextCount
  /\ AsyncTransmit("status")
  /\ ReadImu
  /\ UNCHANGED <<hatOwn, executor, rf_remote, rf_tx_slots, controlVars,
                 commandVars, rf_started>>

StatusCalls == {Call("status"), Call("imu")}

\* HandleStatus while the other answer is missing.
HandleStatus_First ==
  /\ pc = "free" /\ \E call \in StatusCalls : Runs(call)
  /\ status_outstanding - 1 > 0
  /\ executor' = Tail(executor)
  /\ status_outstanding' = status_outstanding - 1
  /\ UNCHANGED <<hatOwn, child_queue, attitude, rf_remote, rf_tx_slots,
                 rf_to_send, pi3data, sample, outstanding, status_count,
                 controlVars, commandVars, rf_started>>

\* Mutant: the sequence is not compared with the last one.
TakesTrigger_Again ==
  status_count = 0 /\ current_command.trigger \in 1024..2048

\* AddWeapon: the sequence that is taken, and the shot it asks for.
TakesTrigger ==
  /\ status_count = 0
  /\ current_command.trigger \in 1024..2048
  /\ current_command.trigger # last_trigger

AddWeapon ==
  /\ last_trigger' = IF TakesTrigger THEN current_command.trigger
                     ELSE last_trigger
  /\ fired' = IF last_trigger' # last_trigger THEN NoShot ELSE fired

Shot == IF TakesTrigger /\ last_trigger # NoShot
        THEN current_command.trigger ELSE NoShot

\* Control: client_command_ is built again and transmitted.
Control(power) ==
  /\ client_command' = [power |-> power, shot |-> Shot]
  /\ AddWeapon
  /\ AsyncTransmit("command")

\* HandleStatus with both answers, up to RunControl: UpdateStatus stores what
\* the servos that answered report.
HandleStatus(answering, faults) ==
  /\ pc = "free" /\ \E call \in StatusCalls : Runs(call)
  /\ status_outstanding - 1 <= 0
  /\ executor' = Tail(executor)
  /\ status_outstanding' = status_outstanding - 1
  /\ servo_fault' = (servo_fault \ answering) \cup faults
  /\ pc' = "run"
  /\ IF mode # "kFault" /\ servo_fault' # {}
     THEN mode' = "kFault" /\ Control(FALSE)     \* Fault
     ELSE UNCHANGED <<mode, client_command, last_trigger, fired, pi3data,
                      rf_to_send, child_queue>>
  /\ UNCHANGED <<hatOwn, attitude, rf_remote, rf_tx_slots, sample, outstanding,
                 status_count, commandVars, rf_started>>

\* Mutant: kActive leaves kFault too.
MaybeChangeMode_NoLatch == current_command.mode

MaybeChangeMode ==
  IF mode = "kFault" /\ current_command.mode = "kActive" THEN mode
  ELSE current_command.mode

\* RunControl.
RunControl ==
  /\ running /\ pc = "run"
  /\ pc' = "free"
  /\ mode' = MaybeChangeMode
  /\ Control(mode' = "kActive")
  /\ UNCHANGED <<hatOwn, executor, attitude, rf_remote, rf_tx_slots, sample,
                 loopVars, servo_fault, commandVars, rf_started>>

HandleCommand ==
  /\ pc = "free" /\ Runs(Call("command"))
  /\ executor' = Tail(executor)
  /\ outstanding' = FALSE
  /\ UNCHANGED <<hatOwn, child_queue, attitude, rf_remote, rf_tx_slots,
                 rf_to_send, pi3data, sample, status_outstanding, status_count,
                 controlVars, commandVars, rf_started>>

-----------------------------------------------------------------------------
\* The child takes client_command_ as it finds it.
SendsCommand == child_queue # <<>> /\ Head(child_queue).to = "command"

ChildSetup ==
  /\ CHILD_Setup
  /\ fired' = IF SendsCommand /\ client_command.shot # NoShot
              THEN client_command.shot ELSE fired
  /\ UNCHANGED <<loopVars, mode, servo_fault, commandVars, last_trigger,
                 client_command, pc, rf_started>>

\* The other steps of the hat.  The power switch is left to QuadrupedHat.
HatStep ==
  /\ \/ CHILD_Done(FALSE)
     \/ pc = "free" /\ FinishTransmit
     \/ \E s \in Slots : RfArrives(s)
  /\ UNCHANGED turretVars

StatusReply ==
  \E answering \in SUBSET Servos :
    \E faults \in SUBSET answering : HandleStatus(answering, faults)

Next ==
  \/ \E c \in Commands : Command(c)
  \/ CommandAges \/ RfStart \/ HandleSlot
  \/ HandleTimer \/ HandleStatus_First \/ StatusReply \/ RunControl
  \/ HandleCommand \/ ChildSetup \/ HatStep

Spec == Init /\ [][Next]_vars

\* Timers repeat, both threads run what is posted to them and the hat finishes
\* what it is given.
Fairness ==
  /\ WF_vars(HandleTimer) /\ WF_vars(ChildSetup)
  /\ WF_vars(CHILD_Done(FALSE) /\ UNCHANGED turretVars)
  /\ WF_vars(pc = "free" /\ FinishTransmit /\ UNCHANGED turretVars)
  /\ WF_vars(HandleStatus_First) /\ WF_vars(StatusReply)
  /\ WF_vars(RunControl) /\ WF_vars(HandleCommand) /\ WF_vars(HandleSlot)

FairSpec == Spec /\ Fairness

-----------------------------------------------------------------------------
(* Properties.                                                             *)

\* The servos are powered only while none has a fault stored, whenever the child
\* takes client_command_.
NoPowerWithFault == client_command.power => servo_fault = {}

\* A trigger sequence that was taken is sent to the weapon as a shot once at
\* most, however often client_command_ is built and transmitted.
ShotOncePerSequence ==
  [][child = Resting /\ child' # Resting /\ SendsCommand
       /\ client_command.shot # NoShot => client_command.shot # fired]_vars

\* The loop never waits for good for answers that do not come.
LoopAlive == running /\ outstanding ~> ~running \/ ~outstanding
=============================================================================
