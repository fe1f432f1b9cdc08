----------------------- MODULE QuadrupedControlProofs -----------------------
(***************************************************************************)
(* Proofs about QuadrupedControl, for any finite set of servos, any ids    *)
(* that answer uninvited and any commands.                                 *)
(***************************************************************************)
EXTENDS QuadrupedControl, TLAPS

USE DEF vars, loopVars, commandVars, servoVars, modeVars, phaseVars, logVars,
        ControlLegs_R, ControlLegs_B, BackflipUpdateLegs

-----------------------------------------------------------------------------
(* Type correctness, one lemma per part of the loop.                       *)

\* Clients, the clock, the timer and the completion of a transmission keep
\* the types.
LEMMA TypeOfEvents ==
  ASSUME TypeOK,
         (\E c \in Commands : Command(c)) \/ CommandAges \/ ModeAges
           \/ HandleTimer \/ HandleCommand
  PROVE  TypeOK'
<1>1. CASE \E c \in Commands : Command(c)
  BY <1>1, CommandsValid DEF TypeOK, Command
<1>2. CASE CommandAges
  BY <1>2 DEF TypeOK, CommandAges
<1>3. CASE ModeAges
  BY <1>3 DEF TypeOK, ModeAges
<1>4. CASE HandleTimer
  BY <1>4 DEF TypeOK, HandleTimer
<1>5. CASE HandleCommand
  BY <1>5 DEF TypeOK, HandleCommand
<1>6. QED
  BY <1>1, <1>2, <1>3, <1>4, <1>5

\* The sets of ids kept from replies stay within the ids that exist.
LEMMA TypeOfServoTables ==
  ASSUME TypeOK, NEW from \in SUBSET (Servos \cup Strangers),
         NEW zeroless \in SUBSET from, NEW old \in SUBSET from,
         NEW before \in SUBSET (from \cap Servos), NEW faults \in SUBSET before,
         UpdateConfiguringStatus(from, zeroless, old),
         UpdateJoints(before, faults)
  PROVE  /\ joints' \subseteq Servos
         /\ faulted' \subseteq joints'
         /\ servos' \subseteq Servos \cup Strangers
         /\ unzeroed' \subseteq servos'
         /\ current_map' \subseteq servos'
<1>1. joints' \subseteq Servos /\ faulted' \subseteq joints'
  BY DEF TypeOK, UpdateJoints
<1>2. CASE mode = "kConfiguring"
  BY <1>1, <1>2 DEF TypeOK, UpdateConfiguringStatus
<1>3. CASE mode # "kConfiguring"
  BY <1>1, <1>3 DEF TypeOK, UpdateConfiguringStatus
<1>4. QED
  BY <1>2, <1>3

\* What a reply with an unconfigured id does, whatever is in it.
LEMMA StrangerReplyEffect ==
  ASSUME TypeOK, StrangerReply
  PROVE  /\ CycleAnswered
         /\ outstanding' = FALSE
         /\ joints' \subseteq Servos /\ faulted' \subseteq joints'
         /\ servos' \subseteq Servos \cup Strangers
         /\ unzeroed' \subseteq servos' /\ current_map' \subseteq servos'
         /\ UNCHANGED <<pc, commandVars, modeVars, performed_rezero, phaseVars,
                        logVars, pushed, transmitted>>
<1>1. PICK from \in SUBSET (Servos \cup Strangers) :
        \E zeroless \in Reports(from \cap Unzeroed),
           old \in Reports(from \cap Outdated),
           before \in SUBSET (from \cap Servos) :
          \E faults \in SUBSET before :
            HandleStatusStranger(from, zeroless, old, before, faults)
  BY DEF StrangerReply
<1>2. PICK zeroless \in SUBSET from, old \in SUBSET from,
           before \in SUBSET (from \cap Servos), faults \in SUBSET Servos :
        /\ faults \subseteq before
        /\ HandleStatusStranger(from, zeroless, old, before, faults)
  BY <1>1 DEF Reports
<1>3. /\ joints' \subseteq Servos /\ faulted' \subseteq joints'
      /\ servos' \subseteq Servos \cup Strangers
      /\ unzeroed' \subseteq servos' /\ current_map' \subseteq servos'
  BY <1>2, TypeOfServoTables DEF HandleStatusStranger
<1>4. QED
  BY <1>2, <1>3 DEF HandleStatusStranger

\* What a reply of configured servos does.  It always gets as far as the
\* control: a reply that passes EnoughReplies completes the joints, so the
\* early return that UpdateStatus makes for an incomplete set is not taken.
LEMMA StatusReplyEffect ==
  ASSUME TypeOK, StatusReply
  PROVE  /\ CycleAnswered
         /\ pc' = "mode"
         /\ old_control_log' = control_log /\ control_log' = "none"
         /\ joints' = Servos /\ faulted' \subseteq joints'
         /\ servos' \subseteq Servos \cup Strangers
         /\ unzeroed' \subseteq servos' /\ current_map' \subseteq servos'
         /\ \/ /\ mode' = "kFault" /\ timed_out' = FALSE
               /\ fault' \in {"servo", "battery"}
            \/ UNCHANGED modeVars /\ (mode = "kFault" \/ faulted' = {})
         /\ UNCHANGED <<outstanding, commandVars, performed_rezero, phaseVars,
                        pushed, transmitted>>
<1>1. PICK from \in SUBSET Servos, battery_low \in BOOLEAN :
        \E zeroless \in Reports(from \cap Unzeroed),
           old \in Reports(from \cap Outdated), faults \in SUBSET from :
          HandleStatus(from, zeroless, old, faults, battery_low)
  BY DEF StatusReply
<1>2. PICK zeroless \in SUBSET from, old \in SUBSET from,
           faults \in SUBSET from :
        HandleStatus(from, zeroless, old, faults, battery_low)
  BY <1>1 DEF Reports
<1>3. /\ faulted' \subseteq joints'
      /\ servos' \subseteq Servos \cup Strangers
      /\ unzeroed' \subseteq servos' /\ current_map' \subseteq servos'
  BY <1>2, TypeOfServoTables DEF HandleStatus, UpdateStatus
<1>4. joints' = Servos
  BY <1>2 DEF TypeOK, HandleStatus, UpdateStatus, EnoughReplies, UpdateJoints
<1>5. \/ /\ mode' = "kFault" /\ timed_out' = FALSE
         /\ fault' \in {"servo", "battery"}
      \/ UNCHANGED modeVars /\ (mode = "kFault" \/ faulted' = {})
  BY <1>2 DEF HandleStatus, UpdateStatus, ServoFault, Fault
<1>6. QED
  BY <1>2, <1>3, <1>4, <1>5 DEF HandleStatus

\* Every reading of a reply keeps the types.
LEMMA TypeOfReplies ==
  ASSUME TypeOK, HandleStatusDropped \/ StrangerReply \/ StatusReply
  PROVE  TypeOK'
<1>1. CASE HandleStatusDropped
  BY <1>1 DEF TypeOK, HandleStatusDropped, CycleAnswered
<1>2. CASE StrangerReply
  BY <1>2, StrangerReplyEffect DEF TypeOK, CycleAnswered
<1>3. CASE StatusReply
  <2>1. /\ mode' \in Modes
        /\ fault' \in {"none", "configuring", "servo", "battery", "timeout"}
    BY <1>3, StatusReplyEffect DEF TypeOK, Modes
  <2>2. timed_out' \in BOOLEAN
    BY <1>3, StatusReplyEffect DEF TypeOK
  <2>3. inflight' \subseteq {"cycle", "transmit"}
    BY <1>3, StatusReplyEffect DEF TypeOK, CycleAnswered
  <2>4. QED
    BY <1>3, <2>1, <2>2, <2>3, StatusReplyEffect DEF TypeOK, LegLogs
<1>4. QED
  BY <1>1, <1>2, <1>3

\* Changing the mode keeps the types.
LEMMA TypeOfChangeMode ==
  ASSUME TypeOK, NEW new \in Modes, NEW repeat \in BOOLEAN,
         ChangeMode(new, repeat),
         fault' \in {"none", "configuring", "servo", "battery", "timeout"}
  PROVE  TypeOK'
<1>1. stand_up' \in [mode: StandUpModes, stage: 0..2]
  <2>1. StandUpInit \in [mode: StandUpModes, stage: 0..2]
    BY DEF StandUpInit, StandUpModes
  <2>2. stand_up' \in {stand_up, StandUpInit}
    BY DEF ChangeMode
  <2>3. QED
    BY <2>1, <2>2 DEF TypeOK
<1>2. jump' \in [mode: JumpModes, repeat: BOOLEAN]
  BY DEF TypeOK, ChangeMode, JumpInit, JumpModes
<1>3. backflip' \in BackflipModes /\ idle_count' \in 0..2
  BY DEF TypeOK, ChangeMode, BackflipModes
<1>4. rest_done' \in BOOLEAN
  BY DEF TypeOK, ChangeMode
<1>5. QED
  BY <1>1, <1>2, <1>3, <1>4 DEF TypeOK, ChangeMode

\* MaybeChangeMode keeps the types.
LEMMA TypeOfMaybeChangeMode ==
  ASSUME TypeOK, MaybeChangeMode
  PROVE  TypeOK'
<1> DEFINE Texts == {"none", "configuring", "servo", "battery", "timeout"}
<1>a. MayLeaveMode => fault' \in Texts
  BY DEF TypeOK, MayLeaveMode
<1>b. /\ jump.repeat \in BOOLEAN
      /\ (current_command.jump = "repeat") \in BOOLEAN
      /\ current_command.mode \in Commandable
  BY DEF TypeOK, QuadrupedCommand
<1>1. CASE KeepMode
  BY <1>1 DEF TypeOK, KeepMode
<1>2. CASE HoldConfiguring
  BY <1>2 DEF TypeOK, HoldConfiguring
<1>3. CASE EnterStopped
  BY <1>3, <1>a, <1>b, TypeOfChangeMode DEF EnterStopped, Modes, Commandable
<1>4. CASE EnterDirectMode
  BY <1>4, <1>a, <1>b, TypeOfChangeMode
  DEF EnterDirectMode, Modes, Commandable, DirectModes
<1>5. CASE EnterStandUp
  BY <1>5, <1>a, <1>b, TypeOfChangeMode DEF EnterStandUp, Modes, Commandable
<1>6. CASE EnterLegMode
  BY <1>6, <1>a, <1>b, TypeOfChangeMode DEF EnterLegMode, Modes, Commandable
<1>7. CASE LeaveJump
  BY <1>7, <1>a, <1>b, TypeOfChangeMode
  DEF LeaveJump, Modes, Commandable, LegModes
<1>8. CASE SlowWalk
  BY <1>8, <1>a DEF TypeOK, SlowWalk, QuadrupedCommand
<1>9. CASE WaitForMode
  BY <1>9, <1>a DEF TypeOK, WaitForMode
<1>10. QED
  BY <1>1, <1>2, <1>3, <1>4, <1>5, <1>6, <1>7, <1>8, <1>9
  DEF MaybeChangeMode

\* Sending a command ends the cycle's computation and keeps the types.
LEMMA TypeOfEmit ==
  ASSUME TypeOK, NEW output \in Outputs, NEW legs_R \in LegLogs,
         Emit(output, legs_R)
  PROVE  /\ pc' \in {"free", "mode", "control"}
         /\ outstanding' \in BOOLEAN
         /\ inflight' \subseteq {"cycle", "transmit"}
         /\ control_log' \in LegLogs
         /\ pushed' \in BOOLEAN
         /\ transmitted' \in Outputs
BY DEF TypeOK, Emit

\* The phases of a jump keep the types.
LEMMA TypeOfJump ==
  ASSUME TypeOK, JumpTurn \/ DoControl_Jump
  PROVE  TypeOK'
<1>1. ASSUME NEW phase \in JumpModes, JumpLoop(phase)
      PROVE  jump' \in [mode: JumpModes, repeat: BOOLEAN]
  BY <1>1 DEF TypeOK, JumpLoop
<1>2. CASE JumpLowered
  BY <1>1, <1>2 DEF TypeOK, JumpLowered, JumpLoop, JumpModes
<1>3. CASE JumpPushed
  BY <1>1, <1>3 DEF TypeOK, JumpPushed, JumpLoop, JumpModes, LegLogs
<1>4. CASE JumpRetracted
  BY <1>1, <1>4 DEF TypeOK, JumpRetracted, JumpLoop, JumpModes
<1>5. CASE JumpContact
  BY <1>1, <1>5 DEF TypeOK, JumpContact, JumpLoop, JumpModes
<1>6. CASE JumpAgain
  <2>1. jump' \in [mode: JumpModes, repeat: BOOLEAN]
    BY <1>6 DEF TypeOK, JumpAgain, JumpModes
  <2>2. QED
    BY <1>6, <2>1 DEF TypeOK, JumpAgain
<1>7. CASE DoControl_Jump
  <2>1. jump' \in [mode: JumpModes, repeat: BOOLEAN]
    BY <1>7 DEF TypeOK, DoControl_Jump, JumpModes
  <2>2. PICK legs_R \in LegLogs : ControlLegs_R(legs_R)
    BY <1>7 DEF TypeOK, DoControl_Jump, LegLogs
  <2>3. QED
    BY <1>7, <2>1, <2>2, TypeOfEmit DEF TypeOK, DoControl_Jump, Outputs
<1>8. QED
  BY <1>2, <1>3, <1>4, <1>5, <1>6, <1>7 DEF JumpTurn

\* Every control function keeps the types.
LEMMA TypeOfDoControl ==
  ASSUME TypeOK, DoControl
  PROVE  TypeOK'
<1>1. CASE DoControl_Configuring
  <2>1. PICK output \in Outputs : Emit(output, "none")
    BY <1>1 DEF DoControl_Configuring, Outputs
  <2>2. performed_rezero' \in BOOLEAN
    BY <1>1 DEF TypeOK, DoControl_Configuring
  <2>3. QED
    BY <1>1, <2>1, <2>2, TypeOfEmit DEF TypeOK, DoControl_Configuring, LegLogs
<1>2. CASE DoControl_Stopped
  BY <1>2, TypeOfEmit DEF TypeOK, DoControl_Stopped, Outputs, LegLogs
<1>3. CASE DoControl_ZeroVelocity
  BY <1>3, TypeOfEmit DEF TypeOK, DoControl_ZeroVelocity, Outputs, LegLogs
<1>4. CASE DoControl_Client
  BY <1>4, TypeOfEmit DEF TypeOK, DoControl_Client, Outputs, LegLogs
<1>5. CASE DoControl_StandUp_Timeout
  BY <1>5, TypeOfEmit
  DEF TypeOK, DoControl_StandUp_Timeout, Fault, Outputs, LegLogs, Modes
<1>6. CASE DoControl_StandUp_Prepositioning
  <2>1. stand_up' \in [mode: StandUpModes, stage: 0..2]
    BY <1>6 DEF TypeOK, DoControl_StandUp_Prepositioning
  <2>2. QED
    BY <1>6, <2>1, TypeOfEmit
    DEF TypeOK, DoControl_StandUp_Prepositioning, Outputs, LegLogs
<1>7. CASE DoControl_StandUp_Standing
  <2>1. stand_up' \in [mode: StandUpModes, stage: 0..2]
    BY <1>7 DEF TypeOK, DoControl_StandUp_Standing, StandUpModes
  <2>2. PICK legs_R \in LegLogs : ControlLegs_R(legs_R)
    BY <1>7 DEF TypeOK, DoControl_StandUp_Standing, LegLogs
  <2>3. QED
    BY <1>7, <2>1, <2>2, TypeOfEmit
    DEF TypeOK, DoControl_StandUp_Standing, Outputs
<1>8. CASE DoControl_Rest
  BY <1>8, TypeOfEmit DEF TypeOK, DoControl_Rest, Outputs, LegLogs
<1>9. CASE JumpTurn \/ DoControl_Jump
  BY <1>9, TypeOfJump
<1>10. CASE DoControl_Walk
  <2>1. idle_count' \in 0..2
    BY <1>10 DEF TypeOK, DoControl_Walk
  <2>2. PICK legs_R \in LegLogs : ControlLegs_R(legs_R)
    BY <1>10 DEF DoControl_Walk, LegLogs
  <2>3. QED
    BY <1>10, <2>1, <2>2, TypeOfEmit DEF TypeOK, DoControl_Walk, Outputs
<1>11. CASE BackflipLowered
  BY <1>11 DEF TypeOK, BackflipLowered, BackflipModes
<1>12. CASE DoControl_Backflip
  <2>1. backflip' \in BackflipModes
    BY <1>12 DEF TypeOK, DoControl_Backflip, BackflipModes
  <2>2. PICK legs_R \in LegLogs : ControlLegs_R(legs_R)
    BY <1>12 DEF TypeOK, DoControl_Backflip, LegLogs
  <2>3. QED
    BY <1>12, <2>1, <2>2, TypeOfEmit DEF TypeOK, DoControl_Backflip, Outputs
<1>13. QED
  BY <1>1, <1>2, <1>3, <1>4, <1>5, <1>6, <1>7, <1>8, <1>9, <1>10, <1>11,
     <1>12 DEF DoControl

\* The initial state has the types.
LEMMA TypeOfInit == Init => TypeOK
<1> SUFFICES ASSUME Init PROVE TypeOK
  OBVIOUS
<1>1. current_command \in QuadrupedCommand
  BY DEF Init, DefaultCommand, QuadrupedCommand, Commandable
<1>2. /\ stand_up \in [mode: StandUpModes, stage: 0..2]
      /\ jump \in [mode: JumpModes, repeat: BOOLEAN]
      /\ backflip \in BackflipModes
  BY DEF Init, StandUpInit, JumpInit, StandUpModes, JumpModes, BackflipModes
<1>3. /\ mode \in Modes /\ control_log \in LegLogs
      /\ old_control_log \in LegLogs /\ transmitted \in Outputs
      /\ idle_count \in 0..2
  BY DEF Init, Modes, LegLogs, Outputs
<1>4. QED
  BY <1>1, <1>2, <1>3 DEF Init, TypeOK

\* Every variable keeps its type: the prepositioning stage stays in 0..2, a
\* stored fault belongs to a configured joint, and so on.
THEOREM TypeCorrect == Spec => []TypeOK
<1>1. TypeOK /\ [Next]_vars => TypeOK'
  <2> SUFFICES ASSUME TypeOK, [Next]_vars PROVE TypeOK'
    OBVIOUS
  <2>1. CASE Next
    BY <2>1, TypeOfEvents, TypeOfReplies, TypeOfMaybeChangeMode,
       TypeOfDoControl DEF Next
  <2>2. CASE UNCHANGED vars
    BY <2>2 DEF TypeOK
  <2>3. QED
    BY <2>1, <2>2
<1>2. QED
  BY TypeOfInit, <1>1, PTL DEF Spec

-----------------------------------------------------------------------------
(* What the two halves of RunControl have in common.                       *)

\* MaybeChangeMode sends nothing and touches no log.
LEMMA MaybeChangeModeFrame ==
  ASSUME MaybeChangeMode
  PROVE  /\ pc = "mode" /\ pc' = "control"
         /\ UNCHANGED <<loopVars, command_age, servoVars, performed_rezero,
                        logVars, pushed, transmitted>>
<1>1. ASSUME NEW new, NEW repeat, ChangeMode(new, repeat)
      PROVE  /\ pc' = "control"
             /\ UNCHANGED <<loopVars, command_age, servoVars, performed_rezero,
                            logVars, pushed, transmitted>>
  BY <1>1 DEF ChangeMode
<1>2. CASE KeepMode
  BY <1>2 DEF KeepMode
<1>3. CASE HoldConfiguring
  BY <1>3 DEF HoldConfiguring
<1>4. CASE EnterStopped
  BY <1>1, <1>4 DEF EnterStopped, MayLeaveMode
<1>5. CASE EnterDirectMode
  BY <1>1, <1>5 DEF EnterDirectMode, MayLeaveMode
<1>6. CASE EnterStandUp
  BY <1>1, <1>6 DEF EnterStandUp, MayLeaveMode
<1>7. CASE EnterLegMode
  BY <1>1, <1>7 DEF EnterLegMode, MayLeaveMode
<1>8. CASE LeaveJump
  BY <1>1, <1>8 DEF LeaveJump, MayLeaveMode
<1>9. CASE SlowWalk
  BY <1>9 DEF SlowWalk, MayLeaveMode
<1>10. CASE WaitForMode
  BY <1>10 DEF WaitForMode, MayLeaveMode
<1>11. QED
  BY <1>2, <1>3, <1>4, <1>5, <1>6, <1>7, <1>8, <1>9, <1>10
  DEF MaybeChangeMode

\* A step of a control function either goes on within the function, or emits
\* a command; only the timeout of kStandUp and kStopped change mode or fault.
LEMMA DoControlFrame ==
  ASSUME DoControl
  PROVE  /\ pc = "control"
         /\ UNCHANGED <<commandVars, servoVars>>
         /\ \/ UNCHANGED <<pc, loopVars, modeVars, control_log, transmitted>>
            \/ \E output, legs_R : Emit(output, legs_R)
<1>1. CASE DoControl_Configuring
  BY <1>1 DEF DoControl_Configuring, InControl
<1>2. CASE DoControl_Stopped
  BY <1>2 DEF DoControl_Stopped, InControl
<1>3. CASE DoControl_ZeroVelocity
  BY <1>3 DEF DoControl_ZeroVelocity, InControl
<1>4. CASE DoControl_Client
  BY <1>4 DEF DoControl_Client, InControl
<1>5. CASE DoControl_StandUp_Timeout
  BY <1>5 DEF DoControl_StandUp_Timeout, Fault, InControl
<1>6. CASE DoControl_StandUp_Prepositioning
  BY <1>6 DEF DoControl_StandUp_Prepositioning, InControl
<1>7. CASE DoControl_StandUp_Standing
  BY <1>7 DEF DoControl_StandUp_Standing, InControl
<1>8. CASE DoControl_Rest
  BY <1>8 DEF DoControl_Rest, InControl
<1>9. CASE JumpTurn
  BY <1>9
  DEF JumpTurn, JumpLowered, JumpPushed, JumpRetracted, JumpContact, JumpAgain,
      JumpLoop, InJump, InControl
<1>10. CASE DoControl_Jump
  BY <1>10 DEF DoControl_Jump, InControl
<1>11. CASE DoControl_Walk
  BY <1>11 DEF DoControl_Walk, InControl
<1>12. CASE BackflipLowered
  BY <1>12 DEF BackflipLowered, InControl
<1>13. CASE DoControl_Backflip
  BY <1>13 DEF DoControl_Backflip, InControl
<1>14. QED
  BY <1>1, <1>2, <1>3, <1>4, <1>5, <1>6, <1>7, <1>8, <1>9, <1>10, <1>11,
     <1>12, <1>13 DEF DoControl

-----------------------------------------------------------------------------
(* One operation at a time.                                                *)

\* OneOperation says nothing of the time HandleStatus runs; then nothing is
\* at the pi3hat and outstanding_ is set.
LoopInv ==
  /\ OneOperation
  /\ pc # "free" => inflight = {} /\ outstanding

\* LoopInv holds throughout.
LEMMA LoopInvariant == Spec => []LoopInv
<1>1. Init => LoopInv
  BY DEF Init, LoopInv, OneOperation
<1>2. TypeOK /\ LoopInv /\ [Next]_vars => LoopInv'
  <2> SUFFICES ASSUME TypeOK, LoopInv, [Next]_vars PROVE LoopInv'
    OBVIOUS
  <2> USE DEF LoopInv, OneOperation
  <2>1. CASE \E c \in Commands : Command(c)
    BY <2>1 DEF Command
  <2>2. CASE CommandAges
    BY <2>2 DEF CommandAges
  <2>3. CASE ModeAges
    BY <2>3 DEF ModeAges
  <2>4. CASE HandleTimer
    BY <2>4 DEF HandleTimer
  <2>5. CASE HandleStatusDropped
    BY <2>5 DEF TypeOK, HandleStatusDropped, CycleAnswered
  <2>6. CASE StrangerReply
    BY <2>6, StrangerReplyEffect DEF TypeOK, CycleAnswered
  <2>7. CASE StatusReply
    BY <2>7, StatusReplyEffect DEF TypeOK, CycleAnswered
  <2>8. CASE MaybeChangeMode
    BY <2>8, MaybeChangeModeFrame
  <2>9. CASE DoControl
    <3>1. CASE UNCHANGED <<pc, loopVars>>
      BY <2>9, <3>1, DoControlFrame
    <3>2. CASE \E output, legs_R : Emit(output, legs_R)
      <4>1. PICK output, legs_R : Emit(output, legs_R)
        BY <3>2
      <4>2. inflight = {} /\ outstanding
        BY <2>9, DoControlFrame
      <4>3. CASE output = "none"
        BY <4>1, <4>2, <4>3 DEF Emit
      <4>4. CASE output # "none"
        BY <4>1, <4>2, <4>4 DEF Emit
      <4>5. QED
        BY <4>3, <4>4
    <3>3. QED
      BY <2>9, <3>1, <3>2, DoControlFrame
  <2>10. CASE HandleCommand
    BY <2>10 DEF TypeOK, HandleCommand
  <2>11. CASE UNCHANGED vars
    BY <2>11
  <2>12. QED
    BY <2>1, <2>2, <2>3, <2>4, <2>5, <2>6, <2>7, <2>8, <2>9, <2>10, <2>11
    DEF Next
<1>3. QED
  BY <1>1, <1>2, TypeCorrect, PTL DEF Spec

\* The control loop has at most one operation at the pi3hat, and is
\* outstanding exactly while it has one.
THEOREM OneOperationAlways == Spec => []OneOperation
<1>1. LoopInv => OneOperation
  BY DEF LoopInv
<1>2. QED
  BY <1>1, LoopInvariant, PTL

\* The control loop implements ControlLoop: every handler is a step of it, or
\* leaves what it waits for alone.
THEOREM LoopImplementedAlways == Spec => LoopImplemented
<1> DEFINE owed == IF "transmit" \in inflight THEN "command"
                   ELSE IF outstanding THEN "status" ELSE "idle"
<1>1. Init => Loop!Init
  BY DEF Init, Loop!Init
<1>2. TypeOK /\ LoopInv /\ [Next]_vars => [Loop!Next]_owed
  <2> SUFFICES ASSUME TypeOK, LoopInv, [Next]_vars
               PROVE  Loop!Next \/ UNCHANGED owed
    OBVIOUS
  <2> USE DEF LoopInv, OneOperation, Loop!Next
  <2>1. CASE \/ (\E c \in Commands : Command(c)) \/ CommandAges \/ ModeAges
             \/ UNCHANGED vars
    BY <2>1 DEF Command, CommandAges, ModeAges
  <2>2. CASE HandleTimer
    BY <2>2 DEF HandleTimer, Loop!Poll
  <2>3. CASE HandleStatusDropped
    BY <2>3 DEF TypeOK, HandleStatusDropped, CycleAnswered, Loop!Drop
  <2>4. CASE StrangerReply
    BY <2>4, StrangerReplyEffect DEF TypeOK, CycleAnswered, Loop!Drop
  <2>5. CASE StatusReply
    BY <2>5, StatusReplyEffect DEF TypeOK, CycleAnswered
  <2>6. CASE MaybeChangeMode
    BY <2>6, MaybeChangeModeFrame
  <2>7. CASE DoControl
    <3>1. CASE UNCHANGED <<pc, loopVars>>
      BY <3>1
    <3>2. CASE \E output, legs_R : Emit(output, legs_R)
      <4>1. PICK output, legs_R : Emit(output, legs_R)
        BY <3>2
      <4>2. inflight = {} /\ outstanding
        BY <2>7, DoControlFrame
      <4>3. CASE output = "none"
        BY <4>1, <4>2, <4>3 DEF Emit, Loop!Drop
      <4>4. CASE output # "none"
        BY <4>1, <4>2, <4>4 DEF Emit, Loop!Transmit
      <4>5. QED
        BY <4>3, <4>4
    <3>3. QED
      BY <2>7, <3>1, <3>2, DoControlFrame
  <2>8. CASE HandleCommand
    BY <2>8 DEF TypeOK, HandleCommand, Loop!Done
  <2>9. QED
    BY <2>1, <2>2, <2>3, <2>4, <2>5, <2>6, <2>7, <2>8 DEF Next
<1>3. QED
  BY <1>1, <1>2, TypeCorrect, LoopInvariant, PTL DEF Spec, LoopImplemented, Loop!Spec

-----------------------------------------------------------------------------
(* The legs of the previous cycle.                                         *)

\* The modes and phases that log legs_R.
DrivesLegs ==
  \/ mode \in LegModes
  \/ mode = "kStandUp" /\ stand_up.mode \in {"kStanding", "kDone"}

\* LegsKnown and StandUpStartsFresh speak of the control functions.  They
\* hold because the log of the cycle before has legs_R exactly when its mode
\* drove them; a fault found in between may only take the mode away.
LegsInv ==
  /\ pc = "free" => (control_log # "none" <=> DrivesLegs)
  /\ pc = "mode" =>
       /\ DrivesLegs => old_control_log # "none"
       /\ old_control_log # "none" => DrivesLegs \/ mode = "kFault"
  /\ LegsKnown
  /\ StandUpStartsFresh

\* MaybeChangeMode hands the control function a log that suits the mode.
LEMMA LegsOfMaybeChangeMode ==
  ASSUME TypeOK, LegsInv, MaybeChangeMode
  PROVE  LegsInv'
<1>1. pc = "mode" /\ pc' = "control" /\ UNCHANGED logVars
  BY MaybeChangeModeFrame
<1>2. SUFFICES /\ mode' \in LegModes => old_control_log # "none"
               /\ mode' = "kStandUp" /\ stand_up'.mode = "kPrepositioning" =>
                    old_control_log = "none"
  BY <1>1 DEF LegsInv, LegsKnown, StandUpStartsFresh
<1>3. /\ DrivesLegs => old_control_log # "none"
      /\ old_control_log # "none" => DrivesLegs \/ mode = "kFault"
  BY <1>1 DEF LegsInv
<1>4. CASE UNCHANGED <<mode, stand_up>>
  BY <1>3, <1>4 DEF DrivesLegs, LegModes
<1>5. CASE EnterStopped
  BY <1>5 DEF EnterStopped, ChangeMode, LegModes
<1>6. CASE EnterDirectMode
  BY <1>6 DEF EnterDirectMode, ChangeMode, LegModes, DirectModes
<1>7. CASE EnterStandUp
  BY <1>3, <1>7 DEF EnterStandUp, ChangeMode, DrivesLegs, LegModes
<1>8. CASE EnterLegMode
  BY <1>3, <1>8 DEF EnterLegMode, Standing, ChangeMode, DrivesLegs, LegModes
<1>9. CASE LeaveJump
  BY <1>3, <1>9 DEF LeaveJump, ChangeMode, DrivesLegs, LegModes
<1>10. QED
  BY <1>4, <1>5, <1>6, <1>7, <1>8, <1>9
  DEF MaybeChangeMode, KeepMode, HoldConfiguring, SlowWalk, WaitForMode

\* The control functions log legs_R exactly in the modes that drive legs.
LEMMA LegsOfDoControl ==
  ASSUME TypeOK, LegsInv, DoControl
  PROVE  LegsInv'
<1> USE DEF LegsInv, LegsKnown, StandUpStartsFresh, DrivesLegs, LegModes, Emit
<1>1. CASE DoControl_Configuring
  BY <1>1 DEF DoControl_Configuring, InControl
<1>2. CASE DoControl_Stopped
  BY <1>2 DEF DoControl_Stopped, InControl
<1>3. CASE DoControl_ZeroVelocity
  BY <1>3 DEF DoControl_ZeroVelocity, InControl
<1>4. CASE DoControl_Client
  BY <1>4 DEF DoControl_Client, InControl
<1>5. CASE DoControl_StandUp_Timeout
  BY <1>5 DEF DoControl_StandUp_Timeout, Fault, InControl
<1>6. CASE DoControl_StandUp_Prepositioning
  BY <1>6 DEF DoControl_StandUp_Prepositioning, InControl, TypeOK, StandUpModes
<1>7. CASE DoControl_StandUp_Standing
  BY <1>7 DEF DoControl_StandUp_Standing, InControl, TypeOK, StandUpModes
<1>8. CASE DoControl_Rest
  BY <1>8 DEF DoControl_Rest, InControl
<1>9. CASE JumpTurn
  BY <1>9
  DEF JumpTurn, JumpLowered, JumpPushed, JumpRetracted, JumpContact, JumpAgain,
      JumpLoop, InJump, InControl
<1>10. CASE DoControl_Jump
  BY <1>10 DEF DoControl_Jump, InControl
<1>11. CASE DoControl_Walk
  BY <1>11 DEF DoControl_Walk, InControl
<1>12. CASE BackflipLowered
  BY <1>12 DEF BackflipLowered, InControl
<1>13. CASE DoControl_Backflip
  BY <1>13 DEF DoControl_Backflip, InControl
<1>14. QED
  BY <1>1, <1>2, <1>3, <1>4, <1>5, <1>6, <1>7, <1>8, <1>9, <1>10, <1>11,
     <1>12, <1>13 DEF DoControl

\* LegsInv is an invariant.
LEMMA LegsInvariant == Spec => []LegsInv
<1>1. Init => LegsInv
  BY DEF Init, LegsInv, DrivesLegs, LegModes, LegsKnown, StandUpStartsFresh
<1>2. TypeOK /\ LegsInv /\ [Next]_vars => LegsInv'
  <2> SUFFICES ASSUME TypeOK, LegsInv, [Next]_vars PROVE LegsInv'
    OBVIOUS
  <2> USE DEF LegsInv, DrivesLegs, LegsKnown, StandUpStartsFresh
  <2>1. CASE \E c \in Commands : Command(c)
    BY <2>1 DEF Command
  <2>2. CASE CommandAges
    BY <2>2 DEF CommandAges
  <2>3. CASE ModeAges
    BY <2>3 DEF ModeAges
  <2>4. CASE HandleTimer
    BY <2>4 DEF HandleTimer
  <2>5. CASE HandleStatusDropped
    BY <2>5 DEF HandleStatusDropped
  <2>6. CASE StrangerReply
    BY <2>6, StrangerReplyEffect
  <2>7. CASE StatusReply
    BY <2>7, StatusReplyEffect DEF CycleAnswered, LegModes
  <2>8. CASE MaybeChangeMode
    BY <2>8, LegsOfMaybeChangeMode
  <2>9. CASE DoControl
    BY <2>9, LegsOfDoControl
  <2>10. CASE HandleCommand
    BY <2>10 DEF HandleCommand
  <2>11. CASE UNCHANGED vars
    BY <2>11
  <2>12. QED
    BY <2>1, <2>2, <2>3, <2>4, <2>5, <2>6, <2>7, <2>8, <2>9, <2>10, <2>11
    DEF Next
<1>3. QED
  BY <1>1, <1>2, TypeCorrect, PTL DEF Spec

\* A control function of a leg mode always finds the legs_R of the previous
\* cycle: the assertion in DoControl_Rest never fails.
THEOREM LegsKnownAlways == Spec => []LegsKnown
<1>1. LegsInv => LegsKnown
  BY DEF LegsInv
<1>2. QED
  BY <1>1, LegsInvariant, PTL

\* No stand up continues from the legs_R of an earlier motion.
THEOREM StandUpStartsFreshAlways == Spec => []StandUpStartsFresh
<1>1. LegsInv => StandUpStartsFresh
  BY DEF LegsInv
<1>2. QED
  BY <1>1, LegsInvariant, PTL

-----------------------------------------------------------------------------
(* Faults.                                                                 *)

\* NoMotionWithFaultedServo speaks of the control functions; before them the
\* stored faults must already have led to kFault.
FaultedInv ==
  /\ pc = "mode" /\ faulted # {} => mode = "kFault"
  /\ NoMotionWithFaultedServo

\* While the stored fault of a servo is set, every cycle that runs control is
\* in kFault, or in kStopped when a client asked for it.
THEOREM NoMotionWithFaultedServoAlways == Spec => []NoMotionWithFaultedServo
<1>1. Init => FaultedInv
  BY DEF Init, FaultedInv, NoMotionWithFaultedServo
<1>2. TypeOK /\ FaultedInv /\ [Next]_vars => FaultedInv'
  <2> SUFFICES ASSUME TypeOK, FaultedInv, [Next]_vars PROVE FaultedInv'
    OBVIOUS
  <2> USE DEF FaultedInv, NoMotionWithFaultedServo
  <2>1. CASE \E c \in Commands : Command(c)
    BY <2>1 DEF Command
  <2>2. CASE CommandAges
    BY <2>2 DEF CommandAges
  <2>3. CASE ModeAges
    BY <2>3 DEF ModeAges
  <2>4. CASE HandleTimer
    BY <2>4 DEF HandleTimer
  <2>5. CASE HandleStatusDropped
    BY <2>5 DEF HandleStatusDropped
  <2>6. CASE StrangerReply
    BY <2>6, StrangerReplyEffect DEF CycleAnswered
  <2>7. CASE StatusReply
    BY <2>7, StatusReplyEffect
  <2>8. CASE MaybeChangeMode
    <3>1. faulted = {} \/ mode = "kFault"
      BY <2>8, MaybeChangeModeFrame
    <3>2. CASE faulted = {}
      BY <2>8, <3>2, MaybeChangeModeFrame
    <3>3. CASE mode = "kFault"
      <4>1. mode' \in {"kFault", "kStopped"}
        BY <2>8, <3>3
        DEF MaybeChangeMode, KeepMode, HoldConfiguring, EnterStopped,
            EnterDirectMode, EnterStandUp, EnterLegMode, LeaveJump, SlowWalk,
            WaitForMode, ChangeMode, Standing
      <4>2. QED
        BY <2>8, <4>1, MaybeChangeModeFrame
    <3>4. QED
      BY <3>1, <3>2, <3>3
  <2>9. CASE DoControl
    BY <2>9, DoControlFrame DEF Emit
  <2>10. CASE HandleCommand
    BY <2>10 DEF HandleCommand
  <2>11. CASE UNCHANGED vars
    BY <2>11
  <2>12. QED
    BY <2>1, <2>2, <2>3, <2>4, <2>5, <2>6, <2>7, <2>8, <2>9, <2>10, <2>11
    DEF Next
<1>3. FaultedInv => NoMotionWithFaultedServo
  BY DEF FaultedInv
<1>4. QED
  BY <1>1, <1>2, <1>3, TypeCorrect, PTL DEF Spec

\* kFault is left for kStopped only, and only when a client commands it.
THEOREM FaultLatchedAlways == Spec => FaultLatched
<1> DEFINE Latched == mode = "kFault" /\ mode' # mode =>
                        mode' = "kStopped" /\ current_command.mode = "kStopped"
<1>1. TypeOK /\ [Next]_vars => [Latched]_vars
  <2> SUFFICES ASSUME TypeOK, Next, mode = "kFault", mode' # mode
               PROVE  mode' = "kStopped" /\ current_command.mode = "kStopped"
    OBVIOUS
  <2>1. ~((\E c \in Commands : Command(c)) \/ CommandAges \/ ModeAges
           \/ HandleTimer \/ HandleStatusDropped \/ HandleCommand)
    BY DEF Command, CommandAges, ModeAges, HandleTimer, HandleStatusDropped,
           HandleCommand
  <2>2. ~(StrangerReply \/ StatusReply)
    BY StrangerReplyEffect, StatusReplyEffect
  <2>3. ~DoControl
    BY DEF DoControl, DoControl_Configuring, DoControl_Stopped,
           DoControl_ZeroVelocity, DoControl_Client, DoControl_StandUp_Timeout, Fault,
           DoControl_StandUp_Prepositioning, DoControl_StandUp_Standing,
           DoControl_Rest, JumpTurn, JumpLowered, JumpPushed, JumpRetracted,
           JumpContact, JumpAgain, JumpLoop, InJump, DoControl_Jump,
           DoControl_Walk, BackflipLowered, DoControl_Backflip, InControl
  <2>4. CASE MaybeChangeMode
    BY <2>4
    DEF MaybeChangeMode, KeepMode, HoldConfiguring, EnterStopped,
        EnterDirectMode, EnterStandUp, EnterLegMode, LeaveJump, SlowWalk,
        WaitForMode, ChangeMode, Standing
  <2>5. QED
    BY <2>1, <2>2, <2>3, <2>4 DEF Next
<1>2. QED
  BY <1>1, TypeCorrect, PTL DEF Spec, FaultLatched

\* From outside the leg modes, only a stand up that was completed leads to
\* one of them.
THEOREM LegModesAfterStandUpAlways == Spec => LegModesAfterStandUp
<1> DEFINE Entered == mode \notin LegModes /\ mode' \in LegModes =>
                        mode = "kStandUp" /\ stand_up.mode = "kDone"
<1>1. TypeOK /\ [Next]_vars => [Entered]_vars
  <2> SUFFICES ASSUME TypeOK, Next, mode \notin LegModes, mode' \in LegModes
               PROVE  mode = "kStandUp" /\ stand_up.mode = "kDone"
    OBVIOUS
  <2>1. ~((\E c \in Commands : Command(c)) \/ CommandAges \/ ModeAges
           \/ HandleTimer \/ HandleStatusDropped \/ HandleCommand)
    BY DEF Command, CommandAges, ModeAges, HandleTimer, HandleStatusDropped,
           HandleCommand
  <2>2. ~(StrangerReply \/ StatusReply)
    BY StrangerReplyEffect, StatusReplyEffect DEF LegModes
  <2>3. ~DoControl
    BY DEF DoControl, DoControl_Configuring, DoControl_Stopped,
           DoControl_ZeroVelocity, DoControl_Client, DoControl_StandUp_Timeout, Fault,
           DoControl_StandUp_Prepositioning, DoControl_StandUp_Standing,
           DoControl_Rest, JumpTurn, JumpLowered, JumpPushed, JumpRetracted,
           JumpContact, JumpAgain, JumpLoop, InJump, DoControl_Jump,
           DoControl_Walk, BackflipLowered, DoControl_Backflip, InControl,
           LegModes
  <2>4. CASE MaybeChangeMode
    BY <2>4
    DEF MaybeChangeMode, KeepMode, HoldConfiguring, EnterStopped,
        EnterDirectMode, EnterStandUp, EnterLegMode, LeaveJump, SlowWalk,
        WaitForMode, ChangeMode, Standing, LegModes, DirectModes
  <2>5. QED
    BY <2>1, <2>2, <2>3, <2>4 DEF Next
<1>2. QED
  BY <1>1, TypeCorrect, PTL DEF Spec, LegModesAfterStandUp

-----------------------------------------------------------------------------
(* The commands.                                                           *)

\* A walk that outlives the command for another leg mode is controlled with
\* zero velocity: the mode is tested again in every cycle, after whatever a
\* client has sent in between.
THEOREM WalkWindsDownAlways == Spec => []WalkWindsDown
<1>1. Init => WalkWindsDown
  BY DEF Init, WalkWindsDown
<1>2. TypeOK /\ WalkWindsDown /\ [Next]_vars => WalkWindsDown'
  <2> SUFFICES ASSUME TypeOK, WalkWindsDown, [Next]_vars, pc' = "control",
                      mode' = "kWalk",
                      current_command'.mode \in LegModes \ {"kWalk"}
               PROVE  ~current_command'.moving
    BY DEF WalkWindsDown
  <2>1. ~((\E c \in Commands : Command(c)) \/ HandleTimer
           \/ HandleStatusDropped \/ HandleCommand)
    BY DEF Command, HandleTimer, HandleStatusDropped, CycleAnswered,
           HandleCommand
  <2>2. ~(StrangerReply \/ StatusReply)
    BY StrangerReplyEffect, StatusReplyEffect DEF CycleAnswered
  <2>3. CASE CommandAges \/ ModeAges \/ UNCHANGED vars
    BY <2>3 DEF CommandAges, ModeAges, WalkWindsDown
  <2>4. CASE DoControl
    BY <2>4, DoControlFrame DEF Emit, WalkWindsDown
  <2>5. CASE MaybeChangeMode
    <3>1. ASSUME NEW new, NEW repeat, ChangeMode(new, repeat)
          PROVE  mode' = new /\ current_command' = current_command
      BY <3>1 DEF ChangeMode
    <3>2. ~(EnterStopped \/ EnterDirectMode \/ EnterStandUp \/ LeaveJump)
      BY <3>1
      DEF EnterStopped, EnterDirectMode, EnterStandUp, LeaveJump, DirectModes
    <3>3. ~EnterLegMode
      BY <3>1 DEF EnterLegMode
    <3>4. ~(KeepMode \/ HoldConfiguring)
      BY DEF KeepMode, HoldConfiguring
    <3>5. ~WaitForMode
      BY DEF WaitForMode, MustWait, LegModes
    <3>6. CASE SlowWalk
      BY <3>6, CommandsValid DEF SlowWalk, TypeOK, QuadrupedCommand
    <3>7. QED
      BY <2>5, <3>2, <3>3, <3>4, <3>5, <3>6 DEF MaybeChangeMode
  <2>6. QED
    BY <2>1, <2>2, <2>3, <2>4, <2>5 DEF Next
<1>3. QED
  BY <1>1, <1>2, TypeCorrect, PTL DEF Spec

-----------------------------------------------------------------------------
(* What is sent and what is reported.                                      *)

\* A control function that returns has sent what its mode promises.
LEMMA OutputOfDoControl ==
  ASSUME DoControl, OutputMatchesMode
  PROVE  OutputMatchesMode'
<1> USE DEF OutputMatchesMode, Emit, InControl, LegModes
<1>1. CASE DoControl_Configuring
  BY <1>1 DEF DoControl_Configuring
<1>2. CASE DoControl_Stopped
  BY <1>2 DEF DoControl_Stopped
<1>3. CASE DoControl_ZeroVelocity
  BY <1>3 DEF DoControl_ZeroVelocity
<1>4. CASE DoControl_Client
  BY <1>4 DEF DoControl_Client
<1>5. CASE DoControl_StandUp_Timeout
  BY <1>5 DEF DoControl_StandUp_Timeout, Fault
<1>6. CASE DoControl_StandUp_Prepositioning
  BY <1>6 DEF DoControl_StandUp_Prepositioning
<1>7. CASE DoControl_StandUp_Standing
  BY <1>7 DEF DoControl_StandUp_Standing
<1>8. CASE DoControl_Rest
  BY <1>8 DEF DoControl_Rest
<1>9. CASE JumpTurn \/ BackflipLowered
  BY <1>9
  DEF JumpTurn, JumpLowered, JumpPushed, JumpRetracted, JumpContact, JumpAgain,
      JumpLoop, InJump, BackflipLowered
<1>10. CASE DoControl_Jump
  BY <1>10 DEF DoControl_Jump
<1>11. CASE DoControl_Walk
  BY <1>11 DEF DoControl_Walk
<1>12. CASE DoControl_Backflip
  BY <1>12 DEF DoControl_Backflip
<1>13. QED
  BY <1>1, <1>2, <1>3, <1>4, <1>5, <1>6, <1>7, <1>8, <1>9, <1>10, <1>11, <1>12
  DEF DoControl

\* Between cycles the servos have been told what the mode promises.
THEOREM OutputMatchesModeAlways == Spec => []OutputMatchesMode
<1>1. Init => OutputMatchesMode
  BY DEF Init, OutputMatchesMode, LegModes
<1>2. TypeOK /\ OutputMatchesMode /\ [Next]_vars => OutputMatchesMode'
  <2> SUFFICES ASSUME TypeOK, OutputMatchesMode, [Next]_vars
               PROVE  OutputMatchesMode'
    OBVIOUS
  <2>1. CASE \/ (\E c \in Commands : Command(c)) \/ CommandAges \/ ModeAges
             \/ HandleTimer \/ HandleStatusDropped \/ HandleCommand
             \/ UNCHANGED vars
    BY <2>1 DEF OutputMatchesMode, Command, CommandAges, ModeAges, HandleTimer,
                HandleStatusDropped, HandleCommand
  <2>2. CASE StrangerReply
    BY <2>2, StrangerReplyEffect DEF OutputMatchesMode
  <2>3. CASE StatusReply
    BY <2>3, StatusReplyEffect DEF OutputMatchesMode
  <2>4. CASE MaybeChangeMode
    BY <2>4, MaybeChangeModeFrame DEF OutputMatchesMode
  <2>5. CASE DoControl
    BY <2>5, OutputOfDoControl
  <2>6. QED
    BY <2>1, <2>2, <2>3, <2>4, <2>5 DEF Next
<1>3. QED
  BY <1>1, <1>2, TypeCorrect, PTL DEF Spec

\* The text that suits a mode.
FaultTextSuits ==
  /\ mode = "kFault" => fault \in {"servo", "battery", "timeout"}
  /\ mode = "kConfiguring" => fault \in {"none", "configuring"}
  /\ mode \notin {"kFault", "kConfiguring"} => fault = "none"

\* FaultTextMatchesMode speaks of the time between cycles.  Within one the
\* text suits the mode too, except that kStopped, entered from kFault, has
\* the old text until its control function runs.
FaultTextInv ==
  \/ FaultTextSuits
  \/ pc = "control" /\ mode = "kStopped"

\* A change of mode keeps the invariant: only kStopped is reached from kFault.
LEMMA FaultTextOfMaybeChangeMode ==
  ASSUME TypeOK, FaultTextInv, MaybeChangeMode
  PROVE  FaultTextInv'
<1> USE DEF FaultTextInv, FaultTextSuits
<1>1. pc = "mode" /\ pc' = "control"
  BY MaybeChangeModeFrame
<1>2. ASSUME NEW new, NEW repeat, ChangeMode(new, repeat)
      PROVE  mode' = new
  BY <1>2 DEF ChangeMode
<1>3. CASE KeepMode
  BY <1>1, <1>3 DEF KeepMode
<1>4. CASE HoldConfiguring
  BY <1>1, <1>4 DEF HoldConfiguring
<1>5. CASE EnterStopped
  BY <1>1, <1>2, <1>5 DEF EnterStopped
<1>6. CASE EnterDirectMode
  BY <1>1, <1>2, <1>6 DEF EnterDirectMode, MayLeaveMode, DirectModes
<1>7. CASE EnterStandUp
  BY <1>1, <1>2, <1>7 DEF EnterStandUp, MayLeaveMode
<1>8. CASE EnterLegMode
  BY <1>1, <1>2, <1>8 DEF EnterLegMode, MayLeaveMode, Standing, LegModes
<1>9. CASE LeaveJump
  BY <1>1, <1>2, <1>9 DEF LeaveJump, MayLeaveMode
<1>10. CASE SlowWalk
  BY <1>1, <1>10 DEF SlowWalk, MayLeaveMode
<1>11. CASE WaitForMode
  BY <1>1, <1>11 DEF WaitForMode, MayLeaveMode
<1>12. QED
  BY <1>3, <1>4, <1>5, <1>6, <1>7, <1>8, <1>9, <1>10, <1>11
  DEF MaybeChangeMode

\* The control functions keep it: kStopped clears the text, and only the
\* timeout of a stand up sets one.
LEMMA FaultTextOfDoControl ==
  ASSUME TypeOK, FaultTextInv, DoControl
  PROVE  FaultTextInv'
<1> USE DEF FaultTextInv, FaultTextSuits
<1>1. CASE DoControl_Stopped
  BY <1>1 DEF DoControl_Stopped, InControl
<1>2. CASE DoControl_StandUp_Timeout
  BY <1>2 DEF DoControl_StandUp_Timeout, Fault
<1>3. CASE ~DoControl_Stopped /\ ~DoControl_StandUp_Timeout
  <2>1. UNCHANGED <<mode, fault>> /\ mode # "kStopped"
    BY <1>3
    DEF DoControl, DoControl_Configuring, DoControl_ZeroVelocity,
        DoControl_Client, DoControl_StandUp_Prepositioning,
        DoControl_StandUp_Standing, DoControl_Rest, JumpTurn, JumpLowered,
        JumpPushed, JumpRetracted, JumpContact, JumpAgain, JumpLoop, InJump,
        DoControl_Jump, DoControl_Walk, BackflipLowered, DoControl_Backflip,
        InControl
  <2>2. QED
    BY <2>1
<1>4. QED
  BY <1>1, <1>2, <1>3

\* The fault text reported between cycles is the one of the mode reported.
THEOREM FaultTextMatchesModeAlways == Spec => []FaultTextMatchesMode
<1> USE DEF FaultTextInv, FaultTextSuits
<1>1. Init => FaultTextInv
  BY DEF Init
<1>2. TypeOK /\ FaultTextInv /\ [Next]_vars => FaultTextInv'
  <2> SUFFICES ASSUME TypeOK, FaultTextInv, [Next]_vars
               PROVE  FaultTextInv'
    OBVIOUS
  <2>1. CASE \/ (\E c \in Commands : Command(c)) \/ CommandAges \/ ModeAges
             \/ HandleTimer \/ HandleStatusDropped \/ HandleCommand
             \/ UNCHANGED vars
    BY <2>1 DEF Command, CommandAges, ModeAges, HandleTimer,
                HandleStatusDropped, HandleCommand
  <2>2. CASE StrangerReply
    BY <2>2, StrangerReplyEffect
  <2>3. CASE StatusReply
    BY <2>3, StatusReplyEffect DEF CycleAnswered
  <2>4. CASE MaybeChangeMode
    BY <2>4, FaultTextOfMaybeChangeMode
  <2>5. CASE DoControl
    BY <2>5, FaultTextOfDoControl
  <2>6. QED
    BY <2>1, <2>2, <2>3, <2>4, <2>5 DEF Next
<1>3. FaultTextInv => FaultTextMatchesMode
  BY DEF FaultTextMatchesMode
<1>4. QED
  BY <1>1, <1>2, <1>3, TypeCorrect, PTL DEF Spec
=============================================================================
