---------------------------- MODULE TurretProofs ----------------------------
(***************************************************************************)
(* Proofs about TurretControl, for any servos, slots, commands and weapon  *)
(* divider.                                                                *)
(***************************************************************************)
EXTENDS TurretControl, SequenceTheorems, TLAPS

USE DEF hatVars, hatOwn, vars, turretVars, loopVars, commandVars, controlVars

\* The sequence numbers of a shot, and that there is none.
Triggers == {NoShot} \cup 1024..2048

-----------------------------------------------------------------------------
(* Types, in groups: an action disturbs few of them.                       *)

QueueTypes ==
  /\ executor \in Seq(Posted)
  /\ child_queue \in Seq(Operation)
  /\ child \in [op: Operation, polled: BOOLEAN] \cup {Resting}
FlagTypes ==
  {attitude, rf_remote, power_poll, running, power_switch} \subseteq BOOLEAN
RfTypes ==
  /\ rf_bitfield \in SUBSET Slots /\ rf_tx_slots \in [Slots -> SlotValues]
  /\ rf_to_send \in SUBSET Slots /\ pi3data \in Pi3Data
  /\ air \in [Slots -> SlotValues] /\ rx_rf \in SUBSET Slots
ImuTypes == sample \in Samples /\ imu_data \in Samples \cup {"unset"}
LoopTypes ==
  /\ outstanding \in BOOLEAN /\ rf_started \in BOOLEAN
  /\ status_outstanding \in Int /\ status_count \in 0..WeaponDivider - 1
  /\ pc \in {"free", "run"}
CommandTypes == current_command \in CommandData /\ stale \in BOOLEAN
ModeTypes == mode \in {"kStop", "kActive", "kFault"} /\ servo_fault \subseteq Servos
WeaponTypes ==
  /\ last_trigger \in Triggers /\ fired \in Triggers
  /\ client_command \in [power: BOOLEAN, shot: Triggers]

Types == /\ QueueTypes /\ FlagTypes /\ RfTypes /\ ImuTypes
         /\ LoopTypes /\ CommandTypes /\ ModeTypes /\ WeaponTypes

\* The groups are TypeOK.
LEMMA TypesAreTypeOK == TypeOK <=> Types
  BY DEF TypeOK, HatTypeOK, Types, QueueTypes, FlagTypes, RfTypes, ImuTypes, LoopTypes,
         CommandTypes, ModeTypes, WeaponTypes, Triggers, Resting

\* A group whose variables an action leaves alone keeps its types.
LEMMA TypesKept ==
  /\ QueueTypes /\ UNCHANGED <<executor, child_queue, child>> => QueueTypes'
  /\ FlagTypes /\ UNCHANGED <<attitude, rf_remote, power_poll, running, power_switch>>
       => FlagTypes'
  /\ RfTypes /\ UNCHANGED <<rf_bitfield, rf_tx_slots, rf_to_send, pi3data, air, rx_rf>>
       => RfTypes'
  /\ ImuTypes /\ UNCHANGED <<sample, imu_data>> => ImuTypes'
  /\ LoopTypes /\ UNCHANGED <<outstanding, rf_started, status_outstanding, status_count, pc>>
       => LoopTypes'
  /\ CommandTypes /\ UNCHANGED <<current_command, stale>> => CommandTypes'
  /\ ModeTypes /\ UNCHANGED <<mode, servo_fault>> => ModeTypes'
  /\ WeaponTypes /\ UNCHANGED <<last_trigger, fired, client_command>> => WeaponTypes'
<1>1. QueueTypes /\ UNCHANGED <<executor, child_queue, child>> => QueueTypes'
  BY DEF QueueTypes
<1>2. FlagTypes /\ UNCHANGED <<attitude, rf_remote, power_poll, running, power_switch>>
        => FlagTypes'
  BY DEF FlagTypes
<1>3. RfTypes /\ UNCHANGED <<rf_bitfield, rf_tx_slots, rf_to_send, pi3data, air, rx_rf>>
        => RfTypes'
  BY DEF RfTypes, Pi3Data
<1>4. ImuTypes /\ UNCHANGED <<sample, imu_data>> => ImuTypes'
  BY DEF ImuTypes
<1>5. LoopTypes /\ UNCHANGED <<outstanding, rf_started, status_outstanding, status_count, pc>>
        => LoopTypes'
  BY DEF LoopTypes
<1>6. CommandTypes /\ UNCHANGED <<current_command, stale>> => CommandTypes'
  BY DEF CommandTypes
<1>7. ModeTypes /\ UNCHANGED <<mode, servo_fault>> => ModeTypes'
  BY DEF ModeTypes
<1>8. WeaponTypes /\ UNCHANGED <<last_trigger, fired, client_command>> => WeaponTypes'
  BY DEF WeaponTypes
<1>9. QED
  BY <1>1, <1>2, <1>3, <1>4, <1>5, <1>6, <1>7, <1>8

\* What is posted has its type, and what is finished is an operation.
LEMMA PostedTypes ==
  /\ \A op \in Operation : [kind |-> "finish", op |-> op] \in Posted
  /\ \A to \in Callbacks \cup {"imu", "slot"} : Call(to) \in Posted
  /\ \A x \in Posted : x.kind = "finish" => x.op \in Operation
<1>1. \A x \in Posted : x.kind = "finish" => x.op \in Operation
  BY DEF Posted
<1>2. QED
  BY <1>1 DEF Posted, Call

\* A handler takes the first of what is posted and leaves the rest.
LEMMA CallLeaves ==
  ASSUME QueueTypes, executor # <<>>, executor' = Tail(executor),
         UNCHANGED <<child_queue, child>>
  PROVE  QueueTypes'
  BY DEF QueueTypes

\* AsyncTransmit: CopyRf and the operation it posts.
LEMMA TransmitTypes ==
  ASSUME FlagTypes, RfTypes, NEW to \in Callbacks, AsyncTransmit(to), UNCHANGED rf_tx_slots,
         child_queue \in Seq(Operation)
  PROVE  /\ pi3data' \in Pi3Data /\ rf_to_send' \in SUBSET Slots
         /\ child_queue' \in Seq(Operation)
<1>1. pi3data' \in Pi3Data /\ rf_to_send' \in SUBSET Slots
  BY DEF RfTypes, AsyncTransmit, CopyRf, Pi3Data
<1>2. [kind |-> "transmit", attitude |-> attitude, rf |-> rf_remote, to |-> to] \in Operation
  BY DEF FlagTypes, Operation
<1>3. child_queue' \in Seq(Operation)
  BY <1>2 DEF AsyncTransmit
<1>4. QED
  BY <1>1, <1>3

\* Control builds a command and posts it.
LEMMA ControlTypes ==
  ASSUME WeaponTypes, FlagTypes, RfTypes, child_queue \in Seq(Operation),
         NEW power \in BOOLEAN, Control(power), UNCHANGED rf_tx_slots
  PROVE  /\ WeaponTypes'
         /\ client_command' = [power |-> power, shot |-> Shot]
         /\ pi3data' \in Pi3Data /\ rf_to_send' \in SUBSET Slots
         /\ child_queue' \in Seq(Operation)
<1>1. Shot \in Triggers
  BY DEF Shot, TakesTrigger, Triggers
<1>2. last_trigger' \in Triggers /\ fired' \in Triggers
  BY DEF Control, AddWeapon, TakesTrigger, Triggers, WeaponTypes, NoShot
<1>3. AsyncTransmit("command") /\ client_command' = [power |-> power, shot |-> Shot]
  BY DEF Control
<1>4. WeaponTypes'
  BY <1>1, <1>2, <1>3 DEF WeaponTypes
<1>5. QED
  BY <1>3, <1>4, TransmitTypes, LoopCallbacksKnown

\* A command that is taken in has its type.
LEMMA SetCommandTypes ==
  ASSUME CommandTypes, NEW c \in Commands, SetCommand(c) PROVE CommandTypes'
  BY CommandsTyped DEF SetCommand, CommandTypes

\* The answers of the servos: the types after HandleStatus.
LEMMA StatusTypes ==
  ASSUME Types, NEW answering \in SUBSET Servos, NEW faults \in SUBSET answering,
         HandleStatus(answering, faults)
  PROVE  Types'
<1> USE DEF Types
<1>1. executor' \in Seq(Posted) /\ child' = child
  BY DEF HandleStatus, Runs, QueueTypes
<1>2. servo_fault' \subseteq Servos
  BY DEF HandleStatus, ModeTypes
<1>3. LoopTypes'
  BY DEF HandleStatus, LoopTypes
<1>4. CASE mode # "kFault" /\ servo_fault' # {}
  <2>1. Control(FALSE) /\ mode' = "kFault" /\ UNCHANGED rf_tx_slots
    BY <1>4 DEF HandleStatus
  <2>2. child_queue \in Seq(Operation)
    BY DEF QueueTypes
  <2>3. /\ WeaponTypes' /\ pi3data' \in Pi3Data /\ rf_to_send' \in SUBSET Slots
        /\ child_queue' \in Seq(Operation)
    BY <2>1, <2>2, ControlTypes
  <2>4. RfTypes'
    BY <2>3 DEF RfTypes, HandleStatus
  <2>5. QueueTypes'
    BY <1>1, <2>3 DEF QueueTypes
  <2>6. ModeTypes'
    BY <1>2, <2>1 DEF ModeTypes
  <2>7. QED
    BY <1>3, <2>3, <2>4, <2>5, <2>6, TypesKept DEF HandleStatus
<1>5. CASE ~(mode # "kFault" /\ servo_fault' # {})
  <2>1. UNCHANGED <<mode, client_command, last_trigger, fired, pi3data, rf_to_send, child_queue>>
    BY <1>5 DEF HandleStatus
  <2>2. ModeTypes' /\ QueueTypes'
    BY <1>1, <1>2, <2>1 DEF ModeTypes, QueueTypes
  <2>3. QED
    BY <1>3, <2>1, <2>2, TypesKept DEF HandleStatus
<1>6. QED
  BY <1>4, <1>5

\* The state keeps its types at every step.
LEMMA TypeStep == ASSUME Types, [Next]_vars PROVE Types'
<1> USE DEF Types
<1>1. CASE \E c \in Commands : Command(c)
  BY <1>1, SetCommandTypes, TypesKept DEF Command
<1>2. CASE CommandAges
  <2>1. CommandTypes'
    BY <1>2 DEF CommandAges, CommandTypes
  <2>2. QED
    BY <1>2, <2>1, TypesKept DEF CommandAges
<1>3. CASE RfStart
  <2>1. FlagTypes' /\ LoopTypes'
    BY <1>3 DEF RfStart, FlagTypes, LoopTypes, AsyncWaitForSlot
  <2>2. QED
    BY <1>3, <2>1, TypesKept DEF RfStart
<1>4. CASE HandleSlot
  <2>1. QueueTypes'
    BY <1>4, CallLeaves DEF HandleSlot, Runs
  <2>2. CommandTypes'
    BY <1>4, SetCommandTypes, TypesKept DEF HandleSlot
  <2>3. rf_tx_slots' \in [Slots -> SlotValues] /\ rf_to_send' \in SUBSET Slots
    BY <1>4 DEF HandleSlot, RfTypes, ReportTelemetry, tx_slots
  <2>4. RfTypes'
    BY <1>4, <2>3 DEF HandleSlot, RfTypes
  <2>5. FlagTypes'
    BY <1>4 DEF HandleSlot, FlagTypes, AsyncWaitForSlot
  <2>6. QED
    BY <1>4, <2>1, <2>2, <2>4, <2>5, TypesKept DEF HandleSlot
<1>5. CASE HandleTimer
  <2>1. /\ pi3data' \in Pi3Data /\ rf_to_send' \in SUBSET Slots
        /\ child_queue' \in Seq(Operation)
    <3>1. AsyncTransmit("status") /\ UNCHANGED rf_tx_slots /\ child_queue \in Seq(Operation)
      BY <1>5 DEF HandleTimer, QueueTypes
    <3>2. QED
      BY <3>1, TransmitTypes, LoopCallbacksKnown
  <2>2. QueueTypes' /\ RfTypes'
    BY <1>5, <2>1 DEF HandleTimer, QueueTypes, RfTypes
  <2>3. LoopTypes'
    BY <1>5, DividerPositive DEF HandleTimer, NextCount, LoopTypes, Answers
  <2>4. ImuTypes' /\ FlagTypes'
    BY <1>5 DEF HandleTimer, ReadImu, Asked, ImuTypes, FlagTypes, Samples
  <2>5. QED
    BY <1>5, <2>2, <2>3, <2>4, TypesKept DEF HandleTimer
<1>6. CASE HandleStatus_First
  <2>1. QueueTypes'
    BY <1>6, CallLeaves DEF HandleStatus_First, Runs
  <2>2. LoopTypes'
    BY <1>6 DEF HandleStatus_First, LoopTypes
  <2>3. QED
    BY <1>6, <2>1, <2>2, TypesKept DEF HandleStatus_First
<1>7. CASE StatusReply
  BY <1>7, StatusTypes DEF StatusReply
<1>8. CASE RunControl
  <2>1. ModeTypes'
    BY <1>8 DEF RunControl, MaybeChangeMode, ModeTypes, CommandTypes, CommandData
  <2>2. Control(mode' = "kActive") /\ UNCHANGED rf_tx_slots /\ child_queue \in Seq(Operation)
    BY <1>8 DEF RunControl, QueueTypes
  <2>3. /\ WeaponTypes' /\ pi3data' \in Pi3Data /\ rf_to_send' \in SUBSET Slots
        /\ child_queue' \in Seq(Operation)
    BY <2>2, ControlTypes
  <2>4. QueueTypes' /\ RfTypes'
    BY <1>8, <2>3 DEF RunControl, QueueTypes, RfTypes
  <2>5. LoopTypes'
    BY <1>8 DEF RunControl, LoopTypes
  <2>6. QED
    BY <1>8, <2>1, <2>3, <2>4, <2>5, TypesKept DEF RunControl
<1>9. CASE HandleCommand
  <2>1. QueueTypes'
    BY <1>9, CallLeaves DEF HandleCommand, Runs
  <2>2. LoopTypes'
    BY <1>9 DEF HandleCommand, LoopTypes
  <2>3. QED
    BY <1>9, <2>1, <2>2, TypesKept DEF HandleCommand
<1>10. CASE ChildSetup
  <2>1. child_queue' \in Seq(Operation) /\ Head(child_queue) \in Operation
    BY <1>10 DEF ChildSetup, CHILD_Setup, QueueTypes
  <2>2. power_poll \in BOOLEAN
    BY DEF FlagTypes
  <2>3. QueueTypes'
    BY <1>10, <2>1, <2>2 DEF ChildSetup, CHILD_Setup, QueueTypes
  <2>4. RfTypes'
    BY <1>10 DEF ChildSetup, CHILD_Setup, RfTypes, Pi3Data
  <2>5. WeaponTypes'
    BY <1>10 DEF ChildSetup, WeaponTypes
  <2>6. FlagTypes'
    BY <1>10 DEF ChildSetup, CHILD_Setup, FlagTypes
  <2>7. QED
    BY <1>10, <2>3, <2>4, <2>5, <2>6, TypesKept DEF ChildSetup, CHILD_Setup
<1>11. CASE CHILD_Done(FALSE) /\ UNCHANGED turretVars
  <2>1. child.op \in Operation
    BY <1>11 DEF CHILD_Done, QueueTypes
  <2>2. QueueTypes'
    BY <1>11, <2>1, PostedTypes DEF CHILD_Done, QueueTypes
  <2>3. RfTypes'
    BY <1>11 DEF CHILD_Done, RfTypes, Pi3Data
  <2>4. ImuTypes'
    BY <1>11 DEF CHILD_Done, ImuTypes, Samples
  <2>5. QED
    BY <1>11, <2>2, <2>3, <2>4, TypesKept DEF CHILD_Done
<1>12. CASE FinishTransmit /\ UNCHANGED turretVars
  <2>1. Tail(executor) \in Seq(Posted) /\ Head(executor).op.to \in Callbacks
    <3>1. Tail(executor) \in Seq(Posted) /\ Head(executor) \in Posted
      BY <1>12 DEF FinishTransmit, FinishNext, QueueTypes
    <3>2. QED
      BY <1>12, <3>1, PostedTypes DEF FinishTransmit, FinishNext, Operation
  <2>2. /\ (IF attitude THEN <<Call("imu")>> ELSE <<>>) \in Seq(Posted)
        /\ RfCalls \in Seq(Posted)
        /\ <<Call(Head(executor).op.to)>> \in Seq(Posted)
    BY <2>1, PostedTypes DEF RfCalls
  <2>3. executor' \in Seq(Posted)
    BY <1>12, <2>1, <2>2 DEF FinishTransmit
  <2>4. QueueTypes'
    BY <1>12, <2>3 DEF FinishTransmit, QueueTypes
  <2>5. RfTypes'
    BY <1>12 DEF FinishTransmit, FinishRF, RfTypes, Pi3Data
  <2>6. FlagTypes' /\ ImuTypes'
    BY <1>12 DEF FinishTransmit, FinishRF, FlagTypes, ImuTypes
  <2>7. QED
    BY <1>12, <2>4, <2>5, <2>6, TypesKept DEF FinishTransmit
<1>13. CASE (\E s \in Slots : RfArrives(s)) /\ UNCHANGED turretVars
  <2>1. RfTypes'
    BY <1>13 DEF RfArrives, RfTypes
  <2>2. QED
    BY <1>13, <2>1, TypesKept DEF RfArrives
<1>14. CASE UNCHANGED vars
  BY <1>14, TypesKept
<1>15. QED
  BY <1>1, <1>2, <1>3, <1>4, <1>5, <1>6, <1>7, <1>8, <1>9, <1>10, <1>11, <1>12, <1>13, <1>14
     DEF Next, HatStep

\* At the start, too.
LEMMA TypeInitially == Init => Types
<1> SUFFICES ASSUME Init PROVE Types
  OBVIOUS
<1>1. Blank \in [Slots -> SlotValues]
  BY SlotValuesNonempty DEF Blank
<1>2. RfTypes
  BY <1>1 DEF Init, HatInit, RfTypes, Pi3Data
<1>3. QueueTypes
  BY DEF Init, HatInit, QueueTypes
<1>4. FlagTypes /\ ImuTypes
  <2>1. HatInit
    BY DEF Init
  <2>2. QED
    BY <2>1 DEF HatInit, FlagTypes, ImuTypes, Samples
<1>5. LoopTypes
  <2>1. /\ outstanding = FALSE /\ rf_started = FALSE /\ pc = "free"
        /\ status_outstanding = 0 /\ status_count = 0
    BY DEF Init
  <2>2. 0 \in Int /\ 0 \in 0..WeaponDivider - 1
    BY DividerPositive
  <2>3. QED
    BY <2>1, <2>2, Zenon DEF LoopTypes
<1>6. CommandTypes
  <2>1. stale = FALSE /\ current_command = [priority |-> 0, mode |-> "kStop", trigger |-> 0]
    BY DEF Init
  <2>2. [priority |-> 0, mode |-> "kStop", trigger |-> 0] \in CommandData
    BY DEF CommandData
  <2>3. QED
    BY <2>1, <2>2, Zenon DEF CommandTypes
<1>7. ModeTypes /\ WeaponTypes
  <2>1. /\ mode = "kStop" /\ servo_fault = {} /\ last_trigger = NoShot /\ fired = NoShot
        /\ client_command = [power |-> FALSE, shot |-> NoShot]
    BY DEF Init
  <2>2. QED
    BY <2>1 DEF ModeTypes, WeaponTypes, Triggers
<1>8. QED
  BY <1>2, <1>3, <1>4, <1>5, <1>6, <1>7 DEF Types

\* The types hold throughout.
LEMMA TypesAlways == Spec => []Types
  BY TypeInitially, TypeStep, PTL DEF Spec

\* Every variable of the turret, and what is posted between the threads, keeps its type.
THEOREM TurretTypeCorrect == Spec => []TypeOK
  BY TypesAlways, TypesAreTypeOK, PTL

-----------------------------------------------------------------------------
(* Power and faults.                                                       *)

\* In kFault nothing is powered; and between HandleStatus and RunControl a stored
\* fault means kFault, whatever MaybeChangeMode makes of the mode after that.
FaultInv ==
  /\ NoPowerWithFault
  /\ mode = "kFault" => ~client_command.power
  /\ pc = "run" /\ servo_fault # {} => mode = "kFault"

\* Only HandleStatus and RunControl have a part in it.
LEMMA FaultStep == ASSUME Types, FaultInv, [Next]_vars PROVE FaultInv'
<1> USE DEF FaultInv, NoPowerWithFault
<1>1. ASSUME NEW answering \in SUBSET Servos, NEW faults \in SUBSET answering,
             HandleStatus(answering, faults)
      PROVE  FaultInv'
  <2>1. CASE mode # "kFault" /\ servo_fault' # {}
    <3>1. mode' = "kFault" /\ client_command' = [power |-> FALSE, shot |-> Shot]
      BY <1>1, <2>1 DEF HandleStatus, Control
    <3>2. ~client_command'.power
      BY <3>1
    <3>3. QED
      BY <3>1, <3>2
  <2>2. CASE mode = "kFault" \/ servo_fault' = {}
    <3>1. UNCHANGED <<mode, client_command>>
      BY <1>1, <2>2 DEF HandleStatus
    <3>2. QED
      BY <2>2, <3>1
  <2>3. QED
    BY <2>1, <2>2
<1>2. CASE RunControl
  <2>1. pc = "run" /\ pc' = "free" /\ servo_fault' = servo_fault /\ mode' = MaybeChangeMode
    BY <1>2 DEF RunControl
  <2>2. client_command'.power = (mode' = "kActive")
    BY <1>2 DEF RunControl, Control
  <2>3. servo_fault # {} => mode' # "kActive"
    BY <2>1 DEF MaybeChangeMode
  <2>4. QED
    BY <2>1, <2>2, <2>3
<1>3. CASE \/ (\E c \in Commands : Command(c)) \/ CommandAges \/ RfStart \/ HandleSlot
           \/ HandleTimer \/ HandleStatus_First \/ HandleCommand \/ ChildSetup \/ HatStep
           \/ UNCHANGED vars
  <2>1. UNCHANGED <<mode, client_command, servo_fault, pc>>
    BY <1>3 DEF Command, CommandAges, RfStart, HandleSlot, HandleTimer, HandleStatus_First,
                HandleCommand, ChildSetup, HatStep
  <2>2. QED
    BY <2>1
<1>4. QED
  BY <1>1, <1>2, <1>3 DEF Next, StatusReply

\* No command with power is built, or left for the child to take, while a servo has
\* a fault stored.
THEOREM NoPowerWithFaultAlways == Spec => []NoPowerWithFault
<1>1. Init => FaultInv
  BY DEF Init, FaultInv, NoPowerWithFault
<1>2. FaultInv => NoPowerWithFault
  BY DEF FaultInv
<1>3. QED
  BY <1>1, <1>2, FaultStep, TypesAlways, PTL DEF Spec

-----------------------------------------------------------------------------
(* Short sequences, and what is posted.                                    *)

\* What the operations on sequences of at most three elements give.
LEMMA Short ==
  ASSUME NEW x, NEW y, NEW z
  PROVE  /\ <<x>> # <<>> /\ <<x, y>> # <<>> /\ <<x, y, z>> # <<>>
         /\ Head(<<x>>) = x /\ Head(<<x, y>>) = x /\ Head(<<x, y, z>>) = x
         /\ Tail(<<x>>) = <<>> /\ Tail(<<x, y>>) = <<y>> /\ Tail(<<x, y, z>>) = <<y, z>>
         /\ Append(<<>>, x) = <<x>>
         /\ <<>> \o <<x>> = <<x>> /\ <<>> \o <<>> = <<>> /\ <<x>> \o <<>> = <<x>>
  OBVIOUS

\* Two sequences of one element are put together.
LEMMA Pair == ASSUME NEW x, NEW y PROVE <<x>> \o <<y>> = <<x, y>>
<1> DEFINE S == {x, y}
           a == <<x>> \o <<y>>
           b == <<x, y>>
<1>1. a \in Seq(S) /\ b \in Seq(S) /\ Len(a) = 2 /\ Len(b) = 2
  OBVIOUS
<1>2. a[1] = b[1] /\ a[2] = b[2]
  OBVIOUS
<1>3. \A i \in 1..Len(a) : a[i] = b[i]
  BY <1>1, <1>2
<1> HIDE DEF a, b, S
<1>4. a = b
  BY <1>1, <1>3, SeqEqual
<1>5. QED
  BY <1>4 DEF a, b

\* A third element is added.
LEMMA Triple == ASSUME NEW x, NEW y, NEW z PROVE <<x, y>> \o <<z>> = <<x, y, z>>
<1> DEFINE S == {x, y, z}
           a == <<x, y>> \o <<z>>
           b == <<x, y, z>>
<1>1. a \in Seq(S) /\ b \in Seq(S) /\ Len(a) = 3 /\ Len(b) = 3
  OBVIOUS
<1>2. a[1] = b[1] /\ a[2] = b[2] /\ a[3] = b[3]
  OBVIOUS
<1>3. \A i \in 1..Len(a) : a[i] = b[i]
  BY <1>1, <1>2
<1> HIDE DEF a, b, S
<1>4. a = b
  BY <1>1, <1>3, SeqEqual
<1>5. QED
  BY <1>4 DEF a, b

-----------------------------------------------------------------------------
(* Shots.  With no operation unfinished when the timer fires, what is      *)
(* under way is either one poll or what commands it led to.                *)

\* What the loop posts and is posted for its commands.
CommandOp == {op \in Operation : op.to = "command"}
FinishOf(op) == [kind |-> "finish", op |-> op]
CommandPosted == {FinishOf(op) : op \in CommandOp} \cup {Call("slot"), Call("command")}

\* A poll, from the tick to the answer that completes it.
Polling ==
  /\ pc = "free"
  /\ \/ /\ attitude /\ status_outstanding = 2
        /\ \E op \in Operation :
             /\ op.to = "status"
             /\ \/ executor = <<>> /\ child = Resting /\ child_queue = <<op>>
                \/ executor = <<>> /\ child # Resting /\ child.op = op /\ child_queue = <<>>
                \/ executor = <<FinishOf(op)>> /\ child = Resting /\ child_queue = <<>>
     \/ /\ ~attitude /\ child = Resting /\ child_queue = <<>>
        /\ \/ /\ status_outstanding = 2
              /\ executor \in {<<Call("imu"), Call("status")>>,
                               <<Call("imu"), Call("slot"), Call("status")>>}
           \/ /\ status_outstanding = 1
              /\ executor \in {<<Call("status")>>, <<Call("slot"), Call("status")>>}

\* Commands only.  One that waits for the child while a shot is requested waits
\* alone, and the shot was not sent yet; and when Fault has posted one, RunControl
\* requests no shot.
Commanding ==
  /\ ~attitude /\ status_outstanding <= 0
  /\ executor \in Seq(CommandPosted)
  /\ child_queue \in Seq(CommandOp)
  /\ child = Resting \/ child.op \in CommandOp
  /\ client_command.shot # NoShot /\ child_queue # <<>>
       => Tail(child_queue) = <<>> /\ client_command.shot # fired
  /\ pc = "run" => child_queue = <<>> \/ ~TakesTrigger

\* The inductive invariant about the shots.
ShotInv == Polling \/ Commanding

\* The calls and the results are told apart by their kinds and handlers.
LEMMA Kinds ==
  /\ \A op : FinishOf(op).kind = "finish" /\ FinishOf(op).op = op
  /\ \A to : Call(to).kind = "call" /\ Call(to).to = to
  /\ \A op, to : FinishOf(op) # Call(to)
  /\ \A x \in CommandPosted : x \notin StatusCalls
  /\ \A x \in CommandPosted : x.kind = "finish" => x.op \in CommandOp
<1>1. /\ \A op : FinishOf(op).kind = "finish" /\ FinishOf(op).op = op
      /\ \A to : Call(to).kind = "call" /\ Call(to).to = to
  BY DEF FinishOf, Call
<1>2. \A op, to : FinishOf(op) # Call(to)
  BY <1>1
<1>3. \A x \in CommandPosted : x \notin StatusCalls
  <2> SUFFICES ASSUME NEW x \in CommandPosted PROVE x \notin StatusCalls
    OBVIOUS
  <2>1. CASE x \in {Call("slot"), Call("command")}
    BY <1>1, <2>1 DEF StatusCalls
  <2>2. CASE \E op \in CommandOp : x = FinishOf(op)
    BY <1>2, <2>2 DEF StatusCalls
  <2>3. QED
    BY <2>1, <2>2 DEF CommandPosted
<1>4. ASSUME NEW x \in CommandPosted, x.kind = "finish" PROVE x.op \in CommandOp
  <2>1. x \notin {Call("slot"), Call("command")}
    BY <1>1, <1>4
  <2>2. PICK op \in CommandOp : x = FinishOf(op)
    BY <2>1 DEF CommandPosted
  <2>3. QED
    BY <1>1, <2>2
<1>5. QED
  BY <1>1, <1>2, <1>3, <1>4

\* Steps that touch none of it.
LEMMA ShotKept ==
  ASSUME ShotInv, UNCHANGED <<executor, child, child_queue, attitude, status_outstanding, pc,
                              client_command, fired, last_trigger, status_count>>,
         pc = "free" \/ UNCHANGED current_command
  PROVE  ShotInv'
<1>1. Polling => Polling'
  BY DEF Polling
<1>2. Commanding => Commanding'
  <2>1. pc = "run" => TakesTrigger' = TakesTrigger
    BY DEF TakesTrigger
  <2>2. QED
    BY <2>1 DEF Commanding
<1>3. QED
  BY <1>1, <1>2 DEF ShotInv

\* The tick: nothing is under way.
LEMMA ShotTimer ==
  ASSUME MaxBehind = 0, Types, HandleTimer PROVE ShotInv'
<1> DEFINE op == [kind |-> "transmit", attitude |-> attitude, rf |-> rf_remote, to |-> "status"]
<1>1. Len(child_queue) \in Nat /\ Len(executor) \in Nat
  BY DEF Types, QueueTypes
<1>2. Len(child_queue) = 0 /\ Len(executor) = 0 /\ child = Resting
  <2> DEFINE busy == IF child = Resting THEN 0 ELSE 1
  <2>1. Len(child_queue) + Len(executor) + busy <= 0 /\ busy \in {0, 1}
    BY DEF HandleTimer
  <2> HIDE DEF busy
  <2>2. Len(child_queue) = 0 /\ Len(executor) = 0 /\ busy = 0
    BY <1>1, <2>1
  <2>3. QED
    BY <2>2 DEF busy
<1>3. child_queue = <<>> /\ executor = <<>>
  BY <1>2, EmptySeq DEF Types, QueueTypes
<1>4. child_queue' = <<op>> /\ executor' = <<>> /\ child' = Resting
  BY <1>2, <1>3, Short DEF HandleTimer, AsyncTransmit
<1>5. op \in Operation /\ op.to = "status"
  <2>1. attitude \in BOOLEAN /\ rf_remote \in BOOLEAN
    BY DEF Types, FlagTypes
  <2>2. QED
    BY <2>1, LoopCallbacksKnown DEF Operation
<1>6. attitude' = TRUE /\ status_outstanding' = 2 /\ pc' = "free"
  BY DEF HandleTimer, ReadImu, Answers
<1> HIDE DEF op
<1>7. Polling'
  BY <1>4, <1>5, <1>6 DEF Polling
<1>8. QED
  BY <1>7 DEF ShotInv

\* A call at the head of the executor, while a poll is under way.
LEMMA PollCalls ==
  ASSUME Polling, executor # <<>>, NEW to, Head(executor) = Call(to)
  PROVE  /\ ~attitude /\ child = Resting /\ child_queue = <<>> /\ pc = "free"
         /\ \/ /\ status_outstanding = 2
               /\ executor \in {<<Call("imu"), Call("status")>>,
                                <<Call("imu"), Call("slot"), Call("status")>>}
            \/ /\ status_outstanding = 1
               /\ executor \in {<<Call("status")>>, <<Call("slot"), Call("status")>>}
<1>1. \A op : executor # <<FinishOf(op)>>
  BY Short, Kinds
<1>2. QED
  BY <1>1 DEF Polling

\* One of the two answers.
LEMMA ShotFirst == ASSUME Types, ShotInv, HandleStatus_First PROVE ShotInv'
<1>1. PICK to \in {"status", "imu"} : executor # <<>> /\ Head(executor) = Call(to)
  BY DEF HandleStatus_First, Runs, StatusCalls
<1>2. ~Commanding
  <2>1. Commanding => status_outstanding <= 0
    BY DEF Commanding
  <2>2. QED
    BY <2>1 DEF HandleStatus_First, Types, LoopTypes
<1>3. Polling
  BY <1>2 DEF ShotInv
<1>4. status_outstanding = 2 /\ status_outstanding' = 1
  BY <1>1, <1>3, PollCalls DEF HandleStatus_First
<1>5. executor' \in {<<Call("status")>>, <<Call("slot"), Call("status")>>}
  <2>1. executor \in {<<Call("imu"), Call("status")>>, <<Call("imu"), Call("slot"), Call("status")>>}
    BY <1>1, <1>3, <1>4, PollCalls
  <2>2. executor' = Tail(executor)
    BY DEF HandleStatus_First
  <2>3. CASE executor = <<Call("imu"), Call("status")>>
    BY <2>2, <2>3, Short
  <2>4. CASE executor = <<Call("imu"), Call("slot"), Call("status")>>
    <3>1. Tail(executor) = <<Call("slot"), Call("status")>>
      BY <2>4
    <3>2. QED
      BY <2>2, <3>1
  <2>5. QED
    BY <2>1, <2>3, <2>4
<1>6. ~attitude' /\ child' = Resting /\ child_queue' = <<>> /\ pc' = "free"
  BY <1>1, <1>3, PollCalls DEF HandleStatus_First
<1>7. Polling'
  BY <1>4, <1>5, <1>6 DEF Polling
<1>8. QED
  BY <1>7 DEF ShotInv

\* What Control requests is a shot that was not sent.
LEMMA ControlShot ==
  ASSUME Types, NEW power \in BOOLEAN, Control(power), UNCHANGED <<status_count, current_command>>
  PROVE  /\ client_command'.shot # NoShot => TakesTrigger /\ client_command'.shot # fired'
         /\ ~TakesTrigger'
         /\ \E op \in CommandOp : child_queue' = Append(child_queue, op)
<1>1. client_command'.shot = Shot
  BY DEF Control
<1>2. Shot # NoShot => TakesTrigger /\ fired' = NoShot
  BY DEF Shot, Control, AddWeapon, TakesTrigger
<1>3. ~TakesTrigger'
  BY DEF TakesTrigger, Control, AddWeapon
<1> DEFINE op == [kind |-> "transmit", attitude |-> attitude, rf |-> rf_remote, to |-> "command"]
<1>4. op \in CommandOp
  <2>1. attitude \in BOOLEAN /\ rf_remote \in BOOLEAN
    BY DEF Types, FlagTypes
  <2>2. QED
    BY <2>1, LoopCallbacksKnown DEF Operation, CommandOp
<1>5. child_queue' = Append(child_queue, op)
  BY DEF Control, AsyncTransmit
<1> HIDE DEF op
<1>6. QED
  BY <1>1, <1>2, <1>3, <1>4, <1>5

\* The second answer: the poll ends, and Fault may command.
LEMMA ShotStatus ==
  ASSUME Types, ShotInv, NEW answering \in SUBSET Servos, NEW faults \in SUBSET answering,
         HandleStatus(answering, faults)
  PROVE  ShotInv'
<1>1. PICK to \in {"status", "imu"} : executor # <<>> /\ Head(executor) = Call(to)
  BY DEF HandleStatus, Runs, StatusCalls
<1>2. ~Commanding
  <2> SUFFICES ASSUME Commanding PROVE FALSE
    OBVIOUS
  <2>1. Head(executor) \in CommandPosted
    BY <1>1 DEF Commanding
  <2>2. QED
    BY <1>1, <2>1, Kinds DEF StatusCalls
<1>3. Polling
  BY <1>2 DEF ShotInv
<1>4. /\ status_outstanding = 1 /\ executor = <<Call("status")>>
      /\ ~attitude /\ child = Resting /\ child_queue = <<>>
  <2>1. status_outstanding = 1
    BY <1>1, <1>3, PollCalls DEF HandleStatus
  <2>2. Head(executor) # Call("slot")
    BY <1>1, Kinds
  <2>3. QED
    BY <1>1, <1>3, <2>1, <2>2, PollCalls, Short
<1>5. executor' = <<>> /\ status_outstanding' <= 0 /\ ~attitude' /\ child' = Resting
  BY <1>4, Short DEF HandleStatus
<1>6. CASE child_queue' = <<>>
  <2>1. executor' \in Seq(CommandPosted) /\ child_queue' \in Seq(CommandOp)
    BY <1>5, <1>6
  <2>2. QED
    BY <1>5, <1>6, <2>1 DEF ShotInv, Commanding
<1>7. CASE Control(FALSE)
  <2>1. UNCHANGED <<status_count, current_command>>
    BY DEF HandleStatus
  <2>2. PICK op \in CommandOp : child_queue' = <<op>>
    BY <1>4, <1>7, <2>1, ControlShot, Short
  <2>3. /\ client_command'.shot # NoShot => client_command'.shot # fired'
        /\ ~TakesTrigger'
    BY <1>7, <2>1, ControlShot
  <2>4. Tail(child_queue') = <<>>
    BY <2>2, Short
  <2>5. executor' \in Seq(CommandPosted) /\ child_queue' \in Seq(CommandOp)
    BY <1>5, <2>2
  <2>6. QED
    BY <1>5, <2>3, <2>4, <2>5 DEF ShotInv, Commanding
<1>8. QED
  BY <1>4, <1>6, <1>7 DEF HandleStatus

\* RunControl's command follows Fault's only if no shot is requested.
LEMMA ShotRun == ASSUME Types, ShotInv, RunControl PROVE ShotInv'
<1>1. pc = "run" /\ pc' = "free" /\ UNCHANGED <<executor, child, attitude, status_outstanding>>
  BY DEF RunControl
<1>2. Commanding
  BY <1>1 DEF ShotInv, Polling
<1>3. Control(mode' = "kActive") /\ UNCHANGED <<status_count, current_command>>
  BY DEF RunControl
<1>4. /\ client_command'.shot # NoShot => TakesTrigger /\ client_command'.shot # fired'
      /\ \E op \in CommandOp : child_queue' = Append(child_queue, op)
  BY <1>3, ControlShot
<1>5. PICK op \in CommandOp : child_queue' = Append(child_queue, op)
  BY <1>4
<1>6. child_queue' \in Seq(CommandOp)
  BY <1>2, <1>5 DEF Commanding
<1>7. client_command'.shot # NoShot => Tail(child_queue') = <<>>
  <2> SUFFICES ASSUME client_command'.shot # NoShot PROVE Tail(child_queue') = <<>>
    OBVIOUS
  <2>1. child_queue = <<>>
    BY <1>1, <1>2, <1>4 DEF Commanding
  <2>2. QED
    BY <1>5, <2>1, Short
<1>8. Commanding'
  BY <1>1, <1>2, <1>4, <1>6, <1>7 DEF Commanding
<1>9. QED
  BY <1>8 DEF ShotInv

\* The RF control's call and the command's, which only leave the executor.
LEMMA ShotCall ==
  ASSUME Types, ShotInv, HandleSlot \/ HandleCommand PROVE ShotInv'
<1>1. PICK to \in {"slot", "command"} : executor # <<>> /\ Head(executor) = Call(to)
  BY DEF HandleSlot, HandleCommand, Runs
<1>2. /\ executor' = Tail(executor) /\ pc = "free"
      /\ UNCHANGED <<child, child_queue, attitude, status_outstanding, pc, client_command, fired>>
  BY DEF HandleSlot, HandleCommand
<1>3. CASE Polling
  <2>1. Head(executor) # Call("imu") /\ Head(executor) # Call("status")
    BY <1>1, Kinds
  <2>2. executor = <<Call("slot"), Call("status")>> /\ status_outstanding = 1
    BY <1>1, <1>3, <2>1, PollCalls, Short
  <2>3. executor' = <<Call("status")>>
    BY <1>2, <2>2, Short
  <2>4. Polling'
    BY <1>1, <1>2, <1>3, <2>2, <2>3, PollCalls DEF Polling
  <2>5. QED
    BY <2>4 DEF ShotInv
<1>4. CASE Commanding
  <2>1. executor' \in Seq(CommandPosted)
    BY <1>1, <1>2, <1>4 DEF Commanding
  <2>2. QED
    BY <1>2, <1>4, <2>1 DEF Commanding, ShotInv
<1>5. QED
  BY <1>3, <1>4 DEF ShotInv

\* The child takes up an operation: the one command that a shot waits for.
LEMMA ShotSetup == ASSUME Types, ShotInv, ChildSetup PROVE ShotInv'
<1>1. /\ child = Resting /\ child_queue # <<>> /\ child_queue' = Tail(child_queue)
      /\ child' = [op |-> Head(child_queue), polled |-> power_poll]
      /\ UNCHANGED <<executor, attitude, status_outstanding, pc, client_command, last_trigger,
                     status_count, current_command>>
  BY DEF ChildSetup, CHILD_Setup
<1>2. child' # Resting /\ child'.op = Head(child_queue)
  <2>1. DOMAIN child' # DOMAIN Resting
    BY <1>1 DEF Resting
  <2>2. QED
    BY <1>1, <2>1
<1>3. CASE Polling
  <2>1. PICK op \in Operation : /\ op.to = "status" /\ executor = <<>> /\ child_queue = <<op>>
                                /\ attitude /\ status_outstanding = 2
    BY <1>1, <1>3 DEF Polling
  <2>2. child_queue' = <<>> /\ child'.op = op
    BY <1>1, <1>2, <2>1, Short
  <2>3. pc' = "free"
    BY <1>1, <1>3 DEF Polling
  <2>4. Polling'
    BY <1>1, <1>2, <2>1, <2>2, <2>3 DEF Polling
  <2>5. QED
    BY <2>4 DEF ShotInv
<1>4. CASE Commanding
  <2>1. child_queue' \in Seq(CommandOp) /\ child'.op \in CommandOp
    BY <1>1, <1>2, <1>4 DEF Commanding
  <2>2. client_command.shot # NoShot => child_queue' = <<>>
    BY <1>1, <1>4 DEF Commanding
  <2>3. pc' = "run" => child_queue' = <<>> \/ ~TakesTrigger'
    <3>1. pc = "run" => ~TakesTrigger
      BY <1>1, <1>4 DEF Commanding
    <3>2. QED
      BY <1>1, <3>1 DEF TakesTrigger
  <2>4. Commanding'
    BY <1>1, <1>4, <2>1, <2>2, <2>3 DEF Commanding
  <2>5. QED
    BY <2>4 DEF ShotInv
<1>5. QED
  BY <1>3, <1>4 DEF ShotInv

\* The child posts the result.
LEMMA ShotDone ==
  ASSUME Types, ShotInv, CHILD_Done(FALSE), UNCHANGED turretVars PROVE ShotInv'
<1>1. /\ child # Resting /\ child' = Resting /\ executor' = Append(executor, FinishOf(child.op))
      /\ UNCHANGED <<child_queue, attitude, status_outstanding, pc, client_command, last_trigger,
                     status_count, current_command, fired>>
  BY DEF CHILD_Done, FinishOf
<1>2. CASE Polling
  <2>1. PICK op \in Operation : /\ op.to = "status" /\ executor = <<>> /\ child.op = op
                                /\ attitude /\ status_outstanding = 2 /\ child_queue = <<>>
    BY <1>1, <1>2 DEF Polling
  <2>2. executor' = <<FinishOf(op)>>
    BY <1>1, <2>1, Short
  <2>3. pc = "free"
    BY <1>2 DEF Polling
  <2>4. Polling'
    BY <1>1, <2>1, <2>2, <2>3 DEF Polling
  <2>5. QED
    BY <2>4 DEF ShotInv
<1>3. CASE Commanding
  <2>1. FinishOf(child.op) \in CommandPosted
    BY <1>1, <1>3 DEF Commanding, CommandPosted
  <2>2. executor' \in Seq(CommandPosted)
    BY <1>1, <1>3, <2>1 DEF Commanding
  <2>3. TakesTrigger' = TakesTrigger
    BY <1>1 DEF TakesTrigger
  <2>4. Commanding'
    BY <1>1, <1>3, <2>2, <2>3 DEF Commanding
  <2>5. QED
    BY <2>4 DEF ShotInv
<1>4. QED
  BY <1>2, <1>3 DEF ShotInv

\* The parent finishes the operation.
LEMMA ShotFinish ==
  ASSUME Types, ShotInv, FinishTransmit, pc = "free", UNCHANGED turretVars PROVE ShotInv'
<1> DEFINE imu == IF attitude THEN <<Call("imu")>> ELSE <<>>
<1>1. /\ executor # <<>> /\ Head(executor).kind = "finish" /\ attitude' = FALSE
      /\ executor' = Tail(executor) \o imu \o RfCalls \o <<Call(Head(executor).op.to)>>
      /\ UNCHANGED <<child, child_queue, status_outstanding, pc, client_command, fired>>
  BY DEF FinishTransmit, FinishNext
<1>2. CASE Polling
  <2>1. \A to : Head(executor) # Call(to)
    BY <1>1, Kinds
  <2>2. PICK op \in Operation : /\ op.to = "status" /\ executor = <<FinishOf(op)>>
                                /\ attitude /\ status_outstanding = 2
                                /\ child = Resting /\ child_queue = <<>>
    BY <1>1, <1>2, <2>1, Short DEF Polling
  <2>3. Tail(executor) \o imu = <<Call("imu")>> /\ Head(executor).op.to = "status"
    BY <2>2, Short, Kinds
  <2>4. executor' = <<Call("imu")>> \o RfCalls \o <<Call("status")>>
    BY <1>1, <2>3
  <2>5. executor' \in {<<Call("imu"), Call("status")>>, <<Call("imu"), Call("slot"), Call("status")>>}
    <3>1. CASE rf_remote
      BY <2>4, <3>1, Pair, Triple DEF RfCalls
    <3>2. CASE ~rf_remote
      BY <2>4, <3>2, Short, Pair DEF RfCalls
    <3>3. QED
      BY <3>1, <3>2
  <2>6. Polling'
    BY <1>1, <2>2, <2>5 DEF Polling
  <2>7. QED
    BY <2>6 DEF ShotInv
<1>3. CASE Commanding
  <2>1. Head(executor) \in CommandPosted /\ Tail(executor) \in Seq(CommandPosted)
    BY <1>1, <1>3 DEF Commanding
  <2>2. Head(executor).op.to = "command"
    BY <1>1, <2>1, Kinds DEF CommandOp
  <2>3. imu \in Seq(CommandPosted)
    BY <1>3 DEF Commanding
  <2>4. RfCalls \in Seq(CommandPosted) /\ <<Call("command")>> \in Seq(CommandPosted)
    <3>1. Call("slot") \in CommandPosted /\ Call("command") \in CommandPosted
      BY DEF CommandPosted
    <3>2. QED
      BY <3>1 DEF RfCalls
  <2>5. executor' \in Seq(CommandPosted)
    BY <1>1, <2>1, <2>2, <2>3, <2>4
  <2>6. Commanding'
    BY <1>1, <1>3, <2>5 DEF Commanding
  <2>7. QED
    BY <2>6 DEF ShotInv
<1>4. QED
  BY <1>2, <1>3 DEF ShotInv

\* A shot that waits was not sent.
LEMMA ShotNotSent ==
  ASSUME ShotInv, SendsCommand, client_command.shot # NoShot
  PROVE  client_command.shot # fired
<1>1. child_queue # <<>> /\ Head(child_queue).to = "command"
  BY DEF SendsCommand
<1>2. ~Polling
  <2>1. \A op \in Operation : op.to = "status" => child_queue # <<op>>
    BY <1>1, Short
  <2>2. QED
    BY <1>1, <2>1 DEF Polling
<1>3. QED
  BY <1>1, <1>2 DEF ShotInv, Commanding

\* When every operation is finished before the timer fires again, a trigger sequence is
\* sent to the weapon as a shot at most once: although Fault and RunControl may both
\* command on one status, although the child takes client_command_ as it finds it, and
\* whatever the servos, the commands and the RF control do.
THEOREM ShotOnceAlways == ASSUME MaxBehind = 0 PROVE Spec => ShotOncePerSequence
<1>1. Init => ShotInv
  <2> SUFFICES ASSUME Init PROVE Commanding
    BY DEF ShotInv
  <2>1. /\ executor = <<>> /\ child_queue = <<>> /\ child = Resting /\ attitude = FALSE
        /\ status_outstanding = 0 /\ pc = "free"
    BY DEF Init, HatInit
  <2>2. QED
    BY <2>1 DEF Commanding
<1>2. Types /\ ShotInv /\ [Next]_vars => ShotInv'
  <2> SUFFICES ASSUME Types, ShotInv, [Next]_vars PROVE ShotInv'
    OBVIOUS
  <2>1. CASE \/ (\E c \in Commands : Command(c)) \/ CommandAges \/ RfStart
             \/ ((\E s \in Slots : RfArrives(s)) /\ UNCHANGED turretVars) \/ UNCHANGED vars
    BY <2>1, ShotKept DEF Command, CommandAges, RfStart, RfArrives
  <2>2. CASE HandleTimer
    BY <2>2, ShotTimer
  <2>3. QED
    BY <2>1, <2>2, ShotFirst, ShotStatus, ShotRun, ShotCall, ShotSetup, ShotDone, ShotFinish
       DEF Next, StatusReply, HatStep
<1>3. ShotInv => (SendsCommand /\ client_command.shot # NoShot => client_command.shot # fired)
  BY ShotNotSent
<1>4. ShotInv /\ [Next]_vars
        => [child = Resting /\ child' # Resting /\ SendsCommand
              /\ client_command.shot # NoShot => client_command.shot # fired]_vars
  BY <1>3
<1>5. QED
  BY <1>1, <1>2, <1>4, TypesAlways, PTL DEF Spec, ShotOncePerSequence
=============================================================================
