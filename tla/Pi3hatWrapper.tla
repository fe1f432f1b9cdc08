--------------------------- MODULE Pi3hatWrapper ---------------------------
(***************************************************************************)
(* The interface to the pi3hat (mech/pi3hat_wrapper.cc).  The parent       *)
(* thread runs the handlers of the executor, one at a time; the child      *)
(* thread runs what is posted to child_context_ and talks to the hat.      *)
(* What is posted from one thread to the other runs in the order posted.   *)
(*                                                                         *)
(* This module has the operations of the wrapper and the steps it takes by *)
(* itself.  The modules that extend it add the clients that call it.       *)
(* Tunnels are not modelled.                                               *)
(***************************************************************************)
EXTENDS Naturals, Sequences

CONSTANTS
  Slots,       \* the RF slots in use
  SlotValues,  \* what a client may put into a transmit slot
  Callbacks    \* the completion handlers clients pass with an operation

ASSUME SlotValuesNonempty == SlotValues # {}

VARIABLES
  executor,     \* posted to executor_
  child_queue,  \* posted to child_context_
  child,        \* the operation the child runs: at most one
  attitude,     \* attitude_ is set: a ReadImu waits
  rf_remote,    \* rf_remote_ is set: an AsyncWaitForSlot waits
  rf_bitfield,  \* what the waiting client is told
  rf_tx_slots,  \* rf_tx_slots_
  rf_to_send,   \* rf_to_send_
  pi3data,      \* pi3data_, the data both threads use
  sample,       \* pi3data_.attitude: taken since it was last asked for?
  imu_data,     \* the sample that was last delivered
  power_poll,   \* power_poll_
  running,      \* the program has not exited
  air,          \* the hat: what it transmits in each slot
  rx_rf,        \* the hat: slots received and not yet read
  power_switch  \* the power_dist board: the switch is on

hatVars == <<executor, child_queue, child, attitude, rf_remote, rf_bitfield,
             rf_tx_slots, rf_to_send, pi3data, sample, imu_data, power_poll,
             running, air, rx_rf, power_switch>>

Samples == {"none", "old", "new"}
Operation == [kind: {"cycle", "transmit"}, attitude: BOOLEAN, rf: BOOLEAN,
              to: Callbacks]
Posted == [kind: {"finish"}, op: Operation]
            \cup [kind: {"call"}, to: Callbacks \cup {"imu", "slot"}]
Pi3Data == [rf_to_send: SUBSET Slots, rf_tx_slots: [Slots -> SlotValues],
            rx_rf: SUBSET Slots, power_off: BOOLEAN]

HatTypeOK ==
  /\ executor \in Seq(Posted)
  /\ child_queue \in Seq(Operation)
  /\ child \in [op: Operation, polled: BOOLEAN] \cup {[op |-> "none"]}
  /\ {attitude, rf_remote, power_poll, running, power_switch} \subseteq BOOLEAN
  /\ rf_bitfield \in SUBSET Slots
  /\ rf_tx_slots \in [Slots -> SlotValues]
  /\ rf_to_send \in SUBSET Slots
  /\ pi3data \in Pi3Data
  /\ sample \in Samples
  /\ imu_data \in Samples \cup {"unset"}
  /\ air \in [Slots -> SlotValues]
  /\ rx_rf \in SUBSET Slots

Resting == [op |-> "none"]
Blank == [s \in Slots |-> CHOOSE v \in SlotValues : TRUE]

HatInit ==
  /\ executor = <<>> /\ child_queue = <<>> /\ child = Resting
  /\ attitude = FALSE /\ rf_remote = FALSE /\ rf_bitfield = {}
  /\ rf_tx_slots = Blank /\ rf_to_send = {} /\ air = Blank
  /\ pi3data = [rf_to_send |-> {}, rf_tx_slots |-> Blank, rx_rf |-> {},
                power_off |-> FALSE]
  /\ sample = "none" /\ imu_data = "unset"
  /\ power_poll = FALSE /\ running = TRUE /\ rx_rf = {} /\ power_switch = TRUE

-----------------------------------------------------------------------------
(* The operations, called from handlers of the parent.                     *)

\* A sample is new when it was taken after it was asked for.
Asked == IF sample = "new" THEN "old" ELSE sample

ReadImu ==
  /\ attitude' = TRUE
  /\ sample' = Asked

AsyncWaitForSlot == rf_remote' = TRUE

\* tx_slot, for all the slots that one report of telemetry sets.
tx_slots(values) ==
  /\ rf_tx_slots' = values
  /\ rf_to_send' = Slots

\* Mutant: rf_to_send_ is cleared before it is copied.
CopyRf_ClearedFirst ==
  /\ pi3data' = IF rf_to_send = {} THEN pi3data
                ELSE [pi3data EXCEPT !.rf_to_send = {},
                                     !.rf_tx_slots = rf_tx_slots]
  /\ rf_to_send' = {}

\* What AsyncTransmit and Cycle begin with, on the parent's thread.
CopyRf ==
  /\ pi3data' = IF rf_to_send = {} THEN pi3data
                ELSE [pi3data EXCEPT !.rf_to_send = rf_to_send,
                                     !.rf_tx_slots = rf_tx_slots]
  /\ rf_to_send' = {}

\* The flags are captured when the operation is posted.
AsyncTransmit(to) ==
  /\ CopyRf
  /\ child_queue' = Append(child_queue,
       [kind |-> "transmit", attitude |-> attitude, rf |-> rf_remote, to |-> to])

\* Mutant: the attitude is requested only if a ReadImu waits.
Cycle_AsTransmit(to) ==
  /\ CopyRf
  /\ sample' = Asked
  /\ child_queue' = Append(child_queue,
       [kind |-> "cycle", attitude |-> attitude, rf |-> rf_remote, to |-> to])

Cycle(to) ==
  /\ CopyRf
  /\ sample' = Asked
  /\ child_queue' = Append(child_queue,
       [kind |-> "cycle", attitude |-> TRUE, rf |-> rf_remote, to |-> to])

-----------------------------------------------------------------------------
(* The child's thread.                                                     *)

\* CHILD_SetupRf and CHILD_SetupCAN.  Slots in pi3data_.rf_to_send are handed
\* to the hat with every operation, as nothing removes them.
CHILD_Setup ==
  /\ running /\ child = Resting /\ child_queue # <<>>
  /\ child' = [op |-> Head(child_queue), polled |-> power_poll]
  /\ child_queue' = Tail(child_queue)
  /\ power_poll' = FALSE
  /\ air' = [s \in Slots |-> IF s \in pi3data.rf_to_send
                             THEN pi3data.rf_tx_slots[s] ELSE air[s]]
  /\ UNCHANGED <<executor, attitude, rf_remote, rf_bitfield, rf_tx_slots,
                 rf_to_send, pi3data, sample, imu_data, running, rx_rf,
                 power_switch>>

\* Mutant: the RF data are read whether or not a client waits for them.
RequestRf_Always(op) == TRUE

RequestRf(op) == op.rf

\* The hat has run the operation (Pi3Hat::Cycle) and the child posts the
\* result.  The power_dist board answers a poll, or its frame is missed.
CHILD_Done(answered) ==
  /\ running /\ child # Resting
  /\ answered => child.polled
  /\ pi3data' = [pi3data EXCEPT
       !.rx_rf = IF RequestRf(child.op) THEN rx_rf ELSE {},
       !.power_off = answered /\ ~power_switch]
  /\ rx_rf' = IF RequestRf(child.op) THEN {} ELSE rx_rf
  /\ sample' = IF child.op.attitude THEN "new" ELSE sample
  /\ executor' = Append(executor, [kind |-> "finish", op |-> child.op])
  /\ child' = Resting
  /\ UNCHANGED <<child_queue, attitude, rf_remote, rf_bitfield, rf_tx_slots,
                 rf_to_send, imu_data, power_poll, running, air, power_switch>>

-----------------------------------------------------------------------------
(* Back on the parent's thread.                                            *)

Call(to) == [kind |-> "call", to |-> to]
Runs(item) == running /\ executor # <<>> /\ Head(executor) = item
FinishNext(kind) ==
  /\ running /\ executor # <<>>
  /\ Head(executor).kind = "finish" /\ Head(executor).op.kind = kind

\* Mutant: the switch is read the wrong way round.
PowerOff_Inverted == pi3data.power_off = FALSE

\* FinishCAN finds that the power switch is off.
PowerOff == pi3data.power_off

Shutdown ==
  /\ FinishNext("cycle") \/ FinishNext("transmit")
  /\ PowerOff
  /\ running' = FALSE
  /\ UNCHANGED <<executor, child_queue, child, attitude, rf_remote,
                 rf_bitfield, rf_tx_slots, rf_to_send, pi3data, sample,
                 imu_data, power_poll, air, rx_rf, power_switch>>

\* FinishRF.
FinishRF ==
  /\ rf_bitfield' = IF rf_remote THEN pi3data.rx_rf ELSE rf_bitfield
  /\ rf_remote' = FALSE

RfCalls == IF rf_remote THEN <<Call("slot")>> ELSE <<>>

FinishCycle ==
  /\ FinishNext("cycle") /\ ~PowerOff
  /\ imu_data' = sample
  /\ FinishRF
  /\ executor' = Tail(executor) \o RfCalls \o <<Call(Head(executor).op.to)>>
  /\ UNCHANGED <<child_queue, child, attitude, rf_tx_slots, rf_to_send, pi3data,
                 sample, power_poll, running, air, rx_rf, power_switch>>

FinishTransmit ==
  /\ FinishNext("transmit") /\ ~PowerOff
  /\ imu_data' = IF attitude THEN sample ELSE imu_data
  /\ attitude' = FALSE
  /\ FinishRF
  /\ executor' = Tail(executor)
                   \o (IF attitude THEN <<Call("imu")>> ELSE <<>>)
                   \o RfCalls \o <<Call(Head(executor).op.to)>>
  /\ UNCHANGED <<child_queue, child, rf_tx_slots, rf_to_send, pi3data, sample,
                 power_poll, running, air, rx_rf, power_switch>>

HandlePowerPoll ==
  /\ running
  /\ power_poll' = TRUE
  /\ UNCHANGED <<executor, child_queue, child, attitude, rf_remote,
                 rf_bitfield, rf_tx_slots, rf_to_send, pi3data, sample,
                 imu_data, running, air, rx_rf, power_switch>>

-----------------------------------------------------------------------------
(* The world outside: the RF link and the power switch.                    *)

RfArrives(s) ==
  /\ rx_rf' = rx_rf \cup {s}
  /\ UNCHANGED <<executor, child_queue, child, attitude, rf_remote,
                 rf_bitfield, rf_tx_slots, rf_to_send, pi3data, sample,
                 imu_data, power_poll, running, air, power_switch>>

SwitchOff ==
  /\ power_switch /\ power_switch' = FALSE
  /\ UNCHANGED <<executor, child_queue, child, attitude, rf_remote,
                 rf_bitfield, rf_tx_slots, rf_to_send, pi3data, sample,
                 imu_data, power_poll, running, air, rx_rf>>

HatNext ==
  \/ CHILD_Setup \/ \E answered \in BOOLEAN : CHILD_Done(answered)
  \/ Shutdown \/ FinishCycle \/ FinishTransmit \/ HandlePowerPoll
  \/ \E s \in Slots : RfArrives(s)
  \/ SwitchOff

-----------------------------------------------------------------------------
(* Properties of the wrapper, for any client.                              *)

\* pi3data_ is "accessed by both threads, but never at the same time": no
\* Finish is to run in the parent while the child runs an operation.
NeverSameTime ==
  executor # <<>> /\ Head(executor).kind = "finish" => child = Resting

\* What ReadImu or Cycle deliver is a sample taken after the call.
ImuSampleNew == imu_data \in {"unset", "new"}

\* A transmit slot that the hat does not send as the client set it last is
\* still marked, or is marked in pi3data_ with an operation yet to be set up.
TxNotLost ==
  \A s \in Slots :
    \/ air[s] = rf_tx_slots[s]
    \/ s \in rf_to_send
    \/ /\ s \in pi3data.rf_to_send
       /\ pi3data.rf_tx_slots[s] = rf_tx_slots[s]
       /\ child_queue # <<>>

\* Slots that were read from the hat reach a client: one waits for them when
\* the operation that read them is finished.
RxNotLost ==
  /\ executor # <<>> /\ Head(executor).kind = "finish"
  /\ pi3data.rx_rf # {}
  => rf_remote

\* Once the power switch is off, the program ends.
PowerOffHonoured == ~power_switch ~> ~running
=============================================================================
