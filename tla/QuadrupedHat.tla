---------------------------- MODULE QuadrupedHat ----------------------------
(***************************************************************************)
(* The pi3hat as the quadruped uses it: the control loop                   *)
(* (mech/quadruped_control.cc) polls with Cycle and commands with          *)
(* AsyncTransmit, the RF control (mech/rf_control.cc) waits for slots and  *)
(* reports telemetry in others.  What the loop computes is in              *)
(* QuadrupedControl; here only its calls matter.                           *)
(***************************************************************************)
EXTENDS Pi3hatWrapper

\* The loop passes these two with its operations.
ASSUME LoopCallbacksKnown == {"status", "command"} \subseteq Callbacks

VARIABLES
  outstanding,  \* outstanding_ of the control loop
  rf_started    \* RfControl::AsyncStart has run

vars == <<hatVars, outstanding, rf_started>>

TypeOK == HatTypeOK /\ {outstanding, rf_started} \subseteq BOOLEAN

Init == HatInit /\ outstanding = FALSE /\ rf_started = FALSE

\* The hat's state that no operation called from the parent changes.
hatOwn == <<child, rf_bitfield, imu_data, power_poll, running, air, rx_rf,
            power_switch>>

-----------------------------------------------------------------------------
\* Mutant: a tick does not look at outstanding_.
HandleTimer_Unguarded ==
  /\ running /\ Len(child_queue) < 2
  /\ outstanding' = TRUE
  /\ Cycle("status")
  /\ UNCHANGED <<hatOwn, executor, attitude, rf_remote, rf_tx_slots, rf_started>>

HandleTimer ==
  /\ running /\ ~outstanding
  /\ outstanding' = TRUE
  /\ Cycle("status")
  /\ UNCHANGED <<hatOwn, executor, attitude, rf_remote, rf_tx_slots, rf_started>>

\* HandleStatus drops a cycle with too few replies, or has nothing to command,
HandleStatus_Dropped ==
  /\ Runs(Call("status"))
  /\ executor' = Tail(executor)
  /\ outstanding' = FALSE
  /\ UNCHANGED <<hatOwn, child_queue, attitude, rf_remote, rf_tx_slots,
                 rf_to_send, pi3data, sample, rf_started>>

\* or runs the control and transmits.
HandleStatus ==
  /\ Runs(Call("status"))
  /\ executor' = Tail(executor)
  /\ AsyncTransmit("command")
  /\ UNCHANGED <<hatOwn, attitude, rf_remote, rf_tx_slots, sample, outstanding,
                 rf_started>>

HandleCommand ==
  /\ Runs(Call("command"))
  /\ executor' = Tail(executor)
  /\ outstanding' = FALSE
  /\ UNCHANGED <<hatOwn, child_queue, attitude, rf_remote, rf_tx_slots,
                 rf_to_send, pi3data, sample, rf_started>>

-----------------------------------------------------------------------------
\* RfControl::AsyncStart.
RfStart ==
  /\ running /\ ~rf_started
  /\ rf_started' = TRUE
  /\ AsyncWaitForSlot
  /\ UNCHANGED <<hatOwn, executor, child_queue, attitude, rf_tx_slots,
                 rf_to_send, pi3data, sample, outstanding>>

\* ReportTelemetry, which does nothing when it did a moment ago.
ReportTelemetry ==
  \/ \E values \in [Slots -> SlotValues] : tx_slots(values)
  \/ UNCHANGED <<rf_tx_slots, rf_to_send>>

\* HandleSlot: telemetry is reported, and the wait begins again.
HandleSlot ==
  /\ Runs(Call("slot"))
  /\ executor' = Tail(executor)
  /\ ReportTelemetry
  /\ AsyncWaitForSlot
  /\ UNCHANGED <<hatOwn, child_queue, attitude, pi3data, sample, outstanding,
                 rf_started>>

Next ==
  \/ HatNext /\ UNCHANGED <<outstanding, rf_started>>
  \/ HandleTimer \/ HandleStatus_Dropped \/ HandleStatus \/ HandleCommand
  \/ RfStart \/ HandleSlot

Spec == Init /\ [][Next]_vars

\* Timers repeat, both threads run what is posted to them, the hat finishes
\* what it is given, and the power_dist board answers a poll again and again.
Fairness ==
  /\ WF_vars(HandleTimer)
  /\ WF_vars(HandlePowerPoll /\ UNCHANGED <<outstanding, rf_started>>)
  /\ WF_vars(CHILD_Setup /\ UNCHANGED <<outstanding, rf_started>>)
  /\ WF_vars(CHILD_Done(FALSE) /\ UNCHANGED <<outstanding, rf_started>>)
  /\ SF_vars(CHILD_Done(TRUE) /\ UNCHANGED <<outstanding, rf_started>>)
  /\ WF_vars((Shutdown \/ FinishCycle \/ FinishTransmit)
               /\ UNCHANGED <<outstanding, rf_started>>)
  /\ WF_vars(HandleStatus_Dropped \/ HandleStatus)
  /\ WF_vars(HandleCommand) /\ WF_vars(HandleSlot)

FairSpec == Spec /\ Fairness

-----------------------------------------------------------------------------
\* An operation whose callback has not run yet, wherever it is.
Owed(to) ==
  \/ \E i \in DOMAIN executor : \/ executor[i] = Call(to)
                                 \/ /\ executor[i].kind = "finish"
                                    /\ executor[i].op.to = to
  \/ child # Resting /\ child.op.to = to
  \/ \E i \in DOMAIN child_queue : child_queue[i].to = to

Loop == INSTANCE ControlLoop WITH
  at <- IF Owed("command") THEN "command"
        ELSE IF Owed("status") THEN "status" ELSE "idle"

\* Through both threads and their queues, every poll and every command is
\* answered once, in turn: the hat is what the control loop takes it for.
LoopImplemented == Loop!Spec
=============================================================================
