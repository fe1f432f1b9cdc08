------------------------- MODULE QuadrupedHatProofs -------------------------
(***************************************************************************)
(* Proofs about QuadrupedHat, for any RF slots and what is put into them.  *)
(*                                                                         *)
(* The invariant says where the loop's one operation is: on its way to the *)
(* child, with it, on its way back, or as the call of its handler, which   *)
(* the call of the RF control may precede.  All else follows from that:    *)
(* both threads never use pi3data_ at the same time because there is only  *)
(* one operation, and what the RF control waits for when an operation is   *)
(* posted it still waits for when that is finished.                        *)
(***************************************************************************)
EXTENDS QuadrupedHat, SequenceTheorems, TLAPS

USE DEF hatVars, hatOwn, vars

\* The handlers an operation of the loop answers.
Answers == {"status", "command"}

\* An operation of the loop: a Cycle asks for the attitude, an AsyncTransmit
\* does not, and one that asks for the RF slots does so for a client that waits.
LoopOp(op, to) ==
  /\ op \in Operation /\ op.to = to
  /\ op.kind = IF to = "status" THEN "cycle" ELSE "transmit"
  /\ op.attitude = (to = "status")
  /\ op.rf => rf_remote

\* The child's result, posted to the parent.
Finish(op) == [kind |-> "finish", op |-> op]

\* Where the operation whose handler is to is.
Queued(to) ==
  /\ executor = <<>> /\ child = Resting
  /\ \E op \in Operation : LoopOp(op, to) /\ child_queue = <<op>>

Running(to) ==
  /\ executor = <<>> /\ child_queue = <<>>
  /\ \E op \in Operation, polled \in BOOLEAN :
       LoopOp(op, to) /\ child = [op |-> op, polled |-> polled]

Finishing(to) ==
  /\ child = Resting /\ child_queue = <<>>
  /\ \E op \in Operation :
       /\ LoopOp(op, to) /\ executor = <<Finish(op)>>
       /\ op.rf \/ pi3data.rx_rf = {}
  /\ to = "status" => sample = "new"

Calling(to) ==
  /\ child = Resting /\ child_queue = <<>>
  /\ executor \in {<<Call(to)>>, <<Call("slot"), Call(to)>>}

\* It is in one of these places.
InFlight(to) == Queued(to) \/ Running(to) \/ Finishing(to) \/ Calling(to)

\* Neither thread has anything to do.
NoOperation == executor = <<>> /\ child = Resting /\ child_queue = <<>>

\* While the loop waits for an answer there is one operation, and else none.
OneOperation ==
  IF outstanding THEN \E to \in Answers : InFlight(to) ELSE NoOperation

\* A slot that is not marked is, or will be with the operation that waits, on the
\* air as it was set last; one still listed in pi3data_ from an earlier operation
\* is listed with that value.
TxPlaces ==
  \A s \in Slots :
    \/ s \in rf_to_send
    \/ /\ s \in pi3data.rf_to_send /\ pi3data.rf_tx_slots[s] = rf_tx_slots[s]
       /\ child_queue # <<>> \/ air[s] = rf_tx_slots[s]
    \/ s \notin pi3data.rf_to_send /\ air[s] = rf_tx_slots[s]

\* The types of what is not said by OneOperation.
DataTypeOK ==
  /\ {rf_remote, power_poll, running, power_switch, outstanding, rf_started} \subseteq BOOLEAN
  /\ rf_bitfield \in SUBSET Slots /\ rf_tx_slots \in [Slots -> SlotValues]
  /\ rf_to_send \in SUBSET Slots /\ pi3data \in Pi3Data /\ sample \in Samples
  /\ air \in [Slots -> SlotValues] /\ rx_rf \in SUBSET Slots

\* The inductive invariant of the loop with the pi3hat.
HatInv == /\ DataTypeOK /\ attitude = FALSE
          /\ OneOperation /\ ImuSampleNew /\ TxPlaces

-----------------------------------------------------------------------------
(* Sequences of at most two elements, and records.                         *)

\* What the operations on them give.
LEMMA Short ==
  ASSUME NEW x, NEW y
  PROVE  /\ <<x>> # <<>> /\ <<x, y>> # <<>> /\ <<x>> # <<x, y>>
         /\ Head(<<x>>) = x /\ Head(<<x, y>>) = x
         /\ Tail(<<x>>) = <<>> /\ Tail(<<x, y>>) = <<y>>
         /\ Append(<<>>, x) = <<x>>
         /\ <<>> \o <<x>> = <<x>> /\ <<>> \o <<>> = <<>>
         /\ DOMAIN <<x>> = {1} /\ DOMAIN <<x, y>> = {1, 2} /\ DOMAIN <<>> = {}
         /\ <<x>>[1] = x /\ <<x, y>>[1] = x /\ <<x, y>>[2] = y
  OBVIOUS

\* Two sequences of one element are put together.
LEMMA Pair == ASSUME NEW x, NEW y PROVE <<x>> \o <<y>> = <<x, y>>
<1> DEFINE S == {x, y}
           a == <<x>> \o <<y>>
           b == <<x, y>>
<1>1. a \in Seq(S) /\ b \in Seq(S)
  OBVIOUS
<1>2. Len(a) = Len(b) /\ Len(b) = 2
  OBVIOUS
<1>3. a[1] = b[1]
  OBVIOUS
<1>4. a[2] = b[2]
  OBVIOUS
<1>5. \A i \in 1..Len(a) : a[i] = b[i]
  BY <1>2, <1>3, <1>4
<1> HIDE DEF a, b, S
<1>6. a = b
  BY <1>1, <1>2, <1>5, SeqEqual
<1>7. QED
  BY <1>6 DEF a, b

\* The child that runs an operation is not resting.
LEMMA Busy ==
  ASSUME NEW op \in Operation, NEW polled \in BOOLEAN
  PROVE  [op |-> op, polled |-> polled] # Resting
<1>1. DOMAIN [op |-> op, polled |-> polled] # DOMAIN Resting
  BY DEF Resting
<1>2. QED
  BY <1>1

\* What is posted from both threads is told apart by its kind and handler.
LEMMA Kinds ==
  /\ \A op, to : Finish(op).kind = "finish" /\ Finish(op).op = op
       /\ Call(to).kind = "call" /\ Call(to).to = to /\ Call(to) # Finish(op)
  /\ Call("status") # Call("command") /\ Call("slot") # Call("command")
  /\ Call("status") # Call("slot")
<1>1. \A op, to : Finish(op).kind = "finish" /\ Finish(op).op = op
       /\ Call(to).kind = "call" /\ Call(to).to = to
  BY DEF Finish, Call
<1>2. QED
  BY <1>1

-----------------------------------------------------------------------------
(* The invariant.                                                          *)

\* At the start nothing is under way.
LEMMA HatInitially == Init => HatInv
<1> SUFFICES ASSUME Init PROVE HatInv
  OBVIOUS
<1>1. Blank \in [Slots -> SlotValues]
  BY SlotValuesNonempty DEF Blank
<1>2. DataTypeOK
  BY <1>1 DEF Init, HatInit, DataTypeOK, Pi3Data, Samples
<1>3. OneOperation
  BY DEF Init, HatInit, OneOperation, NoOperation
<1>4. ImuSampleNew /\ TxPlaces
  BY DEF Init, HatInit, ImuSampleNew, TxPlaces
<1>5. QED
  BY <1>2, <1>3, <1>4 DEF HatInv, Init, HatInit

\* Whoever waits for RF slots when the operation is posted waits on: the place of
\* the operation does not change while only others step.
LEMMA PlaceKept ==
  ASSUME OneOperation,
         UNCHANGED <<executor, child, child_queue, outstanding, sample>>,
         pi3data'.rx_rf = pi3data.rx_rf, rf_remote => rf_remote'
  PROVE  OneOperation'
<1>1. ASSUME NEW op, NEW to \in Answers, LoopOp(op, to) PROVE LoopOp(op, to)'
  BY <1>1 DEF LoopOp
<1>2. ASSUME NEW to \in Answers PROVE InFlight(to) => InFlight(to)'
  <2>1. Queued(to) => Queued(to)'
    BY <1>1 DEF Queued
  <2>2. Running(to) => Running(to)'
    BY <1>1 DEF Running
  <2>3. Finishing(to) => Finishing(to)'
    BY <1>1 DEF Finishing
  <2>4. Calling(to) => Calling(to)'
    BY DEF Calling
  <2>5. QED
    BY <2>1, <2>2, <2>3, <2>4 DEF InFlight
<1>3. QED
  BY <1>2 DEF OneOperation, NoOperation

\* CopyRf keeps the types and, with an operation about to be queued where none
\* was, every slot's value.
LEMMA CopyRfKeeps ==
  ASSUME DataTypeOK, TxPlaces, CopyRf, child_queue = <<>>, child_queue' # <<>>,
         UNCHANGED <<air, rf_tx_slots>>
  PROVE  /\ pi3data' \in Pi3Data /\ rf_to_send' \in SUBSET Slots
         /\ pi3data'.rx_rf = pi3data.rx_rf
         /\ TxPlaces'
<1>1. CASE rf_to_send = {}
  <2>1. pi3data' = pi3data /\ rf_to_send' = {}
    BY <1>1 DEF CopyRf
  <2>2. QED
    BY <1>1, <2>1 DEF DataTypeOK, TxPlaces
<1>2. CASE rf_to_send # {}
  <2>1. /\ pi3data' = [pi3data EXCEPT !.rf_to_send = rf_to_send, !.rf_tx_slots = rf_tx_slots]
        /\ rf_to_send' = {}
    BY <1>2 DEF CopyRf
  <2>2. /\ pi3data' \in Pi3Data
        /\ pi3data'.rf_to_send = rf_to_send /\ pi3data'.rf_tx_slots = rf_tx_slots
        /\ pi3data'.rx_rf = pi3data.rx_rf
    BY <2>1 DEF DataTypeOK, Pi3Data
  <2>3. TxPlaces'
    BY <2>1, <2>2 DEF TxPlaces
  <2>4. QED
    BY <2>1, <2>2, <2>3
<1>3. QED
  BY <1>1, <1>2

\* The tick: Cycle is posted where nothing was under way.
LEMMA TimerKeeps ==
  ASSUME HatInv, HandleTimer PROVE HatInv' /\ NoOperation /\ Queued("status")'
<1> USE DEF HatInv
<1> DEFINE op == [kind |-> "cycle", attitude |-> TRUE, rf |-> rf_remote, to |-> "status"]
<1>1. NoOperation /\ outstanding' = TRUE
  BY DEF HandleTimer, OneOperation
<1>2. child_queue' = <<op>> /\ child_queue' # <<>> /\ child_queue = <<>>
  BY <1>1, Short DEF NoOperation, HandleTimer, Cycle
<1>3. /\ pi3data' \in Pi3Data /\ rf_to_send' \in SUBSET Slots /\ TxPlaces'
  BY <1>2, CopyRfKeeps DEF HandleTimer, Cycle
<1>4. sample' \in Samples
  BY DEF HandleTimer, Cycle, Asked, DataTypeOK, Samples
<1>5. DataTypeOK'
  BY <1>1, <1>3, <1>4 DEF DataTypeOK, HandleTimer
<1>6. op \in Operation
  BY LoopCallbacksKnown DEF Operation, DataTypeOK
<1>7. LoopOp(op, "status")'
  BY <1>6 DEF LoopOp, HandleTimer
<1>8. Queued("status")'
  BY <1>1, <1>2, <1>6, <1>7 DEF Queued, NoOperation, HandleTimer
<1>9. QED
  BY <1>1, <1>3, <1>5, <1>8 DEF OneOperation, InFlight, Answers, HandleTimer, ImuSampleNew

\* The child takes up the operation.
LEMMA SetupKeeps ==
  ASSUME HatInv, CHILD_Setup, UNCHANGED <<outstanding, rf_started>>
  PROVE  HatInv' /\ \E to \in Answers : Queued(to) /\ Running(to)'
<1> USE DEF HatInv
<1>1. PICK to \in Answers : Queued(to)
  BY Short DEF OneOperation, NoOperation, InFlight, Running, Finishing, Calling, CHILD_Setup
<1>2. PICK op \in Operation : LoopOp(op, to) /\ child_queue = <<op>>
  BY <1>1 DEF Queued
<1>3. child_queue' = <<>> /\ child' = [op |-> op, polled |-> power_poll]
  BY <1>2, Short DEF CHILD_Setup
<1>4. LoopOp(op, to)'
  BY <1>2 DEF LoopOp, CHILD_Setup
<1>5. Running(to)' /\ outstanding'
  <2>1. power_poll \in BOOLEAN /\ executor' = <<>>
    BY <1>1 DEF DataTypeOK, Queued, CHILD_Setup
  <2>2. outstanding
    BY <1>2, Short DEF OneOperation, NoOperation
  <2>3. QED
    BY <1>3, <1>4, <2>1, <2>2 DEF Running
<1>6. DataTypeOK'
  BY DEF DataTypeOK, CHILD_Setup, Pi3Data
<1>7. TxPlaces'
  BY <1>3 DEF TxPlaces, CHILD_Setup
<1>8. QED
  BY <1>1, <1>5, <1>6, <1>7 DEF OneOperation, InFlight, CHILD_Setup, ImuSampleNew

\* The child posts the result: it has read RF slots only for one who waits.
LEMMA DoneKeeps ==
  ASSUME HatInv, NEW answered \in BOOLEAN, CHILD_Done(answered),
         UNCHANGED <<outstanding, rf_started>>
  PROVE  HatInv' /\ \E to \in Answers : Running(to) /\ Finishing(to)'
<1> USE DEF HatInv
<1>1. PICK to \in Answers : Running(to)
  BY DEF OneOperation, NoOperation, InFlight, Queued, Finishing, Calling, CHILD_Done
<1>2. PICK op \in Operation, polled \in BOOLEAN :
        LoopOp(op, to) /\ child = [op |-> op, polled |-> polled]
  BY <1>1 DEF Running
<1>3. executor' = <<Finish(op)>> /\ child' = Resting /\ child_queue' = <<>>
  BY <1>1, <1>2, Short DEF CHILD_Done, Running, Finish
<1>4. /\ pi3data' \in Pi3Data /\ (op.rf \/ pi3data'.rx_rf = {})
      /\ pi3data'.rf_to_send = pi3data.rf_to_send
      /\ pi3data'.rf_tx_slots = pi3data.rf_tx_slots
  BY <1>2 DEF CHILD_Done, RequestRf, DataTypeOK, Pi3Data
<1>5. sample' = IF to = "status" THEN "new" ELSE sample
  BY <1>2 DEF CHILD_Done, LoopOp
<1>6. LoopOp(op, to)'
  BY <1>2 DEF LoopOp, CHILD_Done
<1>7. Finishing(to)'
  BY <1>3, <1>4, <1>5, <1>6 DEF Finishing
<1>8. outstanding'
  BY <1>2, Busy DEF OneOperation, NoOperation
<1>9. DataTypeOK'
  BY <1>4, <1>5 DEF DataTypeOK, CHILD_Done, Samples
<1>10. TxPlaces'
  BY <1>1, <1>4 DEF TxPlaces, CHILD_Done, Running
<1>11. QED
  BY <1>1, <1>7, <1>8, <1>9, <1>10 DEF OneOperation, InFlight, CHILD_Done, ImuSampleNew

\* The handlers of the control loop take their call from the executor: theirs is
\* the operation that is under way, and nothing else is.
LEMMA CallTaken ==
  ASSUME HatInv, NEW to \in Answers, Runs(Call(to)), executor' = Tail(executor)
  PROVE  /\ outstanding /\ Calling(to)
         /\ executor' = <<>> /\ child = Resting /\ child_queue = <<>>
<1> USE DEF HatInv
<1>1. executor # <<>> /\ Head(executor) = Call(to)
  BY DEF Runs
<1>2. outstanding
  BY <1>1 DEF OneOperation, NoOperation
<1>3. PICK for \in Answers : InFlight(for)
  BY <1>2 DEF OneOperation
<1>4. ~Queued(for) /\ ~Running(for)
  BY <1>1 DEF Queued, Running
<1>5. ~Finishing(for)
  BY <1>1, Short, Kinds DEF Finishing
<1>6. Calling(for)
  BY <1>3, <1>4, <1>5 DEF InFlight
<1>7. executor # <<Call("slot"), Call(for)>> /\ for = to
  BY <1>1, <1>6, Short, Kinds DEF Calling, Answers
<1>8. QED
  BY <1>2, <1>6, <1>7, Short DEF Calling

\* A cycle that is dropped, or a command that was sent, ends the operation.
LEMMA EndKeeps ==
  ASSUME HatInv, HandleStatus_Dropped \/ HandleCommand
  PROVE  HatInv' /\ NoOperation' /\ \E to \in Answers : Calling(to)
<1> USE DEF HatInv
<1>1. PICK to \in Answers : Runs(Call(to)) /\ executor' = Tail(executor)
  BY DEF HandleStatus_Dropped, HandleCommand, Answers
<1>2. executor' = <<>> /\ child = Resting /\ child_queue = <<>> /\ Calling(to)
  BY <1>1, CallTaken
<1>3. OneOperation' /\ NoOperation'
  BY <1>2 DEF OneOperation, NoOperation, HandleStatus_Dropped, HandleCommand
<1>4. QED
  BY <1>2, <1>3 DEF HandleStatus_Dropped, HandleCommand, DataTypeOK, ImuSampleNew, TxPlaces

\* Or the answer to the poll is followed by the command.
LEMMA StatusKeeps ==
  ASSUME HatInv, HandleStatus PROVE HatInv' /\ Calling("status") /\ Queued("command")'
<1> USE DEF HatInv
<1> DEFINE op == [kind |-> "transmit", attitude |-> attitude, rf |-> rf_remote, to |-> "command"]
<1>1. /\ outstanding /\ executor' = <<>> /\ Calling("status")
      /\ child = Resting /\ child_queue = <<>>
  BY CallTaken DEF HandleStatus, Answers
<1>2. child_queue' = <<op>> /\ child_queue' # <<>>
  BY <1>1, Short DEF HandleStatus, AsyncTransmit
<1>3. /\ pi3data' \in Pi3Data /\ rf_to_send' \in SUBSET Slots /\ TxPlaces'
  BY <1>1, <1>2, CopyRfKeeps DEF HandleStatus, AsyncTransmit
<1>4. DataTypeOK'
  BY <1>3 DEF DataTypeOK, HandleStatus
<1>5. op \in Operation
  BY LoopCallbacksKnown DEF Operation, DataTypeOK
<1>6. LoopOp(op, "command")'
  BY <1>5 DEF LoopOp, HandleStatus
<1>7. Queued("command")'
  BY <1>1, <1>2, <1>5, <1>6 DEF Queued, HandleStatus
<1>8. QED
  BY <1>1, <1>3, <1>4, <1>7
     DEF OneOperation, InFlight, Answers, HandleStatus, ImuSampleNew

\* What is at the head of the executor when the result of an operation is.
LEMMA FinishFound ==
  ASSUME HatInv, NEW kind, FinishNext(kind)
  PROVE  \E to \in Answers, op \in Operation :
           /\ Finishing(to) /\ LoopOp(op, to) /\ executor = <<Finish(op)>>
           /\ Head(executor).op = op /\ op.to = to
           /\ outstanding /\ (op.rf \/ pi3data.rx_rf = {})
<1> USE DEF HatInv
<1>1. executor # <<>> /\ Head(executor).kind = "finish" /\ Head(executor).op.kind = kind
  BY DEF FinishNext
<1>2. outstanding
  BY <1>1 DEF OneOperation, NoOperation
<1>3. PICK to \in Answers : InFlight(to)
  BY <1>2 DEF OneOperation
<1>4. ~Queued(to) /\ ~Running(to)
  BY <1>1 DEF Queued, Running
<1>5. ~Calling(to)
  BY <1>1, Short, Kinds DEF Calling
<1>6. Finishing(to)
  BY <1>3, <1>4, <1>5 DEF InFlight
<1>7. PICK op \in Operation : /\ LoopOp(op, to) /\ executor = <<Finish(op)>>
                              /\ op.rf \/ pi3data.rx_rf = {}
  BY <1>6 DEF Finishing
<1>8. Head(executor) = Finish(op)
  BY <1>7, Short
<1>9. Head(executor).op = op /\ op.to = to
  BY <1>1, <1>7, <1>8, Kinds DEF LoopOp
<1>10. QED
  BY <1>2, <1>6, <1>7, <1>9

\* The calls that an operation ends with: the RF control's before the loop's.
LEMMA CallsPosted ==
  ASSUME NEW to
  PROVE  <<>> \o RfCalls \o <<Call(to)>> \in {<<Call(to)>>, <<Call("slot"), Call(to)>>}
<1>1. CASE rf_remote
  <2>1. <<>> \o RfCalls = <<Call("slot")>>
    BY <1>1, Short DEF RfCalls
  <2>2. QED
    BY <2>1, Pair
<1>2. CASE ~rf_remote
  <2>1. <<>> \o RfCalls = <<>>
    BY <1>2, Short DEF RfCalls
  <2>2. QED
    BY <2>1, Short
<1>3. QED
  BY <1>1, <1>2

\* A finished poll delivers the sample that was taken for it.
LEMMA FinishCycleKeeps ==
  ASSUME HatInv, FinishCycle, UNCHANGED <<outstanding, rf_started>>
  PROVE  HatInv' /\ \E to \in Answers : Finishing(to) /\ Calling(to)'
<1> USE DEF HatInv
<1>1. PICK to \in Answers, op \in Operation :
        /\ Finishing(to) /\ LoopOp(op, to) /\ executor = <<Finish(op)>>
        /\ Head(executor).op = op /\ op.to = to /\ outstanding
  BY FinishFound DEF FinishCycle
<1>2. to = "status" /\ sample = "new"
  BY <1>1 DEF LoopOp, Finishing, Answers, FinishCycle, FinishNext
<1>3. Tail(executor) = <<>>
  BY <1>1, Short
<1>4. executor' = <<>> \o RfCalls \o <<Call(to)>>
  BY <1>1, <1>3 DEF FinishCycle
<1>5. Calling(to)'
  BY <1>1, <1>4, CallsPosted DEF Finishing, Calling, FinishCycle
<1>6. DataTypeOK'
  BY DEF DataTypeOK, FinishCycle, FinishRF, Pi3Data
<1>7. OneOperation'
  BY <1>1, <1>5 DEF OneOperation, InFlight
<1>8. ImuSampleNew' /\ TxPlaces' /\ attitude' = FALSE
  BY <1>2 DEF FinishCycle, ImuSampleNew, TxPlaces
<1>9. QED
  BY <1>1, <1>5, <1>6, <1>7, <1>8

\* A finished command delivers none, as no ReadImu waits.
LEMMA FinishTransmitKeeps ==
  ASSUME HatInv, FinishTransmit, UNCHANGED <<outstanding, rf_started>>
  PROVE  HatInv' /\ \E to \in Answers : Finishing(to) /\ Calling(to)'
<1> USE DEF HatInv
<1>1. PICK to \in Answers, op \in Operation :
        /\ Finishing(to) /\ LoopOp(op, to) /\ executor = <<Finish(op)>>
        /\ Head(executor).op = op /\ op.to = to /\ outstanding
  BY FinishFound DEF FinishTransmit
<1>2. Tail(executor) \o (IF attitude THEN <<Call("imu")>> ELSE <<>>) = <<>>
  BY <1>1, Short
<1>3. executor' = <<>> \o RfCalls \o <<Call(to)>>
  BY <1>1, <1>2 DEF FinishTransmit
<1>4. Calling(to)'
  BY <1>1, <1>3, CallsPosted DEF Finishing, Calling, FinishTransmit
<1>5. DataTypeOK'
  BY DEF DataTypeOK, FinishTransmit, FinishRF, Pi3Data
<1>6. OneOperation'
  BY <1>1, <1>4 DEF OneOperation, InFlight
<1>7. ImuSampleNew' /\ TxPlaces' /\ attitude' = FALSE
  BY DEF FinishTransmit, ImuSampleNew, TxPlaces
<1>8. QED
  BY <1>1, <1>4, <1>5, <1>6, <1>7

\* The RF control starts to wait, or waits again after its slots were reported.
LEMMA SlotKeeps ==
  ASSUME HatInv, HandleSlot
  PROVE  HatInv' /\ \E to \in Answers : Calling(to) /\ Calling(to)'
<1> USE DEF HatInv
<1>1. executor # <<>> /\ Head(executor) = Call("slot") /\ executor' = Tail(executor)
  BY DEF HandleSlot, Runs
<1>2. outstanding
  BY <1>1 DEF OneOperation, NoOperation
<1>3. PICK to \in Answers : InFlight(to)
  BY <1>2 DEF OneOperation
<1>4. ~Queued(to) /\ ~Running(to)
  BY <1>1 DEF Queued, Running
<1>5. ~Finishing(to)
  BY <1>1, Short, Kinds DEF Finishing
<1>6. Calling(to)
  BY <1>3, <1>4, <1>5 DEF InFlight
<1>7. executor = <<Call("slot"), Call(to)>>
  BY <1>1, <1>6, Short, Kinds DEF Calling, Answers
<1>8. Calling(to)'
  BY <1>1, <1>6, <1>7, Short DEF Calling, HandleSlot
<1>9. OneOperation'
  BY <1>2, <1>8 DEF OneOperation, InFlight, HandleSlot
<1>10. DataTypeOK' /\ TxPlaces'
  BY DEF DataTypeOK, TxPlaces, HandleSlot, ReportTelemetry, tx_slots, AsyncWaitForSlot
<1>11. QED
  BY <1>6, <1>8, <1>9, <1>10 DEF HandleSlot, ImuSampleNew

\* Steps that leave the operation where it is.
Aside ==
  /\ UNCHANGED <<outstanding, rf_started>>
  /\ Shutdown \/ HandlePowerPoll \/ (\E s \in Slots : RfArrives(s)) \/ SwitchOff

\* They keep the invariant.
LEMMA AsideKeeps ==
  ASSUME HatInv, Aside \/ RfStart \/ UNCHANGED vars PROVE HatInv'
<1> USE DEF HatInv
<1>1. /\ UNCHANGED <<executor, child, child_queue, outstanding, sample, pi3data,
                     attitude, imu_data, rf_to_send, rf_tx_slots, air>>
      /\ rf_remote => rf_remote'
  BY DEF Aside, Shutdown, HandlePowerPoll, RfArrives, SwitchOff, RfStart, AsyncWaitForSlot
<1>2. OneOperation'
  BY <1>1, PlaceKept
<1>3. DataTypeOK'
  BY DEF DataTypeOK, Aside, Shutdown, HandlePowerPoll, RfArrives, SwitchOff, RfStart,
         AsyncWaitForSlot
<1>4. ImuSampleNew' /\ TxPlaces'
  BY <1>1 DEF ImuSampleNew, TxPlaces
<1>5. QED
  BY <1>1, <1>2, <1>3, <1>4

\* The invariant holds throughout.
LEMMA HatInvariant == Spec => []HatInv
<1>1. HatInv /\ [Next]_vars => HatInv'
  BY TimerKeeps, SetupKeeps, DoneKeeps, EndKeeps, StatusKeeps, FinishCycleKeeps,
     FinishTransmitKeeps, SlotKeeps, AsideKeeps
     DEF Next, HatNext, Aside
<1>2. QED
  BY <1>1, HatInitially, PTL DEF Spec

-----------------------------------------------------------------------------
(* What the invariant gives.                                               *)

\* Both queues, the operation with the child and all data keep their types.
THEOREM HatTypeCorrect == Spec => []TypeOK
<1>1. HatInv => TypeOK
  <2> SUFFICES ASSUME HatInv PROVE TypeOK
    OBVIOUS
  <2> USE DEF HatInv
  <2>1. \A op \in Operation : Finish(op) \in Posted
    BY DEF Finish, Posted
  <2>2. \A to \in Answers \cup {"slot"} : Call(to) \in Posted
    BY LoopCallbacksKnown DEF Call, Posted, Answers
  <2>3. ASSUME NEW S
        PROVE  /\ <<>> \in Seq(S) /\ \A x \in S : <<x>> \in Seq(S)
               /\ \A x, y \in S : <<x, y>> \in Seq(S)
    OBVIOUS
  <2>4. NoOperation \/ \E to \in Answers : InFlight(to)
    BY DEF OneOperation
  <2>5. ASSUME NEW to \in Answers, InFlight(to)
        PROVE  /\ \/ child_queue = <<>>
                  \/ \E op \in Operation : child_queue = <<op>>
               /\ \/ child = Resting
                  \/ \E op \in Operation, polled \in BOOLEAN :
                       child = [op |-> op, polled |-> polled]
               /\ \/ executor = <<>>
                  \/ \E x \in Posted : executor = <<x>>
                  \/ \E x, y \in Posted : executor = <<x, y>>
    <3>1. CASE Queued(to)
      BY <3>1 DEF Queued
    <3>2. CASE Running(to)
      BY <3>2 DEF Running
    <3>3. CASE Finishing(to)
      BY <2>1, <3>3 DEF Finishing
    <3>4. CASE Calling(to)
      BY <2>2, <3>4 DEF Calling
    <3>5. QED
      BY <2>5, <3>1, <3>2, <3>3, <3>4 DEF InFlight
  <2>6. child_queue \in Seq(Operation) /\ executor \in Seq(Posted)
    BY <2>3, <2>4, <2>5, Zenon DEF NoOperation
  <2>7. child \in [op: Operation, polled: BOOLEAN] \cup {Resting}
    BY <2>4, <2>5 DEF NoOperation
  <2>8. QED
    BY <2>6, <2>7 DEF TypeOK, HatTypeOK, DataTypeOK, ImuSampleNew, Samples, Resting
<1>2. QED
  BY <1>1, HatInvariant, PTL

\* pi3data_ is never used by both threads at the same time: when the parent is to
\* finish an operation the child has none.
THEOREM NeverSameTimeAlways == Spec => []NeverSameTime
<1>1. HatInv => NeverSameTime
  BY DEF HatInv, NeverSameTime, OneOperation, NoOperation, InFlight, Queued, Running,
         Finishing, Calling
<1>2. QED
  BY <1>1, HatInvariant, PTL

\* The attitude that a poll delivers was sampled after the poll was made.
THEOREM ImuSampleNewAlways == Spec => []ImuSampleNew
<1>1. HatInv => ImuSampleNew
  BY DEF HatInv
<1>2. QED
  BY <1>1, HatInvariant, PTL

\* No value put into a transmit slot is lost on its way to the hat.
THEOREM TxNotLostAlways == Spec => []TxNotLost
<1>1. HatInv => TxNotLost
  BY DEF HatInv, TxPlaces, TxNotLost
<1>2. QED
  BY <1>1, HatInvariant, PTL

\* No slot read from the hat is lost on its way to the RF control.
THEOREM RxNotLostAlways == Spec => []RxNotLost
<1>1. HatInv => RxNotLost
  <2> SUFFICES ASSUME HatInv, executor # <<>>, Head(executor).kind = "finish",
                      pi3data.rx_rf # {}
               PROVE  rf_remote
    BY DEF RxNotLost
  <2>1. PICK to \in Answers : Finishing(to)
    <3>1. outstanding
      BY DEF HatInv, OneOperation, NoOperation
    <3>2. PICK to \in Answers : InFlight(to)
      BY <3>1 DEF HatInv, OneOperation
    <3>3. ~Queued(to) /\ ~Running(to)
      BY DEF Queued, Running
    <3>4. ~Calling(to)
      BY Short, Kinds DEF Calling
    <3>5. QED
      BY <3>2, <3>3, <3>4 DEF InFlight
  <2>2. QED
    BY <2>1 DEF Finishing, LoopOp
<1>2. QED
  BY <1>1, HatInvariant, PTL

-----------------------------------------------------------------------------
(* The refinement: the answer the loop waits for.                          *)

\* The abstract loop's state.
At == IF Owed("command") THEN "command" ELSE IF Owed("status") THEN "status" ELSE "idle"

\* It is told by the place of the operation.
AtIsTold ==
  /\ NoOperation => At = "idle"
  /\ \A to \in Answers : InFlight(to) => At = to

\* So it is, in every state.
LEMMA AtPlace == AtIsTold
<1>1. NoOperation => ~Owed("command") /\ ~Owed("status")
  BY Short DEF NoOperation, Owed
<1>2. ASSUME NEW to \in Answers, NEW for \in Answers, Queued(to)
      PROVE  Owed(for) <=> for = to
  BY <1>2, Short DEF Queued, Owed, LoopOp
<1>3. ASSUME NEW to \in Answers, NEW for \in Answers, Running(to)
      PROVE  Owed(for) <=> for = to
  BY <1>3, Short, Busy DEF Running, Owed, LoopOp
<1>4. ASSUME NEW to \in Answers, NEW for \in Answers, Finishing(to)
      PROVE  Owed(for) <=> for = to
  <2>1. PICK op \in Operation : LoopOp(op, to) /\ executor = <<Finish(op)>>
    BY <1>4 DEF Finishing
  <2>2. DOMAIN executor = {1} /\ executor[1] = Finish(op)
    BY <2>1, Short
  <2>3. executor[1].kind = "finish" /\ executor[1].op.to = to /\ executor[1] # Call(for)
    BY <2>1, <2>2, Kinds DEF LoopOp
  <2>4. QED
    BY <1>4, <2>2, <2>3, Short DEF Owed, Finishing
<1>5. ASSUME NEW to \in Answers, NEW for \in Answers, Calling(to)
      PROVE  Owed(for) <=> for = to
  <2>1. \A i \in DOMAIN executor : executor[i] \in {Call("slot"), Call(to)}
    BY <1>5, Short DEF Calling
  <2>2. \E i \in DOMAIN executor : executor[i] = Call(to)
    BY <1>5, Short DEF Calling
  <2>3. Call(for) # Call("slot") /\ (Call(for) = Call(to) <=> for = to)
    BY Kinds DEF Answers
  <2>4. \A i \in DOMAIN executor : executor[i].kind = "call"
    BY <2>1, Kinds
  <2>5. QED
    BY <1>5, <2>1, <2>2, <2>3, <2>4, Short DEF Owed, Calling
<1>6. ASSUME NEW to \in Answers, InFlight(to) PROVE At = to
  <2>1. \A for \in Answers : Owed(for) <=> for = to
    BY <1>2, <1>3, <1>4, <1>5, <1>6 DEF InFlight
  <2>2. QED
    BY <2>1 DEF At, Answers
<1>7. QED
  BY <1>1, <1>6 DEF At, AtIsTold

\* Ticks and the loop's two handlers change it, as the loop has it; nothing else does.
LEMMA AtSteps ==
  ASSUME HatInv, [Next]_vars
  PROVE  \/ At' = At
         \/ At = "idle" /\ At' = "status"
         \/ At = "status" /\ At' = "command"
         \/ At \in Answers /\ At' = "idle"
<1> USE DEF AtIsTold
<1>1. AtIsTold /\ AtIsTold'
  BY AtPlace, PTL
<1>2. CASE HandleTimer
  BY <1>1, <1>2, TimerKeeps DEF InFlight, Answers
<1>3. CASE HandleStatus
  BY <1>1, <1>3, StatusKeeps DEF InFlight, Answers
<1>4. CASE HandleStatus_Dropped \/ HandleCommand
  BY <1>1, <1>4, EndKeeps DEF InFlight
<1>5. CASE HandleSlot
  BY <1>1, <1>5, SlotKeeps DEF InFlight
<1>6. CASE CHILD_Setup /\ UNCHANGED <<outstanding, rf_started>>
  BY <1>1, <1>6, SetupKeeps DEF InFlight
<1>7. CASE (\E answered \in BOOLEAN : CHILD_Done(answered)) /\ UNCHANGED <<outstanding, rf_started>>
  BY <1>1, <1>7, DoneKeeps DEF InFlight
<1>8. CASE (FinishCycle \/ FinishTransmit) /\ UNCHANGED <<outstanding, rf_started>>
  BY <1>1, <1>8, FinishCycleKeeps, FinishTransmitKeeps DEF InFlight
<1>9. CASE Aside \/ RfStart \/ UNCHANGED vars
  <2>1. UNCHANGED <<executor, child, child_queue>>
    BY <1>9 DEF Aside, Shutdown, HandlePowerPoll, RfArrives, SwitchOff, RfStart
  <2>2. QED
    BY <2>1 DEF At, Owed
<1>10. QED
  BY <1>2, <1>3, <1>4, <1>5, <1>6, <1>7, <1>8, <1>9 DEF Next, HatNext, Aside

\* The hat keeps the order of the control loop: between a poll and the next there is
\* one answer, and between them at most one command, answered once.
THEOREM HatImplementsLoop == Spec => LoopImplemented
<1>1. Init => Loop!Init
  BY Short DEF Init, HatInit, Loop!Init, Owed
<1>2. HatInv /\ [Next]_vars => [Loop!Next]_At
  BY AtSteps DEF Loop!Next, Loop!Poll, Loop!Drop, Loop!Transmit, Loop!Done, At, Answers
<1>3. QED
  BY <1>1, <1>2, HatInvariant, PTL DEF Spec, LoopImplemented, Loop!Spec, At

=============================================================================
