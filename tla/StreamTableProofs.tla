------------------------- MODULE StreamTableProofs --------------------------
(***************************************************************************)
(* Proofs about StreamTable, for tables, argument slots and counters of    *)
(* any size.  StreamInv is the inductive invariant.  Streams of one rate   *)
(* stay in phase only while no timer passes zero, so InPhase needs         *)
(* TimersRun; and a stream has a slot to itself only while the slots in    *)
(* use are exactly those of live streams, because a stopped entry keeps    *)
(* its pointer and stream_stop_all follows it.                             *)
(***************************************************************************)
EXTENDS StreamTable, TLAPS

StreamInv == StreamTypeOK /\ TimersRun /\ InPhase /\ IdsUnique /\ ArgsOwned

\* What the operations do to the table.
Steps ==
  \/ \E id \in Ids, rate \in Rates, code \in Codes, extra \in BOOLEAN :
       StbAccepted(id, rate, code, extra)
  \/ \E i \in Entries : \E runs \in 0..RunsWrap - 1 : Live(i) /\ Stop(i, runs)
  \/ \E i \in Entries : Due(i) /\ UNCHANGED args
       /\ table' = [table EXCEPT ![i].queued_runs = @ - 1]
  \/ stream_timer_update
  \/ stream_stop_all
  \/ StreamReset
  \/ UNCHANGED streamVars

USE StreamAssumption

\* The bounds of the fields, which the proofs use by name.
LEMMA Bounds ==
  /\ MaxU16 \in Nat /\ 0 < MaxU16 /\ MaxId \in Nat
  /\ NullArgs \in Nat /\ 0 \in 0..NullArgs /\ 0 \in 0..RunsWrap - 1
  /\ ArgSlots \subseteq 0..NullArgs /\ NoPtr \notin ArgSlots /\ NullArgs \notin ArgSlots
  /\ NullArgs # NoPtr
<1>1. MaxU16 \in Nat /\ 0 < MaxU16 /\ MaxId \in Nat
  BY SMT DEF MaxU16, MaxId
<1>2. NumArgs \in Nat /\ RunsWrap \in Nat /\ 0 < RunsWrap
  OBVIOUS
<1>3. QED
  BY <1>1, <1>2 DEF NullArgs, ArgSlots, NoPtr

\* The table starts empty.
LEMMA StreamInitially == StreamInit => StreamInv
<1> SUFFICES ASSUME StreamInit PROVE StreamInv
  OBVIOUS
<1>1. Unused \in stream_struct
  BY Bounds DEF stream_struct, Unused, NoPtr
<1>2. StreamTypeOK
  BY <1>1 DEF StreamInit, StreamTypeOK
<1>3. \A i \in Entries : ~Live(i)
  BY DEF StreamInit, Live, Unused
<1>4. TimersRun /\ InPhase /\ IdsUnique
  BY <1>3 DEF TimersRun, InPhase, IdsUnique, stream_list_bitmask, cmd_stg, Live
<1>5. \A a \in ArgSlots : ~args[a]
  BY DEF StreamInit
<1>6. ArgsOwned
  BY <1>3, <1>5, Zenon DEF ArgsOwned
<1>7. QED
  BY <1>2, <1>4, <1>6 DEF StreamInv

\* Every operation is one of a few changes of the table.
LEMMA OperationsAreSteps == StreamTypeOK /\ [StreamNext]_streamVars => Steps
<1> SUFFICES ASSUME StreamTypeOK, [StreamNext]_streamVars PROVE Steps
  OBVIOUS
<1>0. \A i \in Entries : table[i].queued_runs \in 0..RunsWrap - 1
  BY DEF StreamTypeOK, stream_struct
<1>1. ASSUME NEW result \in {"ok", "early", "error"}, stream_poll(result) PROVE Steps
  <2>1. CASE UNCHANGED streamVars
    BY <2>1 DEF Steps
  <2>2. ASSUME NEW i \in Entries, Due(i),
               IF result = "error" THEN Stop(i, table[i].queued_runs - 1)
               ELSE /\ table' = [table EXCEPT ![i].queued_runs = @ - 1]
                    /\ UNCHANGED args
        PROVE Steps
    <3>1. table[i].queued_runs - 1 \in 0..RunsWrap - 1 /\ Live(i)
      BY <1>0, <2>2 DEF Due
    <3>2. QED
      BY <2>2, <3>1 DEF Steps
  <2>3. QED
    BY <1>1, <2>1, <2>2 DEF stream_poll
<1>2. ASSUME NEW id \in Ids, NEW code \in Codes, cmd_ste(id, code) PROVE Steps
  <2>1. CASE UNCHANGED streamVars
    BY <2>1 DEF Steps
  <2>2. ASSUME NEW i \in Entries, table[i].stream_id = id, id # 0,
               Stop(i, table[i].queued_runs)
        PROVE Steps
    BY <1>0, <2>2 DEF Steps, Live
  <2>3. QED
    BY <1>2, <2>1, <2>2 DEF cmd_ste
<1>3. ASSUME NEW id \in Ids, NEW rate \in Rates, NEW code \in Codes, NEW extra \in BOOLEAN,
             cmd_stb(id, rate, code, extra)
      PROVE Steps
  BY <1>3 DEF cmd_stb, Steps
<1>4. QED
  BY <1>1, <1>2, <1>3 DEF StreamNext, Steps

\* A stream is begun: it gets an id, a slot and a phase that agree with those
\* of the streams that run.
LEMMA StbKeeps ==
  ASSUME StreamInv, NEW id \in Ids, NEW rate \in Rates, NEW code \in Codes,
         NEW extra \in BOOLEAN, StbAccepted(id, rate, code, extra)
  PROVE  StreamInv'
<1> DEFINE r == Rate(rate)
<1>1. PICK i \in Entries, a \in ArgFor(extra), t \in StartTimes(r) :
        /\ ~Live(i)
        /\ table' = [table EXCEPT ![i] =
             [stream_id |-> id, code |-> code, extra_args |-> a,
              rate |-> r, time_remaining |-> t, queued_runs |-> 0]]
        /\ args' = [b \in ArgSlots |-> args[b] \/ b = a]
  BY DEF StbAccepted
<1>2. /\ id \in 0..MaxId /\ id # 0
      /\ \A j \in Entries : table[j].stream_id # id
  BY Bounds DEF StbAccepted, StbRefused
<1>3. r \in 1..MaxU16
  BY Bounds DEF Rate
<1>4. \A k \in SameRate(r) : table[k].time_remaining = t
  <2>1. CASE SameRate(r) = {}
    BY <2>1
  <2>2. CASE SameRate(r) # {}
    <3>1. PICK k \in SameRate(r) : t = table[k].time_remaining
      BY <1>1, <2>2 DEF StartTimes
    <3>2. QED
      BY <3>1 DEF StreamInv, InPhase, SameRate
  <2>3. QED
    BY <2>1, <2>2
<1>5. t \in 1..r
  <2>1. CASE SameRate(r) = {}
    BY <1>1, <1>3, <2>1 DEF StartTimes
  <2>2. CASE SameRate(r) # {}
    <3>1. PICK k \in SameRate(r) : TRUE
      BY <2>2
    <3>2. QED
      BY <1>4, <3>1 DEF StreamInv, TimersRun, SameRate
  <2>3. QED
    BY <2>1, <2>2
<1>6. a \in 0..NullArgs /\ a # NoPtr /\ (a \in ArgSlots => ~args[a])
  BY <1>1, Bounds DEF ArgFor
<1>7. /\ \A j \in Entries : j # i => table'[j] = table[j]
      /\ table'[i] = [stream_id |-> id, code |-> code, extra_args |-> a,
                      rate |-> r, time_remaining |-> t, queued_runs |-> 0]
      /\ DOMAIN table' = Entries /\ table' = [j \in Entries |-> table'[j]]
  BY <1>1 DEF StreamInv, StreamTypeOK
<1>8. \A j \in Entries : Live(j)' <=> (j = i \/ Live(j))
  BY <1>2, <1>7 DEF Live
<1>9. StreamTypeOK'
  <2>1. table'[i] \in stream_struct
    <3> HIDE DEF r
    <3> t \in 0..MaxU16 /\ r \in 0..MaxU16 /\ 0 \in 0..RunsWrap - 1
      BY <1>3, <1>5, Bounds
    <3> QED
      BY <1>2, <1>6, <1>7 DEF stream_struct
  <2>2. table' \in [Entries -> stream_struct]
    BY <1>7, <2>1 DEF StreamInv, StreamTypeOK
  <2>3. args' \in [ArgSlots -> BOOLEAN]
    BY <1>1, Zenon
  <2>4. QED
    BY <2>2, <2>3 DEF StreamTypeOK
<1>10. TimersRun'
  BY <1>5, <1>7, <1>8 DEF StreamInv, TimersRun
<1>11. InPhase'
  BY <1>4, <1>7, <1>8 DEF StreamInv, InPhase, SameRate
<1>12. IdsUnique'
  BY <1>2, <1>7, <1>8 DEF StreamInv, IdsUnique, stream_list_bitmask, cmd_stg, Live
<1>13. ArgsOwned'
  <2>1. \A j \in Entries : Live(j) => table[j].extra_args # a \/ a \notin ArgSlots
    BY <1>6 DEF StreamInv, ArgsOwned
  <2>2. \A j \in Entries : Live(j)' => table'[j].extra_args # NoPtr
    BY <1>6, <1>7, <1>8 DEF StreamInv, ArgsOwned
  <2>3. ASSUME NEW b \in ArgSlots
        PROVE  args'[b] <=> \E j \in Entries : Live(j)' /\ table'[j].extra_args = b
    <3>1. args'[b] <=> (args[b] \/ b = a)
      BY <1>1, Zenon
    <3>2. args[b] <=> \E j \in Entries : Live(j) /\ table[j].extra_args = b
      BY DEF StreamInv, ArgsOwned
    <3>3. table'[i].extra_args = a
      BY <1>7
    <3>4. QED
      BY <1>1, <1>7, <1>8, <3>1, <3>2, <3>3, Zenon
  <2>4. \A j, k \in Entries :
          Live(j)' /\ Live(k)' /\ table'[j].extra_args = table'[k].extra_args
            /\ table'[j].extra_args \in ArgSlots => j = k
    BY <1>7, <1>8, <2>1 DEF StreamInv, ArgsOwned
  <2>5. QED
    BY <2>2, <2>3, <2>4 DEF ArgsOwned
<1>14. QED
  BY <1>9, <1>10, <1>11, <1>12, <1>13 DEF StreamInv

\* A live stream is stopped, by STE or by an error of its command: its slot
\* was its own, so that no other stream loses its arguments.
LEMMA StopKeeps ==
  ASSUME StreamInv, NEW i \in Entries, NEW runs \in 0..RunsWrap - 1,
         Live(i), Stop(i, runs)
  PROVE  StreamInv'
<1>1. /\ \A j \in Entries : j # i => table'[j] = table[j]
      /\ table'[i] = [table[i] EXCEPT !.stream_id = 0, !.queued_runs = runs]
      /\ table' = [j \in Entries |-> table'[j]]
  BY DEF StreamInv, StreamTypeOK, Stop, stream_struct
<1>2. /\ table'[i].stream_id = 0
      /\ table'[i] \in stream_struct
  <2>1. table[i] \in stream_struct
    BY DEF StreamInv, StreamTypeOK
  <2>2. 0 \in 0..MaxId
    BY Bounds
  <2>3. QED
    BY <1>1, <2>1, <2>2 DEF stream_struct
<1>3. \A j \in Entries : Live(j)' <=> (j # i /\ Live(j))
  BY <1>1, <1>2 DEF Live
<1>4. StreamTypeOK'
  <2>1. table' \in [Entries -> stream_struct]
    BY <1>1, <1>2 DEF StreamInv, StreamTypeOK
  <2>2. args' \in [ArgSlots -> BOOLEAN]
    BY Zenon DEF Stop, Freed
  <2>3. QED
    BY <2>1, <2>2 DEF StreamTypeOK
<1>5. TimersRun' /\ InPhase' /\ IdsUnique'
  BY <1>1, <1>3 DEF StreamInv, TimersRun, InPhase, IdsUnique, stream_list_bitmask, cmd_stg, Live
<1>6. ArgsOwned'
  <2>1. \A j \in Entries : Live(j)' => table'[j].extra_args # NoPtr
    BY <1>1, <1>3 DEF StreamInv, ArgsOwned
  <2>2. ASSUME NEW b \in ArgSlots
        PROVE  args'[b] <=> \E j \in Entries : Live(j)' /\ table'[j].extra_args = b
    <3>1. args'[b] <=> (args[b] /\ b # table[i].extra_args)
      BY Zenon DEF Stop, Freed
    <3>2. args[b] <=> \E j \in Entries : Live(j) /\ table[j].extra_args = b
      BY DEF StreamInv, ArgsOwned
    <3>3. \A j \in Entries : Live(j) /\ j # i /\ table[j].extra_args = b
                               => b # table[i].extra_args
      BY DEF StreamInv, ArgsOwned
    <3>4. QED
      BY <1>1, <1>3, <3>1, <3>2, <3>3, Zenon
  <2>3. \A j, k \in Entries :
          Live(j)' /\ Live(k)' /\ table'[j].extra_args = table'[k].extra_args
            /\ table'[j].extra_args \in ArgSlots => j = k
    BY <1>1, <1>3 DEF StreamInv, ArgsOwned
  <2>4. QED
    BY <2>1, <2>2, <2>3 DEF ArgsOwned
<1>7. QED
  BY <1>4, <1>5, <1>6 DEF StreamInv

\* Steps that change timers and counters only, and those so that live streams
\* of one rate still agree.
LEMMA CountersKeep ==
  ASSUME StreamInv, UNCHANGED args, table' \in [Entries -> stream_struct],
         \A j \in Entries : /\ table'[j].stream_id = table[j].stream_id
                            /\ table'[j].extra_args = table[j].extra_args
                            /\ table'[j].rate = table[j].rate,
         TimersRun', InPhase'
  PROVE  StreamInv'
<1>1. \A j \in Entries : Live(j)' <=> Live(j)
  BY DEF Live
<1>2. StreamTypeOK' /\ IdsUnique'
  <2>1. \A id : cmd_stg(id)' = cmd_stg(id)
    BY DEF cmd_stg
  <2>2. stream_list_bitmask' = stream_list_bitmask
    BY <1>1 DEF stream_list_bitmask
  <2>3. IdsUnique'
    BY <2>1, <2>2 DEF StreamInv, IdsUnique
  <2>4. QED
    BY <2>3 DEF StreamInv, StreamTypeOK
<1>3. ArgsOwned'
  <2>1. ASSUME NEW b \in ArgSlots
        PROVE  args'[b] <=> \E j \in Entries : Live(j)' /\ table'[j].extra_args = b
    <3>1. args[b] <=> \E j \in Entries : Live(j) /\ table[j].extra_args = b
      BY DEF StreamInv, ArgsOwned
    <3>2. QED
      BY <1>1, <3>1, Zenon
  <2>2. QED
    BY <1>1, <2>1 DEF StreamInv, ArgsOwned
<1>4. QED
  BY <1>2, <1>3 DEF StreamInv

\* A run of a stream that has one waiting.
LEMMA RunKeeps ==
  ASSUME StreamInv, NEW i \in Entries, Due(i), UNCHANGED args,
         table' = [table EXCEPT ![i].queued_runs = @ - 1]
  PROVE  StreamInv'
<1>1. /\ \A j \in Entries : j # i => table'[j] = table[j]
      /\ table'[i] = [table[i] EXCEPT !.queued_runs = @ - 1]
      /\ table' = [j \in Entries |-> table'[j]]
  BY DEF StreamInv, StreamTypeOK, stream_struct
<1>2. table[i].queued_runs - 1 \in 0..RunsWrap - 1 /\ table[i] \in stream_struct
  BY DEF Due, StreamInv, StreamTypeOK, stream_struct
<1>3. table'[i] \in stream_struct
  BY <1>1, <1>2 DEF stream_struct
<1>4. table' \in [Entries -> stream_struct]
  BY <1>1, <1>3 DEF StreamInv, StreamTypeOK
<1>5. \A j \in Entries : /\ table'[j].stream_id = table[j].stream_id
                         /\ table'[j].extra_args = table[j].extra_args
                         /\ table'[j].rate = table[j].rate
                         /\ table'[j].time_remaining = table[j].time_remaining
  BY <1>1, <1>2 DEF stream_struct
<1>6. TimersRun' /\ InPhase'
  BY <1>5 DEF StreamInv, TimersRun, InPhase, Live
<1>7. QED
  BY <1>4, <1>5, <1>6, CountersKeep

\* A millisecond: every live timer counts down, and those that reach zero
\* start again from their rate.
LEMMA TickKeeps == ASSUME StreamInv, stream_timer_update PROVE StreamInv'
<1>1. \A j \in Entries : table[j] \in stream_struct
  BY DEF StreamInv, StreamTypeOK
<1>2. ASSUME NEW j \in Entries, Live(j)
      PROVE  /\ Tick(table[j]) \in stream_struct
             /\ Tick(table[j]).stream_id = table[j].stream_id
             /\ Tick(table[j]).extra_args = table[j].extra_args
             /\ Tick(table[j]).rate = table[j].rate
             /\ Tick(table[j]).time_remaining =
                  IF table[j].time_remaining = 1 THEN table[j].rate
                  ELSE table[j].time_remaining - 1
  <2> DEFINE e == table[j]
  <2>1. e.time_remaining \in 1..e.rate /\ e.rate \in 0..MaxU16 /\ e.queued_runs \in Nat
    BY <1>1, <1>2 DEF StreamInv, TimersRun, stream_struct
  <2>2. (e.queued_runs + 1) % RunsWrap \in 0..RunsWrap - 1
    BY <2>1
  <2>3. e.time_remaining - 1 \in 0..MaxU16 /\ e.time_remaining # 0
    BY <2>1, Bounds
  <2>4. CASE e.time_remaining = 1
    BY <1>1, <2>1, <2>2, <2>4 DEF Tick, stream_struct
  <2>5. CASE e.time_remaining # 1
    BY <1>1, <2>1, <2>3, <2>5 DEF Tick, stream_struct
  <2>6. QED
    BY <2>4, <2>5
<1>3. \A j \in Entries : table'[j] = IF Live(j) THEN Tick(table[j]) ELSE table[j]
  BY DEF stream_timer_update
<1>4. table' \in [Entries -> stream_struct] /\ UNCHANGED args
  BY <1>1, <1>2 DEF stream_timer_update
<1>5. \A j \in Entries : /\ table'[j].stream_id = table[j].stream_id
                         /\ table'[j].extra_args = table[j].extra_args
                         /\ table'[j].rate = table[j].rate
  BY <1>2, <1>3
<1>6. \A j \in Entries : Live(j)' <=> Live(j)
  BY <1>5 DEF Live
<1>7. TimersRun'
  <2> SUFFICES ASSUME NEW j \in Entries, Live(j)
               PROVE  table'[j].time_remaining \in 1..table'[j].rate
    BY <1>6 DEF TimersRun
  <2>1. table[j].time_remaining \in 1..table[j].rate /\ table[j].rate \in Nat
    BY <1>1 DEF StreamInv, TimersRun, stream_struct
  <2>2. QED
    BY <1>2, <1>3, <2>1
<1>8. InPhase'
  BY <1>2, <1>3, <1>6 DEF StreamInv, InPhase
<1>9. QED
  BY <1>4, <1>5, <1>7, <1>8, CountersKeep

\* The panel's port is closed: no stream is left, and no slot.
LEMMA StopAllKeeps == ASSUME StreamInv, stream_stop_all PROVE StreamInv'
<1>1. \A j \in Entries : table'[j] = [table[j] EXCEPT !.stream_id = 0]
  BY DEF stream_stop_all
<1>2. \A j \in Entries : table[j] \in stream_struct
  BY DEF StreamInv, StreamTypeOK
<1>3. \A j \in Entries : table'[j] \in stream_struct /\ table'[j].stream_id = 0
  <2>1. 0 \in 0..MaxId
    BY Bounds
  <2>2. QED
    BY <1>1, <1>2, <2>1 DEF stream_struct
<1>4. \A j \in Entries : ~Live(j)'
  BY <1>3 DEF Live
<1>5. StreamTypeOK'
  <2>1. table' \in [Entries -> stream_struct]
    BY <1>1, <1>3 DEF stream_stop_all
  <2>2. args' \in [ArgSlots -> BOOLEAN]
    BY Zenon DEF stream_stop_all, Freed
  <2>3. QED
    BY <2>1, <2>2 DEF StreamTypeOK
<1>6. TimersRun' /\ InPhase' /\ IdsUnique'
  BY <1>4 DEF TimersRun, InPhase, IdsUnique, stream_list_bitmask, cmd_stg, Live
<1>7. ASSUME NEW b \in ArgSlots PROVE ~args'[b]
  <2>1. args'[b] <=> (args[b] /\ b \notin {table[j].extra_args : j \in Entries})
    BY Zenon DEF stream_stop_all, Freed
  <2>2. args[b] => \E j \in Entries : table[j].extra_args = b
    BY DEF StreamInv, ArgsOwned
  <2>3. QED
    BY <2>1, <2>2, Zenon
<1>8. ArgsOwned'
  BY <1>4, <1>7, Zenon DEF ArgsOwned
<1>9. QED
  BY <1>5, <1>6, <1>8 DEF StreamInv

\* StreamInv is inductive.
LEMMA StreamPreserved == StreamInv /\ [StreamNext]_streamVars => StreamInv'
<1> SUFFICES ASSUME StreamInv, [StreamNext]_streamVars PROVE StreamInv'
  OBVIOUS
<1>1. Steps
  BY OperationsAreSteps DEF StreamInv
<1>2. CASE StreamReset
  <2>1. StreamInit'
    BY <1>2 DEF StreamReset, StreamInit
  <2>2. StreamInit' => StreamInv'
    BY StreamInitially, PTL
  <2>3. QED
    BY <2>1, <2>2
<1>3. CASE UNCHANGED streamVars
  BY <1>3 DEF streamVars, StreamInv, StreamTypeOK, TimersRun, InPhase, IdsUnique, ArgsOwned, Live, stream_list_bitmask, cmd_stg
<1>4. QED
  BY <1>1, <1>2, <1>3, StbKeeps, StopKeeps, RunKeeps, TickKeeps, StopAllKeeps DEF Steps

\* The invariant holds of every table the protocol's commands can build.
THEOREM StreamInvariant == StreamSpec => []StreamInv
<1>1. StreamInit => StreamInv
  BY StreamInitially
<1>2. StreamInv /\ [StreamNext]_streamVars => StreamInv'
  BY StreamPreserved
<1>3. QED
  BY <1>1, <1>2, PTL DEF StreamSpec

\* stream_timer_update never counts a live stream below one, so that
\* time_remaining never wraps to 65535.
THEOREM StreamTimersRun == StreamSpec => [](StreamTypeOK /\ TimersRun)
<1>1. StreamInv => StreamTypeOK /\ TimersRun
  BY DEF StreamInv
<1>2. QED
  BY <1>1, StreamInvariant, PTL

\* The synchronisation of cmd_stb lasts: streams of one rate run together,
\* however many were begun and ended in between.
THEOREM StreamsInPhase == StreamSpec => []InPhase
<1>1. StreamInv => InPhase
  BY DEF StreamInv
<1>2. QED
  BY <1>1, StreamInvariant, PTL

\* cmd_ste and cmd_stg find the one stream that has the id.
THEOREM StreamIdsUnique == StreamSpec => []IdsUnique
<1>1. StreamInv => IdsUnique
  BY DEF StreamInv
<1>2. QED
  BY <1>1, StreamInvariant, PTL

\* The argument slots are neither shared by two streams nor lost when one is
\* stopped, by STE, by an error or by stream_stop_all.
THEOREM StreamArgsOwned == StreamSpec => []ArgsOwned
<1>1. StreamInv => ArgsOwned
  BY DEF StreamInv
<1>2. QED
  BY <1>1, StreamInvariant, PTL
=============================================================================
