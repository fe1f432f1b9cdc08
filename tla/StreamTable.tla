----------------------------- MODULE StreamTable ----------------------------
(***************************************************************************)
(* The stream table of the boards that speak the line protocol             *)
(* (hw/pressure_foot/firmware/foot.c and, with the same text and other     *)
(* sizes, hw/panel_qual/firmware/panel_qual.c).  A host begins a stream    *)
(* with STB: the board then runs the named command every rate milliseconds *)
(* and sends what it prints.  STE ends it, and so does an error of the     *)
(* command.  A stream that has arguments keeps them in one of a few slots, *)
(* in use while its first byte is not zero.                                *)
(*                                                                         *)
(* The module is a specification of its own, of which the main loops of    *)
(* both boards are shown to be implementations; what is proved of it in    *)
(* StreamTableProofs therefore holds of both, for tables of any size.      *)
(***************************************************************************)
EXTENDS Naturals

CONSTANTS
  NumStreams,  \* NUM_STREAM_TABLE: 4 on the foot, 12 on the panel
  NumArgs,     \* NUM_STREAM_EXTRA_ARGS: 8
  RunsWrap,    \* queued_runs is a uint8_t: 256
  Codes,       \* the streamable commands
  Outcome,     \* what each of them may return: "ok", "early" (0xff), "error"
  Ids,         \* the stream ids hosts name
  Rates        \* the rates they name

MaxU16 == 65535           \* rate and time_remaining are of type uint16_t

ASSUME StreamAssumption ==
  /\ NumStreams \in Nat \ {0} /\ NumArgs \in Nat /\ RunsWrap \in Nat \ {0}
  /\ Outcome \in [Codes -> SUBSET {"ok", "early", "error"}]
  /\ Ids \subseteq Nat /\ Rates \subseteq 0..MaxU16

VARIABLES
  table,  \* g_stream_table
  args    \* g_stream_args: the slots whose first byte is not zero

streamVars == <<table, args>>

Entries  == 1..NumStreams
ArgSlots == 1..NumArgs
NoPtr    == 0             \* extra_args as static storage starts
NullArgs == NumArgs + 1   \* g_null_args, the empty string all can share
MaxId    == 15
NoCode   == "none"        \* cmd_index of an entry that was never used

stream_struct == [stream_id: 0..MaxId, code: Codes \cup {NoCode},
                  extra_args: 0..NullArgs, rate: 0..MaxU16,
                  time_remaining: 0..MaxU16, queued_runs: 0..RunsWrap - 1]

StreamTypeOK == table \in [Entries -> stream_struct] /\ args \in [ArgSlots -> BOOLEAN]

Unused == [stream_id |-> 0, code |-> NoCode, extra_args |-> NoPtr, rate |-> 0,
           time_remaining |-> 0, queued_runs |-> 0]

StreamInit == /\ table = [i \in Entries |-> Unused]
              /\ args = [a \in ArgSlots |-> FALSE]

Live(i) == table[i].stream_id # 0

\* The slots after the first byte behind some pointers is set to zero.
Freed(ptrs) == [a \in ArgSlots |-> args[a] /\ a \notin ptrs]

-----------------------------------------------------------------------------
\* cmd_stb.  A rate of zero is taken as one.
Rate(rate) == IF rate = 0 THEN 1 ELSE rate

\* The streams the new one is synchronised to; the last one of them counts.
SameRate_Stale(rate) == {i \in Entries : table[i].rate = rate}

SameRate(rate) == {i \in Entries : Live(i) /\ table[i].rate = rate}

StartTimes(rate) ==
  IF SameRate(rate) = {} THEN {rate}
  ELSE {table[i].time_remaining :
          i \in {k \in SameRate(rate) : \A j \in SameRate(rate) : j <= k}}

\* The error replies, which leave the table as it is.
StbRefused(id, extra) ==
  \/ id = 0 \/ id > MaxId
  \/ \E i \in Entries : table[i].stream_id = id
  \/ \A i \in Entries : Live(i)
  \/ extra /\ \A a \in ArgSlots : args[a]

ArgFor(extra) ==
  IF extra THEN {a \in ArgSlots : ~args[a] /\ \A b \in 1..(a - 1) : args[b]}
  ELSE {NullArgs}

StbAccepted(id, rate, code, extra) ==
  /\ ~StbRefused(id, extra)
  /\ \E i \in Entries, a \in ArgFor(extra), t \in StartTimes(Rate(rate)) :
       /\ ~Live(i) /\ \A j \in 1..(i - 1) : Live(j)
       /\ table' = [table EXCEPT ![i] =
            [stream_id |-> id, code |-> code, extra_args |-> a,
             rate |-> Rate(rate), time_remaining |-> t, queued_runs |-> 0]]
       /\ args' = [b \in ArgSlots |-> args[b] \/ b = a]

cmd_stb(id, rate, code, extra) ==
  \/ StbRefused(id, extra) /\ UNCHANGED streamVars
  \/ StbAccepted(id, rate, code, extra)

\* Mutant: an entry that is stopped keeps its argument slot.
Stop_Leak(i, runs) ==
  /\ table' = [table EXCEPT ![i].stream_id = 0, ![i].queued_runs = runs]
  /\ UNCHANGED args

Stop(i, runs) ==
  /\ table' = [table EXCEPT ![i].stream_id = 0, ![i].queued_runs = runs]
  /\ args' = Freed({table[i].extra_args})

\* cmd_ste: refused for id zero, an id that is not in use and another code.
cmd_ste(id, code) ==
  \/ \E i \in Entries :
       /\ table[i].stream_id = id /\ id # 0 /\ table[i].code = code
       /\ Stop(i, table[i].queued_runs)
  \/ /\ ~\E i \in Entries : table[i].stream_id = id /\ id # 0 /\ table[i].code = code
     /\ UNCHANGED streamVars

\* cmd_stg: the entries that have the id; the first of them is reported.
cmd_stg(id) == {i \in Entries : id # 0 /\ table[i].stream_id = id}

stream_list_bitmask == {table[i].stream_id : i \in {k \in Entries : Live(k)}}

\* One millisecond.  Both counters wrap as their C types do.
Tick(e) ==
  IF e.time_remaining = 1
  THEN [e EXCEPT !.queued_runs = (@ + 1) % RunsWrap, !.time_remaining = e.rate]
  ELSE [e EXCEPT !.time_remaining = IF @ = 0 THEN MaxU16 ELSE @ - 1]

stream_timer_update ==
  /\ table' = [i \in Entries |-> IF Live(i) THEN Tick(table[i]) ELSE table[i]]
  /\ UNCHANGED args

Due(i) == Live(i) /\ table[i].queued_runs > 0

\* At most one run of the first stream that has one waiting; an error other
\* than "poll early" stops the stream.
stream_poll(result) ==
  \/ \E i \in Entries :
       /\ Due(i) /\ \A j \in 1..(i - 1) : ~Due(j)
       /\ result \in Outcome[table[i].code]
       /\ IF result = "error" THEN Stop(i, table[i].queued_runs - 1)
          ELSE /\ table' = [table EXCEPT ![i].queued_runs = @ - 1]
               /\ UNCHANGED args
  \/ /\ result = "ok" /\ \A i \in Entries : ~Due(i)
     /\ UNCHANGED streamVars

\* stream_stop_all, of the panel: every pointer is followed, those of the
\* entries that were already stopped too.
stream_stop_all ==
  /\ table' = [i \in Entries |-> [table[i] EXCEPT !.stream_id = 0]]
  /\ args' = Freed({table[i].extra_args : i \in Entries})

\* The watchdog, or power: static storage starts again from zero.
StreamReset == /\ table' = [i \in Entries |-> Unused]
               /\ args' = [a \in ArgSlots |-> FALSE]

StreamNext ==
  \/ \E result \in {"ok", "early", "error"} : stream_poll(result)
  \/ stream_timer_update
  \/ \E id \in Ids, code \in Codes : cmd_ste(id, code)
  \/ \E id \in Ids, rate \in Rates, code \in Codes, extra \in BOOLEAN :
       cmd_stb(id, rate, code, extra)
  \/ stream_stop_all
  \/ StreamReset

StreamSpec == StreamInit /\ [][StreamNext]_streamVars

-----------------------------------------------------------------------------
\* A live stream always has between one millisecond and its rate to go, so
\* that the countdown of stream_timer_update never passes zero and wraps.
TimersRun == \A i \in Entries : Live(i) => table[i].time_remaining \in 1..table[i].rate

\* Streams of one rate run in the same millisecond, whatever was begun and
\* ended in between: the synchronisation of cmd_stb looks at live entries only.
InPhase == \A i, j \in Entries :
  Live(i) /\ Live(j) /\ table[i].rate = table[j].rate
    => table[i].time_remaining = table[j].time_remaining

\* No two streams have one id, so that STE and STG find the one that is meant.
IdsUnique == \A id \in stream_list_bitmask : \A i, j \in cmd_stg(id) : i = j

\* Argument slots are neither shared nor leaked: a slot is in use exactly while
\* one live stream points at it; and a live stream's pointer may be followed.
ArgsOwned ==
  /\ \A i \in Entries : Live(i) => table[i].extra_args # NoPtr
  /\ \A a \in ArgSlots : args[a] <=> \E i \in Entries : Live(i) /\ table[i].extra_args = a
  /\ \A i, j \in Entries :
       Live(i) /\ Live(j) /\ table[i].extra_args = table[j].extra_args
         /\ table[i].extra_args \in ArgSlots => i = j
=============================================================================
