---------------------------- MODULE FootFirmware ----------------------------
(***************************************************************************)
(* The firmware of the pressure foot (hw/pressure_foot/firmware/foot.c):   *)
(* the pin change interrupt that puts characters in a ring, the main loop  *)
(* that assembles lines and runs their commands, the millisecond timer and *)
(* the streams, which are in StreamTable.                                  *)
(*                                                                         *)
(* A text stands for the characters of a line: a record of FootTexts for   *)
(* the whole text of a command.  The ring is the sequence of what is       *)
(* unread: what lies outside tail and head is overwritten before it is     *)
(* read.  The interrupt does not look at the tail, and head = tail means   *)
(* empty, so that the character that fills the ring loses all it held.     *)
(***************************************************************************)
EXTENDS StreamTable, Sequences

CONSTANTS
  FootTexts,  \* the command texts the host sends
  RbufSize,   \* sizeof(g_serial_rbuf), 16 characters
  LineSize    \* sizeof(line_buf), 32 characters

ASSUME FootAssumption ==
  /\ RbufSize \in Nat \ {0, 1} /\ LineSize \in Nat \ {0, 1, 2}
  /\ \A t \in FootTexts :
       /\ t.op \in {"STB", "STE"} => t.id \in Ids /\ t.code \in Codes
       /\ t.op = "STB" => t.rate \in Rates /\ t.extra \in BOOLEAN
       /\ t.op = "GPC" => t.value \in BOOLEAN

VARIABLES
  f_pc,       \* where the main loop is
  f_rbuf,     \* what is unread of g_serial_rbuf
  f_line,     \* line_buf up to line_len
  f_tifr,     \* OCF1A of TIFR: the timer has matched
  barometer,  \* PB2: the barometer is enabled
  f_dropped   \* history: a character of the present line was not kept

footOwn == <<f_pc, f_rbuf, f_line, f_tifr, barometer, f_dropped>>
footVars == <<streamVars, footOwn>>

Eol     == [op |-> "eol"]
Overrun == [op |-> "overrun"]  \* MAGIC_OVERRUN_CODE in line_buf[0]

FootTypeOK ==
  /\ StreamTypeOK
  /\ f_pc \in {"serial", "timer", "poll", "hang"}
  /\ f_rbuf \in Seq(FootTexts \cup {Eol}) /\ Len(f_rbuf) < RbufSize
  /\ f_line \in Seq(FootTexts \cup {Overrun})
  /\ {f_tifr, barometer, f_dropped} \subseteq BOOLEAN

FootInit ==
  /\ StreamInit
  /\ f_pc = "serial" /\ f_rbuf = <<>> /\ f_line = <<>> /\ f_tifr = FALSE
  /\ barometer = TRUE /\ f_dropped = FALSE

-----------------------------------------------------------------------------
\* ISR(PCINT0_vect): a character comes in.
FootReceive(c) ==
  /\ f_rbuf' = IF Len(f_rbuf) = RbufSize - 1 THEN <<>> ELSE Append(f_rbuf, c)
  /\ UNCHANGED <<streamVars, f_pc, f_line, f_tifr, barometer, f_dropped>>

\* cmd_gpc on the barometer's bit.
cmd_gpc(text) == /\ text.op = "GPC" /\ barometer' = text.value
                 /\ f_pc' = "timer" /\ UNCHANGED streamVars

\* cmd_rst and cmd_wdt spin until the watchdog bites.
cmd_rst(text) == text.op = "RST" /\ f_pc' = "hang" /\ UNCHANGED <<streamVars, barometer>>

\* The other commands answer, with what they read or with an error, and change
\* nothing that is modelled: PNG, VER, TMQ, QGR, PRF, I2C, GPQ, WPC, STL, STG.
cmd_query(text) ==
  /\ text.op \notin {"GPC", "RST", "STB", "STE"}
  /\ f_pc' = "timer" /\ UNCHANGED <<streamVars, barometer>>

run_stream_cmd(text) ==
  /\ \/ text.op = "STB" /\ cmd_stb(text.id, text.rate, text.code, text.extra)
     \/ text.op = "STE" /\ cmd_ste(text.id, text.code)
  /\ f_pc' = "timer" /\ UNCHANGED barometer

\* fw_command_table.  A line is a command if its text is one and is all there is.
fw_command(text) ==
  cmd_gpc(text) \/ cmd_rst(text) \/ cmd_query(text) \/ run_stream_cmd(text)

handle_line == fw_command(IF Len(f_line) = 1 THEN f_line[1] ELSE Overrun)

\* Mutant: the test of the length is off by one.
Full_Late(len) == len >= LineSize

Full(len) == len + 1 >= LineSize

\* A character of the line is kept, or marks the line as too long and is not.
PutChar(c) ==
  LET l == Append(f_line, c)
  IN  IF Full(Len(l))
      THEN /\ f_line' = [SubSeq(l, 1, Len(l) - 1) EXCEPT ![1] = Overrun]
           /\ f_dropped' = TRUE
      ELSE f_line' = l /\ UNCHANGED f_dropped

FootSerial ==
  /\ f_pc = "serial"
  /\ \/ f_rbuf = <<>> /\ f_pc' = "timer"
        /\ UNCHANGED <<streamVars, f_rbuf, f_line, barometer, f_dropped>>
     \/ /\ f_rbuf # <<>> /\ f_rbuf' = Tail(f_rbuf)
        /\ IF Head(f_rbuf) = Eol
           THEN handle_line /\ f_line' = <<>> /\ f_dropped' = FALSE
           ELSE /\ PutChar(Head(f_rbuf))
                /\ f_pc' = "timer" /\ UNCHANGED <<streamVars, barometer>>
  /\ UNCHANGED f_tifr

FootTimer ==
  /\ f_pc = "timer"
  /\ IF f_tifr THEN stream_timer_update ELSE UNCHANGED streamVars
  /\ f_tifr' = FALSE /\ f_pc' = "poll"
  /\ UNCHANGED <<f_rbuf, f_line, barometer, f_dropped>>

FootPoll ==
  /\ f_pc = "poll"
  /\ \E result \in {"ok", "early", "error"} : stream_poll(result)
  /\ f_pc' = "serial"
  /\ UNCHANGED <<f_rbuf, f_line, f_tifr, barometer, f_dropped>>

\* The millisecond timer; a match while the flag is still set is not seen.
TimerMatch == ~f_tifr /\ f_tifr' = TRUE
              /\ UNCHANGED <<streamVars, f_pc, f_rbuf, f_line, barometer, f_dropped>>

\* Mutant: the arguments survive the reset (a .noinit section).
FootReset_Noinit ==
  /\ table' = [i \in Entries |-> Unused] /\ UNCHANGED args
  /\ f_pc' = "serial" /\ f_rbuf' = <<>> /\ f_line' = <<>> /\ f_tifr' = FALSE
  /\ barometer' = TRUE /\ f_dropped' = FALSE

FootReset ==
  /\ StreamReset
  /\ f_pc' = "serial" /\ f_rbuf' = <<>> /\ f_line' = <<>> /\ f_tifr' = FALSE
  /\ barometer' = TRUE /\ f_dropped' = FALSE

Watchdog == f_pc = "hang" /\ FootReset

FootNext ==
  \/ \E c \in FootTexts \cup {Eol} : FootReceive(c)
  \/ FootSerial \/ FootTimer \/ FootPoll
  \/ TimerMatch
  \/ Watchdog

-----------------------------------------------------------------------------
\* The main loop works the stream table as StreamTable says: each part of a
\* pass is one of its operations, and a reset leaves nothing behind.
FootStreams == StreamSpec

\* line_buf is never written past its end, and a line of which a character was
\* dropped stays marked until its end, so that it is reported and not run.
FootLineFits == /\ Len(f_line) + 1 < LineSize
                /\ f_dropped => f_line # <<>> /\ f_line[1] = Overrun
=============================================================================
