----------------------------- MODULE PanelProofs ----------------------------
(***************************************************************************)
(* The target panel: its stream table is one of StreamTable, and what is   *)
(* there of a host - streams, input, a line half typed - is of the host    *)
(* that has the port.                                                      *)
(***************************************************************************)
EXTENDS MCBoards, SequenceTheorems, TLAPS

\* The stream table of the panel, with what StreamTableProofs shows of one.
P == INSTANCE StreamTableProofs WITH
       NumStreams <- PanelEntries, NumArgs <- PanelArgs, RunsWrap <- PanelWrap,
       Codes <- PanelCodes, Outcome <- PanelOutcome, Ids <- PanelIds,
       Rates <- PanelRates, table <- p_table, args <- p_args

-----------------------------------------------------------------------------
\* The panel's constants are those of a stream table.
LEMMA TableConstants == P!StreamAssumption
<1>1. PanelEntries \in Nat \ {0} /\ PanelArgs \in Nat /\ PanelWrap \in Nat \ {0}
      /\ PanelIds \subseteq Nat /\ PanelRates \subseteq 0..S!MaxU16
  BY PanelAssumption
<1>2. P!MaxU16 = S!MaxU16
  BY DEF P!MaxU16, S!MaxU16
<1>3. PanelOutcome \in [PanelCodes -> SUBSET {"ok", "early", "error"}]
  BY DEF PanelOutcome
<1>4. QED
  BY <1>1, <1>2, <1>3 DEF P!StreamAssumption

\* It starts as a table does, and what holds of every table holds of it.
LEMMA TableInitially == S!StreamInit => P!StreamInv
<1>1. S!StreamInit => P!StreamInit
  BY DEF S!StreamInit, P!StreamInit, S!Unused, S!Entries, S!ArgSlots, S!NoCode, S!NoPtr,
         P!Unused, P!Entries, P!ArgSlots, P!NoCode, P!NoPtr
<1>2. QED
  BY <1>1, TableConstants, P!StreamInitially

\* Every operation on the table keeps the table's invariant.
LEMMA TableKept == P!StreamInv /\ [S!StreamNext]_(S!streamVars) => P!StreamInv'
<1>1. S!StreamNext => P!StreamNext
  <2>1. ASSUME NEW result, S!stream_poll(result) PROVE P!stream_poll(result)
    BY <2>1, Zenon DEF S!stream_poll, S!Due, S!Live, S!Stop, S!Freed, S!Entries, S!ArgSlots, S!streamVars,
           P!stream_poll, P!Due, P!Live, P!Stop, P!Freed, P!Entries, P!ArgSlots, P!streamVars
  <2>2. S!stream_timer_update => P!stream_timer_update
    <3>1. S!MaxU16 = P!MaxU16
      BY DEF S!MaxU16, P!MaxU16
    <3>2. \A e : S!Tick(e) = P!Tick(e)
      BY <3>1 DEF S!Tick, P!Tick
    <3>3. QED
      BY <3>2, Zenon DEF S!stream_timer_update, S!Live, S!Entries,
                         P!stream_timer_update, P!Live, P!Entries
  <2>3. ASSUME NEW id, NEW code, S!cmd_ste(id, code) PROVE P!cmd_ste(id, code)
    BY <2>3, Zenon DEF S!cmd_ste, S!Stop, S!Freed, S!Entries, S!ArgSlots, S!streamVars,
           P!cmd_ste, P!Stop, P!Freed, P!Entries, P!ArgSlots, P!streamVars
  <2>4. ASSUME NEW id, NEW rate, NEW code, NEW extra, S!cmd_stb(id, rate, code, extra) PROVE P!cmd_stb(id, rate, code, extra)
    BY <2>4, Zenon DEF S!cmd_stb, S!StbRefused, S!StbAccepted, S!ArgFor, S!StartTimes, S!SameRate, S!Rate, S!Live, S!Entries, S!ArgSlots, S!NullArgs, S!MaxId, S!streamVars,
           P!cmd_stb, P!StbRefused, P!StbAccepted, P!ArgFor, P!StartTimes, P!SameRate, P!Rate, P!Live, P!Entries, P!ArgSlots, P!NullArgs, P!MaxId, P!streamVars
  <2>5. S!stream_stop_all => P!stream_stop_all
    BY Zenon DEF S!stream_stop_all, S!Freed, S!Entries, S!ArgSlots,
           P!stream_stop_all, P!Freed, P!Entries, P!ArgSlots
  <2>6. S!StreamReset => P!StreamReset
    BY Zenon DEF S!StreamReset, S!Unused, S!Entries, S!ArgSlots, S!NoCode, S!NoPtr,
           P!StreamReset, P!Unused, P!Entries, P!ArgSlots, P!NoCode, P!NoPtr
  <2>7. QED
    BY <2>1, <2>2, <2>3, <2>4, <2>5, <2>6, Zenon DEF S!StreamNext, P!StreamNext
<1>2. S!streamVars = P!streamVars /\ (UNCHANGED S!streamVars <=> UNCHANGED P!streamVars)
  BY DEF S!streamVars, P!streamVars
<1>3. P!StreamInv /\ [P!StreamNext]_(P!streamVars) => P!StreamInv'
  BY TableConstants, P!StreamPreserved
<1>4. QED
  BY <1>1, <1>2, <1>3

\* The table is well typed.
LEMMA TableTyped == P!StreamInv => S!StreamTypeOK
<1>1. S!MaxU16 = P!MaxU16
  BY DEF P!MaxU16, S!MaxU16
<1>2. S!stream_struct = P!stream_struct
  BY <1>1 DEF P!stream_struct, P!NoCode, P!NullArgs, P!MaxId,
              S!stream_struct, S!NoCode, S!NullArgs, S!MaxId
<1>3. QED
  BY <1>2 DEF P!StreamInv, P!StreamTypeOK, P!Entries, P!ArgSlots,
              S!StreamTypeOK, S!Entries, S!ArgSlots

-----------------------------------------------------------------------------
\* What a line says, and what waits and is kept with the host it came from.
Commands == PanelTexts \cup {POverrun}
Waiting  == [text: PanelTexts \cup {PEol}, old: BOOLEAN]
Kept     == [text: Commands, old: BOOLEAN]

\* The input: what waits fits the endpoint, and the line its buffer.
InputInv == /\ p_rx \in Seq(Waiting) /\ Len(p_rx) <= RxFifo
            /\ p_line \in Seq(Kept) /\ Len(p_line) + 1 < PanelLine

\* What is there when a host goes is of an old host from then on.
Old(s) == [k \in DOMAIN s |-> [s[k] EXCEPT !.old = TRUE]]

\* Marking what is in a queue leaves the rest of it alone.
LEMMA Marked ==
  ASSUME NEW T, NEW s \in Seq([text: T, old: BOOLEAN])
  PROVE  Old(s) \in Seq([text: T, old: BOOLEAN]) /\ Len(Old(s)) = Len(s)
<1> DEFINE C == [text: T, old: BOOLEAN]
<1>1. DOMAIN s = 1..Len(s) /\ Len(s) \in Nat
  OBVIOUS
<1>2. \A k \in 1..Len(s) : [s[k] EXCEPT !.old = TRUE] \in C
  <2> TAKE k \in 1..Len(s)
  <2>1. s[k] \in C
    BY ElementOfSeq
  <2>2. QED
    BY <2>1
<1>3. Old(s) = [k \in 1..Len(s) |-> [s[k] EXCEPT !.old = TRUE]]
  BY <1>1 DEF Old
<1>4. Old(s) \in [1..Len(s) -> C]
  <2> HIDE DEF C
  <2> QED BY <1>2, <1>3
<1>5. QED
  <2> HIDE DEF C
  <2>1. Old(s) \in Seq(C)
    BY <1>1, <1>4
  <2>2. Len(Old(s)) = Len(s)
    BY <1>1, <1>3, <2>1
  <2>3. QED
    BY <2>1, <2>2 DEF C

\* A command of the panel is an operation of the table, or none.
LEMMA CommandIsStep ==
  ASSUME NEW text \in Commands, panel_command(text)
  PROVE  [S!StreamNext]_(S!streamVars)
<1>1. /\ text.op \in {"STB", "STE"} => text.id \in PanelIds /\ text.code \in PanelCodes
      /\ text.op = "STB" => text.rate \in PanelRates /\ text.extra \in BOOLEAN
  <2>1. CASE text \in PanelTexts
    BY <2>1, PanelAssumption
  <2>2. CASE text = POverrun
    BY <2>2 DEF POverrun
  <2>3. QED
    BY <2>1, <2>2 DEF Commands
<1>2. CASE panel_stream_cmd(text)
  <2>1. CASE text.op = "STB" /\ S!cmd_stb(text.id, text.rate, text.code, text.extra)
    <3>1. S!StreamNext
      BY <1>1, <2>1, Zenon DEF S!StreamNext
    <3>2. QED
      BY <3>1
  <2>2. CASE text.op = "STE" /\ S!cmd_ste(text.id, text.code)
    <3>1. S!StreamNext
      BY <1>1, <2>2, Zenon DEF S!StreamNext
    <3>2. QED
      BY <3>1
  <2>3. QED
    BY <1>2, <2>1, <2>2 DEF panel_stream_cmd
<1>3. CASE UNCHANGED p_streams
  BY <1>3 DEF p_streams, S!streamVars
<1>4. QED
  BY <1>2, <1>3 DEF panel_command, panel_query

\* The line that is handled is a command, the overrun included.
LEMMA LineIsCommand ==
  ASSUME InputInv, p_line # <<>>, panel_handle_line
  PROVE  \E text \in Commands : panel_command(text)
<1> DEFINE t == IF Len(p_line) = 1 THEN p_line[1].text ELSE POverrun
<1>1. t \in Commands
  <2>1. p_line \in Seq(Kept) /\ POverrun \in Commands
    BY DEF InputInv, Commands
  <2>2. ASSUME Len(p_line) = 1 PROVE p_line[1].text \in Commands
    <3>1. 1 \in 1..Len(p_line)
      BY <2>2
    <3>2. p_line[1] \in Kept
      BY <2>1, <3>1, ElementOfSeq
    <3>3. QED
      BY <3>2 DEF Kept
  <2>3. QED
    BY <2>1, <2>2
<1>2. panel_command(t)
  BY DEF panel_handle_line
<1>3. QED
  <2> HIDE DEF t
  <2> QED BY <1>1, <1>2

\* Every step of the panel and of its host is a step of the table, or leaves it alone.
LEMMA PanelIsStreamStep ==
  ASSUME InputInv, [PanelNext]_panelVars
  PROVE  [S!StreamNext]_(S!streamVars)
<1>1. CASE UNCHANGED p_streams
  BY <1>1 DEF p_streams, S!streamVars
<1>2. CASE PanelCheck
  <2>1. CASE S!stream_stop_all
    <3>1. S!StreamNext
      BY <2>1, Zenon DEF S!StreamNext
    <3>2. QED
      BY <3>1
  <2>2. QED
    BY <1>1, <1>2, <2>1 DEF PanelCheck, Disconnected
<1>3. CASE PanelSerial
  <2>1. CASE panel_handle_line /\ p_line # <<>>
    BY <2>1, LineIsCommand, CommandIsStep
  <2>2. CASE panel_handle_line /\ p_line = <<>>
    BY <1>1, <2>2 DEF panel_handle_line
  <2>3. QED
    BY <1>1, <1>3, <2>1, <2>2 DEF PanelSerial
<1>4. CASE PanelTimer
  <2>1. CASE S!stream_timer_update
    <3>1. S!StreamNext
      BY <2>1, Zenon DEF S!StreamNext
    <3>2. QED
      BY <3>1
  <2>2. QED
    BY <1>1, <1>4, <2>1 DEF PanelTimer, panel_stream_timer
<1>5. CASE PanelPoll
  <2>1. S!stream_poll("ok")
    BY <1>5 DEF PanelPoll
  <2>2. S!StreamNext
    <3>1. "ok" \in {"ok", "early", "error"}
      OBVIOUS
    <3>2. QED
      BY <2>1, <3>1, Zenon DEF S!StreamNext
  <2>3. QED
    BY <2>2
<1>6. CASE PanelReset
  <2>1. S!StreamNext
    BY <1>6, Zenon DEF S!StreamNext, PanelReset
  <2>2. QED
    BY <2>1
<1>7. CASE usb_poll \/ WritePacket \/ WriteTimeout
  BY <1>1, <1>7 DEF usb_poll, WritePacket, WriteTimeout
<1>8. CASE HostReset \/ (\E r \in Requests \ {"none"} : HostRequests(r))
           \/ (\E c \in PanelTexts \cup {PEol} : HostSends(c))
           \/ HostTakes \/ StartOfFrame \/ PanelTimerMatch
  BY <1>1, <1>8 DEF HostReset, HostRequests, HostSends, HostTakes, StartOfFrame, PanelTimerMatch
<1>9. QED
  BY <1>1, <1>2, <1>3, <1>4, <1>5, <1>6, <1>7, <1>8 DEF PanelNext, PanelLoop, panelVars

-----------------------------------------------------------------------------
\* What the operations of the panel and of its host can be.
LEMMA PanelSteps ==
  ASSUME [PanelNext]_panelVars
  PROVE  \/ PanelCheck \/ PanelSerial \/ PanelTimer \/ PanelPoll \/ usb_poll
         \/ WritePacket \/ WriteTimeout \/ PanelReset \/ HostReset
         \/ (\E r \in Requests \ {"none"} : HostRequests(r))
         \/ (\E c \in PanelTexts \cup {PEol} : HostSends(c))
         \/ HostTakes \/ StartOfFrame \/ PanelTimerMatch \/ UNCHANGED panelVars
  BY DEF PanelNext, PanelLoop

\* A character put into the line, or the mark that it did not fit.
Put(c) == LET l == Append(p_line, c)
          IN  p_line' = IF Len(l) + 1 >= PanelLine
                        THEN [SubSeq(l, 1, Len(l) - 1) EXCEPT ![1].text = POverrun]
                        ELSE l

\* The character that does not fit marks the line.
LEMMA PutFits ==
  ASSUME InputInv, NEW c \in Kept, Put(c)
  PROVE  p_line' \in Seq(Kept) /\ Len(p_line') + 1 < PanelLine
<1> DEFINE l == Append(p_line, c)
<1>0. PanelLine \in Nat /\ PanelLine >= 3 /\ POverrun \in Commands
  BY PanelAssumption DEF Commands
<1>1. l \in Seq(Kept) /\ Len(l) = Len(p_line) + 1 /\ Len(p_line) \in Nat
      /\ Len(p_line) + 1 < PanelLine
  BY DEF InputInv
<1>2. CASE Len(l) + 1 >= PanelLine
  <2> DEFINE s == SubSeq(l, 1, Len(l) - 1)
  <2>1. Len(p_line) >= 1
    <3> HIDE DEF l
    <3> QED BY <1>0, <1>1, <1>2
  <2>2. s \in Seq(Kept) /\ Len(s) = Len(p_line)
    <3> HIDE DEF l
    <3> QED BY <1>1, <2>1
  <2>3. p_line' = [s EXCEPT ![1].text = POverrun]
    BY <1>2 DEF Put
  <2> HIDE DEF s
  <2>4. s[1] \in Kept
    <3>1. 1 \in 1..Len(s)
      BY <1>1, <2>1, <2>2
    <3>2. QED
      BY <2>2, <3>1, ElementOfSeq
  <2>5. [s[1] EXCEPT !.text = POverrun] \in Kept
    BY <1>0, <2>4 DEF Kept
  <2>6. p_line' = [s EXCEPT ![1] = [s[1] EXCEPT !.text = POverrun]]
    BY <2>3
  <2>7. p_line' \in Seq(Kept) /\ Len(p_line') = Len(s)
    <3> DEFINE r == [s[1] EXCEPT !.text = POverrun]
    <3>1. p_line' = [s EXCEPT ![1] = r] /\ r \in Kept /\ 1 \in 1..Len(s)
      BY <1>1, <2>1, <2>2, <2>5, <2>6
    <3> HIDE DEF r
    <3>2. QED
      BY <2>2, <3>1
  <2>8. QED
    BY <1>1, <2>2, <2>7
<1>3. CASE ~(Len(l) + 1 >= PanelLine)
  <2>1. p_line' = l
    BY <1>3 DEF Put
  <2> HIDE DEF l
  <2>2. QED
    BY <1>0, <1>1, <1>3, <2>1
<1>4. QED
  BY <1>2, <1>3

\* Every step leaves the input in its buffers.
LEMMA InputKept == ASSUME InputInv, [PanelNext]_panelVars PROVE InputInv'
<1> DEFINE e == <<>>
<1>0. /\ e \in Seq(Waiting) /\ e \in Seq(Kept) /\ Len(e) = 0
      /\ RxFifo \in Nat /\ PanelLine \in Nat /\ PanelLine >= 3
  BY PanelAssumption
<1> HIDE DEF e
<1> DEFINE RxFits(x)   == x \in Seq(Waiting) /\ Len(x) <= RxFifo
           LineFits(x) == x \in Seq(Kept) /\ Len(x) + 1 < PanelLine
<1>00. RxFits(e) /\ LineFits(e) /\ RxFits(p_rx) /\ LineFits(p_line)
  BY <1>0 DEF InputInv
<1>1. CASE UNCHANGED p_input
  BY <1>1 DEF p_input, InputInv
<1>2. CASE PanelCheck
  <2>1. p_rx' \in {p_rx, e} /\ p_line' \in {p_line, e}
    BY <1>2 DEF PanelCheck, Disconnected, p_input, e
  <2>2. RxFits(p_rx') /\ LineFits(p_line')
    <3> HIDE DEF RxFits, LineFits
    <3> QED BY <1>00, <2>1
  <2>3. QED
    BY <2>2 DEF InputInv
<1>3. CASE PanelSerial
  <2>1. CASE UNCHANGED p_input
    BY <1>1, <2>1
  <2>2. CASE ~UNCHANGED p_input
    <3>0. /\ p_rx # <<>> /\ p_rx' = Tail(p_rx)
          /\ IF Head(p_rx).text = PEol THEN p_line' = <<>> ELSE Put(Head(p_rx))
      BY <1>3, <2>2 DEF PanelSerial, Put
    <3>1. p_rx' \in Seq(Waiting) /\ Len(p_rx') <= RxFifo /\ Head(p_rx) \in Waiting
      BY <1>0, <3>0 DEF InputInv
    <3>2. CASE Head(p_rx).text = PEol
      <4>1. p_line' = e
        BY <3>0, <3>2 DEF e
      <4>2. QED
        BY <1>0, <3>1, <4>1 DEF InputInv
    <3>3. CASE Head(p_rx).text # PEol
      <4>1. Head(p_rx) \in Kept
        BY <3>1, <3>3 DEF Waiting, Kept, Commands
      <4>2. p_line' \in Seq(Kept) /\ Len(p_line') + 1 < PanelLine
        BY <3>0, <3>3, <4>1, PutFits
      <4>3. QED
        BY <3>1, <4>2 DEF InputInv
    <3>4. QED
      BY <3>2, <3>3
  <2>3. QED
    BY <2>1, <2>2
<1>4. CASE usb_poll
  <2>1. Old(p_rx) \in Seq(Waiting) /\ Len(Old(p_rx)) = Len(p_rx)
        /\ Old(p_line) \in Seq(Kept) /\ Len(Old(p_line)) = Len(p_line)
    BY Marked DEF InputInv, Waiting, Kept
  <2>2. /\ p_rx' \in {p_rx, e, Old(p_rx)}
        /\ p_line' \in {p_line, Old(p_line)}
    BY <1>4 DEF usb_poll, HandleGeneral, HandleRequest, Closes, Keeps, p_input, Old, e
  <2>3. QED
    <3>1. RxFits(Old(p_rx)) /\ LineFits(Old(p_line))
      BY <1>00, <2>1
    <3>2. RxFits(p_rx') /\ LineFits(p_line')
      <4> HIDE DEF RxFits, LineFits
      <4> QED BY <1>00, <2>2, <3>1
    <3>3. QED
      BY <3>2 DEF InputInv
<1>5. CASE PanelReset
  <2>1. p_rx' = e /\ p_line' = e
    BY <1>5 DEF PanelReset, e
  <2>2. QED
    BY <1>0, <2>1 DEF InputInv
<1>6. ASSUME NEW c \in PanelTexts \cup {PEol}, HostSends(c) PROVE InputInv'
  <2>1. Received(c) \in Waiting
    BY DEF Received, Waiting
  <2>2. QED
    BY <1>0, <1>6, <2>1 DEF HostSends, InputInv
<1>7. QED
  BY <1>1, <1>2, <1>3, <1>4, <1>5, <1>6, PanelSteps
     DEF PanelTimer, PanelPoll, WritePacket, WriteTimeout, HostReset, HostRequests, HostTakes,
         StartOfFrame, PanelTimerMatch, panelVars

-----------------------------------------------------------------------------
\* Where the main loop is, and where a write returns to.
PlaceInv == /\ p_pc \in {"check", "serial", "timer", "poll", "usb", "write", "hang"}
            /\ p_ret \in {"none", "serial", "timer", "usb"}
            /\ p_pc = "write" => p_ret # "none"

\* A write that waits for the host always has a place to return to.
LEMMA PlaceKept == ASSUME PlaceInv, [PanelNext]_panelVars PROVE PlaceInv'
<1>1. CASE UNCHANGED <<p_pc, p_ret>>
  BY <1>1 DEF PlaceInv
<1>2. ASSUME NEW next \in {"serial", "timer", "usb"}, Write(next) PROVE PlaceInv'
  BY <1>2 DEF Write, p_tx, PlaceInv
<1>3. ASSUME NEW next \in {"serial", "timer", "poll", "usb", "hang"}, p_pc' = next, UNCHANGED p_ret
      PROVE  PlaceInv'
  BY <1>3 DEF PlaceInv
<1>4. CASE PanelCheck
  BY <1>2, <1>3, <1>4 DEF PanelCheck, p_tx
<1>5. CASE PanelSerial
  BY <1>2, <1>3, <1>5 DEF PanelSerial, panel_handle_line, panel_command, panel_query, p_tx
<1>6. CASE PanelTimer \/ PanelPoll
  BY <1>2, <1>3, <1>6 DEF PanelTimer, PanelPoll, p_tx
<1>7. CASE usb_poll
  BY <1>7 DEF usb_poll, PlaceInv
<1>8. CASE WritePacket \/ WriteTimeout
  BY <1>8 DEF WritePacket, WriteTimeout, PlaceInv
<1>9. CASE PanelReset
  BY <1>9 DEF PanelReset, PlaceInv
<1>10. QED
  BY <1>1, <1>4, <1>5, <1>6, <1>7, <1>8, <1>9, PanelSteps
     DEF HostReset, HostRequests, HostSends, HostTakes, StartOfFrame, PanelTimerMatch, panelVars, p_tx

\* What is in the bank being filled, the banks that wait, and what is left to write.
BankInv == /\ bank \in 0..BankSize - 1 /\ banks \in 0..2
           /\ flush_timer \in 0..FlushTime /\ p_size \in 0..LineUnits

\* A bank is released when it is full, and only when there is another.
LEMMA BankKept == ASSUME BankInv, [PanelNext]_panelVars PROVE BankInv'
<1>0. /\ BankSize \in Nat /\ BankSize > 0 /\ LineUnits \in Nat /\ FlushTime \in Nat
      /\ \A n \in Nat : n % BankSize \in 0..BankSize - 1
  BY PanelAssumption
<1>1. CASE UNCHANGED <<bank, banks, flush_timer, p_size>>
  BY <1>1 DEF BankInv
<1>2. ASSUME NEW next, Write(next) PROVE BankInv'
  BY <1>0, <1>2 DEF Write, p_tx, BankInv
<1>3. CASE PanelCheck
  BY <1>1, <1>2, <1>3 DEF PanelCheck, p_tx
<1>4. CASE PanelSerial
  BY <1>1, <1>2, <1>4 DEF PanelSerial, panel_handle_line, panel_command, panel_query, p_tx
<1>5. CASE PanelTimer \/ PanelPoll
  BY <1>1, <1>2, <1>5 DEF PanelTimer, PanelPoll, p_tx
<1>6. CASE usb_poll
  <2>1. CASE HandleGeneral
    BY <1>0, <1>6, <2>1 DEF HandleGeneral, usb_poll, BankInv
  <2>2. CASE HandleRequest
    <3>1. UNCHANGED p_size
      BY <1>6 DEF usb_poll
    <3>2. \/ UNCHANGED <<flush_timer, bank, banks>>
          \/ flush_timer' = 0 /\ bank' = 0 /\ banks' = 0
      BY <2>2 DEF HandleRequest
    <3>3. QED
      BY <1>0, <1>1, <3>1, <3>2 DEF BankInv
  <2>3. QED
    BY <1>1, <1>6, <2>1, <2>2 DEF usb_poll
<1>7. CASE WritePacket
  <2> DEFINE n == IF BankSize - bank < p_size THEN BankSize - bank ELSE p_size
  <2>1. n \in 0..p_size /\ n \in 0..BankSize - bank /\ bank + n \in Nat
    BY <1>0 DEF BankInv
  <2>2. p_size' = p_size - n /\ bank' = (bank + n) % BankSize
        /\ banks' = (IF bank + n = BankSize THEN banks + 1 ELSE banks)
        /\ banks < 2 /\ flush_timer' = FlushTime
    BY <1>7 DEF WritePacket, Armed
  <2> HIDE DEF n
  <2>3. bank' \in 0..BankSize - 1
    BY <1>0, <2>1, <2>2
  <2>4. QED
    BY <1>0, <2>1, <2>2, <2>3 DEF BankInv
<1>8. CASE WriteTimeout \/ PanelReset
  BY <1>0, <1>8 DEF WriteTimeout, PanelReset, BankInv
<1>9. CASE HostTakes
  BY <1>0, <1>9 DEF HostTakes, BankInv
<1>10. QED
  BY <1>1, <1>3, <1>4, <1>5, <1>6, <1>7, <1>8, <1>9, PanelSteps
     DEF HostReset, HostRequests, HostSends, StartOfFrame, PanelTimerMatch, panelVars, p_tx

\* The flags of the panel are flags.
FlagInv == /\ p_tifr \in BOOLEAN /\ usb_ready \in BOOLEAN /\ usb_configuration \in BOOLEAN
           /\ dtr \in BOOLEAN /\ p_sof \in BOOLEAN /\ p_eorst \in BOOLEAN
           /\ previous_timeout \in BOOLEAN

\* They stay flags.
LEMMA FlagsKept == ASSUME FlagInv, [PanelNext]_panelVars PROVE FlagInv'
<1>1. CASE UNCHANGED <<p_tifr, usb_ready, p_usb, previous_timeout>>
  BY <1>1 DEF FlagInv, p_usb
<1>2. previous_timeout' \in BOOLEAN
  BY PanelSteps DEF PanelCheck, PanelSerial, panel_handle_line, panel_command, panel_query,
     PanelTimer, PanelPoll, usb_poll, WritePacket, WriteTimeout, PanelReset, Write, FlagInv, p_tx,
     HostReset, HostRequests, HostSends, HostTakes, StartOfFrame, PanelTimerMatch, panelVars
<1>3. usb_ready' \in BOOLEAN
  BY PanelSteps DEF PanelCheck, Disconnected, PanelSerial, PanelTimer, PanelPoll, usb_poll,
     WritePacket, WriteTimeout, PanelReset, FlagInv,
     HostReset, HostRequests, HostSends, HostTakes, StartOfFrame, PanelTimerMatch, panelVars
<1>4. p_tifr' \in BOOLEAN
  BY PanelSteps DEF PanelCheck, PanelSerial, PanelTimer, PanelPoll, usb_poll,
     WritePacket, WriteTimeout, PanelReset, FlagInv,
     HostReset, HostRequests, HostSends, HostTakes, StartOfFrame, PanelTimerMatch, panelVars
<1>5. usb_configuration' \in BOOLEAN /\ dtr' \in BOOLEAN /\ p_sof' \in BOOLEAN /\ p_eorst' \in BOOLEAN
  <2>1. CASE UNCHANGED p_usb
    BY <2>1 DEF FlagInv, p_usb
  <2>2. CASE usb_poll
    BY <2>2 DEF usb_poll, HandleGeneral, HandleRequest, FlagInv, p_usb
  <2>3. QED
    BY <2>1, <2>2, PanelSteps DEF PanelCheck, PanelSerial, PanelTimer, PanelPoll,
       WritePacket, WriteTimeout, PanelReset, FlagInv,
       HostReset, HostRequests, HostSends, HostTakes, StartOfFrame, PanelTimerMatch, panelVars
<1>6. QED
  BY <1>2, <1>3, <1>4, <1>5 DEF FlagInv

\* A reset withdraws the request, and a port is only open when configured.
EnvInv == /\ p_request \in Requests
          /\ p_eorst => p_request = "none"
          /\ p_request \in {"DTR on", "DTR off"} => usb_configuration
          /\ dtr => usb_configuration

\* Requests, resets and polls of the bus keep it.
LEMMA EnvKept == ASSUME EnvInv, [PanelNext]_panelVars PROVE EnvInv'
<1>1. CASE UNCHANGED p_usb
  BY <1>1 DEF EnvInv, p_usb
<1>2. CASE usb_poll
  BY <1>2 DEF usb_poll, HandleGeneral, HandleRequest, EnvInv, p_usb, Requests
<1>3. CASE PanelReset
  BY <1>3 DEF PanelReset, EnvInv, Requests
<1>4. CASE HostReset
  BY <1>4 DEF HostReset, EnvInv, Requests
<1>5. ASSUME NEW r \in Requests \ {"none"}, HostRequests(r) PROVE EnvInv'
  <2>1. /\ p_request' = r /\ ~p_eorst /\ UNCHANGED <<usb_configuration, dtr, p_eorst>>
        /\ r \in {"DTR on", "DTR off"} => usb_configuration
    BY <1>5 DEF HostRequests
  <2>2. QED
    BY <2>1 DEF EnvInv
<1>6. CASE StartOfFrame
  BY <1>6 DEF StartOfFrame, EnvInv
<1>7. QED
  BY <1>1, <1>2, <1>3, <1>4, <1>5, <1>6, PanelSteps DEF PanelCheck, PanelSerial, PanelTimer,
     PanelPoll, WritePacket, WriteTimeout, HostSends, HostTakes, PanelTimerMatch, panelVars

-----------------------------------------------------------------------------
\* No operation but cmd_stb begins a stream.
LEMMA NoneBegun ==
  ASSUME S!StreamTypeOK, NEW i \in S!Entries,
         \/ S!stream_stop_all \/ S!stream_timer_update \/ S!stream_poll("ok")
         \/ (\E id, code : S!cmd_ste(id, code)) \/ S!StreamReset \/ UNCHANGED p_streams
  PROVE  S!Live(i)' => S!Live(i)
<1>0. p_table \in [S!Entries -> S!stream_struct] /\ p_table[i] \in S!stream_struct
  BY DEF S!StreamTypeOK
<1>1. CASE S!stream_stop_all
  BY <1>0, <1>1 DEF S!stream_stop_all, S!Live, S!stream_struct
<1>2. CASE S!stream_timer_update
  <2>1. p_table'[i] = IF S!Live(i) THEN S!Tick(p_table[i]) ELSE p_table[i]
    BY <1>2 DEF S!stream_timer_update
  <2>2. QED
    BY <2>1 DEF S!Live
<1>3. CASE S!stream_poll("ok")
  <2>1. CASE UNCHANGED p_table
    BY <2>1 DEF S!Live
  <2>2. ASSUME NEW k \in S!Entries, p_table' = [p_table EXCEPT ![k].queued_runs = @ - 1]
        PROVE  S!Live(i)' => S!Live(i)
    <3>1. p_table'[i].stream_id = p_table[i].stream_id
      BY <1>0, <2>2 DEF S!stream_struct
    <3>2. QED
      BY <3>1 DEF S!Live
  <2>3. QED
    BY <1>3, <2>1, <2>2 DEF S!stream_poll, S!streamVars
<1>4. ASSUME NEW id, NEW code, S!cmd_ste(id, code) PROVE S!Live(i)' => S!Live(i)
  <2>1. CASE UNCHANGED p_table
    BY <2>1 DEF S!Live
  <2>2. ASSUME NEW k \in S!Entries, S!Stop(k, p_table[k].queued_runs)
        PROVE  S!Live(i)' => S!Live(i)
    <3>1. p_table' = [p_table EXCEPT ![k] = [@ EXCEPT !.stream_id = 0]]
      <4>1. p_table' = [p_table EXCEPT ![k].stream_id = 0, ![k].queued_runs = p_table[k].queued_runs]
        BY <2>2 DEF S!Stop
      <4>2. QED
        BY <1>0, <4>1 DEF S!stream_struct
    <3>2. QED
      BY <1>0, <3>1 DEF S!Live, S!stream_struct
  <2>3. QED
    BY <1>4, <2>1, <2>2 DEF S!cmd_ste, S!streamVars
<1>5. CASE S!StreamReset
  BY <1>5 DEF S!StreamReset, S!Unused, S!Live
<1>6. CASE UNCHANGED p_streams
  BY <1>6 DEF p_streams, S!Live
<1>7. QED
  BY <1>1, <1>2, <1>3, <1>4, <1>5, <1>6

-----------------------------------------------------------------------------
\* No stream runs; those that run were begun by the host that has the port; what waits
\* and what the line holds came from it.
NoneLive   == \A i \in S!Entries : ~S!Live(i)
OwnStreams == \A i \in S!Entries : S!Live(i) => i \in p_begun
NewInput   == \A k \in DOMAIN p_rx : ~p_rx[k].old
NewLine    == \A k \in DOMAIN p_line : ~p_line[k].old

\* Once the main loop has seen that no host has the port there is nothing left of it.
ClosedInv == ~dtr /\ p_pc \notin {"check", "hang"}
               => NoneLive /\ p_line = <<>> /\ (usb_configuration => p_rx = <<>>)

\* What is there of a host belongs to the one that has the port.
FreshInv == PortIsFresh /\ ClosedInv /\ p_begun \subseteq S!Entries

\* A step that moves the main loop past its check, and touches nothing a host owns.
LEMMA OwnershipKept ==
  ASSUME FreshInv, UNCHANGED <<p_streams, p_input, dtr, usb_configuration, p_begun>>,
         p_pc \in {"check", "hang"} => p_pc' = p_pc
  PROVE  FreshInv'
<1>1. p_table' = p_table /\ p_rx' = p_rx /\ p_line' = p_line
  BY DEF p_streams, p_input
<1>2. PortIsFresh'
  BY <1>1 DEF FreshInv, PortIsFresh, S!Live
<1>3. ClosedInv'
  BY <1>1 DEF FreshInv, ClosedInv, NoneLive, S!Live
<1>4. QED
  BY <1>2, <1>3 DEF FreshInv

\* The check of the main loop clears what a host that went has left.
LEMMA CheckFresh ==
  ASSUME FreshInv, EnvInv, S!StreamTypeOK, PanelCheck
  PROVE  FreshInv'
<1>1. UNCHANGED <<dtr, usb_configuration, p_begun>>
  BY DEF PanelCheck, p_usb
<1>2. CASE dtr
  <2>1. UNCHANGED <<p_table, p_rx>> /\ p_line' \in {p_line, <<>>}
    BY <1>2 DEF PanelCheck, EnvInv, p_streams, p_input
  <2>2. NewLine'
    <3>1. NewLine
      BY <1>2 DEF FreshInv, PortIsFresh, NewLine
    <3>2. CASE p_line' = p_line
      BY <3>1, <3>2 DEF NewLine
    <3>3. CASE p_line' = <<>>
      BY <3>3 DEF NewLine
    <3>4. QED
      BY <2>1, <3>2, <3>3
  <2>3. QED
    BY <1>1, <1>2, <2>1, <2>2 DEF FreshInv, PortIsFresh, ClosedInv, NewLine, S!Live
<1>3. CASE ~dtr
  <2>1. Disconnected
    BY <1>3 DEF PanelCheck
  <2>2. NoneLive'
    <3> SUFFICES ASSUME NEW i \in S!Entries PROVE ~S!Live(i)'
      BY DEF NoneLive
    <3>1. p_table[i] \in S!stream_struct
      BY DEF S!StreamTypeOK
    <3>2. QED
      BY <2>1, <3>1 DEF Disconnected, S!stream_stop_all, S!Live, S!stream_struct
  <2>3. p_line' = <<>> /\ (usb_configuration => p_rx' = <<>>)
    BY <2>1 DEF Disconnected
  <2>4. QED
    BY <1>1, <1>3, <2>2, <2>3 DEF FreshInv, PortIsFresh, ClosedInv
<1>4. QED
  BY <1>2, <1>3

\* A command that begins a stream makes it the host's, and the others begin none.
LEMMA CommandOwn ==
  ASSUME OwnStreams, S!StreamTypeOK, p_begun \subseteq S!Entries, NEW text, panel_command(text)
  PROVE  OwnStreams' /\ p_begun' \subseteq S!Entries
<1>1. CASE text.op = "STB" /\ panel_stream_cmd(text)
  <2>1. p_begun' = p_begun \cup {i \in S!Entries : p_table'[i] # p_table[i]}
    BY <1>1 DEF panel_stream_cmd
  <2>2. OwnStreams'
    BY <2>1 DEF OwnStreams, S!Live
  <2>3. QED
    BY <2>1, <2>2
<1>2. CASE ~(text.op = "STB" /\ panel_stream_cmd(text))
  <2>1. /\ (\E id, code : S!cmd_ste(id, code)) \/ UNCHANGED p_streams
        /\ UNCHANGED p_begun
    BY <1>2 DEF panel_command, panel_stream_cmd, panel_query
  <2>2. QED
    BY <2>1, NoneBegun DEF OwnStreams
<1>3. QED
  BY <1>1, <1>2

\* A character of the host that has the port leaves its own in the line and the table.
LEMMA SerialFresh ==
  ASSUME FreshInv, EnvInv, InputInv, S!StreamTypeOK, PanelSerial
  PROVE  FreshInv'
<1>1. UNCHANGED <<dtr, usb_configuration>> /\ p_pc = "serial"
  BY DEF PanelSerial, p_usb
<1>2. CASE UNCHANGED <<p_streams, p_input, p_begun>>
  BY <1>1, <1>2, OwnershipKept
<1>3. CASE ~UNCHANGED <<p_streams, p_input, p_begun>>
  <2>1. /\ p_rx # <<>> /\ usb_configuration /\ p_rx' = Tail(p_rx)
        /\ IF Head(p_rx).text = PEol THEN panel_handle_line /\ p_line' = <<>>
           ELSE Put(Head(p_rx)) /\ UNCHANGED <<p_streams, p_begun>>
    BY <1>3 DEF PanelSerial, Put, p_input
  <2>2. dtr
    BY <1>1, <2>1 DEF FreshInv, ClosedInv
  <2>3. OwnStreams /\ NewInput /\ NewLine /\ p_begun \subseteq S!Entries
    BY <2>2 DEF FreshInv, PortIsFresh, OwnStreams, NewInput, NewLine
  <2>4. p_rx \in Seq(Waiting) /\ p_line \in Seq(Kept) /\ Len(p_line) \in Nat
        /\ PanelLine \in Nat /\ PanelLine >= 3 /\ Len(p_line) + 1 < PanelLine
    BY PanelAssumption DEF InputInv
  <2>5. NewInput' /\ ~Head(p_rx).old
    BY <2>1, <2>3, <2>4 DEF NewInput
  <2>6. OwnStreams' /\ p_begun' \subseteq S!Entries
    <3>1. CASE UNCHANGED <<p_streams, p_begun>>
      BY <2>3, <3>1 DEF OwnStreams, p_streams, S!Live
    <3>2. CASE ~UNCHANGED <<p_streams, p_begun>>
      <4>1. panel_handle_line /\ p_line # <<>>
        BY <2>1, <3>2 DEF panel_handle_line
      <4>2. PICK text \in Commands : panel_command(text)
        BY <4>1, LineIsCommand
      <4>3. QED
        BY <2>3, <4>2, CommandOwn
    <3>3. QED
      BY <3>1, <3>2
  <2>7. NewLine'
    <3>1. CASE p_line' = <<>>
      BY <3>1 DEF NewLine
    <3>2. CASE Put(Head(p_rx))
      <4> DEFINE h == Head(p_rx)
                 l == Append(p_line, h)
      <4>1. ~h.old
        BY <2>5
      <4> HIDE DEF h
      <4>2. /\ Len(l) = Len(p_line) + 1 /\ DOMAIN l = 1..Len(p_line) + 1
            /\ \A k \in 1..Len(p_line) : l[k] = p_line[k] /\ k \in DOMAIN p_line
            /\ l[Len(p_line) + 1] = h
        BY <2>4
      <4>3. \A k \in DOMAIN l : ~l[k].old
        <5>1. \A k \in DOMAIN l : k \in 1..Len(p_line) \/ k = Len(p_line) + 1
          BY <2>4, <4>2
        <5>2. QED
          BY <2>3, <4>1, <4>2, <5>1 DEF NewLine
      <4>4. CASE Len(l) + 1 >= PanelLine
        <5> DEFINE s == SubSeq(l, 1, Len(l) - 1)
        <5>1. Len(p_line) >= 1
          BY <2>4, <4>2, <4>4
        <5>2. p_line' = [s EXCEPT ![1].text = POverrun]
          BY <3>2, <4>4 DEF Put, h
        <5>3. s = [k \in 1..Len(p_line) |-> l[k]]
          <6> HIDE DEF l
          <6> QED BY <2>4, <4>2, <5>1
        <5> HIDE DEF s, l
        <5>4. \A k \in 1..Len(p_line) : p_line'[k].old = s[k].old
          <6> TAKE k \in 1..Len(p_line)
          <6>1. s[k] = p_line[k] /\ p_line[k] \in Kept
            BY <2>4, <4>2, <5>3, ElementOfSeq
          <6>2. CASE k = 1
            <7>1. p_line'[k] = [s[k] EXCEPT !.text = POverrun]
              BY <5>2, <5>3, <6>2
            <7>2. QED
              BY <6>1, <7>1 DEF Kept
          <6>3. CASE k # 1
            BY <5>2, <5>3, <6>3
          <6>4. QED
            BY <6>2, <6>3
        <5>5. DOMAIN p_line' = 1..Len(p_line)
          BY <5>2, <5>3
        <5>6. QED
          BY <2>4, <4>2, <4>3, <5>3, <5>4, <5>5 DEF NewLine
      <4>5. CASE ~(Len(l) + 1 >= PanelLine)
        <5>1. p_line' = l
          BY <3>2, <4>5 DEF Put, h
        <5> HIDE DEF l
        <5>2. QED
          BY <4>3, <5>1 DEF NewLine
      <4>6. QED
        BY <4>4, <4>5
    <3>3. QED
      BY <2>1, <3>1, <3>2
  <2>8. QED
    BY <1>1, <2>2, <2>5, <2>6, <2>7
       DEF FreshInv, PortIsFresh, ClosedInv, OwnStreams, NewInput, NewLine
<1>4. QED
  BY <1>2, <1>3

\* The timers and the poll.
LEMMA RunFresh ==
  ASSUME FreshInv, S!StreamTypeOK, PanelTimer \/ PanelPoll
  PROVE  FreshInv'
<1>1. UNCHANGED <<p_rx, p_line, dtr, usb_configuration, p_begun>> /\ p_pc \in {"timer", "poll"}
  BY DEF PanelTimer, PanelPoll, p_input, p_usb
<1>2. \A i \in S!Entries : S!Live(i)' => S!Live(i)
  BY NoneBegun DEF PanelTimer, PanelPoll, panel_stream_timer
<1>3. QED
  BY <1>1, <1>2 DEF FreshInv, PortIsFresh, ClosedInv, NoneLive

\* The requests and the events of the bus.
LEMMA UsbFresh ==
  ASSUME FreshInv, EnvInv, usb_poll
  PROVE  FreshInv'
<1>1. UNCHANGED p_table /\ p_pc = "usb"
  BY DEF usb_poll, p_streams
<1>2. CASE UNCHANGED <<p_input, dtr, usb_configuration, p_begun>>
  BY <1>1, <1>2, OwnershipKept DEF usb_poll
<1>3. CASE p_request = "DTR on" /\ dtr' = TRUE /\ Keeps /\ UNCHANGED usb_configuration
  <2>1. UNCHANGED <<p_rx, p_line, p_begun>> /\ usb_configuration
    BY <1>3 DEF Keeps, p_input, EnvInv
  <2>2. CASE dtr
    BY <1>1, <1>3, <2>1, <2>2 DEF FreshInv, PortIsFresh, ClosedInv, S!Live
  <2>3. CASE ~dtr
    <3>1. NoneLive /\ p_line = <<>> /\ p_rx = <<>>
      BY <1>1, <2>1, <2>3 DEF FreshInv, ClosedInv
    <3>2. OwnStreams' /\ NewInput' /\ NewLine'
      BY <1>1, <2>1, <3>1 DEF NoneLive, OwnStreams, NewInput, NewLine, S!Live
    <3>3. QED
      BY <1>3, <2>1, <3>2 DEF FreshInv, PortIsFresh, ClosedInv, OwnStreams, NewInput, NewLine
  <2>4. QED
    BY <2>2, <2>3
<1>4. CASE dtr' = FALSE /\ p_pc' = "check" /\ p_begun' = {}
  BY <1>4 DEF FreshInv, PortIsFresh, ClosedInv
<1>5. CASE HandleGeneral
  BY <1>2, <1>4, <1>5 DEF usb_poll, HandleGeneral, Keeps, Closes, EnvInv
<1>6. CASE HandleRequest
  BY <1>3, <1>4, <1>6 DEF usb_poll, HandleRequest, HandleGeneral, Closes
<1>7. QED
  BY <1>2, <1>5, <1>6 DEF usb_poll, Keeps, p_usb

\* So does every other step: no step mixes the two hosts.
LEMMA FreshKept ==
  ASSUME FreshInv, EnvInv, InputInv, S!StreamTypeOK, [PanelNext]_panelVars
  PROVE  FreshInv'
<1>1. CASE PanelReset
  BY <1>1 DEF PanelReset, FreshInv, PortIsFresh, ClosedInv
<1>2. ASSUME NEW c \in PanelTexts \cup {PEol}, HostSends(c) PROVE FreshInv'
  <2>1. dtr /\ dtr' = dtr /\ UNCHANGED <<p_table, p_line, p_begun>> /\ p_rx' = Append(p_rx, Received(c))
    BY <1>2 DEF HostSends, p_streams, p_usb
  <2>2. p_rx \in Seq(Waiting) /\ NewInput
    BY <2>1 DEF InputInv, FreshInv, PortIsFresh, NewInput
  <2>3. NewInput'
    <3>1. /\ DOMAIN p_rx' = 1..Len(p_rx) + 1 /\ Len(p_rx) \in Nat
          /\ \A k \in 1..Len(p_rx) : p_rx'[k] = p_rx[k] /\ k \in DOMAIN p_rx
          /\ p_rx'[Len(p_rx) + 1] = Received(c)
      BY <2>1, <2>2
    <3>2. \A k \in DOMAIN p_rx' : k \in 1..Len(p_rx) \/ k = Len(p_rx) + 1
      BY <3>1
    <3>3. ~Received(c).old
      BY DEF Received
    <3>4. ~p_rx'[Len(p_rx) + 1].old
      BY <3>1, <3>3
    <3>5. \A k \in 1..Len(p_rx) : ~p_rx'[k].old
      BY <2>2, <3>1 DEF NewInput
    <3>6. QED
      BY <3>2, <3>4, <3>5 DEF NewInput
  <2>4. QED
    BY <2>1, <2>3 DEF FreshInv, PortIsFresh, ClosedInv, NewInput, S!Live
<1>3. CASE WritePacket \/ WriteTimeout \/ HostReset \/ HostTakes \/ StartOfFrame
           \/ (\E r \in Requests \ {"none"} : HostRequests(r))
           \/ PanelTimerMatch \/ UNCHANGED panelVars
  <2>1. UNCHANGED <<p_streams, p_input, dtr, usb_configuration, p_begun>>
    BY <1>3 DEF WritePacket, WriteTimeout, HostReset, HostTakes, StartOfFrame, HostRequests,
                PanelTimerMatch, panelVars, p_usb
  <2>2. p_pc \in {"check", "hang"} => p_pc' = p_pc
    BY <1>3 DEF WritePacket, WriteTimeout, HostReset, HostTakes, StartOfFrame, HostRequests,
                PanelTimerMatch, panelVars
  <2>3. QED
    BY <2>1, <2>2, OwnershipKept
<1>4. QED
  BY <1>1, <1>2, <1>3, CheckFresh, SerialFresh, RunFresh, UsbFresh, PanelSteps

-----------------------------------------------------------------------------
\* The inductive invariant of the panel: its table is that of StreamTable; the input
\* and the output fit; and what is there of a host belongs to the one that has the port.
PanelInv == /\ P!StreamInv /\ InputInv /\ PlaceInv /\ BankInv /\ FlagInv /\ EnvInv
            /\ FreshInv

\* The invariant holds when the panel starts.
LEMMA PanelInitially == PanelInit => PanelInv
<1> SUFFICES ASSUME PanelInit PROVE PanelInv
  OBVIOUS
<1>0. PanelAssumption
  BY PanelAssumption
<1>1. P!StreamInv
  BY TableInitially DEF PanelInit
<1>2. InputInv
  <2> DEFINE e == <<>>
  <2>1. e \in Seq(Waiting) /\ e \in Seq(Kept) /\ Len(e) = 0
    OBVIOUS
  <2>2. p_rx = e /\ p_line = e
    BY DEF PanelInit
  <2> HIDE DEF e
  <2>3. QED
    BY <2>1, <2>2, PanelAssumption DEF InputInv
<1>3. PlaceInv /\ FlagInv /\ EnvInv
  BY DEF PanelInit, PlaceInv, FlagInv, EnvInv, Requests
<1>4. BankInv
  BY PanelAssumption DEF PanelInit, BankInv
<1>5. FreshInv
  BY DEF PanelInit, FreshInv, PortIsFresh, ClosedInv
<1>6. QED
  BY <1>1, <1>2, <1>3, <1>4, <1>5 DEF PanelInv

\* Every step of the panel keeps it.
LEMMA PanelKept == PanelInv /\ [PanelNext]_panelVars => PanelInv'
<1> SUFFICES ASSUME PanelInv, [PanelNext]_panelVars PROVE PanelInv'
  OBVIOUS
<1>1. S!StreamTypeOK
  BY TableTyped DEF PanelInv
<1>2. P!StreamInv'
  BY TableKept, PanelIsStreamStep DEF PanelInv
<1>3. InputInv'
  BY InputKept DEF PanelInv
<1>4. PlaceInv'
  BY PlaceKept DEF PanelInv
<1>5. BankInv'
  BY BankKept DEF PanelInv
<1>6. FlagInv'
  BY FlagsKept DEF PanelInv
<1>7. EnvInv'
  BY EnvKept DEF PanelInv
<1>8. FreshInv'
  BY <1>1, FreshKept DEF PanelInv
<1>9. QED
  BY <1>2, <1>3, <1>4, <1>5, <1>6, <1>7, <1>8 DEF PanelInv

\* A step of the boards is a step of the panel, or leaves it alone.
LEMMA BoardIsPanelStep == [Next]_vars => [PanelNext]_panelVars
  BY DEF Next, vars

\* So it holds of every state that is reached.
LEMMA PanelInvariant == Spec => []PanelInv
<1>1. Init => PanelInv
  BY PanelInitially DEF Init
<1>2. PanelInv /\ [Next]_vars => PanelInv'
  BY PanelKept, BoardIsPanelStep
<1>3. QED
  BY <1>1, <1>2, PTL DEF Spec

\* Every variable of the panel stays in its type: among others the line never reaches
\* the end of line_buf, no more than two banks wait, and a bank that is full is released.
THEOREM PanelTypeCorrect == Spec => []PanelTypeOK
<1>1. PanelInv => PanelTypeOK
  <2> SUFFICES ASSUME PanelInv PROVE PanelTypeOK
    OBVIOUS
  <2>1. S!StreamTypeOK
    BY TableTyped DEF PanelInv
  <2>2. Len(p_rx) <= RxFifo /\ Len(p_line) < PanelLine
    BY PanelAssumption DEF PanelInv, InputInv
  <2>3. /\ p_pc \in {"check", "serial", "timer", "poll", "usb", "write", "hang"}
        /\ p_ret \in {"none", "serial", "timer", "usb"} /\ p_request \in Requests
    BY DEF PanelInv, PlaceInv, EnvInv
  <2>4. {p_tifr, usb_ready, usb_configuration, dtr, p_sof, p_eorst, previous_timeout}
          \subseteq BOOLEAN
    BY DEF PanelInv, FlagInv
  <2>5. /\ bank \in 0..BankSize - 1 /\ banks \in 0..2 /\ flush_timer \in 0..FlushTime
        /\ p_size \in 0..LineUnits
    BY DEF PanelInv, BankInv
  <2>6. p_begun \subseteq S!Entries
    BY DEF PanelInv, FreshInv
  <2>7. QED
    BY <2>1, <2>2, <2>3, <2>4, <2>5, <2>6 DEF PanelTypeOK
<1>2. QED
  BY <1>1, PanelInvariant, PTL

\* A host that opens the port finds nothing of the one before, whatever the two of them
\* sent, however the requests and the resets of the bus fall into the panel's main loop.
THEOREM PortIsFreshAlways == Spec => []PortIsFresh
<1>1. PanelInv => PortIsFresh
  BY DEF PanelInv, FreshInv
<1>2. QED
  BY <1>1, PanelInvariant, PTL

\* The panel's main loop works its stream table as StreamTable says, for every table
\* size and every commands: all that StreamTableProofs shows holds of the panel.
THEOREM PanelImplementsStreams == Spec => PanelStreams
<1>1. Init => S!StreamInit
  BY DEF Init, PanelInit
<1>2. PanelInv /\ [Next]_vars => [S!StreamNext]_(S!streamVars)
  <2> SUFFICES ASSUME PanelInv, [Next]_vars PROVE [S!StreamNext]_(S!streamVars)
    OBVIOUS
  <2>1. [PanelNext]_panelVars /\ InputInv
    BY BoardIsPanelStep DEF PanelInv
  <2>2. QED
    BY <2>1, PanelIsStreamStep
<1>3. QED
  BY <1>1, <1>2, PanelInvariant, PTL DEF Spec, PanelStreams, S!StreamSpec
=============================================================================
