----------------------------- MODULE PanelQual ------------------------------
(***************************************************************************)
(* The target panel's firmware (hw/panel_qual/firmware/panel_qual.c) on    *)
(* its USB serial port (usb_serial.c), whose interrupt routines this       *)
(* program polls from the main loop.  A host opens the port by raising     *)
(* DTR, one control request at a time; the streams it begins (StreamTable, *)
(* with the panel's sizes) and the line it is sending end with it.         *)
(*                                                                         *)
(* Output goes to a bank of the endpoint, which is released to the host    *)
(* when it is full or when the flush timer runs out; two banks can wait    *)
(* for the host.  A write waits for a bank, and gives up after a time.     *)
(***************************************************************************)
EXTENDS Naturals, Sequences

CONSTANTS
  PanelEntries, PanelArgs, PanelWrap, PanelIds, PanelRates,  \* as in StreamTable
  PanelTexts,  \* the command texts the host sends
  PanelLine,   \* sizeof(line_buf): 128
  RxFifo,      \* bound: what the host has on its way
  BankSize,    \* CDC_TX_SIZE, in units of output
  LineUnits,   \* what a line of output takes of them
  FlushTime    \* TRANSMIT_FLUSH_TIMEOUT

PanelCodes   == {"TMQ", "HIT", "STL"}
PanelOutcome == [c \in PanelCodes |-> {"ok"}]

VARIABLES
  p_table, p_args,
  p_pc,               \* where the main loop is
  p_ret,              \* where it goes on after a write
  p_rx,               \* the receive endpoint: texts, each with whether its host is gone
  p_line,             \* line_buf, likewise
  p_tifr,             \* OCF0A: the millisecond timer has matched
  usb_ready,
  usb_configuration,  \* not zero
  dtr,                \* cdc_line_rtsdtr & USB_SERIAL_DTR
  p_request,          \* the control request that waits on endpoint 0
  p_sof, p_eorst,     \* start of frame and end of reset of UDINT
  bank,               \* what the present bank holds
  banks,              \* full banks the host has not taken
  flush_timer, previous_timeout,
  p_size,             \* size: what is left of a write
  p_begun             \* history: entries begun by the host that has the port now

S == INSTANCE StreamTable WITH
       NumStreams <- PanelEntries, NumArgs <- PanelArgs, RunsWrap <- PanelWrap,
       Codes <- PanelCodes, Outcome <- PanelOutcome, Ids <- PanelIds,
       Rates <- PanelRates, table <- p_table, args <- p_args

ASSUME PanelAssumption ==
  /\ PanelEntries \in Nat \ {0} /\ PanelArgs \in Nat /\ PanelWrap \in Nat \ {0}
  /\ PanelIds \subseteq Nat /\ PanelRates \subseteq 0..S!MaxU16
  /\ PanelLine \in Nat \ {0, 1, 2} /\ RxFifo \in Nat
  /\ BankSize \in Nat \ {0} /\ LineUnits \in Nat \ {0} /\ FlushTime \in Nat
  /\ \A t \in PanelTexts :
       /\ t.op \in {"STB", "STE"} => t.id \in PanelIds /\ t.code \in PanelCodes
       /\ t.op = "STB" => t.rate \in PanelRates /\ t.extra \in BOOLEAN

p_streams == <<p_table, p_args>>
p_usb     == <<usb_configuration, dtr, p_request, p_sof, p_eorst>>
p_tx      == <<bank, banks, flush_timer, previous_timeout, p_size, p_ret>>
p_input   == <<p_rx, p_line>>
panelVars == <<p_streams, p_pc, p_input, p_tifr, usb_ready, p_usb, p_tx, p_begun>>

PEol     == [op |-> "eol"]
POverrun == [op |-> "overrun"]
Received(c) == [text |-> c, old |-> FALSE]

Requests == {"none", "SET_CONFIGURATION", "DTR on", "DTR off"}

PanelTypeOK ==
  /\ S!StreamTypeOK
  /\ p_pc \in {"check", "serial", "timer", "poll", "usb", "write", "hang"}
  /\ p_ret \in {"none", "serial", "timer", "usb"} /\ p_request \in Requests
  /\ Len(p_rx) <= RxFifo /\ Len(p_line) < PanelLine
  /\ {p_tifr, usb_ready, usb_configuration, dtr, p_sof, p_eorst, previous_timeout}
       \subseteq BOOLEAN
  /\ bank \in 0..BankSize - 1 /\ banks \in 0..2 /\ flush_timer \in 0..FlushTime
  /\ p_size \in 0..LineUnits /\ p_begun \subseteq S!Entries

PanelInit ==
  /\ S!StreamInit
  /\ p_pc = "check" /\ p_ret = "none" /\ p_rx = <<>> /\ p_line = <<>> /\ p_tifr = FALSE
  /\ usb_ready = FALSE /\ usb_configuration = FALSE /\ dtr = FALSE
  /\ p_request = "none" /\ p_sof = FALSE /\ p_eorst = FALSE
  /\ bank = 0 /\ banks = 0 /\ flush_timer = 0 /\ previous_timeout = FALSE
  /\ p_size = 0 /\ p_begun = {}

-----------------------------------------------------------------------------
\* usb_serial_write: not online, or no room since the last write gave up.
WriteGivesUp == ~usb_configuration \/ (previous_timeout /\ banks = 2)

Write(next) ==
  IF WriteGivesUp
  THEN p_pc' = next /\ UNCHANGED p_tx
  ELSE /\ p_pc' = "write" /\ p_ret' = next /\ p_size' = LineUnits
       /\ previous_timeout' = FALSE
       /\ UNCHANGED <<bank, banks, flush_timer>>

\* Mutant: the flush timer is armed by a write that fills no bank only once.
Armed_Once == IF flush_timer = 0 /\ banks = 0 THEN FlushTime ELSE flush_timer

Armed == FlushTime

\* A packet of the write, once the endpoint is ready for it.
WritePacket ==
  /\ p_pc = "write" /\ p_size > 0 /\ banks < 2
  /\ LET n == IF BankSize - bank < p_size THEN BankSize - bank ELSE p_size
     IN  /\ p_size' = p_size - n
         /\ bank' = (bank + n) % BankSize
         /\ banks' = IF bank + n = BankSize THEN banks + 1 ELSE banks
         /\ p_pc' = IF p_size' = 0 THEN p_ret ELSE "write"
         /\ p_ret' = IF p_size' = 0 THEN "none" ELSE p_ret
  /\ flush_timer' = Armed
  /\ UNCHANGED <<p_streams, p_input, p_tifr, usb_ready, p_usb, previous_timeout, p_begun>>

\* The host has not taken a bank for TRANSMIT_TIMEOUT frames.
WriteTimeout ==
  /\ p_pc = "write" /\ banks = 2
  /\ previous_timeout' = TRUE /\ p_size' = 0 /\ p_pc' = p_ret /\ p_ret' = "none"
  /\ UNCHANGED <<p_streams, p_input, p_tifr, usb_ready, p_usb, bank, banks, flush_timer,
                 p_begun>>

-----------------------------------------------------------------------------
\* The top of the main loop.  Mutant: the line that was begun is kept.
Disconnected_KeepLine ==
  /\ S!stream_stop_all
  /\ p_rx' = (IF usb_configuration THEN <<>> ELSE p_rx) /\ UNCHANGED p_line
  /\ usb_ready' = FALSE

\* Mutant: the timers are stopped and the streams stay.
Disconnected_StopTimers ==
  /\ p_table' = [i \in S!Entries |-> [p_table[i] EXCEPT !.time_remaining = 0]]
  /\ UNCHANGED p_args
  /\ p_rx' = (IF usb_configuration THEN <<>> ELSE p_rx) /\ p_line' = <<>>
  /\ usb_ready' = FALSE

Disconnected ==
  /\ S!stream_stop_all
  /\ p_rx' = (IF usb_configuration THEN <<>> ELSE p_rx) /\ p_line' = <<>>
  /\ usb_ready' = FALSE

PanelCheck ==
  /\ p_pc = "check"
  /\ \/ /\ usb_configuration /\ dtr /\ ~usb_ready
        /\ usb_ready' = TRUE /\ p_line' = <<>>
        /\ Write("serial") /\ UNCHANGED <<p_streams, p_rx>>
     \/ /\ usb_configuration /\ dtr /\ usb_ready
        /\ p_pc' = "serial" /\ UNCHANGED <<p_streams, p_input, usb_ready, p_tx>>
     \/ /\ ~(usb_configuration /\ dtr)
        /\ Disconnected /\ p_pc' = "serial" /\ UNCHANGED p_tx
  /\ UNCHANGED <<p_tifr, p_usb, p_begun>>

\* cmd_stb and cmd_ste of the panel.
panel_stream_cmd(text) ==
  \/ /\ text.op = "STB" /\ S!cmd_stb(text.id, text.rate, text.code, text.extra)
     /\ p_begun' = p_begun \cup {i \in S!Entries : p_table'[i] # p_table[i]}
  \/ text.op = "STE" /\ S!cmd_ste(text.id, text.code) /\ UNCHANGED p_begun

\* The commands that only answer: PNG, VER, TMQ, HIT, STL, STG, and what is not one.
panel_query(text) ==
  text.op \notin {"STB", "STE", "RST"} /\ Write("timer") /\ UNCHANGED <<p_streams, p_begun>>

\* fw_command_table.
panel_command(text) ==
  \/ panel_stream_cmd(text) /\ Write("timer")
  \/ text.op = "RST" /\ p_pc' = "hang" /\ UNCHANGED <<p_streams, p_tx, p_begun>>
  \/ panel_query(text)

\* A line that is not the text of one command is answered with an error.
panel_handle_line ==
  IF p_line = <<>> THEN p_pc' = "timer" /\ UNCHANGED <<p_streams, p_tx, p_begun>>
  ELSE panel_command(IF Len(p_line) = 1 THEN p_line[1].text ELSE POverrun)

PanelSerial ==
  /\ p_pc = "serial"
  /\ \/ /\ p_rx = <<>> \/ ~usb_configuration
        /\ p_pc' = "timer" /\ UNCHANGED <<p_streams, p_input, p_tx, p_begun>>
     \/ /\ p_rx # <<>> /\ usb_configuration /\ p_rx' = Tail(p_rx)
        /\ IF Head(p_rx).text = PEol
           THEN panel_handle_line /\ p_line' = <<>>
           ELSE /\ LET l == Append(p_line, Head(p_rx))
                   IN  p_line' = IF Len(l) + 1 >= PanelLine
                                 THEN [SubSeq(l, 1, Len(l) - 1) EXCEPT ![1].text = POverrun]
                                 ELSE l
                /\ p_pc' = "timer" /\ UNCHANGED <<p_streams, p_tx, p_begun>>
  /\ UNCHANGED <<p_tifr, usb_ready, p_usb>>

\* stream_timer_update of the panel.
panel_stream_timer == S!stream_timer_update

PanelTimer ==
  /\ p_pc = "timer" /\ p_pc' = "poll" /\ p_tifr' = FALSE
  /\ IF p_tifr THEN panel_stream_timer ELSE UNCHANGED p_streams
  /\ UNCHANGED <<p_input, usb_ready, p_usb, p_tx, p_begun>>

PanelPoll ==
  /\ p_pc = "poll" /\ S!stream_poll("ok")
  /\ IF \E i \in S!Entries : S!Due(i) THEN Write("usb") ELSE p_pc' = "usb" /\ UNCHANGED p_tx
  /\ UNCHANGED <<p_input, p_tifr, usb_ready, p_usb, p_begun>>

-----------------------------------------------------------------------------
\* What the host had is marked when the port is closed.
Closes == /\ p_begun' = {}
          /\ p_rx' = [k \in DOMAIN p_rx |-> [p_rx[k] EXCEPT !.old = TRUE]]
          /\ p_line' = [k \in DOMAIN p_line |-> [p_line[k] EXCEPT !.old = TRUE]]

Keeps == UNCHANGED <<p_begun, p_input>>

\* isr_USB_COM_vect, the requests that change something.
HandleRequest ==
  /\ p_request' = "none"
  /\ \/ /\ p_request = "SET_CONFIGURATION"
        /\ usb_configuration' = TRUE /\ dtr' = FALSE
        /\ flush_timer' = 0 /\ bank' = 0 /\ banks' = 0
        /\ p_begun' = {} /\ p_rx' = <<>>
        /\ p_line' = [k \in DOMAIN p_line |-> [p_line[k] EXCEPT !.old = TRUE]]
     \/ /\ p_request = "DTR on" /\ dtr' = TRUE
        /\ Keeps /\ UNCHANGED <<usb_configuration, flush_timer, bank, banks>>
     \/ /\ p_request = "DTR off" /\ dtr' = FALSE
        /\ Closes /\ UNCHANGED <<usb_configuration, flush_timer, bank, banks>>

\* isr_USB_GEN_vect: a reset, or a start of frame, which counts the flush timer
\* down and releases the bank when it is through.
HandleGeneral ==
  /\ p_eorst' = FALSE /\ p_sof' = FALSE /\ UNCHANGED p_request
  /\ IF p_eorst THEN usb_configuration' = FALSE /\ dtr' = FALSE /\ Closes
     ELSE Keeps /\ UNCHANGED <<usb_configuration, dtr>>
  /\ IF p_sof /\ ~p_eorst /\ usb_configuration /\ flush_timer > 0
     THEN /\ flush_timer' = flush_timer - 1
          /\ IF flush_timer = 1 /\ banks < 2 THEN bank' = 0 /\ banks' = banks + 1
             ELSE UNCHANGED <<bank, banks>>
     ELSE UNCHANGED <<flush_timer, bank, banks>>

\* usb_poll: the general events, then at most one request.
usb_poll ==
  /\ p_pc = "usb"
  /\ \/ (p_sof \/ p_eorst) /\ HandleGeneral /\ p_pc' = IF p_request = "none" THEN "check" ELSE "usb"
     \/ ~(p_sof \/ p_eorst) /\ p_request # "none" /\ HandleRequest /\ p_pc' = "check"
        /\ UNCHANGED <<p_sof, p_eorst>>
     \/ ~(p_sof \/ p_eorst) /\ p_request = "none" /\ p_pc' = "check"
        /\ Keeps /\ UNCHANGED <<p_usb, bank, banks, flush_timer>>
  /\ UNCHANGED <<p_streams, p_tifr, usb_ready, p_ret, previous_timeout, p_size>>

-----------------------------------------------------------------------------
\* The host: it resets the bus, makes one request at a time, writes while it has
\* the port open, and takes banks.
HostReset ==
  /\ ~p_eorst /\ p_eorst' = TRUE /\ p_request' = "none"
  /\ UNCHANGED <<p_streams, p_pc, p_input, p_tifr, usb_ready, usb_configuration, dtr, p_sof,
                 p_tx, p_begun>>

HostRequests(r) ==
  /\ p_request = "none" /\ ~p_eorst /\ p_request' = r
  /\ r \in {"DTR on", "DTR off"} => usb_configuration
  /\ UNCHANGED <<p_streams, p_pc, p_input, p_tifr, usb_ready, usb_configuration, dtr, p_sof,
                 p_eorst, p_tx, p_begun>>

HostSends(c) ==
  /\ dtr /\ usb_configuration /\ p_request = "none" /\ ~p_eorst /\ Len(p_rx) < RxFifo
  /\ p_rx' = Append(p_rx, Received(c))
  /\ UNCHANGED <<p_streams, p_pc, p_line, p_tifr, usb_ready, p_usb, p_tx, p_begun>>

HostTakes ==
  /\ banks > 0 /\ usb_configuration /\ banks' = banks - 1
  /\ UNCHANGED <<p_streams, p_pc, p_input, p_tifr, usb_ready, p_usb, bank, flush_timer,
                 previous_timeout, p_size, p_ret, p_begun>>

StartOfFrame == ~p_sof /\ p_sof' = TRUE
                /\ UNCHANGED <<p_streams, p_pc, p_input, p_tifr, usb_ready, usb_configuration,
                               dtr, p_request, p_eorst, p_tx, p_begun>>

PanelTimerMatch ==
  ~p_tifr /\ p_tifr' = TRUE
  /\ UNCHANGED <<p_streams, p_pc, p_input, usb_ready, p_usb, p_tx, p_begun>>

\* RST and BOT leave the program; it starts again with the next power-up.
PanelReset ==
  /\ p_pc = "hang"
  /\ S!StreamReset
  /\ p_pc' = "check" /\ p_ret' = "none" /\ p_rx' = <<>> /\ p_line' = <<>> /\ p_tifr' = FALSE
  /\ usb_ready' = FALSE /\ usb_configuration' = FALSE /\ dtr' = FALSE
  /\ p_request' = "none" /\ p_sof' = FALSE /\ p_eorst' = FALSE
  /\ bank' = 0 /\ banks' = 0 /\ flush_timer' = 0 /\ previous_timeout' = FALSE
  /\ p_size' = 0 /\ p_begun' = {}

PanelLoop == \/ PanelCheck \/ PanelSerial \/ PanelTimer \/ PanelPoll \/ usb_poll
             \/ WritePacket \/ WriteTimeout

PanelNext ==
  \/ PanelLoop \/ PanelReset
  \/ HostReset \/ \E r \in Requests \ {"none"} : HostRequests(r)
  \/ \E c \in PanelTexts \cup {PEol} : HostSends(c)
  \/ HostTakes \/ StartOfFrame \/ PanelTimerMatch

-----------------------------------------------------------------------------
\* The panel's main loop works its stream table as StreamTable says.
PanelStreams == S!StreamSpec

\* A host that opens the port finds nothing of the one before: the streams that
\* run, the line that is being assembled and the input that waits are its own.
\* This rests on DTR being polled once per request, so that a drop is always seen.
PortIsFresh ==
  dtr => /\ \A i \in S!Entries : S!Live(i) => i \in p_begun
         /\ \A k \in DOMAIN p_rx : ~p_rx[k].old
         /\ \A k \in DOMAIN p_line : ~p_line[k].old

\* What was put in a bank is released to the host, also when nothing follows it.
OutputReleased ==
  usb_configuration /\ bank > 0 ~> bank = 0 \/ ~usb_configuration \/ p_pc = "hang"
=============================================================================
