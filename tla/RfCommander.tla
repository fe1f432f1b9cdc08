----------------------------- MODULE RfCommander ----------------------------
(***************************************************************************)
(* The operator's radio: the command program (mech/rf_command.cc) with its *)
(* client of the nrfusb dongle (mech/nrfusb_client.cc).  The program is a  *)
(* loop of frames.  Each runs the handlers that are ready, in the order    *)
(* they became so, looks at the gamepad and writes all slots again.        *)
(*                                                                         *)
(* Of the slots received, which remote sent them is what is told apart; of *)
(* those sent, the modes, the laser and the fire sequence.                 *)
(***************************************************************************)
EXTENDS Integers, Sequences

CONSTANTS
  RfLines,    \* what the dongle reports: lines of a remote and its slots
  MaxLines,   \* bound: lines that wait to be read
  MaxWrites,  \* bound: commands that wait to be written
  Gamepads,   \* the states of the gamepad
  FirstShot, LastShot  \* 1024 and 2048

\* The trigger's axis, cut where the hysteresis is.
ASSUME RfAssumption == \A g \in Gamepads : g.trigger \in {"in", "between", "out"}

VARIABLES
  n_lines,           \* lines that have come in
  n_ready,           \* the handlers that are ready, in order
  n_armed,           \* async_read_until waits for a line
  pending_bitfield,  \* the slots of it, each with the remote that sent it
  n_waiting,         \* a client waits: bitfield_ is set
  c_remote, c_bitfield,  \* remote_ and bitfield_ of SlotCommand
  write_streambuf,   \* commands that are to be written
  write_outstanding, \* how many of them the present write holds, 0 without one
  dongle,            \* the command the dongle transmits
  buttons,           \* old_gamepad_buttons
  trigger_down,
  select,            \* for "gait" and "turret": pending mode, window open, mode
  turret_laser, turret_fire_sequence,
  command,           \* what the last frame sent
  c_released         \* history: the trigger was let go since the last shot

rfRead    == <<n_lines, n_armed, pending_bitfield, n_waiting, c_remote, c_bitfield>>
rfWrite   == <<write_streambuf, write_outstanding, dongle>>
rfGamepad == <<buttons, trigger_down, select, turret_laser, turret_fire_sequence,
               command, c_released>>
rfVars    == <<rfRead, n_ready, rfWrite, rfGamepad>>

NoCommand == [mode |-> "stopped", turret |-> "stop", laser |-> FALSE, shot |-> 0]

\* The orders the modes are offered in.
Modes == [gait   |-> <<"stopped", "rest", "walk", "jump", "zero_velocity">>,
          turret |-> <<"stop", "active">>]

RfInit ==
  /\ n_lines = <<>> /\ n_ready = <<>> /\ n_armed = TRUE
  /\ pending_bitfield = {} /\ n_waiting = TRUE /\ c_remote = 0 /\ c_bitfield = {}
  /\ write_streambuf = <<>> /\ write_outstanding = 0 /\ dongle = NoCommand
  /\ buttons = [y |-> FALSE, x |-> FALSE, up |-> FALSE, down |-> FALSE, b |-> FALSE]
  /\ trigger_down = FALSE
  /\ select = [w \in {"gait", "turret"} |-> [pending |-> 1, open |-> FALSE, mode |-> 1]]
  /\ turret_laser = FALSE /\ turret_fire_sequence = 0 /\ command = NoCommand
  /\ c_released = TRUE

-----------------------------------------------------------------------------
\* The dongle's line is there; a read that waits for it becomes ready.
LineArrives(line) ==
  /\ Len(n_lines) < MaxLines
  /\ n_lines' = Append(n_lines, line)
  /\ n_armed' = FALSE
  /\ n_ready' = IF n_armed THEN Append(n_ready, "read") ELSE n_ready
  /\ UNCHANGED <<pending_bitfield, n_waiting, c_remote, c_bitfield, rfWrite, rfGamepad>>

\* async_read_until: a line that is in the buffer already makes it ready at once.
StartRead(ready, lines) ==
  /\ n_armed' = (lines = <<>>)
  /\ n_ready' = IF lines = <<>> THEN ready ELSE Append(ready, "read")

\* MaybeProcessCallback: what it adds to the handlers that are ready.
Reports(pending, waiting) == waiting /\ pending # {}

\* Mutant: the next read is begun before the line is handled.
AfterLine_ReadFirst(ready, reports, lines) ==
  LET rest == IF lines = <<>> THEN ready ELSE Append(ready, "read")
  IN  /\ n_armed' = (lines = <<>>)
      /\ n_ready' = IF reports THEN Append(rest, "callback") ELSE rest

\* The order of HandleRead: the callback is posted, then the next read begins.
AfterLine(ready, reports, lines) ==
  StartRead(IF reports THEN Append(ready, "callback") ELSE ready, lines)

\* HandleLine, HandleReceive and HandleField: a slot number that is not one and
\* data that are not pairs of digits are skipped, which leaves a line of fewer slots.
NrfHandleRead ==
  /\ n_ready # <<>> /\ Head(n_ready) = "read"
  /\ LET line == Head(n_lines)
         pending == pending_bitfield \cup {[remote |-> line.remote, slot |-> s] : s \in line.slots}
         reports == Reports(pending, n_waiting)
     IN  /\ n_lines' = Tail(n_lines)
         /\ c_remote' = IF n_waiting THEN line.remote ELSE c_remote
         /\ c_bitfield' = IF reports THEN pending ELSE c_bitfield
         /\ pending_bitfield' = IF reports THEN {} ELSE pending
         /\ n_waiting' = (n_waiting /\ ~reports)
         /\ AfterLine(Tail(n_ready), reports, Tail(n_lines))
  /\ UNCHANGED <<rfWrite, rfGamepad>>

\* AsyncWaitForSlot: what has come in meanwhile is reported at once.
AsyncWaitForSlot(ready) ==
  LET reports == Reports(pending_bitfield, TRUE)
  IN  /\ c_bitfield' = pending_bitfield /\ pending_bitfield' = {}
      /\ n_waiting' = ~reports
      /\ n_ready' = IF reports THEN Append(ready, "callback") ELSE ready

\* SlotCommand::HandleRead: the slots are processed under remote_, and the client
\* waits again.
SlotHandleRead ==
  /\ n_ready # <<>> /\ Head(n_ready) = "callback"
  /\ AsyncWaitForSlot(Tail(n_ready))
  /\ UNCHANGED <<n_lines, n_armed, c_remote, rfWrite, rfGamepad>>

-----------------------------------------------------------------------------
\* The serial port has taken the write, which ends as a handler.
PortTakes ==
  /\ write_outstanding > 0 /\ dongle' = write_streambuf[write_outstanding]
  /\ ~\E i \in DOMAIN n_ready : n_ready[i] = "written"
  /\ n_ready' = Append(n_ready, "written")
  /\ UNCHANGED <<rfRead, write_streambuf, write_outstanding, rfGamepad>>

\* MaybeStartWrite, at the end of a write: all that has gathered since is the
\* next one.  Mutant: nothing is begun.
MaybeStartWrite_Not(rest) == 0

MaybeStartWrite(rest) == Len(rest)

HandleWrite ==
  /\ n_ready # <<>> /\ Head(n_ready) = "written" /\ n_ready' = Tail(n_ready)
  /\ LET rest == SubSeq(write_streambuf, write_outstanding + 1, Len(write_streambuf))
     IN  write_streambuf' = rest /\ write_outstanding' = MaybeStartWrite(rest)
  /\ UNCHANGED <<rfRead, dongle, rfGamepad>>

-----------------------------------------------------------------------------
\* DrawGait and DrawTurret: the buttons move through the modes while the window
\* is open; what is chosen takes effect in the frame that closes it.
Selected(s, modes, held, up, down) ==
  LET n == Len(modes)
      moved == IF ~held THEN s.pending
               ELSE ((s.pending - 1 + (IF up THEN n - 1 ELSE 0)
                                    + (IF down THEN 1 ELSE 0)) % n) + 1
  IN  [pending |-> moved, open |-> held,
       mode |-> IF ~held /\ s.open THEN moved ELSE s.mode]

\* The hysteresis of the trigger.  Mutant: without it.
TriggerDown_Plain(axis) == axis = "in"

TriggerDown(axis) == axis = "in" \/ (axis = "between" /\ trigger_down)

NextShot ==
  LET next == IF turret_fire_sequence + 1 > FirstShot THEN turret_fire_sequence + 1
              ELSE FirstShot
  IN  IF next > LastShot THEN FirstShot ELSE next

\* actual_command_mode: walking and jumping need a movement.
ActualMode(mode, moving) == IF mode \in {"walk", "jump"} /\ ~moving THEN "rest" ELSE mode

\* tx_slot: the slots are put behind what is being written.
tx_slots(c) ==
  /\ write_streambuf' = Append(write_streambuf, c)
  /\ write_outstanding' = IF write_outstanding = 0 THEN Len(write_streambuf')
                          ELSE write_outstanding
  /\ UNCHANGED dongle

\* SlotCommand::Command
Sends(c) == command' = c /\ tx_slots(c)

\* A frame, with the turret: context.poll() has run what was ready.
Frame(g) ==
  LET up   == g.up /\ ~buttons.up
      down == g.down /\ ~buttons.down
      fire == TriggerDown(g.trigger) /\ ~trigger_down
  IN  /\ n_ready = <<>> /\ Len(write_streambuf) < MaxWrites
      /\ buttons' = [k \in DOMAIN buttons |-> g[k]]
      /\ trigger_down' = TriggerDown(g.trigger)
      /\ select' = [gait   |-> Selected(select.gait, Modes.gait, g.y, up, down),
                    turret |-> Selected(select.turret, Modes.turret, g.x, up, down)]
      /\ turret_laser' = (turret_laser # (g.b /\ ~buttons.b))
      /\ turret_fire_sequence' = IF fire THEN NextShot ELSE turret_fire_sequence
      /\ c_released' = (g.trigger = "out" \/ (c_released /\ ~fire))
      /\ Sends([mode |-> ActualMode(Modes.gait[select'.gait.mode], g.moving),
                turret |-> Modes.turret[select'.turret.mode],
                laser |-> turret_laser', shot |-> turret_fire_sequence'])
      /\ UNCHANGED <<rfRead, n_ready>>

RfHandlers == NrfHandleRead \/ SlotHandleRead \/ HandleWrite

RfNext ==
  \/ \E line \in RfLines : LineArrives(line)
  \/ NrfHandleRead \/ SlotHandleRead \/ HandleWrite
  \/ PortTakes
  \/ \E g \in Gamepads : Frame(g)

-----------------------------------------------------------------------------
\* Slots are shown as those of the remote that sent them.  The client keeps one
\* bitfield for both remotes and tells the remote only to one who waits: this
\* rests on the callback being ahead of the next line, and waiting again at once.
RemoteMatchesSlots ==
  (\E i \in DOMAIN n_ready : n_ready[i] = "callback") =>
    \A x \in c_bitfield : x.remote = c_remote

\* A pull of the trigger is one shot: between two changes of the sequence the
\* trigger was let go all the way, however it hovers in between.
OneShotPerPull ==
  [][turret_fire_sequence' # turret_fire_sequence => c_released]_rfVars

\* A stop reaches the dongle, behind whatever is still being written, unless
\* the operator takes it back.
StopReachesDongle ==
  command.mode = "stopped" ~> dongle.mode = "stopped" \/ command.mode # "stopped"
=============================================================================
