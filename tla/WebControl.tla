----------------------------- MODULE WebControl -----------------------------
(***************************************************************************)
(* A browser at the robot: the page of the quadruped                       *)
(* (mech/web_control_assets/js/app.js), the sessions of the web server on  *)
(* its thread (mech/web_server.cc) and those of its control websocket      *)
(* (mech/web_control.h), which hand commands to the main thread one by one *)
(* and answer each with the robot's status.                                *)
(*                                                                         *)
(* A session lives as long as one of its handlers is pending.  When the    *)
(* network fails, the page and the session notice at different times, so   *)
(* that the page may be back before its old session is gone.               *)
(***************************************************************************)
EXTENDS Naturals

CONSTANTS
  Sessions,    \* bound: sessions there may be at a time
  RobotModes,  \* the robot's modes
  UserModes    \* bound: the modes the user of the page chooses

\* The page's names of the modes: off, stop (damped), idle, walk, pronk (jump).
PageModes == {"off", "stop", "idle", "walk", "pronk"}

ASSUME WebAssumption ==
  /\ Sessions \subseteq Nat \ {0} /\ UserModes \subseteq PageModes
  /\ {"stopped", "stand_up", "rest", "walk", "jump", "zero_velocity", "fault"} \subseteq RobotModes
  /\ {"none", "empty", "null"} \cap RobotModes = {}

VARIABLES
  session,      \* what each session waits for, the page's message and its answer
  websocket,    \* websocket_, 0 once the session it points to is gone
  page,         \* the page: its socket's session, 0 without one, _mode and _state
  w_adopted,    \* history: the robot's mode the page adopted, until the user chooses
  robot_mode

webVars == <<session, websocket, page, w_adopted, robot_mode>>

Gone     == [at |-> "gone", up |-> FALSE, message |-> "none", reply |-> "none"]
Websocket == {"read", "main", "reply", "write", "close"}
Alive(s) == session[s].at \in Websocket

WebTypeOK ==
  /\ session \in [Sessions ->
       [at: Websocket \cup {"gone", "http", "httpwrite"}, up: BOOLEAN,
        message: {"none", "empty"} \cup RobotModes, reply: {"none"} \cup RobotModes]]
  /\ websocket \in Sessions \cup {0}
  /\ page \in [socket: Sessions \cup {0}, mode: PageModes \cup {""},
               state: RobotModes \cup {"null"}]
  /\ w_adopted \in RobotModes \cup {"none"} /\ robot_mode \in RobotModes

WebInit ==
  /\ session = [s \in Sessions |-> Gone] /\ websocket = 0
  /\ page = [socket |-> 0, mode |-> "", state |-> "null"]
  /\ w_adopted = "none" /\ robot_mode = "stopped"

Frees(s) == /\ session' = [session EXCEPT ![s] = Gone]
            /\ websocket' = IF websocket = s THEN 0 ELSE websocket

Goes(s, at) == session' = [session EXCEPT ![s].at = at] /\ UNCHANGED websocket

-----------------------------------------------------------------------------
\* The page.  _openWebsocket: the mode is not known, a new connection is made,
\* which Listener::HandleAccept takes.
OpenWebsocket ==
  /\ page.socket = 0
  /\ \E s \in Sessions :
       /\ session[s] = Gone
       /\ session' = [session EXCEPT ![s].at = "http", ![s].up = TRUE]
       /\ page' = [socket |-> s, mode |-> "", state |-> "null"]
  /\ w_adopted' = "none" /\ UNCHANGED <<websocket, robot_mode>>

\* _handleWebsocketClose: the session has ended, or the network has.
WebsocketClosed ==
  /\ page.socket # 0 /\ ~session[page.socket].up
  /\ page' = [page EXCEPT !.socket = 0]
  /\ UNCHANGED <<session, websocket, w_adopted, robot_mode>>

\* _updateState, the first time: the page takes the robot's mode for its own.
Adopted(mode, state) ==
  IF mode # "" \/ state = "null" THEN mode
  ELSE CASE state = "stopped" -> "off"
         [] state = "rest" -> "idle"
         [] state = "walk" -> "walk"
         [] state = "jump" -> "pronk"
         [] OTHER -> "stop"

\* _sendCommand; without a movement a walk or a jump is a rest.
CommandFor(mode, moving) ==
  CASE mode = "" -> "empty"
    [] mode = "off" -> "stopped"
    [] mode = "idle" -> "rest"
    [] mode \in {"walk", "pronk"} /\ ~moving -> "rest"
    [] mode = "walk" -> "walk"
    [] mode = "pronk" -> "jump"
    [] OTHER -> "zero_velocity"

\* _handleTimer, with a socket that is open and has room.
PageTimer(moving) ==
  LET s == page.socket
  IN  /\ s # 0 /\ Alive(s) /\ session[s].up /\ session[s].message = "none"
      /\ session' = [session EXCEPT ![s].message = CommandFor(page.mode, moving)]
      /\ UNCHANGED <<websocket, page, w_adopted, robot_mode>>

\* _updateMode and _powerOff
UserChooses(mode) ==
  /\ page.socket # 0 /\ mode # page.mode
  /\ page' = [page EXCEPT !.mode = mode] /\ w_adopted' = "none"
  /\ UNCHANGED <<session, websocket, robot_mode>>

-----------------------------------------------------------------------------
\* Session::HandleRead of the server.  Documents are answered; an error, the
\* timeout and the end of the stream end the session.
HttpDocument(s) ==
  /\ session[s].at = "http" /\ page.socket # s /\ Goes(s, "httpwrite")
  /\ UNCHANGED <<page, w_adopted, robot_mode>>

HttpWritten(s) ==
  /\ session[s].at = "httpwrite" /\ (Goes(s, "http") \/ Frees(s))
  /\ UNCHANGED <<page, w_adopted, robot_mode>>

HttpEnds(s) ==
  /\ session[s].at = "http" /\ (~session[s].up \/ page.socket # s) /\ Frees(s)
  /\ UNCHANGED <<page, w_adopted, robot_mode>>

\* Another program fetches documents (bound: it leaves room for the page).
HttpConnect(s) ==
  /\ session[s] = Gone /\ page.socket # s
  /\ page.socket # 0 \/ \E t \in Sessions \ {s} : session[t] = Gone
  /\ session' = [session EXCEPT ![s].at = "http", ![s].up = TRUE]
  /\ UNCHANGED <<websocket, page, w_adopted, robot_mode>>

\* The weak pointer can be locked.  Mutant: the test of the pointer is missing.
Locked_Never == FALSE

Locked == websocket # 0

\* StartWebsocket: the page asks for an upgrade of its connection.
StartWebsocket(s) == session[s].at = "http" /\ page.socket = s /\ session[s].up

\* HandleControlWebsocket, with options_.exclusive.
HandleControlWebsocket(s) ==
  /\ StartWebsocket(s)
  /\ IF Locked THEN Frees(s)
     ELSE session' = [session EXCEPT ![s].at = "read"] /\ websocket' = s
  /\ UNCHANGED <<page, w_adopted, robot_mode>>

\* WebsocketServer::HandleRead: a command for the main thread, or text that does
\* not parse and is dropped.
HandleMessage(s) ==
  /\ session[s].at = "read" /\ session[s].message # "none"
  /\ \/ Goes(s, "main")
     \/ session' = [session EXCEPT ![s].message = "none"] /\ UNCHANGED websocket
  /\ UNCHANGED <<page, w_adopted, robot_mode>>

\* Mutant: only a read closes.
MaybeClose_Read(s) ==
  /\ ~session[s].up
  /\ session[s].at = "read" /\ session[s].message = "none"
  /\ Goes(s, "close")
  /\ UNCHANGED <<page, w_adopted, robot_mode>>

\* MaybeClose, of a read and of a write.
MaybeClose(s) ==
  /\ ~session[s].up
  /\ \/ session[s].at = "read" /\ session[s].message = "none"
     \/ session[s].at = "write"
  /\ Goes(s, "close")
  /\ UNCHANGED <<page, w_adopted, robot_mode>>

\* The modes the robot can be in after a command (MaybeChangeMode).
Taken(mode, cmd) ==
  CASE cmd = "stopped" -> {"stopped"}
    [] cmd = "zero_velocity" -> {IF mode = "fault" THEN mode ELSE cmd}
    [] cmd \in {"rest", "walk", "jump"} ->
         IF mode \in {"stopped", "zero_velocity"} THEN {"stand_up"}
         ELSE IF mode = "fault" THEN {mode} ELSE {mode, cmd}
    [] OTHER -> {mode}

\* The lambda on the main thread: set_command_ and get_status_.
RunCommand(s) ==
  /\ session[s].at = "main"
  /\ robot_mode' \in Taken(robot_mode, session[s].message)
  /\ session' = [session EXCEPT ![s].at = "reply", ![s].message = "none",
                                ![s].reply = robot_mode']
  /\ UNCHANGED <<websocket, page, w_adopted>>

WriteReply(s) ==
  session[s].at = "reply" /\ Goes(s, "write") /\ UNCHANGED <<page, w_adopted, robot_mode>>

\* _handleWebsocketMessage
HandleWebsocketMessage(reply) ==
  page' = [page EXCEPT !.state = reply, !.mode = Adopted(page.mode, reply)]

\* HandleWrite, and the page that gets the reply.
HandleReply(s) ==
  /\ session[s].at = "write" /\ session[s].up
  /\ session' = [session EXCEPT ![s].at = "read", ![s].reply = "none"]
  /\ IF page.socket = s THEN HandleWebsocketMessage(session[s].reply) ELSE UNCHANGED page
  /\ w_adopted' = IF page'.mode = page.mode THEN w_adopted ELSE session[s].reply
  /\ UNCHANGED <<websocket, robot_mode>>

HandleClose(s) ==
  session[s].at = "close" /\ Frees(s) /\ UNCHANGED <<page, w_adopted, robot_mode>>

-----------------------------------------------------------------------------
\* The network between the two fails.
NetworkFails(s) ==
  /\ Alive(s) /\ session[s].up
  /\ session' = [session EXCEPT ![s].up = FALSE]
  /\ UNCHANGED <<websocket, page, w_adopted, robot_mode>>

\* The robot stands up, or finds a fault.
RobotMoves ==
  /\ \/ robot_mode = "stand_up" /\ robot_mode' = "rest"
     \/ robot_mode # "fault" /\ robot_mode' = "fault"
  /\ UNCHANGED <<session, websocket, page, w_adopted>>

WebServerSteps(s) ==
  \/ HttpWritten(s) \/ HttpEnds(s) \/ HandleControlWebsocket(s)
  \/ HandleMessage(s) \/ MaybeClose(s) \/ RunCommand(s) \/ WriteReply(s)
  \/ HandleReply(s) \/ HandleClose(s)

WebNext ==
  \/ OpenWebsocket \/ WebsocketClosed
  \/ \E moving \in BOOLEAN : PageTimer(moving)
  \/ \E mode \in UserModes : UserChooses(mode)
  \/ \E s \in Sessions :
       HttpConnect(s) \/ HttpDocument(s) \/ NetworkFails(s) \/ WebServerSteps(s)
  \/ RobotMoves

-----------------------------------------------------------------------------
\* options_.exclusive: one session at most can give commands, also while an old
\* one has not noticed yet that its page is gone.
WebExclusive == \A s, t \in Sessions : Alive(s) /\ Alive(t) => s = t

\* A page that is cut off gets in again: the session the network took from it, which
\* may be waiting for the main thread or to write, does not keep it out for good.
PageGetsIn ==
  (\E s \in Sessions : Alive(s) /\ ~session[s].up) ~>
    (page.socket # 0 /\ Alive(page.socket) /\ session[page.socket].up)

\* "This is our first update, so set our mode to be whatever the robot is at now":
\* a page whose user has not chosen a mode leaves the robot in the one it was in
\* when the page connected, but for the rest in place of a walk without movement.
PageKeepsMode ==
  [][page.socket # 0 /\ w_adopted = robot_mode
       /\ session[page.socket].at = "main" /\ session'[page.socket].at = "reply"
       => robot_mode' \in {robot_mode, "rest"}]_webVars
=============================================================================
