----------------------------- MODULE LinksProofs ----------------------------
(***************************************************************************)
(* The programs around the robot: what their runs check, for every number  *)
(* of peers, sessions, lines and frames.  MCLinks only sets them side by   *)
(* side, and each part of the invariant is kept by the steps of one.       *)
(***************************************************************************)
EXTENDS MCLinks, FiniteSetTheorems, SequenceTheorems, WellFoundedInduction, TLAPS

-----------------------------------------------------------------------------
\* A peer is silent for no longer than its timeout and what has run of the timer's
\* period: the deadline of a peer never moves while it is silent.
UdpInv ==
  /\ UdpTypeOK /\ u_timer \in 0..Period
  /\ \A p \in Peers : Known(p) => peers[p].silent + u_timer <= PeerTimeout + Period

\* The period of the timer is a fifth of the timeout, rounded down.
LEMMA PeriodFits == Period \in 0..PeerTimeout /\ PeerTimeout \in Nat
  BY UdpAssumption DEF Period

\* No peer is known at the start.
LEMMA UdpInitially == UdpInit => UdpInv
<1> SUFFICES ASSUME UdpInit PROVE UdpInv
  OBVIOUS
<1>1. \A p \in Peers : peers[p] = NoPeer
  BY DEF UdpInit
<1>2. NoPeer \in [id: 0..MaxPeerIds, silent: Nat]
  BY UdpAssumption DEF NoPeer
<1>3. peers \in [Peers -> [id: 0..MaxPeerIds, silent: Nat]]
  BY <1>2 DEF UdpInit
<1>4. \A p \in Peers : ~Known(p)
  BY <1>1 DEF Known, NoPeer
<1>5. QED
  BY <1>3, <1>4, PeriodFits, UdpAssumption DEF UdpInit, UdpInv, UdpTypeOK

\* A packet makes its sender a peer that was heard from now.
LEMMA PacketKeepsPeers ==
  ASSUME UdpInv, NEW q \in Peers, HandleUdpPacket(q)
  PROVE  UdpInv'
<1> DEFINE r == [id |-> IF Known(q) THEN peers[q].id ELSE last_peer_id', silent |-> 0]
<1>1. peers \in [Peers -> [id: 0..MaxPeerIds, silent: Nat]] /\ last_peer_id \in 0..MaxPeerIds
      /\ MaxPeerIds \in Nat
  BY UdpAssumption DEF UdpInv, UdpTypeOK
<1>2. last_peer_id' \in 0..MaxPeerIds
  BY <1>1 DEF HandleUdpPacket
<1>3. peers' = [peers EXCEPT ![q] = r]
  BY DEF HandleUdpPacket
<1>4. r \in [id: 0..MaxPeerIds, silent: Nat] /\ r.silent = 0
  BY <1>1, <1>2
<1> HIDE DEF r
<1>5. peers' \in [Peers -> [id: 0..MaxPeerIds, silent: Nat]]
  BY <1>1, <1>3, <1>4
<1>6. UNCHANGED <<tx_pending, u_timer, u_reached>>
  BY DEF HandleUdpPacket
<1>7. UdpTypeOK' /\ u_timer' \in 0..Period
  BY <1>2, <1>5, <1>6 DEF UdpInv, UdpTypeOK
<1>8. ASSUME NEW p \in Peers, Known(p)' PROVE peers'[p].silent + u_timer' <= PeerTimeout + Period
  <2>1. CASE p = q
    BY <1>1, <1>3, <1>4, <1>7, <2>1, PeriodFits
  <2>2. CASE p # q
    <3>1. peers'[p] = peers[p]
      BY <1>1, <1>3, <2>2
    <3>2. QED
      BY <1>6, <1>8, <3>1 DEF UdpInv, Known
  <2>3. QED
    BY <2>1, <2>2
<1>9. QED
  BY <1>7, <1>8 DEF UdpInv

\* What is sent goes to peers, and no more is under way than the socket allows.
LEMMA SendKeepsPeers == ASSUME UdpInv, UdpSend PROVE UdpInv'
<1> DEFINE K == {p \in Peers : Known(p)}
<1>1. IsFiniteSet(K) /\ Cardinality(K) \in Nat
  BY UdpAssumption, FS_Subset, FS_CardinalityType
<1>2. tx_pending \in 0..(MaxTxPending + 1) /\ MaxTxPending \in Nat
  BY UdpAssumption DEF UdpInv, UdpTypeOK
<1>3. Room \in Nat /\ tx_pending + Room <= MaxTxPending + 1
  BY <1>2 DEF Room
<1>4. PICK sent \in SUBSET K :
         /\ Cardinality(sent) = IF Cardinality(K) < Room THEN Cardinality(K) ELSE Room
         /\ u_reached' = sent /\ tx_pending' = tx_pending + Cardinality(sent)
  BY DEF UdpSend
<1>5. sent \subseteq Peers /\ UNCHANGED <<peers, last_peer_id, u_timer>>
  BY DEF UdpSend
<1> HIDE DEF K
<1>6. tx_pending' \in 0..(MaxTxPending + 1)
  BY <1>1, <1>2, <1>3, <1>4
<1>7. UdpTypeOK'
  BY <1>4, <1>5, <1>6 DEF UdpInv, UdpTypeOK
<1>8. QED
  BY <1>5, <1>7 DEF UdpInv, Known

\* Every step keeps it: a datagram starts a peer's time anew, and the timer takes out
\* the peers whose time is over.
LEMMA UdpKept == UdpInv /\ [UdpNext]_udpVars => UdpInv'
<1> SUFFICES ASSUME UdpInv, [UdpNext]_udpVars PROVE UdpInv'
  OBVIOUS
<1>0. /\ peers \in [Peers -> [id: 0..MaxPeerIds, silent: Nat]] /\ u_timer \in 0..Period
      /\ MaxPeerIds \in Nat /\ MaxTxPending \in Nat
  BY UdpAssumption DEF UdpInv, UdpTypeOK
<1>1. ASSUME NEW p \in Peers, UdpHandleRead(p) PROVE UdpInv'
  BY <1>1, PacketKeepsPeers DEF UdpHandleRead
<1>2. CASE UdpSend
  BY <1>2, SendKeepsPeers
<1>3. CASE UdpWritten
  BY <1>0, <1>3 DEF UdpWritten, UdpInv, UdpTypeOK, Known
<1>4. CASE HandlePeriodicTimer
  <2>1. /\ u_timer = 0 /\ u_timer' = Period /\ UNCHANGED <<last_peer_id, tx_pending, u_reached>>
        /\ \A p \in Peers : peers'[p] = IF Known(p) /\ peers[p].silent > PeerTimeout
                                        THEN NoPeer ELSE peers[p]
    BY <1>4 DEF HandlePeriodicTimer
  <2>2. NoPeer \in [id: 0..MaxPeerIds, silent: Nat] /\ NoPeer.id = 0
    BY <1>0 DEF NoPeer
  <2>3. peers' \in [Peers -> [id: 0..MaxPeerIds, silent: Nat]]
    BY <1>0, <1>4, <2>2 DEF HandlePeriodicTimer
  <2>4. ASSUME NEW p \in Peers, Known(p)'
        PROVE  peers'[p].silent + u_timer' <= PeerTimeout + Period
    <3>1. peers'[p] = peers[p] /\ ~(peers[p].silent > PeerTimeout)
      BY <2>1, <2>2, <2>4 DEF Known
    <3>2. peers[p].silent \in Nat
      BY <1>0
    <3>3. QED
      BY <2>1, <3>1, <3>2, PeriodFits
  <2>5. QED
    BY <2>1, <2>3, <2>4, PeriodFits DEF UdpInv, UdpTypeOK
<1>5. CASE UdpClock
  <2>1. /\ u_timer > 0 /\ u_timer' = u_timer - 1 /\ UNCHANGED <<last_peer_id, tx_pending, u_reached>>
        /\ \A p \in Peers : peers'[p] = IF Known(p) THEN [peers[p] EXCEPT !.silent = @ + 1]
                                        ELSE NoPeer
        /\ peers' = [p \in Peers |-> peers'[p]]
    BY <1>5 DEF UdpClock
  <2>2. NoPeer \in [id: 0..MaxPeerIds, silent: Nat] /\ NoPeer.id = 0
    BY <1>0 DEF NoPeer
  <2>3. \A p \in Peers : [peers[p] EXCEPT !.silent = @ + 1] \in [id: 0..MaxPeerIds, silent: Nat]
                         /\ [peers[p] EXCEPT !.silent = @ + 1].silent = peers[p].silent + 1
    BY <1>0
  <2>4. peers' \in [Peers -> [id: 0..MaxPeerIds, silent: Nat]]
    BY <2>1, <2>2, <2>3
  <2>5. ASSUME NEW p \in Peers, Known(p)'
        PROVE  peers'[p].silent + u_timer' <= PeerTimeout + Period
    <3>1. Known(p)
      BY <2>1, <2>2, <2>5 DEF Known
    <3>2. peers'[p].silent = peers[p].silent + 1 /\ peers[p].silent \in Nat
      BY <1>0, <2>1, <2>3, <3>1
    <3>3. peers[p].silent + u_timer <= PeerTimeout + Period
      BY <3>1 DEF UdpInv
    <3>4. QED
      BY <1>0, <2>1, <3>2, <3>3, PeriodFits
  <2>6. QED
    BY <1>0, <2>1, <2>4, <2>5, PeriodFits DEF UdpInv, UdpTypeOK
<1>6. CASE UNCHANGED udpVars
  BY <1>6 DEF udpVars, UdpInv, UdpTypeOK, Known
<1>7. QED
  BY <1>1, <1>2, <1>3, <1>4, <1>5, <1>6 DEF UdpNext

-----------------------------------------------------------------------------
\* A session of the web server.
Record == [at: Websocket \cup {"gone", "http", "httpwrite"}, up: BOOLEAN,
           message: {"none", "empty"} \cup RobotModes, reply: {"none"} \cup RobotModes]

\* The session that has a websocket is the one websocket_ points to; one that answers
\* has the robot's mode for its answer.
SessionInv ==
  /\ session \in [Sessions -> Record] /\ websocket \in Sessions \cup {0}
  /\ \A s \in Sessions : /\ Alive(s) => websocket = s
                         /\ session[s].at \in {"reply", "write"} => session[s].reply # "none"

\* What the page shows and the robot's mode.
PageInv ==
  /\ page \in [socket: Sessions \cup {0}, mode: PageModes \cup {""},
               state: RobotModes \cup {"null"}]
  /\ w_adopted \in RobotModes \cup {"none"} /\ robot_mode \in RobotModes

\* The inductive invariant of the page, the server and the robot's mode.
WebInv == SessionInv /\ PageInv

\* A step of one session, which is the one that has a websocket if it has one after it.
LEMMA SessionSteps ==
  ASSUME SessionInv, NEW s \in Sessions, NEW r \in Record,
         session' = [session EXCEPT ![s] = r], UNCHANGED websocket,
         r.at \in Websocket => websocket = s,
         r.at \in {"reply", "write"} => r.reply # "none"
  PROVE  SessionInv'
<1>1. session' \in [Sessions -> Record] /\ session'[s] = r
      /\ \A t \in Sessions \ {s} : session'[t] = session[t]
  BY DEF SessionInv
<1>2. \A t \in Sessions : /\ Alive(t)' => websocket' = t
                          /\ session'[t].at \in {"reply", "write"} => session'[t].reply # "none"
  BY <1>1 DEF SessionInv, Alive
<1>3. QED
  BY <1>1, <1>2 DEF SessionInv

\* A session of Goes keeps its websocket, or has none.
LEMMA SessionGoes ==
  ASSUME SessionInv, NEW s \in Sessions, NEW at \in Websocket \cup {"http", "httpwrite"},
         Goes(s, at), at \in Websocket => Alive(s),
         at \in {"reply", "write"} => session[s].reply # "none"
  PROVE  SessionInv'
<1> DEFINE r == [session[s] EXCEPT !.at = at]
<1>1. session[s] \in Record
  BY DEF SessionInv
<1>2. r \in Record /\ r.at = at /\ r.reply = session[s].reply
  BY <1>1 DEF Record
<1>3. session' = [session EXCEPT ![s] = r] /\ UNCHANGED websocket
  BY DEF Goes
<1> HIDE DEF r
<1>4. at \in Websocket => websocket = s
  BY DEF SessionInv
<1>5. QED
  BY <1>2, <1>3, <1>4, SessionSteps

\* Once a session is gone websocket_ does not point to it.
LEMMA SessionFreed ==
  ASSUME SessionInv, NEW s \in Sessions, Frees(s)
  PROVE  SessionInv'
<1>1. Gone \in Record /\ Gone.at = "gone" /\ ~(Gone.at \in Websocket)
  BY DEF Gone, Record, Websocket
<1>2. session' \in [Sessions -> Record] /\ session'[s] = Gone
      /\ \A t \in Sessions \ {s} : session'[t] = session[t]
  BY <1>1 DEF SessionInv, Frees
<1>3. websocket' = IF websocket = s THEN 0 ELSE websocket
  BY DEF Frees
<1>4. \A t \in Sessions : /\ Alive(t)' => websocket' = t
                          /\ session'[t].at \in {"reply", "write"} => session'[t].reply # "none"
  BY <1>1, <1>2, <1>3 DEF SessionInv, Alive
<1>5. QED
  BY <1>2, <1>3, <1>4 DEF SessionInv

\* The command of a page is one the robot knows.
LEMMA CommandKnown ==
  ASSUME NEW mode, NEW moving \in BOOLEAN
  PROVE  CommandFor(mode, moving) \in {"none", "empty"} \cup RobotModes
<1>1. CommandFor(mode, moving)
        \in {"empty", "stopped", "rest", "walk", "jump", "zero_velocity"}
  BY DEF CommandFor
<1>2. QED
  BY <1>1, WebAssumption

\* The page adopts a mode it can show.
LEMMA AdoptedKnown ==
  ASSUME NEW mode \in PageModes \cup {""}, NEW state
  PROVE  Adopted(mode, state) \in PageModes \cup {""}
  BY DEF Adopted, PageModes

\* The robot takes up a mode it has.
LEMMA TakenKnown ==
  ASSUME NEW mode \in RobotModes, NEW cmd
  PROVE  Taken(mode, cmd) \subseteq RobotModes
<1>1. Taken(mode, cmd) \subseteq {mode, "stopped", "zero_velocity", "stand_up", "rest", "walk", "jump"}
  BY DEF Taken
<1>2. QED
  BY <1>1, WebAssumption

\* It holds before the first connection.
LEMMA WebInitially == WebInit => WebInv
<1> SUFFICES ASSUME WebInit PROVE WebInv
  OBVIOUS
<1>1. Gone \in Record /\ ~(Gone.at \in Websocket) /\ Gone.at = "gone"
  BY DEF Gone, Record, Websocket
<1>2. session \in [Sessions -> Record] /\ \A s \in Sessions : session[s] = Gone
  BY <1>1 DEF WebInit
<1>3. SessionInv
  BY <1>1, <1>2 DEF WebInit, SessionInv, Alive
<1>4. PageInv
  BY WebAssumption DEF WebInit, PageInv
<1>5. QED
  BY <1>3, <1>4 DEF WebInv

\* Every step of the server, the page and the network keeps the sessions' part,
LEMMA SessionKept == ASSUME WebInv, [WebNext]_webVars PROVE SessionInv'
<1>0. SessionInv /\ PageInv
  BY DEF WebInv
<1>1. CASE UNCHANGED <<session, websocket>>
  BY <1>0, <1>1 DEF SessionInv, Alive
<1>2. ASSUME NEW s \in Sessions, session[s] = Gone, UNCHANGED websocket,
             session' = [session EXCEPT ![s].at = "http", ![s].up = TRUE]
      PROVE  SessionInv'
  <2> DEFINE r == [Gone EXCEPT !.at = "http", !.up = TRUE]
  <2>1. session' = [session EXCEPT ![s] = r]
    <3>1. session \in [Sessions -> Record]
      BY <1>0 DEF SessionInv
    <3>2. QED
      BY <1>2, <3>1 DEF Gone
  <2>2. r = [at |-> "http", up |-> TRUE, message |-> "none", reply |-> "none"]
    <3>1. r = [Gone EXCEPT !.at = "http", !.up = TRUE]
      OBVIOUS
    <3> HIDE DEF r
    <3>2. QED
      BY <3>1 DEF Gone
  <2> HIDE DEF r
  <2>3. r \in Record /\ r.at = "http" /\ ~(r.at \in Websocket)
    BY <2>2 DEF Record, Websocket
  <2>4. QED
    BY <1>0, <1>2, <2>1, <2>3, SessionSteps
<1>3. CASE OpenWebsocket
  BY <1>2, <1>3 DEF OpenWebsocket
<1>4. ASSUME NEW moving \in BOOLEAN, PageTimer(moving) PROVE SessionInv'
  <2> DEFINE s == page.socket
             m == CommandFor(page.mode, moving)
             r == [session[s] EXCEPT !.message = m]
  <2>1. s \in Sessions /\ Alive(s) /\ session' = [session EXCEPT ![s] = r] /\ UNCHANGED websocket
    BY <1>0, <1>4 DEF PageTimer, PageInv
  <2>2. m \in {"none", "empty"} \cup RobotModes
    BY CommandKnown
  <2> HIDE DEF s, m
  <2>3. session[s] \in Record
    BY <1>0, <2>1 DEF SessionInv
  <2>4. r \in Record /\ r.at = session[s].at /\ r.reply = session[s].reply
    BY <2>2, <2>3 DEF Record
  <2> HIDE DEF r
  <2>5. QED
    BY <1>0, <2>1, <2>4, SessionSteps DEF SessionInv, Alive
<1>5. ASSUME NEW s \in Sessions, HttpConnect(s) PROVE SessionInv'
  BY <1>2, <1>5 DEF HttpConnect
<1>6. ASSUME NEW s \in Sessions, HttpDocument(s) \/ HttpWritten(s) \/ HttpEnds(s) \/ HandleClose(s)
      PROVE  SessionInv'
  <2>1. CASE Frees(s)
    BY <1>0, <2>1, SessionFreed
  <2>2. ASSUME NEW at \in {"http", "httpwrite"}, Goes(s, at) PROVE SessionInv'
    BY <1>0, <2>2, SessionGoes DEF Websocket
  <2>3. QED
    BY <1>6, <2>1, <2>2 DEF HttpDocument, HttpWritten, HttpEnds, HandleClose
<1>7. ASSUME NEW s \in Sessions, NetworkFails(s) PROVE SessionInv'
  <2> DEFINE r == [session[s] EXCEPT !.up = FALSE]
  <2>1. session[s] \in Record
    BY <1>0 DEF SessionInv
  <2>2. r \in Record /\ r.at = session[s].at /\ r.reply = session[s].reply
    BY <2>1 DEF Record
  <2>3. session' = [session EXCEPT ![s] = r] /\ UNCHANGED websocket
    BY <1>7 DEF NetworkFails
  <2> HIDE DEF r
  <2>4. QED
    BY <1>0, <2>2, <2>3, SessionSteps DEF SessionInv, Alive
<1>8. ASSUME NEW s \in Sessions, HandleControlWebsocket(s) PROVE SessionInv'
  <2>1. CASE Frees(s)
    BY <1>0, <2>1, SessionFreed
  <2>2. CASE websocket = 0 /\ session' = [session EXCEPT ![s].at = "read"] /\ websocket' = s
    <3> DEFINE r == [session[s] EXCEPT !.at = "read"]
    <3>1. session \in [Sessions -> Record] /\ session[s] \in Record
      BY <1>0 DEF SessionInv
    <3>2. r \in Record /\ r.at = "read"
      BY <3>1 DEF Record, Websocket
    <3>3. session' = [session EXCEPT ![s] = r]
      BY <2>2
    <3> HIDE DEF r
    <3>4. session' \in [Sessions -> Record] /\ session'[s] = r
          /\ \A t \in Sessions \ {s} : session'[t] = session[t]
      BY <3>1, <3>2, <3>3
    <3>5. \A t \in Sessions : ~Alive(t)
      BY <1>0, <2>2, WebAssumption DEF SessionInv
    <3>6. \A t \in Sessions : /\ Alive(t)' => websocket' = t
                              /\ session'[t].at \in {"reply", "write"} => session'[t].reply # "none"
      BY <1>0, <2>2, <3>2, <3>4, <3>5 DEF SessionInv, Alive
    <3>7. QED
      BY <2>2, <3>4, <3>6 DEF SessionInv
  <2>3. QED
    BY <1>8, <2>1, <2>2 DEF HandleControlWebsocket, Locked
<1>9. ASSUME NEW s \in Sessions, HandleMessage(s) PROVE SessionInv'
  <2>1. Alive(s)
    BY <1>9 DEF HandleMessage, Alive, Websocket
  <2>2. CASE Goes(s, "main")
    BY <1>0, <2>1, <2>2, SessionGoes DEF Websocket
  <2>3. CASE session' = [session EXCEPT ![s].message = "none"] /\ UNCHANGED websocket
    <3> DEFINE r == [session[s] EXCEPT !.message = "none"]
    <3>1. session[s] \in Record
      BY <1>0 DEF SessionInv
    <3>2. r \in Record /\ r.at = session[s].at /\ r.reply = session[s].reply
      BY <3>1 DEF Record
    <3>3. session' = [session EXCEPT ![s] = r]
      BY <2>3
    <3> HIDE DEF r
    <3>4. QED
      BY <1>0, <2>3, <3>2, <3>3, SessionSteps DEF SessionInv, Alive
  <2>4. QED
    BY <1>9, <2>2, <2>3 DEF HandleMessage
<1>10. ASSUME NEW s \in Sessions, MaybeClose(s) PROVE SessionInv'
  <2>1. Alive(s) /\ Goes(s, "close")
    BY <1>10 DEF MaybeClose, Alive, Websocket
  <2>2. QED
    BY <1>0, <2>1, SessionGoes DEF Websocket
<1>11. ASSUME NEW s \in Sessions, RunCommand(s) PROVE SessionInv'
  <2> DEFINE r == [session[s] EXCEPT !.at = "reply", !.message = "none", !.reply = robot_mode']
  <2>1. session \in [Sessions -> Record] /\ session[s] \in Record
    BY <1>0 DEF SessionInv
  <2>2. robot_mode' \in RobotModes
    BY <1>0, <1>11, TakenKnown DEF RunCommand, PageInv
  <2>3. session' = [session EXCEPT ![s] = r]
    BY <1>11, <2>1 DEF RunCommand, Record
  <2>4. r = [at |-> "reply", up |-> session[s].up, message |-> "none", reply |-> robot_mode']
    <3>1. r = [session[s] EXCEPT !.at = "reply", !.message = "none", !.reply = robot_mode']
      OBVIOUS
    <3> HIDE DEF r
    <3>2. QED
      BY <2>1, <3>1 DEF Record
  <2> HIDE DEF r
  <2>5. r \in Record /\ r.at = "reply" /\ r.reply = robot_mode'
    BY <2>1, <2>2, <2>4 DEF Record, Websocket
  <2>6. Alive(s) /\ UNCHANGED websocket
    BY <1>11 DEF RunCommand, Alive, Websocket
  <2>7. robot_mode' # "none"
    BY <2>2, WebAssumption
  <2>8. QED
    BY <1>0, <2>3, <2>5, <2>6, <2>7, SessionSteps DEF SessionInv
<1>12. ASSUME NEW s \in Sessions, WriteReply(s) PROVE SessionInv'
  <2>1. Alive(s) /\ Goes(s, "write") /\ session[s].reply # "none"
    BY <1>0, <1>12 DEF WriteReply, Alive, Websocket, SessionInv
  <2>2. QED
    BY <1>0, <2>1, SessionGoes DEF Websocket
<1>13. ASSUME NEW s \in Sessions, HandleReply(s) PROVE SessionInv'
  <2> DEFINE r == [session[s] EXCEPT !.at = "read", !.reply = "none"]
  <2>1. session \in [Sessions -> Record] /\ session[s] \in Record
    BY <1>0 DEF SessionInv
  <2>2. session' = [session EXCEPT ![s] = r]
    BY <1>13, <2>1 DEF HandleReply, Record
  <2>3. r = [at |-> "read", up |-> session[s].up, message |-> session[s].message, reply |-> "none"]
    <3>1. r = [session[s] EXCEPT !.at = "read", !.reply = "none"]
      OBVIOUS
    <3> HIDE DEF r
    <3>2. QED
      BY <2>1, <3>1 DEF Record
  <2> HIDE DEF r
  <2>4. r \in Record /\ r.at = "read"
    BY <2>1, <2>3 DEF Record, Websocket
  <2>5. Alive(s) /\ UNCHANGED websocket
    BY <1>13 DEF HandleReply, Alive, Websocket
  <2>6. QED
    BY <1>0, <2>2, <2>4, <2>5, SessionSteps DEF SessionInv
<1>14. CASE WebsocketClosed \/ (\E mode \in UserModes : UserChooses(mode)) \/ RobotMoves
            \/ UNCHANGED webVars
  BY <1>1, <1>14 DEF WebsocketClosed, UserChooses, RobotMoves, webVars
<1>15. QED
  BY <1>3, <1>4, <1>5, <1>6, <1>7, <1>8, <1>9, <1>10, <1>11, <1>12, <1>13, <1>14
     DEF WebNext, WebServerSteps

\* and the page's part,
LEMMA PageKept == ASSUME WebInv, [WebNext]_webVars PROVE PageInv'
<1>0. SessionInv /\ PageInv
  BY DEF WebInv
<1>1. CASE UNCHANGED <<page, w_adopted, robot_mode>>
  BY <1>0, <1>1 DEF PageInv
<1>2. CASE OpenWebsocket
  <2>1. PICK s \in Sessions : page' = [socket |-> s, mode |-> "", state |-> "null"]
    BY <1>2 DEF OpenWebsocket
  <2>2. w_adopted' = "none" /\ robot_mode' = robot_mode
    BY <1>2 DEF OpenWebsocket
  <2>3. QED
    BY <1>0, <2>1, <2>2 DEF PageInv
<1>3. CASE WebsocketClosed
  BY <1>0, <1>3 DEF WebsocketClosed, PageInv
<1>4. ASSUME NEW mode \in UserModes, UserChooses(mode) PROVE PageInv'
  <2>1. mode \in PageModes
    BY WebAssumption
  <2>2. QED
    BY <1>0, <1>4, <2>1 DEF UserChooses, PageInv
<1>5. ASSUME NEW s \in Sessions, RunCommand(s) PROVE PageInv'
  <2>1. robot_mode' \in RobotModes
    BY <1>0, <1>5, TakenKnown DEF RunCommand, PageInv
  <2>2. QED
    BY <1>0, <1>5, <2>1 DEF RunCommand, PageInv
<1>6. ASSUME NEW s \in Sessions, HandleReply(s) PROVE PageInv'
  <2> DEFINE a == Adopted(page.mode, session[s].reply)
  <2>1. session[s].reply \in RobotModes
    BY <1>0, <1>6 DEF HandleReply, SessionInv, Record
  <2>2. a \in PageModes \cup {""}
    BY <1>0, AdoptedKnown DEF PageInv
  <2>3. /\ page' = page \/ page' = [page EXCEPT !.state = session[s].reply, !.mode = a]
        /\ w_adopted' \in {w_adopted, session[s].reply} /\ robot_mode' = robot_mode
    BY <1>6 DEF HandleReply, HandleWebsocketMessage
  <2> HIDE DEF a
  <2>4. page' \in [socket: Sessions \cup {0}, mode: PageModes \cup {""},
                  state: RobotModes \cup {"null"}]
    <3>1. CASE page' = page
      BY <1>0, <3>1 DEF PageInv
    <3>2. CASE page' = [page EXCEPT !.state = session[s].reply, !.mode = a]
      <4>1. page' = [socket |-> page.socket, mode |-> a, state |-> session[s].reply]
        BY <1>0, <3>2 DEF PageInv
      <4>2. QED
        BY <1>0, <2>1, <2>2, <4>1 DEF PageInv
    <3>3. QED
      BY <2>3, <3>1, <3>2
  <2>5. QED
    BY <1>0, <2>1, <2>3, <2>4 DEF PageInv
<1>7. CASE RobotMoves
  <2>1. robot_mode' \in {"rest", "fault"} /\ UNCHANGED <<page, w_adopted>>
    BY <1>7 DEF RobotMoves
  <2>2. QED
    BY <1>0, <2>1, WebAssumption DEF PageInv
<1>8. QED
  BY <1>1, <1>2, <1>3, <1>4, <1>5, <1>6, <1>7
     DEF WebNext, WebServerSteps, PageTimer, HttpConnect, HttpDocument, NetworkFails, HttpWritten,
         HttpEnds, HandleControlWebsocket, HandleMessage, MaybeClose, WriteReply, HandleClose, webVars

\* and so both.
LEMMA WebKept == WebInv /\ [WebNext]_webVars => WebInv'
  BY SessionKept, PageKept DEF WebInv

-----------------------------------------------------------------------------
\* The handlers that can be ready in the commander's event loop.
Handlers == {"read", "callback", "written"}

\* Where a handler of a kind is among those that are ready.
At(q, kind) == {i \in DOMAIN q : q[i] = kind}

\* The handlers of the radio that are ready: one read at most, and none while one is
\* armed; one callback, exactly while no client waits; and no callback behind a read.
QueueInv ==
  /\ n_ready \in Seq(Handlers)
  /\ \A i, j \in At(n_ready, "read") : i = j
  /\ \A i, j \in At(n_ready, "callback") : i = j
  /\ n_armed => At(n_ready, "read") = {}
  /\ n_waiting <=> At(n_ready, "callback") = {}
  /\ \A i \in At(n_ready, "read"), j \in At(n_ready, "callback") : j < i

\* A line is only read while a client waits, so that nothing is ever left pending.
SlotInv == pending_bitfield = {} /\ n_waiting \in BOOLEAN /\ RemoteMatchesSlots

\* While the trigger is not down it was released since the last shot.
TriggerInv == trigger_down \in BOOLEAN /\ (~trigger_down => c_released)

\* The inductive invariant of the commander.
RfInv == QueueInv /\ SlotInv /\ TriggerInv

\* Where the handlers are when one more gets ready,
LEMMA AtAppend ==
  ASSUME NEW q \in Seq(Handlers), NEW h \in Handlers
  PROVE  /\ Append(q, h) \in Seq(Handlers)
         /\ At(Append(q, h), h) = At(q, h) \cup {Len(q) + 1}
         /\ \A k \in Handlers \ {h} : At(Append(q, h), k) = At(q, k)
         /\ \A k \in Handlers : \A i \in At(q, k) : i \in 1..Len(q)
         /\ Len(q) \in Nat
<1> DEFINE a == Append(q, h)
<1>1. /\ a \in Seq(Handlers) /\ DOMAIN a = 1..Len(q) + 1 /\ DOMAIN q = 1..Len(q) /\ Len(q) \in Nat
      /\ a[Len(q) + 1] = h
      /\ \A i \in 1..Len(q) : a[i] = q[i]
  OBVIOUS
<1> HIDE DEF a
<1>2. \A i : i \in 1..Len(q) + 1 <=> i \in 1..Len(q) \/ i = Len(q) + 1
  BY <1>1
<1>3. At(a, h) = At(q, h) \cup {Len(q) + 1}
  BY <1>1, <1>2 DEF At
<1>4. \A k \in Handlers \ {h} : At(a, k) = At(q, k)
  BY <1>1, <1>2 DEF At
<1>5. QED
  BY <1>1, <1>3, <1>4 DEF At, a

\* and when the first one is run.
LEMMA AtTail ==
  ASSUME NEW q \in Seq(Handlers), q # <<>>
  PROVE  /\ Tail(q) \in Seq(Handlers)
         /\ \A k \in Handlers : \A i : i \in At(Tail(q), k) <=> i \in Nat \ {0} /\ i + 1 \in At(q, k)
         /\ \A k \in Handlers : \A i : i \in At(q, k) => i \in Nat \ {0}
         /\ \A k \in Handlers : 1 \in At(q, k) <=> Head(q) = k
<1> DEFINE t == Tail(q)
<1>1. /\ t \in Seq(Handlers) /\ DOMAIN t = 1..Len(q) - 1 /\ DOMAIN q = 1..Len(q)
      /\ Len(q) \in Nat \ {0} /\ Head(q) = q[1]
      /\ \A i \in 1..Len(q) - 1 : t[i] = q[i + 1]
  OBVIOUS
<1> HIDE DEF t
<1>2. \A i : i \in 1..Len(q) - 1 <=> i \in Nat \ {0} /\ i + 1 \in 1..Len(q)
  BY <1>1
<1>3. \A k, i : i \in At(t, k) <=> i \in Nat \ {0} /\ i + 1 \in At(q, k)
  BY <1>1, <1>2 DEF At
<1>4. QED
  BY <1>1, <1>3 DEF At, t

\* It holds when the commander starts.
LEMMA RfInitially == RfInit => RfInv
<1> SUFFICES ASSUME RfInit PROVE RfInv
  OBVIOUS
<1>1. n_ready \in Seq(Handlers) /\ \A k : At(n_ready, k) = {}
  BY DEF RfInit, At
<1>2. QueueInv
  BY <1>1 DEF RfInit, QueueInv
<1>3. SlotInv /\ TriggerInv
  BY DEF RfInit, SlotInv, RemoteMatchesSlots, TriggerInv
<1>4. QED
  BY <1>2, <1>3 DEF RfInv

\* A frame of the gamepad keeps the trigger's part.
LEMMA TriggerKept == TriggerInv /\ [RfNext]_rfVars => TriggerInv'
<1> SUFFICES ASSUME TriggerInv, [RfNext]_rfVars PROVE TriggerInv'
  OBVIOUS
<1>1. CASE UNCHANGED rfGamepad
  BY <1>1 DEF rfGamepad, TriggerInv
<1>2. ASSUME NEW g \in Gamepads, Frame(g) PROVE TriggerInv'
  <2> DEFINE down == TriggerDown(g.trigger)
  <2>1. /\ trigger_down' = down
        /\ c_released' = (g.trigger = "out" \/ (c_released /\ ~(down /\ ~trigger_down)))
    BY <1>2 DEF Frame
  <2>2. down <=> g.trigger = "in" \/ (g.trigger = "between" /\ trigger_down)
    BY DEF TriggerDown
  <2>3. down \in BOOLEAN
    BY DEF TriggerDown
  <2>4. g.trigger \in {"in", "between", "out"}
    BY RfAssumption
  <2> HIDE DEF down
  <2>5. QED
    BY <2>1, <2>2, <2>3, <2>4 DEF TriggerInv
<1>3. QED
  BY <1>1, <1>2 DEF RfNext, LineArrives, NrfHandleRead, SlotHandleRead, HandleWrite, PortTakes, rfVars

\* Every handler keeps the order of those that are ready, and the slots with their remote.
LEMMA QueueSlotsKept == QueueInv /\ SlotInv /\ [RfNext]_rfVars => QueueInv' /\ SlotInv'
<1> SUFFICES ASSUME QueueInv, SlotInv, [RfNext]_rfVars PROVE QueueInv' /\ SlotInv'
  OBVIOUS
<1>0. RemoteMatchesSlots <=> (At(n_ready, "callback") # {} => \A x \in c_bitfield : x.remote = c_remote)
  BY DEF RemoteMatchesSlots, At
<1>00. RemoteMatchesSlots' <=> (At(n_ready', "callback") # {} => \A x \in c_bitfield' : x.remote = c_remote')
  BY DEF RemoteMatchesSlots, At
<1>1. CASE UNCHANGED <<rfRead, n_ready>>
  BY <1>1 DEF rfRead, QueueInv, SlotInv, RemoteMatchesSlots
<1>2. ASSUME NEW line \in RfLines, LineArrives(line) PROVE QueueInv' /\ SlotInv'
  <2>1. /\ n_armed' = FALSE /\ n_ready' = IF n_armed THEN Append(n_ready, "read") ELSE n_ready
        /\ UNCHANGED <<pending_bitfield, n_waiting, c_remote, c_bitfield>>
    BY <1>2 DEF LineArrives
  <2>2. CASE n_armed
    <3>1. /\ n_ready' = Append(n_ready, "read") /\ n_ready \in Seq(Handlers)
          /\ "read" \in Handlers /\ "callback" \in Handlers \ {"read"}
      BY <2>1, <2>2 DEF QueueInv, Handlers
    <3>2. /\ n_ready' \in Seq(Handlers)
          /\ At(n_ready', "read") = At(n_ready, "read") \cup {Len(n_ready) + 1}
          /\ At(n_ready', "callback") = At(n_ready, "callback")
          /\ \A i \in At(n_ready, "callback") : i \in 1..Len(n_ready)
          /\ Len(n_ready) \in Nat
      BY <3>1, AtAppend
    <3>3. At(n_ready, "read") = {}
      BY <2>2 DEF QueueInv
    <3>4. QueueInv'
      BY <2>1, <3>2, <3>3 DEF QueueInv
    <3>5. SlotInv'
      BY <1>0, <1>00, <2>1, <3>2 DEF SlotInv
    <3>6. QED
      BY <3>4, <3>5
  <2>3. CASE ~n_armed
    BY <2>1, <2>3 DEF QueueInv, SlotInv, RemoteMatchesSlots
  <2>4. QED
    BY <2>2, <2>3
<1>3. CASE NrfHandleRead
  <2> DEFINE line == Head(n_lines)
             pending == pending_bitfield \cup {[remote |-> line.remote, slot |-> s] : s \in line.slots}
             reports == Reports(pending, n_waiting)
             rest == Tail(n_ready)
             ready == IF reports THEN Append(rest, "callback") ELSE rest
  <2>0. n_ready # <<>> /\ Head(n_ready) = "read" /\ n_ready \in Seq(Handlers)
    BY <1>3 DEF NrfHandleRead, QueueInv
  <2>1. /\ c_remote' = IF n_waiting THEN line.remote ELSE c_remote
        /\ c_bitfield' = IF reports THEN pending ELSE c_bitfield
        /\ pending_bitfield' = IF reports THEN {} ELSE pending
        /\ n_waiting' = (n_waiting /\ ~reports)
        /\ n_armed' = (Tail(n_lines) = <<>>)
        /\ n_ready' = IF Tail(n_lines) = <<>> THEN ready ELSE Append(ready, "read")
    BY <1>3 DEF NrfHandleRead, AfterLine, StartRead
  <2>2. /\ rest \in Seq(Handlers)
        /\ \A k \in Handlers : \A i : i \in At(rest, k) <=> i \in Nat \ {0} /\ i + 1 \in At(n_ready, k)
        /\ \A k \in Handlers : \A i : i \in At(n_ready, k) => i \in Nat \ {0}
        /\ 1 \in At(n_ready, "read")
    BY <2>0, AtTail DEF Handlers
  <2>3. At(n_ready, "callback") = {} /\ n_waiting
    BY <2>2 DEF QueueInv, Handlers
  <2>4. At(rest, "read") = {} /\ At(rest, "callback") = {}
    <3>1. \A i \in Nat \ {0} : i + 1 # 1
      OBVIOUS
    <3>2. QED
      BY <2>2, <2>3, <3>1 DEF QueueInv, Handlers
  <2>5. \A x \in pending : x.remote = line.remote
    BY DEF SlotInv
  <2>6. reports <=> pending # {}
    BY <2>3 DEF Reports
  <2> HIDE DEF rest
  <2>7. /\ ready \in Seq(Handlers) /\ At(ready, "read") = {} /\ Len(ready) \in Nat
        /\ \A i \in At(ready, "callback") : i \in 1..Len(ready)
        /\ \A i, j \in At(ready, "callback") : i = j
        /\ reports <=> At(ready, "callback") # {}
    <3> HIDE DEF reports
    <3>1. CASE reports
      <4>1. ready = Append(rest, "callback")
        BY <3>1
      <4>2. "callback" \in Handlers /\ "read" \in Handlers \ {"callback"}
        BY DEF Handlers
      <4> HIDE DEF ready
      <4>3. /\ ready \in Seq(Handlers) /\ At(ready, "callback") = {Len(rest) + 1}
            /\ At(ready, "read") = {} /\ Len(rest) \in Nat
        BY <2>2, <2>4, <4>1, <4>2, AtAppend
      <4>4. Len(ready) = Len(rest) + 1
        BY <2>2, <4>1, <4>2
      <4>5. QED
        BY <3>1, <4>3, <4>4
    <3>2. CASE ~reports
      BY <2>2, <2>4, <3>2
    <3>3. QED
      BY <3>1, <3>2
  <2> HIDE DEF ready, reports, pending
  <2>8. /\ n_ready' \in Seq(Handlers)
        /\ At(n_ready', "callback") = At(ready, "callback")
        /\ n_armed' => At(n_ready', "read") = {}
        /\ At(n_ready', "read") \subseteq {Len(ready) + 1}
    <3>1. CASE Tail(n_lines) = <<>>
      BY <2>1, <2>7, <3>1
    <3>2. CASE Tail(n_lines) # <<>>
      <4>1. n_ready' = Append(ready, "read") /\ "read" \in Handlers
            /\ "callback" \in Handlers \ {"read"} /\ ~n_armed'
        BY <2>1, <3>2 DEF Handlers
      <4>2. QED
        BY <2>7, <4>1, AtAppend
    <3>3. QED
      BY <3>1, <3>2
  <2>9. QueueInv'
    <3>1. \A i, j \in At(n_ready', "read") : i = j
      BY <2>8
    <3>2. \A i \in At(n_ready', "read"), j \in At(n_ready', "callback") : j < i
      BY <2>7, <2>8
    <3>3. n_waiting' <=> At(n_ready', "callback") = {}
      BY <2>1, <2>3, <2>7, <2>8
    <3>4. \A i, j \in At(n_ready', "callback") : i = j
      BY <2>7, <2>8
    <3>5. QED
      BY <2>8, <3>1, <3>2, <3>3, <3>4 DEF QueueInv
  <2>10. SlotInv'
    <3>1. pending_bitfield' = {} /\ n_waiting' \in BOOLEAN
      BY <2>1, <2>3, <2>6
    <3>2. RemoteMatchesSlots'
      BY <1>00, <2>1, <2>3, <2>5, <2>7, <2>8
    <3>3. QED
      BY <3>1, <3>2 DEF SlotInv
  <2>11. QED
    BY <2>9, <2>10
<1>4. CASE SlotHandleRead \/ HandleWrite
  <2>0. n_ready # <<>> /\ n_ready \in Seq(Handlers)
    BY <1>4 DEF SlotHandleRead, HandleWrite, QueueInv
  <2>1. n_ready' = Tail(n_ready) /\ UNCHANGED <<n_armed, c_remote>>
    BY <1>4 DEF SlotHandleRead, HandleWrite, AsyncWaitForSlot, Reports, SlotInv, rfRead
  <2>2. /\ n_ready' \in Seq(Handlers)
        /\ \A k \in Handlers : \A i : i \in At(n_ready', k) <=> i \in Nat \ {0} /\ i + 1 \in At(n_ready, k)
        /\ \A k \in Handlers : \A i : i \in At(n_ready, k) => i \in Nat \ {0}
        /\ \A k \in Handlers : 1 \in At(n_ready, k) <=> Head(n_ready) = k
    BY <2>0, <2>1, AtTail
  <2>3. /\ \A i, j \in At(n_ready', "read") : i = j
        /\ \A i, j \in At(n_ready', "callback") : i = j
        /\ n_armed' => At(n_ready', "read") = {}
        /\ \A i \in At(n_ready', "read"), j \in At(n_ready', "callback") : j < i
    <3>1. "read" \in Handlers /\ "callback" \in Handlers
      BY DEF Handlers
    <3>2. \A i, j \in Nat : i + 1 = j + 1 => i = j
      OBVIOUS
    <3>3. \A i, j \in Nat : j + 1 < i + 1 => j < i
      OBVIOUS
    <3>4. QED
      BY <2>1, <2>2, <3>1, <3>2, <3>3 DEF QueueInv
  <2>4. n_waiting' <=> At(n_ready', "callback") = {}
    <3>1. CASE SlotHandleRead
      <4>1. Head(n_ready) = "callback" /\ n_waiting' = TRUE
        BY <3>1 DEF SlotHandleRead, AsyncWaitForSlot, Reports, SlotInv
      <4>2. 1 \in At(n_ready, "callback") /\ "callback" \in Handlers
        BY <2>2, <4>1 DEF Handlers
      <4>3. \A i \in Nat \ {0} : i + 1 # 1
        OBVIOUS
      <4>4. At(n_ready', "callback") = {}
        BY <2>2, <4>2, <4>3 DEF QueueInv
      <4>5. QED
        BY <4>1, <4>4
    <3>2. CASE HandleWrite
      <4>1. Head(n_ready) = "written" /\ n_waiting' = n_waiting
        BY <3>2 DEF HandleWrite, rfRead
      <4>2. ~(1 \in At(n_ready, "callback")) /\ "callback" \in Handlers
        BY <2>2, <4>1 DEF Handlers
      <4>3. ASSUME NEW j \in At(n_ready, "callback") PROVE j - 1 \in At(n_ready', "callback")
        <5>1. j \in Nat \ {0} /\ j # 1
          BY <2>2, <4>2
        <5>2. j - 1 \in Nat \ {0} /\ (j - 1) + 1 = j
          BY <5>1
        <5>3. QED
          BY <2>2, <4>2, <5>2
      <4>4. At(n_ready', "callback") = {} <=> At(n_ready, "callback") = {}
        BY <2>2, <4>2, <4>3
      <4>5. QED
        BY <4>1, <4>4 DEF QueueInv
    <3>3. QED
      BY <1>4, <3>1, <3>2
  <2>5. QueueInv'
    BY <2>2, <2>3, <2>4 DEF QueueInv
  <2>6. SlotInv'
    <3>1. pending_bitfield' = {} /\ n_waiting' \in BOOLEAN
      BY <1>4 DEF SlotHandleRead, HandleWrite, AsyncWaitForSlot, rfRead, SlotInv
    <3>2. CASE SlotHandleRead
      <4>1. c_bitfield' = {}
        BY <3>2 DEF SlotHandleRead, AsyncWaitForSlot, SlotInv
      <4>2. QED
        BY <1>00, <3>1, <4>1 DEF SlotInv
    <3>3. CASE HandleWrite
      <4>1. UNCHANGED <<c_bitfield, c_remote>>
        BY <3>3 DEF HandleWrite, rfRead
      <4>2. At(n_ready', "callback") # {} => At(n_ready, "callback") # {}
        BY <2>2 DEF Handlers
      <4>3. QED
        BY <1>0, <1>00, <3>1, <4>1, <4>2 DEF SlotInv
    <3>4. QED
      BY <1>4, <3>2, <3>3
  <2>7. QED
    BY <2>5, <2>6
<1>5. CASE PortTakes
  <2>1. n_ready' = Append(n_ready, "written") /\ n_ready \in Seq(Handlers)
        /\ UNCHANGED <<n_armed, n_waiting, pending_bitfield, c_remote, c_bitfield>>
        /\ "written" \in Handlers /\ {"read", "callback"} \subseteq Handlers \ {"written"}
    BY <1>5 DEF PortTakes, rfRead, QueueInv, Handlers
  <2>2. n_ready' \in Seq(Handlers) /\ At(n_ready', "read") = At(n_ready, "read")
        /\ At(n_ready', "callback") = At(n_ready, "callback")
    BY <2>1, AtAppend
  <2>3. QED
    BY <1>0, <1>00, <2>1, <2>2 DEF QueueInv, SlotInv
<1>6. QED
  BY <1>1, <1>2, <1>3, <1>4, <1>5 DEF RfNext, Frame, rfVars

\* So every step of the commander keeps the invariant.
LEMMA RfKept == RfInv /\ [RfNext]_rfVars => RfInv'
  BY TriggerKept, QueueSlotsKept DEF RfInv

-----------------------------------------------------------------------------
\* The order of the natural numbers, as a relation that is well founded.
LEMMA NatLess ==
  \E R : IsWellFoundedOn(R, Nat) /\ \A x, y \in Nat : <<x, y>> \in R <=> x < y
<1> DEFINE R == {p \in Nat \X Nat : p[1] < p[2]}
<1>1. R = OpToRel(<, Nat)
  BY DEF OpToRel
<1>2. IsWellFoundedOn(R, Nat)
  BY <1>1, NatLessThanWellFounded
<1>3. \A x, y \in Nat : <<x, y>> \in R <=> x < y
  OBVIOUS
<1>4. QED
  BY <1>2, <1>3

\* A set of natural numbers that is not empty has a least element.
LEMMA NatLeast ==
  ASSUME NEW T \in SUBSET Nat, T # {}
  PROVE  \E x \in T : \A y \in T : x <= y
<1>1. PICK R : IsWellFoundedOn(R, Nat) /\ \A x, y \in Nat : <<x, y>> \in R <=> x < y
  BY NatLess
<1>2. T \subseteq Nat
  OBVIOUS
<1>3. PICK x \in T : \A y \in T : ~(<<y, x>> \in R)
  <2>1. \A RR, SS : IsWellFoundedOn(RR, SS) => \A TT : TT \subseteq SS /\ TT # {} => \E x \in TT : \A y \in TT : ~ (<<y, x>> \in RR)
    BY WFMin, Zenon
  <2>2. IsWellFoundedOn(R, Nat)
    BY <1>1, Zenon
  <2>3. T \subseteq Nat /\ T # {} => \E x \in T : \A y \in T : ~ (<<y, x>> \in R)
    BY <2>1, <2>2, Zenon
  <2>4. QED
    BY <1>2, <2>3
<1>4. \A y \in T : x <= y
  <2> TAKE y \in T
  <2>1. ~(y < x)
    BY <1>1, <1>2, <1>3, Zenon
  <2>2. QED
    BY <1>2, <2>1
<1>5. QED
  BY <1>4

\* Induction on the naturals, for a set.
LEMMA Induction ==
  ASSUME NEW n \in Nat, NEW T, 0 \in T, \A k \in 0..n - 1 : k \in T => k + 1 \in T
  PROVE  \A k \in 0..n : k \in T
<1> DEFINE M == {k \in 0..n : k \notin T}
<1> SUFFICES ASSUME M # {} PROVE FALSE
  OBVIOUS
<1>1. M \in SUBSET Nat
  OBVIOUS
<1>2. PICK k \in M : \A y \in M : k <= y
  <2> HIDE DEF M
  <2> QED BY <1>1, NatLeast
<1>3. k \in 1..n /\ k - 1 \notin M
  BY <1>2
<1>4. k - 1 \in 0..n - 1 /\ k - 1 \in T
  BY <1>3
<1>5. (k - 1) + 1 \in T
  BY <1>4
<1>6. QED
  BY <1>2, <1>3, <1>5

\* The sum of a loop is there, for every number of rounds.
LEMMA SumDefined ==
  ASSUME NEW n \in Nat, NEW c \in [1..n -> Nat]
  PROVE  \E g : g = [k \in 0..n |-> IF k = 0 THEN 0 ELSE g[k - 1] + c[k]]
<1> DEFINE Is(m, g) == g = [k \in 0..m |-> IF k = 0 THEN 0 ELSE g[k - 1] + c[k]]
           T == {m \in Nat : \E g : Is(m, g)}
<1>1. 0 \in T
  <2> DEFINE z == [k \in 0..0 |-> 0]
  <2>1. z = [k \in 0..0 |-> IF k = 0 THEN 0 ELSE z[k - 1] + c[k]]
    OBVIOUS
  <2>2. Is(0, z)
    BY <2>1
  <2>3. QED
    BY <2>2
<1>2. ASSUME NEW m \in 0..n - 1, m \in T PROVE m + 1 \in T
  <2>1. PICK g : Is(m, g)
    BY <1>2
  <2> DEFINE h == [k \in 0..m + 1 |-> IF k <= m THEN g[k] ELSE g[m] + c[k]]
  <2>2. \A k \in 0..m + 1 : h[k] = IF k = 0 THEN 0 ELSE h[k - 1] + c[k]
    <3> TAKE k \in 0..m + 1
    <3>1. CASE k = 0
      BY <2>1, <3>1
    <3>2. CASE k \in 1..m
      <4>1. h[k] = g[k] /\ h[k - 1] = g[k - 1]
        BY <3>2
      <4>2. g[k] = g[k - 1] + c[k]
        BY <2>1, <3>2
      <4>3. QED
        BY <3>2, <4>1, <4>2
    <3>3. CASE k = m + 1
      <4>1. h[k] = g[m] + c[k] /\ h[k - 1] = g[m]
        BY <3>3
      <4>2. QED
        BY <3>3, <4>1
    <3>4. QED
      BY <3>1, <3>2, <3>3
  <2>3. Is(m + 1, h)
    <3>1. h = [k \in 0..m + 1 |-> h[k]]
      OBVIOUS
    <3>2. QED
      <4> HIDE DEF h
      <4> QED BY <2>2, <3>1
  <2>4. QED
    <3> HIDE DEF h, Is
    <3> m + 1 \in Nat
      OBVIOUS
    <3> QED BY <2>3
<1>3. n \in T
  <2> HIDE DEF T
  <2>1. \A k \in 0..n : k \in T
    BY <1>1, <1>2, Induction
  <2>2. QED
    BY <2>1
<1>4. QED
  BY <1>3

\* What is copied of the frames is a number of bytes.
LEMMA ParseCounts ==
  ASSUME NEW frames \in Seq(TunnelFrames)
  PROVE  ParseTunnelPoll(frames) \in Nat
<1> DEFINE n == Len(frames)
           c == [k \in 1..n |-> Copied(frames[k])]
           Is(g) == g = [k \in 0..n |-> IF k = 0 THEN 0 ELSE g[k - 1] + Copied(frames[k])]
           g == CHOOSE f : Is(f)
<1>1. n \in Nat
  OBVIOUS
<1>2. c \in [1..n -> Nat]
  <2> SUFFICES ASSUME NEW k \in 1..n PROVE Copied(frames[k]) \in Nat
    OBVIOUS
  <2>1. frames[k] \in [mine: BOOLEAN, size: Nat]
    BY ElementOfSeq, TunnelAssumption
  <2>2. QED
    BY <2>1, TunnelAssumption DEF Copied
<1>3. PICK f : f = [k \in 0..n |-> IF k = 0 THEN 0 ELSE f[k - 1] + c[k]]
  <2> HIDE DEF n, c
  <2> QED BY <1>1, <1>2, SumDefined
<1>4. [k \in 0..n |-> IF k = 0 THEN 0 ELSE f[k - 1] + c[k]]
      = [k \in 0..n |-> IF k = 0 THEN 0 ELSE f[k - 1] + Copied(frames[k])]
  <2>1. \A k \in 0..n : k # 0 => c[k] = Copied(frames[k])
    BY <1>1
  <2>2. QED
    <3> HIDE DEF c, n
    <3> QED BY <2>1
<1>5. Is(f)
  BY <1>3, <1>4, Zenon
<1>6. Is(g)
  <2> HIDE DEF Is
  <2> QED BY <1>5
<1>7. ParseTunnelPoll(frames) = g[n]
  BY Zenon DEF ParseTunnelPoll
<1> HIDE DEF g
<1>8. g[0] = 0 /\ \A k \in 1..n : g[k] = g[k - 1] + c[k]
  <2>1. g[0] = 0
    BY <1>1, <1>6
  <2>2. ASSUME NEW k \in 1..n PROVE g[k] = g[k - 1] + c[k]
    <3>1. k \in 0..n /\ k # 0 /\ c[k] = Copied(frames[k])
      BY <1>1
    <3>2. g[k] = g[k - 1] + Copied(frames[k])
      BY <1>6, <3>1, Zenon
    <3>3. QED
      BY <3>1, <3>2, Zenon
  <2>3. QED
    BY <2>1, <2>2
<1> HIDE DEF c, n
<1>9. g[n] \in Nat
  <2> DEFINE T == {k \in 0..n : g[k] \in Nat}
  <2>1. 0 \in T
    BY <1>1, <1>8
  <2>2. \A k \in 0..n - 1 : k \in T => k + 1 \in T
    <3> SUFFICES ASSUME NEW k \in 0..n - 1, k \in T PROVE k + 1 \in T
      OBVIOUS
    <3>1. k + 1 \in 1..n /\ (k + 1) - 1 = k
      BY <1>1
    <3>2. g[k + 1] = g[k] + c[k + 1] /\ c[k + 1] \in Nat
      BY <1>2, <1>8, <3>1
    <3>3. QED
      BY <1>1, <3>1, <3>2
  <2>3. \A k \in 0..n : k \in T
    <3> HIDE DEF T
    <3> QED BY <1>1, <2>1, <2>2, Induction
  <2>4. QED
    BY <1>1, <2>3
<1>10. QED
  BY <1>7, <1>9, Zenon

-----------------------------------------------------------------------------
\* The places of a queue that hold one of a set.
Where(q, S) == {i \in DOMAIN q : q[i] \in S}

\* Where they are when something is put at the end of a queue,
LEMMA WhereAppend ==
  ASSUME NEW T, NEW S, NEW q \in Seq(T), NEW x \in T
  PROVE  /\ Append(q, x) \in Seq(T) /\ Len(q) \in Nat
         /\ x \in S => Where(Append(q, x), S) = Where(q, S) \cup {Len(q) + 1}
         /\ x \notin S => Where(Append(q, x), S) = Where(q, S)
         /\ Append(q, x)[Len(q) + 1] = x
<1> DEFINE a == Append(q, x)
<1>1. /\ a \in Seq(T) /\ DOMAIN a = 1..Len(q) + 1 /\ DOMAIN q = 1..Len(q) /\ Len(q) \in Nat
      /\ a[Len(q) + 1] = x
      /\ \A i \in 1..Len(q) : a[i] = q[i]
  OBVIOUS
<1> HIDE DEF a
<1>2. \A i : i \in 1..Len(q) + 1 <=> i \in 1..Len(q) \/ i = Len(q) + 1
  BY <1>1
<1>3. x \in S => Where(a, S) = Where(q, S) \cup {Len(q) + 1}
  BY <1>1, <1>2 DEF Where
<1>4. x \notin S => Where(a, S) = Where(q, S)
  BY <1>1, <1>2 DEF Where
<1>5. QED
  BY <1>1, <1>3, <1>4 DEF Where, a

\* and when the first is taken from it.
LEMMA WhereTail ==
  ASSUME NEW T, NEW S, NEW q \in Seq(T), q # <<>>
  PROVE  /\ Tail(q) \in Seq(T) /\ Head(q) \in T
         /\ Where(q, S) = {} => Where(Tail(q), S) = {} /\ Head(q) \notin S
         /\ \A i : Where(q, S) = {i} /\ Head(q) \in S => i = 1 /\ Where(Tail(q), S) = {}
         /\ \A i : Where(q, S) = {i} /\ Head(q) \notin S =>
               Where(Tail(q), S) = {i - 1}
<1> DEFINE t == Tail(q)
<1>1. /\ t \in Seq(T) /\ DOMAIN t = 1..Len(q) - 1 /\ DOMAIN q = 1..Len(q)
      /\ Len(q) \in Nat \ {0} /\ Head(q) = q[1] /\ Head(q) \in T
      /\ \A i \in 1..Len(q) - 1 : t[i] = q[i + 1]
  OBVIOUS
<1> HIDE DEF t
<1>2. \A i : i \in 1..Len(q) - 1 <=> i \in Nat \ {0} /\ i + 1 \in 1..Len(q)
  BY <1>1
<1>3. \A i : i \in Where(t, S) <=> i \in Nat \ {0} /\ i + 1 \in Where(q, S)
  BY <1>1, <1>2 DEF Where
<1>4. 1 \in Where(q, S) <=> Head(q) \in S
  BY <1>1 DEF Where
<1>5. \A i \in Where(q, S) : i \in 1..Len(q) /\ i \in Nat \ {0}
  BY <1>1 DEF Where
<1>6. ASSUME NEW i, Where(q, S) = {i}, Head(q) \in S PROVE i = 1 /\ Where(t, S) = {}
  <2>1. i = 1
    BY <1>4, <1>6
  <2>2. \A k \in Nat \ {0} : k + 1 # 1
    OBVIOUS
  <2>3. QED
    BY <1>3, <1>6, <2>1, <2>2
<1>7. ASSUME NEW i, Where(q, S) = {i}, Head(q) \notin S
      PROVE  Where(t, S) = {i - 1}
  <2>1. i \in 1..Len(q) /\ i # 1
    BY <1>4, <1>5, <1>7
  <2>2. i - 1 \in Nat \ {0}
    BY <1>1, <2>1
  <2>3. \A k \in Nat : k + 1 = i <=> k = i - 1
    BY <1>1, <2>1
  <2>4. \A k : k \in Where(t, S) <=> k \in Nat \ {0} /\ k + 1 = i
    BY <1>3, <1>7
  <2>5. \A k : k \in Where(t, S) <=> k = i - 1
    BY <2>2, <2>3, <2>4
  <2>6. QED
    BY <2>5
<1>8. QED
  BY <1>1, <1>3, <1>4, <1>6, <1>7 DEF t

\* What is posted to the child thread and to the parent, and what ends a read there.
Posts == {"read", "write"}
Jobs  == [op: {"read", "poll", "aborted", "write"}, bytes: Nat]
Ends  == {j \in Jobs : j.op # "write"}

\* The reads that wait in each of the two queues.
ChildReads == Where(k_child, {"read"})
ParentEnds == Where(k_parent, Ends)

\* The types of a tunnel's state.
TunnelTypes ==
  /\ k_reading \in BOOLEAN /\ k_writing \in BOOLEAN /\ k_timer \in BOOLEAN
  /\ k_child \in Seq(Posts) /\ k_parent \in Seq(Jobs) /\ k_bus \in Seq(TunnelFrames)
  /\ k_got \in Nat /\ k_filled \in Nat

\* Where a read is: nowhere, posted to the child, waiting for the timer, or posted to
\* the parent, with what the child has taken for it.
NotReading == /\ ~k_reading /\ ~k_timer /\ ChildReads = {} /\ ParentEnds = {}
              /\ k_got = k_filled
AtChild  == /\ k_reading /\ ~k_timer /\ (\E i : ChildReads = {i}) /\ ParentEnds = {}
            /\ k_filled = 0
AtTimer  == /\ k_reading /\ k_timer /\ ChildReads = {} /\ ParentEnds = {} /\ k_filled = 0
AtParent == /\ k_reading /\ ~k_timer /\ ChildReads = {}
            /\ \E i : /\ ParentEnds = {i} /\ k_parent[i].bytes = k_filled
                      /\ k_parent[i].op = "poll" => k_filled = 0

\* A read is in one of these places, and in one only.
ReadPlaces == NotReading \/ AtChild \/ AtTimer \/ AtParent

\* The inductive invariant of a tunnel.
TunnelInv == TunnelTypes /\ ReadPlaces

\* It holds of a tunnel that was just made.
LEMMA TunnelInitially == TunnelInit => TunnelInv
<1> SUFFICES ASSUME TunnelInit PROVE TunnelInv
  OBVIOUS
<1> DEFINE e == <<>>
<1>1. /\ e \in Seq(Posts) /\ e \in Seq(Jobs) /\ e \in Seq(TunnelFrames)
      /\ \A S : Where(e, S) = {}
  BY DEF Where
<1>2. k_child = e /\ k_parent = e /\ k_bus = e
  BY DEF TunnelInit
<1> HIDE DEF e
<1>3. TunnelTypes
  BY <1>1, <1>2 DEF TunnelInit, TunnelTypes
<1>4. NotReading
  BY <1>1, <1>2 DEF TunnelInit, NotReading, ChildReads, ParentEnds
<1>5. QED
  BY <1>3, <1>4 DEF TunnelInv, ReadPlaces

\* A step that leaves the two queues, the timer and the read alone.
LEMMA PlacesUnchanged ==
  ASSUME TunnelInv, UNCHANGED <<k_reading, k_timer, k_got, k_filled>>,
         ChildReads' = ChildReads, UNCHANGED k_parent
  PROVE  ReadPlaces'
<1>1. ParentEnds' = ParentEnds
  BY DEF ParentEnds
<1>2. (NotReading => NotReading') /\ (AtChild => AtChild') /\ (AtTimer => AtTimer')
  BY <1>1 DEF NotReading, AtChild, AtTimer
<1>3. AtParent => AtParent'
  BY <1>1 DEF AtParent
<1>4. QED
  BY <1>2, <1>3 DEF TunnelInv, ReadPlaces

\* A write that is posted, or its handler that runs, is none of the read's business.
LEMMA WriteJobs ==
  ASSUME TunnelInv, UNCHANGED <<k_reading, k_timer, k_got, k_filled>>,
         ChildReads' = ChildReads,
         \/ k_parent' = Append(k_parent, Job("write", 0))
         \/ k_parent # <<>> /\ Head(k_parent).op = "write" /\ k_parent' = Tail(k_parent)
  PROVE  ReadPlaces' /\ k_parent' \in Seq(Jobs)
<1>0. k_parent \in Seq(Jobs) /\ Job("write", 0) \in Jobs /\ Job("write", 0) \notin Ends
  BY DEF TunnelInv, TunnelTypes, Jobs, Ends, Job
<1>1. k_parent' \in Seq(Jobs) /\ (ParentEnds = {} => ParentEnds' = {})
  <2>1. CASE k_parent' = Append(k_parent, Job("write", 0))
    BY <1>0, <2>1, WhereAppend DEF ParentEnds
  <2>2. CASE k_parent # <<>> /\ Head(k_parent).op = "write" /\ k_parent' = Tail(k_parent)
    BY <1>0, <2>2, WhereTail DEF ParentEnds
  <2>3. QED
    BY <2>1, <2>2
<1>2. ASSUME NEW i, ParentEnds = {i}
      PROVE  \E k : ParentEnds' = {k} /\ k_parent'[k] = k_parent[i]
  <2>1. CASE k_parent' = Append(k_parent, Job("write", 0))
    <3> DEFINE w == Job("write", 0)
    <3>0. k_parent' = Append(k_parent, w) /\ w \in Jobs /\ w \notin Ends
      BY <1>0, <2>1
    <3> HIDE DEF w
    <3>1. Where(Append(k_parent, w), Ends) = Where(k_parent, Ends)
      BY <1>0, <3>0, WhereAppend
    <3>2. i \in 1..Len(k_parent)
      BY <1>0, <1>2 DEF ParentEnds, Where
    <3>3. Append(k_parent, w)[i] = k_parent[i]
      BY <1>0, <3>0, <3>2
    <3>4. QED
      BY <1>2, <3>0, <3>1, <3>3 DEF ParentEnds
  <2>2. CASE k_parent # <<>> /\ Head(k_parent).op = "write" /\ k_parent' = Tail(k_parent)
    <3>1. Head(k_parent) \notin Ends
      BY <2>2 DEF Ends
    <3>2. Where(Tail(k_parent), Ends) = {i - 1} /\ Tail(k_parent)[i - 1] = k_parent[i]
      <4>1. Where(k_parent, Ends) = {i}
        BY <1>2 DEF ParentEnds
      <4>2. Where(Tail(k_parent), Ends) = {i - 1}
        BY <1>0, <2>2, <3>1, <4>1, WhereTail
      <4>3. i \in 1..Len(k_parent) /\ i # 1
        BY <1>0, <2>2, <3>1, <4>1 DEF Where
      <4>4. Tail(k_parent)[i - 1] = k_parent[i]
        BY <1>0, <2>2, <4>3
      <4>5. QED
        BY <4>2, <4>4
    <3>3. QED
      BY <2>2, <3>2 DEF ParentEnds
  <2>3. QED
    BY <2>1, <2>2
<1>3. (NotReading => NotReading') /\ (AtChild => AtChild') /\ (AtTimer => AtTimer')
  BY <1>1 DEF NotReading, AtChild, AtTimer
<1>4. AtParent => AtParent'
  BY <1>2 DEF AtParent
<1>5. QED
  BY <1>1, <1>3, <1>4 DEF TunnelInv, ReadPlaces

\* Every step of the parent, the child and the timer keeps it: a read goes from place
\* to place, and its bytes with it.
LEMMA TunnelKept == TunnelInv /\ [TunnelNext]_tunnelVars => TunnelInv'
<1> SUFFICES ASSUME TunnelInv, [TunnelNext]_tunnelVars PROVE TunnelInv'
  OBVIOUS
<1>0. TunnelTypes /\ ReadPlaces /\ k_child \in Seq(Posts) /\ k_parent \in Seq(Jobs)
  BY DEF TunnelInv, TunnelTypes
<1>1. CASE TunnelRead
  <2>1. NotReading /\ k_child' = Append(k_child, "read") /\ k_reading' = TRUE /\ k_filled' = 0
        /\ UNCHANGED <<k_writing, k_timer, k_parent, k_bus, k_got>>
    BY <1>0, <1>1 DEF TunnelRead, ReadPlaces, AtChild, AtTimer, AtParent
  <2>2. "read" \in Posts
    BY DEF Posts
  <2>3. k_child' \in Seq(Posts) /\ ChildReads' = {Len(k_child) + 1}
    BY <1>0, <2>1, <2>2, WhereAppend DEF NotReading, ChildReads
  <2>4. AtChild'
    BY <2>1, <2>3 DEF NotReading, AtChild, ParentEnds
  <2>5. TunnelTypes'
    BY <1>0, <2>1, <2>3 DEF TunnelTypes
  <2>6. QED
    BY <2>4, <2>5 DEF TunnelInv, ReadPlaces
<1>2. CASE TunnelWrite
  <2>1. k_child' = Append(k_child, "write") /\ k_writing' = TRUE
        /\ UNCHANGED <<k_reading, k_timer, k_parent, k_bus, k_got, k_filled>>
    BY <1>2 DEF TunnelWrite
  <2>2. "write" \in Posts /\ "write" \notin {"read"}
    BY DEF Posts
  <2>3. k_child' \in Seq(Posts) /\ ChildReads' = ChildReads
    BY <1>0, <2>1, <2>2, WhereAppend DEF ChildReads
  <2>4. ReadPlaces'
    BY <2>1, <2>3, PlacesUnchanged
  <2>5. QED
    BY <1>0, <2>1, <2>3, <2>4 DEF TunnelInv, TunnelTypes
<1>3. CASE ChildRead
  <2>1. k_child # <<>> /\ Head(k_child) \in {"read"} /\ k_child' = Tail(k_child) /\ k_bus' = <<>>
        /\ UNCHANGED <<k_reading, k_writing, k_got>>
    BY <1>3 DEF ChildRead
  <2>2. AtChild
    <3>1. ChildReads # {}
      BY <1>0, <2>1, WhereTail DEF ChildReads
    <3>2. QED
      BY <1>0, <3>1 DEF ReadPlaces, NotReading, AtTimer, AtParent
  <2>3. k_child' \in Seq(Posts) /\ ChildReads' = {}
    BY <1>0, <2>1, <2>2, WhereTail DEF AtChild, ChildReads
  <2>4. PICK answer \in {<<>>} \cup (IF k_bus = <<>> THEN {<<f>> : f \in TunnelFrames} ELSE {}) :
           LET bytes == ParseTunnelPoll(k_bus \o answer)
           IN  /\ k_filled' = k_filled + bytes /\ k_timer' = (bytes = 0)
               /\ k_parent' = IF bytes > 0 THEN Append(k_parent, Job("read", bytes)) ELSE k_parent
    BY <1>3 DEF ChildRead
  <2> DEFINE bytes == ParseTunnelPoll(k_bus \o answer)
  <2>5. bytes \in Nat
    <3>1. answer \in Seq(TunnelFrames)
      <4>1. CASE answer = <<>>
        BY <4>1
      <4>2. CASE \E f \in TunnelFrames : answer = <<f>>
        BY <4>2
      <4>3. QED
        BY <2>4, <4>1, <4>2
    <3>2. k_bus \o answer \in Seq(TunnelFrames)
      BY <1>0, <3>1, ConcatProperties DEF TunnelTypes
    <3>3. QED
      BY <3>2, ParseCounts
  <2>6. /\ k_filled' = k_filled + bytes /\ k_timer' = (bytes = 0)
        /\ k_parent' = IF bytes > 0 THEN Append(k_parent, Job("read", bytes)) ELSE k_parent
    BY <2>4
  <2> HIDE DEF bytes
  <2>7. k_bus' \in Seq(TunnelFrames)
    BY <2>1
  <2>8. CASE bytes = 0
    <3>0. k_filled' = 0 /\ UNCHANGED k_parent
      BY <2>2, <2>6, <2>8 DEF AtChild
    <3>1. k_filled' = 0 /\ k_timer' = TRUE /\ UNCHANGED k_parent
      BY <2>6, <2>8, <3>0, Zenon
    <3>2. AtTimer'
      BY <2>1, <2>2, <2>3, <3>1 DEF AtChild, AtTimer, ParentEnds
    <3>3. TunnelTypes'
      BY <1>0, <2>1, <2>3, <2>7, <3>1 DEF TunnelTypes
    <3>4. QED
      BY <3>2, <3>3 DEF TunnelInv, ReadPlaces
  <2>9. CASE bytes > 0
    <3> DEFINE j == Job("read", bytes)
    <3>0. k_filled' = bytes /\ k_parent' = Append(k_parent, j) /\ bytes # 0
      BY <2>2, <2>5, <2>6, <2>9 DEF AtChild
    <3>1. k_filled' = bytes /\ k_timer' = FALSE /\ k_parent' = Append(k_parent, j)
      BY <2>6, <3>0, Zenon
    <3>2. j \in Jobs /\ j \in Ends /\ j.bytes = bytes /\ j.op = "read"
      BY <2>5 DEF Job, Jobs, Ends
    <3> HIDE DEF j
    <3>3. /\ k_parent' \in Seq(Jobs) /\ ParentEnds' = {Len(k_parent) + 1}
          /\ k_parent'[Len(k_parent) + 1] = j
      BY <1>0, <2>2, <3>1, <3>2, WhereAppend DEF AtChild, ParentEnds
    <3>4. AtParent'
      BY <2>1, <2>2, <2>3, <3>1, <3>2, <3>3 DEF AtChild, AtParent
    <3>5. TunnelTypes'
      BY <1>0, <2>1, <2>3, <2>5, <2>7, <3>1, <3>3 DEF TunnelTypes
    <3>6. QED
      BY <3>4, <3>5 DEF TunnelInv, ReadPlaces
  <2>10. QED
    BY <2>5, <2>8, <2>9
<1>4. CASE ChildWrite
  <2>1. k_child # <<>> /\ Head(k_child) \notin {"read"} /\ k_child' = Tail(k_child)
        /\ k_parent' = Append(k_parent, Job("write", 0))
        /\ UNCHANGED <<k_reading, k_writing, k_timer, k_bus, k_got, k_filled>>
    BY <1>4 DEF ChildWrite
  <2>2. k_child' \in Seq(Posts) /\ (ChildReads = {} => ChildReads' = {})
        /\ \A i : ChildReads = {i} => ChildReads' = {i - 1}
    BY <1>0, <2>1, WhereTail DEF ChildReads
  <2>3. CASE ChildReads' = ChildReads
    <3>1. ReadPlaces' /\ k_parent' \in Seq(Jobs)
      BY <2>1, <2>3, WriteJobs
    <3>2. QED
      BY <1>0, <2>1, <2>2, <3>1 DEF TunnelInv, TunnelTypes
  <2>4. CASE ChildReads' # ChildReads
    <3>1. AtChild
      BY <1>0, <2>2, <2>4 DEF ReadPlaces, NotReading, AtTimer, AtParent
    <3>2. Job("write", 0) \in Jobs /\ Job("write", 0) \notin Ends
      BY DEF Jobs, Ends, Job
    <3>3. k_parent' \in Seq(Jobs) /\ ParentEnds' = {}
      <4> DEFINE w == Job("write", 0)
      <4>1. k_parent' = Append(k_parent, w) /\ w \in Jobs /\ w \notin Ends
        BY <2>1, <3>2
      <4> HIDE DEF w
      <4>2. Where(k_parent, Ends) = {}
        BY <3>1 DEF AtChild, ParentEnds
      <4>3. QED
        BY <1>0, <4>1, <4>2, WhereAppend DEF ParentEnds
    <3>4. AtChild'
      BY <2>1, <2>2, <3>1, <3>3 DEF AtChild
    <3>5. QED
      BY <1>0, <2>1, <2>2, <3>3, <3>4 DEF TunnelInv, TunnelTypes, ReadPlaces
  <2>5. QED
    BY <2>3, <2>4
<1>5. ASSUME NEW op \in {"poll", "aborted"}, k_timer, k_timer' = FALSE,
             k_parent' = Append(k_parent, Job(op, 0)),
             UNCHANGED <<k_reading, k_writing, k_child, k_bus, k_got, k_filled>>
      PROVE  TunnelInv'
  <2> DEFINE j == Job(op, 0)
  <2>1. AtTimer
    BY <1>0, <1>5 DEF ReadPlaces, NotReading, AtChild, AtParent
  <2>2. j \in Jobs /\ j \in Ends /\ j.bytes = 0
    BY DEF Job, Jobs, Ends
  <2>3. k_parent' = Append(k_parent, j)
    BY <1>5
  <2> HIDE DEF j
  <2>4. /\ k_parent' \in Seq(Jobs) /\ ParentEnds' = {Len(k_parent) + 1}
        /\ k_parent'[Len(k_parent) + 1] = j
    BY <1>0, <2>1, <2>2, <2>3, WhereAppend DEF AtTimer, ParentEnds
  <2>5. AtParent'
    BY <1>5, <2>1, <2>2, <2>4 DEF AtTimer, AtParent, ChildReads
  <2>6. TunnelTypes'
    BY <1>0, <1>5, <2>4 DEF TunnelTypes
  <2>7. QED
    BY <2>5, <2>6 DEF TunnelInv, ReadPlaces
<1>6. CASE TimerExpires
  BY <1>5, <1>6 DEF TimerExpires
<1>7. CASE TunnelCancel
  BY <1>5, <1>7 DEF TunnelCancel, Cancel
<1>8. CASE ParentRuns
  <2> DEFINE job == Head(k_parent)
  <2>1. k_parent # <<>> /\ k_parent' = Tail(k_parent)
        /\ UNCHANGED <<k_timer, k_bus, k_filled>>
        /\ k_reading' = (k_reading /\ job.op \notin {"read", "aborted"})
        /\ k_writing' = (k_writing /\ job.op # "write")
        /\ k_child' = (IF job.op = "poll" THEN Append(k_child, "read") ELSE k_child)
        /\ k_got' = IF job.op \in {"read", "aborted"} THEN job.bytes ELSE k_got
    BY <1>8 DEF ParentRuns
  <2>2. job \in Jobs /\ k_parent' \in Seq(Jobs) /\ job = k_parent[1]
    BY <1>0, <2>1, WhereTail
  <2> HIDE DEF job
  <2>3. "read" \in Posts /\ "read" \in {"read"}
    BY DEF Posts
  <2>4. k_child' \in Seq(Posts)
    BY <1>0, <2>1, <2>3, WhereAppend
  <2>5. TunnelTypes'
    <3>1. k_reading' \in BOOLEAN /\ k_writing' \in BOOLEAN /\ k_got' \in Nat
      BY <1>0, <2>1, <2>2 DEF TunnelTypes, Jobs
    <3>2. QED
      BY <1>0, <2>1, <2>2, <2>4, <3>1 DEF TunnelTypes
  <2>6. CASE job.op = "write"
    <3>1. UNCHANGED <<k_reading, k_got, k_child>>
      BY <1>0, <2>1, <2>6 DEF TunnelTypes
    <3>2. ReadPlaces'
      BY <2>1, <2>6, <3>1, WriteJobs DEF ChildReads, job
    <3>3. QED
      BY <2>5, <3>2 DEF TunnelInv
  <2>7. CASE job.op # "write"
    <3>1. job \in Ends
      BY <2>2, <2>7 DEF Ends
    <3>2. ParentEnds # {}
      BY <1>0, <2>1, <3>1, WhereTail DEF ParentEnds, job
    <3>3. AtParent
      BY <1>0, <3>2 DEF ReadPlaces, NotReading, AtChild, AtTimer
    <3>4. PICK i : /\ ParentEnds = {i} /\ k_parent[i].bytes = k_filled
                   /\ k_parent[i].op = "poll" => k_filled = 0
      BY <3>3 DEF AtParent
    <3>5. i = 1 /\ ParentEnds' = {}
      BY <1>0, <2>1, <3>1, <3>4, WhereTail DEF ParentEnds, job
    <3>6. job.bytes = k_filled /\ (job.op = "poll" => k_filled = 0)
      BY <2>2, <3>4, <3>5
    <3>7. CASE job.op = "poll"
      <4>1. k_child' = Append(k_child, "read") /\ k_reading' = TRUE
        BY <2>1, <3>3, <3>7 DEF AtParent
      <4>2. ChildReads' = {Len(k_child) + 1}
        BY <1>0, <2>3, <3>3, <4>1, WhereAppend DEF AtParent, ChildReads
      <4>3. AtChild'
        BY <2>1, <3>3, <3>5, <3>6, <3>7, <4>1, <4>2 DEF AtParent, AtChild
      <4>4. QED
        BY <2>5, <4>3 DEF TunnelInv, ReadPlaces
    <3>8. CASE job.op \in {"read", "aborted"}
      <4>1. k_reading' = FALSE /\ k_got' = k_filled' /\ UNCHANGED <<k_child, k_timer>>
        BY <2>1, <3>6, <3>8
      <4>2. NotReading'
        BY <3>3, <3>5, <4>1 DEF AtParent, NotReading, ChildReads
      <4>3. QED
        BY <2>5, <4>2 DEF TunnelInv, ReadPlaces
    <3>9. QED
      BY <2>2, <2>7, <3>7, <3>8 DEF Jobs
  <2>8. QED
    BY <2>6, <2>7
<1>9. CASE ChildCycle \/ (\E f \in TunnelFrames : FrameArrives(f)) \/ UNCHANGED tunnelVars
  <2>1. UNCHANGED <<k_reading, k_writing, k_child, k_timer, k_parent, k_got, k_filled>>
    BY <1>9 DEF ChildCycle, FrameArrives, tunnelVars
  <2>2. k_bus' \in Seq(TunnelFrames)
    <3>1. CASE ChildCycle
      BY <3>1 DEF ChildCycle
    <3>2. ASSUME NEW f \in TunnelFrames, FrameArrives(f) PROVE k_bus' \in Seq(TunnelFrames)
      BY <1>0, <3>2 DEF FrameArrives, TunnelTypes
    <3>3. CASE UNCHANGED tunnelVars
      BY <1>0, <3>3 DEF tunnelVars, TunnelTypes
    <3>4. QED
      BY <1>9, <3>1, <3>2, <3>3
  <2>3. ReadPlaces'
    BY <2>1, PlacesUnchanged DEF ChildReads
  <2>4. QED
    BY <1>0, <2>1, <2>2, <2>3 DEF TunnelInv, TunnelTypes
<1>10. QED
  BY <1>1, <1>2, <1>3, <1>4, <1>6, <1>7, <1>8, <1>9 DEF TunnelNext

\* In each of these places a read has the continuations that it should have.
LEMMA TunnelHeld == TunnelInv => TunnelBufferHeld
<1> SUFFICES ASSUME TunnelInv PROVE TunnelBufferHeld
  OBVIOUS
<1>1. {i \in DOMAIN k_child : k_child[i] = "read"} = ChildReads
  BY DEF ChildReads, Where
<1>2. {i \in DOMAIN k_parent : k_parent[i].op \in {"read", "poll", "aborted"}} = ParentEnds
  <2>1. \A i \in DOMAIN k_parent : k_parent[i] \in Jobs
    BY DEF TunnelInv, TunnelTypes
  <2>2. QED
    BY <2>1 DEF ParentEnds, Where, Ends, Jobs
<1>3. Continuations = Cardinality(ChildReads) + (IF k_timer THEN 1 ELSE 0) + Cardinality(ParentEnds)
  BY <1>1, <1>2 DEF Continuations
<1>4. Cardinality({}) = 0 /\ \A i : Cardinality({i}) = 1
  BY FS_EmptySet, FS_Singleton
<1>5. CASE NotReading
  <2>1. Cardinality(ChildReads) = 0 /\ Cardinality(ParentEnds) = 0
    BY <1>4, <1>5 DEF NotReading
  <2>2. QED
    BY <1>3, <1>5, <2>1 DEF NotReading, TunnelBufferHeld
<1>6. CASE AtChild
  <2>1. Cardinality(ChildReads) = 1 /\ Cardinality(ParentEnds) = 0
    BY <1>4, <1>6 DEF AtChild
  <2>2. QED
    BY <1>3, <1>6, <2>1 DEF AtChild, TunnelBufferHeld
<1>7. CASE AtTimer
  <2>1. Cardinality(ChildReads) = 0 /\ Cardinality(ParentEnds) = 0
    BY <1>4, <1>7 DEF AtTimer
  <2>2. QED
    BY <1>3, <1>7, <2>1 DEF AtTimer, TunnelBufferHeld
<1>8. CASE AtParent
  <2>1. Cardinality(ChildReads) = 0 /\ Cardinality(ParentEnds) = 1
    BY <1>4, <1>8 DEF AtParent
  <2>2. QED
    BY <1>3, <1>8, <2>1 DEF AtParent, TunnelBufferHeld
<1>9. QED
  BY <1>5, <1>6, <1>7, <1>8 DEF TunnelInv, ReadPlaces

-----------------------------------------------------------------------------
\* The mech a dialog is about stays in the list for as long as the dialog is open.
ListInv ==
  /\ mechs \in Seq(Objects)
  /\ dialog \in [kind: {"none", "remove", "sound"}, mech: Nat]
  /\ dialog.kind # "none" => \E i \in DOMAIN mechs : mechs[i] = dialog.mech

\* The inductive invariant of the referee's list.
ScoringInv == ListInv /\ row \in 0..Len(mechs) /\ s_mech \in [Objects -> Texts]
              /\ fields \in Texts /\ hp_open \in BOOLEAN

\* While there is room in the list there is an object that is not in it.
LEMMA ObjectLeft ==
  ASSUME mechs \in Seq(Objects), Len(mechs) < MaxMechs
  PROVE  NewObject \in Objects
<1>0. MaxMechs \in Nat /\ Len(mechs) \in Nat
  BY ScoringAssumption
<1>1. \E o \in Objects : o \notin ToSet(mechs)
  <2> SUFFICES ASSUME \A o \in Objects : o \in ToSet(mechs) PROVE FALSE
    OBVIOUS
  <2>1. mechs \in [1..Len(mechs) -> Objects]
    OBVIOUS
  <2>2. \A o \in Objects : \E i \in 1..Len(mechs) : mechs[i] = o
    BY <2>1 DEF ToSet
  <2>3. ExistsSurjection(1..Len(mechs), Objects)
    BY <2>1, <2>2 DEF ExistsSurjection, Surjection
  <2>4. Cardinality(Objects) <= Len(mechs)
    BY <1>0, <2>3, FS_SurjCardinalityBound
  <2>5. Cardinality(Objects) = MaxMechs
    BY <1>0, FS_Interval DEF Objects
  <2>6. QED
    BY <1>0, <2>4, <2>5
<1>2. QED
  BY <1>1 DEF NewObject

\* The mech that is found by its ident is one of the list.
LEMMA FindInList ==
  ASSUME mechs \in Seq(Objects), NEW ident, Find(ident) # 0
  PROVE  Find(ident) \in Objects
<1> DEFINE with == {i \in DOMAIN mechs : s_mech[mechs[i]].ident = ident}
           first == CHOOSE i \in with : \A j \in with : i <= j
<1>1. with # {} /\ Find(ident) = mechs[first]
  BY DEF Find
<1>2. with \in SUBSET Nat
  OBVIOUS
<1>3. \E i \in with : \A j \in with : i <= j
  <2> HIDE DEF with
  <2> QED BY <1>1, <1>2, NatLeast
<1>4. first \in with
  <2> HIDE DEF with
  <2> QED BY <1>3
<1> HIDE DEF first
<1>5. QED
  BY <1>1, <1>4

\* The constants of the list.
LEMMA TextsHold ==
  /\ MaxMechs \in Nat /\ MaxHp \in Nat /\ Fresh \in Texts
  /\ \A o \in Objects : o \in Nat /\ o # 0
<1>1. MaxMechs \in Nat /\ MaxHp \in Nat
  BY ScoringAssumption
<1>2. QED
  BY <1>1 DEF Fresh, Texts, Hps, NoIdent, Objects

\* The fields show a mech of the list, or stay.
LEMMA Shown ==
  ASSUME fields \in Texts, NEW list \in Seq(Objects), NEW r, NEW objects \in [Objects -> Texts],
         Show(list, r, objects)
  PROVE  fields' \in Texts
  BY DEF Show

\* The current mech is one of the list.
LEMMA CurrentInList ==
  ASSUME mechs \in Seq(Objects), CurrentMech # 0
  PROVE  CurrentMech \in Objects /\ \E i \in DOMAIN mechs : mechs[i] = CurrentMech
  BY DEF CurrentMech

\* A list without one of its elements is one shorter.
LEMMA Removed ==
  ASSUME NEW T, NEW q \in Seq(T), NEW i \in DOMAIN q
  PROVE  RemoveAt(q, i) \in Seq(T) /\ Len(RemoveAt(q, i)) = Len(q) - 1
<1>1. Len(q) \in Nat /\ i \in 1..Len(q)
  OBVIOUS
<1> DEFINE a == SubSeq(q, 1, i - 1)
           b == SubSeq(q, i + 1, Len(q))
<1>2. a \in Seq(T) /\ Len(a) = i - 1
  BY <1>1
<1>3. b \in Seq(T) /\ Len(b) = Len(q) - i
  BY <1>1
<1>4. RemoveAt(q, i) = a \o b
  BY DEF RemoveAt
<1> HIDE DEF a, b
<1>5. a \o b \in Seq(T) /\ Len(a \o b) = Len(a) + Len(b)
  BY <1>2, <1>3, ConcatProperties
<1>6. QED
  BY <1>1, <1>2, <1>3, <1>4, <1>5

\* It holds of the empty list.
LEMMA ScoringInitially == ScoringInit => ScoringInv
<1> SUFFICES ASSUME ScoringInit PROVE ScoringInv
  OBVIOUS
<1>1. mechs \in Seq(Objects) /\ row \in 0..Len(mechs)
  BY DEF ScoringInit
<1>2. dialog \in [kind: {"none", "remove", "sound"}, mech: Nat] /\ dialog.kind = "none"
  BY DEF ScoringInit, NoDialog
<1>3. QED
  BY <1>1, <1>2, TextsHold DEF ScoringInit, ScoringInv, ListInv

\* A mech that is put at the end of the list and becomes current.
LEMMA MechAdded ==
  ASSUME ScoringInv, NEW o \in Objects, NEW m \in Texts,
         s_mech' = [s_mech EXCEPT ![o] = m], mechs' = Append(mechs, o), row' = Len(mechs'),
         Show(mechs', row', s_mech'), UNCHANGED <<hp_open, dialog>>
  PROVE  ScoringInv'
<1>0. mechs \in Seq(Objects) /\ s_mech \in [Objects -> Texts]
  BY DEF ScoringInv, ListInv
<1>1. /\ mechs' \in Seq(Objects) /\ Len(mechs') = Len(mechs) + 1 /\ Len(mechs) \in Nat
      /\ \A i \in DOMAIN mechs : i \in DOMAIN mechs' /\ mechs'[i] = mechs[i]
  BY <1>0
<1>2. s_mech' \in [Objects -> Texts]
  BY <1>0
<1>3. fields' \in Texts
  BY <1>1, <1>2 DEF ScoringInv, Show
<1>4. ListInv'
  BY <1>1 DEF ScoringInv, ListInv
<1>5. QED
  BY <1>1, <1>2, <1>3, <1>4 DEF ScoringInv

\* A mech whose texts change; the list stays.
LEMMA MechChanged ==
  ASSUME ScoringInv, NEW o \in Objects, NEW m \in Texts,
         s_mech' = [s_mech EXCEPT ![o] = m], UNCHANGED <<mechs, row>>,
         fields' = fields \/ Show(mechs, row, s_mech'), hp_open' \in BOOLEAN,
         dialog' = dialog \/ dialog' = NoDialog
  PROVE  ScoringInv'
<1>0. mechs \in Seq(Objects) /\ s_mech \in [Objects -> Texts] /\ fields \in Texts
  BY DEF ScoringInv, ListInv
<1>1. s_mech' \in [Objects -> Texts]
  BY <1>0
<1>2. fields' \in Texts
  BY <1>0, <1>1 DEF Show
<1>3. ListInv'
  <2>1. CASE dialog' = dialog
    BY <2>1 DEF ScoringInv, ListInv
  <2>2. CASE dialog' = NoDialog
    BY <2>2 DEF ScoringInv, ListInv, NoDialog
  <2>3. QED
    BY <2>1, <2>2
<1>4. QED
  BY <1>1, <1>2, <1>3 DEF ScoringInv

\* Every button, hit and answer keeps it.
LEMMA ScoringKept == ScoringInv /\ [ScoringNext]_scoringVars => ScoringInv'
<1> SUFFICES ASSUME ScoringInv, [ScoringNext]_scoringVars PROVE ScoringInv'
  OBVIOUS
<1>0. /\ mechs \in Seq(Objects) /\ s_mech \in [Objects -> Texts] /\ fields \in Texts
      /\ row \in 0..Len(mechs) /\ hp_open \in BOOLEAN /\ Len(mechs) \in Nat
  BY DEF ScoringInv, ListInv
<1>1. CASE HandleMechAddButton
  BY <1>0, <1>1, ObjectLeft, TextsHold, MechAdded DEF HandleMechAddButton
<1>2. ASSUME NEW ident \in Idents, TransponderHit(ident) PROVE ScoringInv'
  <2> DEFINE new == Find(ident) = 0
             it  == IF new THEN NewObject ELSE Find(ident)
             old == IF new THEN [Fresh EXCEPT !.ident = ident] ELSE s_mech[it]
             hit == [old EXCEPT !.hp = @ - 1]
  <2>1. /\ new => Len(mechs) < MaxMechs
        /\ hit.hp \in Hps /\ s_mech' = [s_mech EXCEPT ![it] = hit]
        /\ mechs' = IF new THEN Append(mechs, it) ELSE mechs
        /\ row' = IF new THEN Len(mechs') ELSE row
        /\ Show(mechs', row', s_mech')
        /\ UNCHANGED <<hp_open, dialog>>
    BY <1>2 DEF TransponderHit
  <2>2. it \in Objects
    <3>1. CASE new
      BY <1>0, <2>1, <3>1, ObjectLeft
    <3>2. CASE ~new
      BY <1>0, <3>2, FindInList
    <3>3. QED
      BY <3>1, <3>2
  <2> HIDE DEF it
  <2>3. old \in Texts
    BY <1>0, <2>2, TextsHold DEF Texts
  <2> HIDE DEF old
  <2>4. hit \in Texts
    <3>1. hit = [ident |-> old.ident, hp |-> hit.hp, sound |-> old.sound]
      BY <2>3 DEF Texts
    <3>2. QED
      <4> HIDE DEF hit
      <4> QED BY <2>1, <2>3, <3>1 DEF Texts
  <2> HIDE DEF hit
  <2>5. CASE new
    BY <2>1, <2>2, <2>4, <2>5, MechAdded
  <2>6. CASE ~new
    <3>1. UNCHANGED <<mechs, row, hp_open, dialog>> /\ Show(mechs, row, s_mech')
      BY <2>1, <2>6
    <3>2. QED
      BY <1>0, <2>1, <2>2, <2>4, <3>1, MechChanged
  <2>7. QED
    BY <2>5, <2>6
<1>3. CASE AskRemove \/ AskSound
  <2>1. /\ CurrentMech # 0 /\ UNCHANGED <<mechs, row, s_mech, fields, hp_open>>
        /\ \E k \in {"remove", "sound"} : dialog' = [kind |-> k, mech |-> CurrentMech]
    BY <1>3 DEF AskRemove, AskSound
  <2>2. CurrentMech \in Nat /\ \E i \in DOMAIN mechs : mechs[i] = CurrentMech
    BY <1>0, <2>1, CurrentInList, TextsHold
  <2>3. QED
    BY <1>0, <2>1, <2>2 DEF ScoringInv, ListInv
<1>4. ASSUME NEW yes \in BOOLEAN, AnswerRemove(yes) PROVE ScoringInv'
  <2>0. dialog' = NoDialog /\ NoDialog \in [kind: {"none", "remove", "sound"}, mech: Nat]
        /\ NoDialog.kind = "none" /\ hp_open' = hp_open
    BY <1>4 DEF AnswerRemove, NoDialog
  <2>1. CASE yes
    <3> DEFINE index == CHOOSE i \in DOMAIN mechs : mechs[i] = dialog.mech
    <3>1. index \in DOMAIN mechs /\ mechs[index] = dialog.mech
      BY <1>4 DEF AnswerRemove, ScoringInv, ListInv
    <3>2. /\ mechs' = RemoveAt(mechs, index) /\ row' = RowAfterTake(index)
          /\ s_mech' = [s_mech EXCEPT ![mechs[index]] = Fresh]
          /\ Show(mechs', row', s_mech')
      BY <1>4, <2>1 DEF AnswerRemove, Asked
    <3> HIDE DEF index
    <3>3. mechs' \in Seq(Objects) /\ Len(mechs') = Len(mechs) - 1
      BY <1>0, <3>1, <3>2, Removed
    <3>4. row' \in 0..Len(mechs')
      BY <1>0, <3>1, <3>2, <3>3 DEF RowAfterTake
    <3>5. s_mech' \in [Objects -> Texts]
      BY <1>0, <3>1, <3>2, TextsHold
    <3>6. fields' \in Texts
      BY <1>0, <3>2, <3>3, <3>5 DEF Show
    <3>7. QED
      BY <1>0, <2>0, <3>3, <3>4, <3>5, <3>6 DEF ScoringInv, ListInv
  <2>2. CASE ~yes
    BY <1>0, <1>4, <2>0, <2>2 DEF AnswerRemove, ScoringInv, ListInv
  <2>3. QED
    BY <2>1, <2>2
<1>5. ASSUME NEW r \in 1..MaxMechs, PickRow(r) PROVE ScoringInv'
  <2>1. r \in DOMAIN mechs /\ row' = r /\ Show(mechs, r, s_mech)
        /\ UNCHANGED <<mechs, s_mech, hp_open, dialog>>
    BY <1>5 DEF PickRow
  <2>2. fields' \in Texts /\ row' \in 0..Len(mechs)
    BY <1>0, <2>1 DEF Show
  <2>3. QED
    BY <1>0, <2>1, <2>2 DEF ScoringInv, ListInv
<1>6. CASE HandleSetHpButton
  BY <1>6 DEF HandleSetHpButton, ScoringInv, ListInv
<1>7. ASSUME NEW i \in Idents \cup {NoIdent}, NEW hp \in {0, MaxHp}, Type(i, hp) PROVE ScoringInv'
  <2>1. fields' = [fields EXCEPT !.ident = i, !.hp = hp]
        /\ UNCHANGED <<mechs, row, s_mech, hp_open, dialog>>
    BY <1>7 DEF Type
  <2>2. hp \in Hps
    BY TextsHold DEF Hps
  <2>3. fields' = [ident |-> i, hp |-> hp, sound |-> fields.sound]
    BY <1>0, <2>1 DEF Texts
  <2>4. fields' \in Texts
    BY <1>0, <2>2, <2>3 DEF Texts
  <2>5. QED
    BY <1>0, <2>1, <2>4 DEF ScoringInv, ListInv
<1>8. CASE HandleMechProperties
  <2> DEFINE c == CurrentMech
             m == [s_mech[c] EXCEPT !.ident = fields.ident,
                                    !.hp = IF hp_open THEN fields.hp ELSE s_mech[c].hp]
  <2>1. c \in Objects
    BY <1>0, <1>8, CurrentInList DEF HandleMechProperties
  <2>2. s_mech' = [s_mech EXCEPT ![c] = m] /\ hp_open' = FALSE
        /\ UNCHANGED <<mechs, row, fields, dialog>>
    BY <1>0, <1>8, <2>1 DEF HandleMechProperties, Texts
  <2> HIDE DEF c
  <2>3. s_mech[c] \in Texts
    BY <1>0, <2>1
  <2>4. m = [ident |-> fields.ident, hp |-> IF hp_open THEN fields.hp ELSE s_mech[c].hp,
             sound |-> s_mech[c].sound]
    <3>1. m = [s_mech[c] EXCEPT !.ident = fields.ident,
                                !.hp = IF hp_open THEN fields.hp ELSE s_mech[c].hp]
      OBVIOUS
    <3> HIDE DEF m
    <3>2. QED
      BY <2>3, <3>1 DEF Texts
  <2> HIDE DEF m
  <2>5. m \in Texts
    BY <1>0, <2>3, <2>4 DEF Texts
  <2>6. QED
    BY <2>1, <2>2, <2>5, MechChanged
<1>9. ASSUME NEW d \in {1, -1}, ChangeHp(d) PROVE ScoringInv'
  <2> DEFINE c == CurrentMech
             m == [s_mech[c] EXCEPT !.hp = @ + d]
  <2>1. c \in Objects
    BY <1>0, <1>9, CurrentInList DEF ChangeHp
  <2>2. s_mech' = [s_mech EXCEPT ![c] = m] /\ s_mech[c].hp + d \in Hps
        /\ Show(mechs, row, s_mech') /\ UNCHANGED <<mechs, row, hp_open, dialog>>
    BY <1>9 DEF ChangeHp
  <2> HIDE DEF c
  <2>3. m \in Texts
    BY <1>0, <2>1, <2>2 DEF Texts
  <2> HIDE DEF m
  <2>4. QED
    BY <1>0, <2>1, <2>2, <2>3, MechChanged
<1>10. ASSUME NEW f \in Sounds \cup {"none"}, AnswerSound(f) PROVE ScoringInv'
  <2> DEFINE c == dialog.mech
             m == [s_mech[c] EXCEPT !.sound = f]
  <2>1. c \in Objects
    BY <1>0, <1>10 DEF AnswerSound, ScoringInv, ListInv
  <2>2. s_mech' = [s_mech EXCEPT ![c] = m] /\ dialog' = NoDialog
        /\ Show(mechs, row, s_mech') /\ UNCHANGED <<mechs, row, hp_open>>
    BY <1>10 DEF AnswerSound, Asked
  <2> HIDE DEF c
  <2>3. m \in Texts
    BY <1>0, <2>1 DEF Texts
  <2> HIDE DEF m
  <2>4. QED
    BY <1>0, <2>1, <2>2, <2>3, MechChanged
<1>11. CASE UNCHANGED scoringVars
  BY <1>11 DEF scoringVars, ScoringInv, ListInv
<1>12. QED
  BY <1>1, <1>2, <1>3, <1>4, <1>5, <1>6, <1>7, <1>8, <1>9, <1>10, <1>11 DEF ScoringNext

-----------------------------------------------------------------------------
\* The inductive invariant of the programs around the robot.
LinksInv == UdpInv /\ WebInv /\ RfInv /\ TunnelInv /\ ScoringInv

\* A step of the run is a step of one program, and leaves the others alone.
LEMMA LinkSteps ==
  [Next]_vars => /\ [UdpNext]_udpVars /\ [WebNext]_webVars /\ [RfNext]_rfVars
                 /\ [TunnelNext]_tunnelVars /\ [ScoringNext]_scoringVars
  BY DEF Next, vars

\* All of it holds at the start.
LEMMA LinksInitially == Init => LinksInv
  BY UdpInitially, WebInitially, RfInitially, TunnelInitially, ScoringInitially
     DEF Init, LinksInv

\* A step of one program keeps its part, and leaves the others' alone.
LEMMA LinksKept == LinksInv /\ [Next]_vars => LinksInv'
  BY LinkSteps, UdpKept, WebKept, RfKept, TunnelKept, ScoringKept DEF LinksInv

\* So it holds of every state that is reached.
LEMMA LinksInvariant == Spec => []LinksInv
  BY LinksInitially, LinksKept, PTL DEF Spec

\* Every peer that is sent to was heard from within its timeout and a fifth, for every
\* timeout and every set of peers.
THEOREM PeersRecentAlways == Spec => []PeersRecent
<1>1. LinksInv => PeersRecent
  <2> SUFFICES ASSUME LinksInv, NEW p \in Peers, Known(p)
               PROVE  peers[p].silent <= PeerTimeout + PeerTimeout \div 5
    BY DEF PeersRecent
  <2>1. peers[p].silent \in Nat /\ u_timer \in Nat
    BY PeriodFits DEF LinksInv, UdpInv, UdpTypeOK
  <2>2. peers[p].silent + u_timer <= PeerTimeout + Period
    BY DEF LinksInv, UdpInv
  <2>3. peers[p].silent <= PeerTimeout + Period
    BY <2>1, <2>2, PeriodFits
  <2>4. QED
    BY <2>3 DEF Period
<1>2. QED
  BY <1>1, LinksInvariant, PTL

\* The datagram link's counters stay in their ranges: never more than one datagram
\* beyond max_tx_pending is under way, however many peers a packet goes to.
THEOREM UdpTypeCorrect == Spec => []UdpTypeOK
<1>1. LinksInv => UdpTypeOK
  BY DEF LinksInv, UdpInv
<1>2. QED
  BY <1>1, LinksInvariant, PTL

\* At most one session of the websocket can give commands, for any number of sessions.
THEOREM WebExclusiveAlways == Spec => []WebExclusive
<1>1. LinksInv => WebExclusive
  BY DEF LinksInv, WebInv, SessionInv, WebExclusive
<1>2. QED
  BY <1>1, LinksInvariant, PTL

\* What the page shows, sends and is answered is always a mode the other side knows.
THEOREM WebTypeCorrect == Spec => []WebTypeOK
<1>1. LinksInv => WebTypeOK
  BY DEF LinksInv, WebInv, SessionInv, PageInv, Record, WebTypeOK
<1>2. QED
  BY <1>1, LinksInvariant, PTL

\* The slots of a report are all of the remote it names, in every order in which lines,
\* callbacks and writes come to be handled.
THEOREM RemoteMatchesSlotsAlways == Spec => []RemoteMatchesSlots
<1>1. LinksInv => RemoteMatchesSlots
  BY DEF LinksInv, RfInv, SlotInv
<1>2. QED
  BY <1>1, LinksInvariant, PTL

\* A pull of the trigger is one shot.
THEOREM OneShotPerPullAlways == Spec => OneShotPerPull
<1>1. LinksInv /\ [Next]_vars =>
        [turret_fire_sequence' # turret_fire_sequence => c_released]_rfVars
  <2> SUFFICES ASSUME LinksInv, [RfNext]_rfVars, turret_fire_sequence' # turret_fire_sequence
               PROVE  c_released
    BY LinkSteps
  <2>1. PICK g \in Gamepads : Frame(g)
    BY DEF RfNext, LineArrives, NrfHandleRead, SlotHandleRead, HandleWrite, PortTakes, rfVars,
           rfGamepad
  <2>2. ~trigger_down
    BY <2>1 DEF Frame
  <2>3. QED
    BY <2>2 DEF LinksInv, RfInv, TriggerInv
<1>2. QED
  BY <1>1, LinksInvariant, PTL DEF Spec, OneShotPerPull

\* The buffers of a tunnel are written to only while the caller waits for them, its
\* handler runs once, and it is told of every byte that was taken from the bus.
THEOREM TunnelBufferHeldAlways == Spec => []TunnelBufferHeld
<1>1. LinksInv => TunnelBufferHeld
  BY TunnelHeld DEF LinksInv
<1>2. QED
  BY <1>1, LinksInvariant, PTL

\* The mech that is removed is the one the referee was asked about.
THEOREM RemovedAsConfirmedAlways == Spec => RemovedAsConfirmed
<1> DEFINE A == Len(mechs') < Len(mechs) =>
                  \E i \in DOMAIN mechs : mechs[i] = dialog.mech /\ mechs' = RemoveAt(mechs, i)
<1>1. LinksInv /\ [Next]_vars => [A]_scoringVars
  <2> SUFFICES ASSUME LinksInv, [ScoringNext]_scoringVars, Len(mechs') < Len(mechs)
               PROVE  \E i \in DOMAIN mechs : mechs[i] = dialog.mech /\ mechs' = RemoveAt(mechs, i)
    BY LinkSteps
  <2>1. mechs \in Seq(Objects) /\ Len(mechs) \in Nat
    BY DEF LinksInv, ScoringInv, ListInv
  <2>2. mechs' # mechs
    BY <2>1
  <2>3. CASE HandleMechAddButton
    <3>1. mechs' = Append(mechs, NewObject)
      BY <2>3 DEF HandleMechAddButton
    <3>2. NewObject \in Objects
      BY <2>1, <2>3, ObjectLeft DEF HandleMechAddButton
    <3>3. Len(mechs') = Len(mechs) + 1
      BY <2>1, <3>1, <3>2
    <3>4. QED
      BY <2>1, <3>3
  <2>4. ASSUME NEW i \in Idents, TransponderHit(i) PROVE FALSE
    <3>1. mechs' = Append(mechs, NewObject) /\ Len(mechs) < MaxMechs
      BY <2>2, <2>4 DEF TransponderHit
    <3>2. NewObject \in Objects
      BY <2>1, <3>1, ObjectLeft
    <3>3. Len(mechs') = Len(mechs) + 1
      BY <2>1, <3>1, <3>2
    <3>4. QED
      BY <2>1, <3>3
  <2>5. ASSUME NEW yes \in BOOLEAN, AnswerRemove(yes)
        PROVE  \E i \in DOMAIN mechs : mechs[i] = dialog.mech /\ mechs' = RemoveAt(mechs, i)
    <3> DEFINE index == CHOOSE i \in DOMAIN mechs : mechs[i] = dialog.mech
    <3>1. index \in DOMAIN mechs /\ mechs[index] = dialog.mech
      BY <2>5 DEF AnswerRemove, LinksInv, ScoringInv, ListInv
    <3>2. mechs' = RemoveAt(mechs, index)
      BY <2>2, <2>5 DEF AnswerRemove, Asked
    <3> HIDE DEF index
    <3>3. QED
      BY <3>1, <3>2
  <2>6. QED
    BY <2>2, <2>3, <2>4, <2>5 DEF ScoringNext, AskRemove, PickRow, HandleSetHpButton, Type,
       HandleMechProperties, ChangeHp, AskSound, AnswerSound, scoringVars
<1>2. QED
  BY <1>1, LinksInvariant, PTL DEF Spec, RemovedAsConfirmed

\* The referee's list and fields are well formed, the current row is one of the list,
\* and a new mech is always an object that is not in use.
THEOREM ScoringTypeCorrect == Spec => []ScoringTypeOK
<1>1. LinksInv => ScoringTypeOK
  BY DEF LinksInv, ScoringInv, ListInv, ScoringTypeOK
<1>2. QED
  BY <1>1, LinksInvariant, PTL
=============================================================================
