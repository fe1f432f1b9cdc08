----------------------------- MODULE UdpDataLink ----------------------------
(***************************************************************************)
(* The datagram link of telemetry and remote control                       *)
(* (base/udp_data_link.cc on base/udp_socket.cc): without a destination,   *)
(* what is sent goes to every peer heard from of late.  A periodic timer   *)
(* forgets the others; the socket bounds what is under way.                *)
(*                                                                         *)
(* Time is counted in fifths of peer_timeout_s, the period of the timer.   *)
(***************************************************************************)
EXTENDS Naturals, FiniteSets

CONSTANTS
  Peers,        \* the endpoints that may send
  PeerTimeout,  \* peer_timeout_s, in steps of the clock
  MaxTxPending, \* parameters_.max_tx_pending
  MaxPeerIds    \* bound: how often a peer appears

ASSUME UdpAssumption ==
  /\ IsFiniteSet(Peers) /\ PeerTimeout \in Nat \ {0}
  /\ MaxTxPending \in Nat /\ MaxPeerIds \in Nat

VARIABLES
  peers,         \* peers_: by endpoint, the id and how long it has been silent
  last_peer_id,
  tx_pending,    \* of the socket
  u_timer,       \* what is left of the periodic timer
  u_reached      \* history: the peers the last packet went to

udpVars == <<peers, last_peer_id, tx_pending, u_timer, u_reached>>

NoPeer == [id |-> 0, silent |-> 0]
Known(p) == peers[p].id # 0

\* timeout / 5.0.  Mutant: the timer has the period of the timeout.
Period_Whole == PeerTimeout

Period == PeerTimeout \div 5

UdpTypeOK ==
  /\ peers \in [Peers -> [id: 0..MaxPeerIds, silent: Nat]]
  /\ last_peer_id \in 0..MaxPeerIds /\ tx_pending \in 0..(MaxTxPending + 1)
  /\ u_timer \in 0..PeerTimeout /\ u_reached \subseteq Peers

UdpInit ==
  /\ peers = [p \in Peers |-> NoPeer] /\ last_peer_id = 0 /\ tx_pending = 0
  /\ u_timer = Period /\ u_reached = {}

HandleUdpPacket(p) ==
  /\ Known(p) \/ last_peer_id < MaxPeerIds
  /\ last_peer_id' = IF Known(p) THEN last_peer_id ELSE last_peer_id + 1
  /\ peers' = [peers EXCEPT ![p] = [id |-> IF Known(p) THEN @.id ELSE last_peer_id',
                                    silent |-> 0]]
  /\ UNCHANGED <<tx_pending, u_timer, u_reached>>

\* HandleRead of the socket, which is read from all the time.
UdpHandleRead(p) == HandleUdpPacket(p)

\* SendTo refuses when more are pending than allowed, so that one more than the
\* parameter says may be under way.
Room == IF tx_pending > MaxTxPending THEN 0 ELSE MaxTxPending + 1 - tx_pending

\* Send: to the peers in turn, as far as there is room.
UdpSend ==
  /\ \E sent \in SUBSET {p \in Peers : Known(p)} :
       /\ Cardinality(sent) =
            (IF Cardinality({p \in Peers : Known(p)}) < Room
             THEN Cardinality({p \in Peers : Known(p)}) ELSE Room)
       /\ u_reached' = sent
       /\ tx_pending' = tx_pending + Cardinality(sent)
  /\ UNCHANGED <<peers, last_peer_id, u_timer>>

\* HandleWrite of the socket.
UdpWritten ==
  /\ tx_pending > 0 /\ tx_pending' = tx_pending - 1
  /\ UNCHANGED <<peers, last_peer_id, u_timer, u_reached>>

\* HandlePeriodicTimer, when it is due.
HandlePeriodicTimer ==
  /\ u_timer = 0 /\ u_timer' = Period
  /\ peers' = [p \in Peers |-> IF Known(p) /\ peers[p].silent > PeerTimeout THEN NoPeer
                               ELSE peers[p]]
  /\ UNCHANGED <<last_peer_id, tx_pending, u_reached>>

\* A step of the clock.  A timer that is due is handled before time goes on.
UdpClock ==
  /\ u_timer > 0 /\ u_timer' = u_timer - 1
  /\ peers' = [p \in Peers |-> IF Known(p) THEN [peers[p] EXCEPT !.silent = @ + 1] ELSE NoPeer]
  /\ UNCHANGED <<last_peer_id, tx_pending, u_reached>>

UdpNext == \/ \E p \in Peers : UdpHandleRead(p)
           \/ UdpSend \/ UdpWritten \/ HandlePeriodicTimer \/ UdpClock

-----------------------------------------------------------------------------
\* "Allow timeout error of up to 20%": a peer is in the table, and is sent to,
\* only while it was heard from within its timeout and a fifth.
PeersRecent == \A p \in Peers : Known(p) => peers[p].silent <= PeerTimeout + PeerTimeout \div 5
=============================================================================
