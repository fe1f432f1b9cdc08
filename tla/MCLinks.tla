------------------------------- MODULE MCLinks ------------------------------
(***************************************************************************)
(* The programs around the robot on small instances: the operator's radio  *)
(* and web page, the datagram link, the telepresence loop, the tunnel and  *)
(* the referee's program.  They do not share state, so that one run checks *)
(* them side by side: the link is chosen once and only its program moves.  *)
(***************************************************************************)
EXTENDS RfCommander, WebControl, UdpDataLink, Telepresence, Pi3hatTunnel, ScoringManager

CONSTANT Links  \* the links of the run

VARIABLE link

vars == <<link, rfVars, webVars, udpVars, teleVars, tunnelVars, scoringVars>>

-----------------------------------------------------------------------------
Pad(y, x, up, down, b, t, m) ==
  [y |-> y, x |-> x, up |-> up, down |-> down, b |-> b, trigger |-> t, moving |-> m]
MCPads ==
  {Pad(FALSE, FALSE, FALSE, FALSE, FALSE, t, TRUE) : t \in {"in", "between", "out"}} \cup
  {Pad(TRUE, FALSE, FALSE, TRUE, FALSE, "out", FALSE),
   Pad(TRUE, FALSE, FALSE, FALSE, FALSE, "out", FALSE)}
MCLines == {[remote |-> 0, slots |-> {0}], [remote |-> 1, slots |-> {0}],
            [remote |-> 1, slots |-> {}]}

\* Frames of the tunnel (empty, that fit, that do not) and of another one.
MCFrames == {[mine |-> TRUE, size |-> n] : n \in {0, 1, 3}} \cup {[mine |-> FALSE, size |-> 1]}

-----------------------------------------------------------------------------
Init == /\ link \in Links
        /\ RfInit /\ WebInit /\ UdpInit /\ TeleInit /\ TunnelInit /\ ScoringInit

Next ==
  \/ /\ link = "rf" /\ RfNext
     /\ UNCHANGED <<link, webVars, udpVars, teleVars, tunnelVars, scoringVars>>
  \/ /\ link = "web" /\ WebNext
     /\ UNCHANGED <<link, rfVars, udpVars, teleVars, tunnelVars, scoringVars>>
  \/ /\ link = "udp" /\ UdpNext
     /\ UNCHANGED <<link, rfVars, webVars, teleVars, tunnelVars, scoringVars>>
  \/ /\ link = "tele" /\ TeleNext
     /\ UNCHANGED <<link, rfVars, webVars, udpVars, tunnelVars, scoringVars>>
  \/ /\ link = "tunnel" /\ TunnelNext
     /\ UNCHANGED <<link, rfVars, webVars, udpVars, teleVars, scoringVars>>
  \/ /\ link = "scoring" /\ ScoringNext
     /\ UNCHANGED <<link, rfVars, webVars, udpVars, teleVars, tunnelVars>>

\* The event loops run the handlers that are ready, a serial port takes what is written
\* to it, a page tries to connect again and again, and the bus ends every cycle.
Spec == /\ Init /\ [][Next]_vars
        /\ WF_rfVars(link = "rf" /\ RfHandlers) /\ WF_rfVars(link = "rf" /\ PortTakes)
        /\ WF_webVars(link = "web" /\ (OpenWebsocket \/ WebsocketClosed))
        /\ \A s \in Sessions : WF_webVars(link = "web" /\ WebServerSteps(s))
        /\ WF_teleVars(link = "tele" /\ TeleTimer) /\ WF_teleVars(link = "tele" /\ TeleAnswer)
=============================================================================
