------------------------------ MODULE MCBoards ------------------------------
(***************************************************************************)
(* The programs of the boards on small instances.  The boards do not share *)
(* state, so that one run checks them side by side: the board is chosen    *)
(* once and only its program moves.                                        *)
(***************************************************************************)
EXTENDS FootFirmware, I2cMaster, OdroidShield, PanelQual

CONSTANT Boards  \* the boards of the run

VARIABLE board

vars == <<board, footVars, i2cVars, odroidVars, panelVars>>

-----------------------------------------------------------------------------
Stb(id, rate, code, extra) ==
  [op |-> "STB", id |-> id, rate |-> rate, code |-> code, extra |-> extra]
Ste(id, code) == [op |-> "STE", id |-> id, code |-> code]

MCFootTexts ==
  {Stb(1, 0, "I2C", TRUE), Stb(2, 2, "TMQ", FALSE), Stb(3, 2, "I2C", TRUE), Ste(2, "TMQ"),
   [op |-> "GPC", value |-> FALSE], [op |-> "RST"]}
MCOutcome == [I2C |-> {"ok", "early", "error"}, TMQ |-> {"ok"}]

MCPanelTexts ==
  {Stb(1, 1, "HIT", FALSE), Stb(1, 1, "HIT", TRUE), Ste(1, "HIT"), [op |-> "RST"]}

Op(op, n) == [op |-> op, n |-> n]
MCI2cOps ==
  {[op |-> "s", addr |-> "good"], [op |-> "s", addr |-> "bad"], Op("r", 0), Op("r", 1),
   Op("n", 0), Op("n", 2), Op("w", 2), Op("p", 0), Op(";", 0), Op("bad", 0), Op("hex", 0)}

RamWrite(a, v) == [addr |-> a, vals |-> v]
MCWrites ==
  {RamWrite(80, <<2, 1>>), RamWrite(80, <<1>>), RamWrite(81, <<1>>),
   RamWrite(82, <<1, 1>>), RamWrite(53, <<0>>), RamWrite(43, <<0, 0>>), RamWrite(84, <<1>>)}

-----------------------------------------------------------------------------
Init == /\ board \in Boards
        /\ FootInit /\ I2cInit /\ OdroidInit /\ PanelInit

Next ==
  \/ board = "foot" /\ FootNext /\ UNCHANGED <<board, i2cVars, odroidVars, panelVars>>
  \/ board = "i2c" /\ I2cNext /\ UNCHANGED <<board, footVars, odroidVars, panelVars>>
  \/ board = "odroid" /\ OdroidNext /\ UNCHANGED <<board, footVars, i2cVars, panelVars>>
  \/ board = "panel" /\ PanelNext /\ UNCHANGED <<board, footVars, i2cVars, odroidVars>>

\* The panel's program runs on, and a host that is there sends frames.
Spec == /\ Init /\ [][Next]_vars
        /\ WF_panelVars(board = "panel" /\ PanelLoop)
        /\ WF_panelVars(board = "panel" /\ StartOfFrame)

-----------------------------------------------------------------------------
\* Every fixed buffer of the boards holds what is put into it, at the last byte that
\* fits as well: the foot's line, which stays marked once a character was dropped, the
\* response of an I2C program, and the servo packet, whose length and size agree.
BuffersFit == FootLineFits /\ I2cResponseFits /\ ReadyPacketFits
=============================================================================
