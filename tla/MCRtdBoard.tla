------------------------------ MODULE MCRtdBoard ------------------------------
(***************************************************************************)
(* Model-checking instance of RtdBoardPanel: one serial port, the first    *)
(* and last listed slot, channel and RS-485 id, a frequency above 16 bits  *)
(* and a duty value.                                                       *)
(***************************************************************************)
EXTENDS RtdBoardPanel

CONSTANTS p1

MCPorts == {p1}
MCSlots == {0, 3}
MCChannels == {0, 7}
MCPressureIds == {1, 32}
MCFreqValues == {100000}
MCDutyValues == {50}
MCManualAddrs == {12500}
MCQuantities == {100}
=============================================================================
