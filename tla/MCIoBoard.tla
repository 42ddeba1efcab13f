------------------------------- MODULE MCIoBoard -------------------------------
(***************************************************************************)
(* Model-checking instance of IoBoardPanel: one serial port, the first and *)
(* last listed slot, the first and last listed channel, the initial DO     *)
(* value, an analog value above 16 bits, and at most two auto_do_loop jobs *)
(* (two is the first count the loop should never reach).  TypedChannels   *)
(* adds a channel an operator can type into the editable combobox.        *)
(***************************************************************************)
EXTENDS IoBoardPanel

CONSTANTS p1

MCPorts == {p1}
MCSlaveIds == {100}
MCSlots == {0, 3}
MCChannels == {0, 7}
MCDoValues == {0}
MCAoValues == {70000}
MCManualAddrs == {11001}
MCQuantities == {100}

\* Channel 8 typed into "Channel Number" (offered: 0..7).
TypedChannels == {0, 8}
=============================================================================
