---------------------------- MODULE MCControlLogic ----------------------------
(***************************************************************************)
(* Model-checking instance of ControlLogicPanel: one serial port (plugging *)
(* and pulling it, and clicking before any connect, cover every way        *)
(* manual_read_cmd can raise), the default slave id plus a text int()      *)
(* rejects, one start address, a valid and a non-positive quantity, an     *)
(* in-range and an out-of-range config value, and three Tk job ids (a      *)
(* live one, a stale one and a fresh one).  No symmetry: the runs check    *)
(* temporal properties.                                                    *)
(***************************************************************************)
EXTENDS ControlLogicPanel

CONSTANTS p1, t1, t2, t3

MCOnePort == {p1}
MCTimerIds == {t1, t2, t3}
MCSlaveIds == {100}
MCManualAddrs == {15000}
MCQuantities == {100, 0}
MCConfigValues == {0, 70000}
=============================================================================
