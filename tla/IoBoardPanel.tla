---------------------------- MODULE IoBoardPanel ----------------------------
(***************************************************************************)
(* The I/O-board Modbus RTU master panel                                   *)
(* (src/kenmec/python/io_board_rtu_master.py): digital output and input,   *)
(* analog mode, analog output voltage/current (32-bit, two registers),     *)
(* analog input voltage/current, manual read, and the "Auto Digital        *)
(* Output" checkbox whose auto_do_loop re-runs DO_button_cmd every 500 ms. *)
(*                                                                         *)
(* Slot, channel, slave id and DO value are state because auto_do_loop     *)
(* reads them on every tick; the analog port, mode and value and the       *)
(* manual address and quantity are parameters of the button that reads    *)
(* them.  The slot and channel comboboxes are editable, so their text is   *)
(* any integer the operator types (Slots, Channels), not only the listed   *)
(* 0..3 and 0..7.  Every handler starts with int(slave_id_entry.get()); a  *)
(* slave id int() rejects stands for every entry text that makes a        *)
(* handler raise before it sends anything.                                 *)
(***************************************************************************)
EXTENDS ModbusTransport

CONSTANTS
    SlaveIds, Slots, Channels, DoValues, AoValues, ManualAddrs, Quantities,
    NotAnInt,       \* entry text that int() rejects
    OtherText,      \* a port or mode text outside the if/elif chains
    MaxAutoDoJobs   \* bound on the auto_do_loop jobs Tk holds at once

ASSUME IoBoardAssumption ==
    /\ SlaveIds \subseteq Int /\ Slots \subseteq Int /\ Channels \subseteq Int
    /\ DoValues \subseteq Int /\ AoValues \subseteq Int
    /\ ManualAddrs \subseteq Int /\ Quantities \subseteq Int
    /\ 100 \in SlaveIds /\ 0 \in Slots /\ 0 \in Channels /\ 0 \in DoValues
    /\ NotAnInt \notin Int
    /\ OtherText \notin AnalogPorts \cup AnalogModes
    /\ MaxAutoDoJobs \in Nat \ {0}

VARIABLES
    slaveEntry,   \* slave_id_entry
    slotEntry,    \* slot_id_entry (editable combobox)
    numberEntry,  \* number_id_entry (editable combobox)
    doValueEntry, \* do_value_entry
    autoDo,       \* auto_do_var (the checkbox)
    doJobs        \* how many auto_do_loop jobs Tk holds

entries == << slaveEntry, slotEntry, numberEntry, doValueEntry >>
vars == << tvars, entries, autoDo, doJobs >>

TypeOK ==
    /\ TransportTypeOK
    /\ slaveEntry \in SlaveIds \cup {NotAnInt}
    /\ slotEntry \in Slots
    /\ numberEntry \in Channels
    /\ doValueEntry \in DoValues
    /\ autoDo \in BOOLEAN
    /\ doJobs \in 0 .. MaxAutoDoJobs

Init ==
    /\ TransportInit
    /\ slaveEntry = 100 /\ slotEntry = 0 /\ numberEntry = 0
    /\ doValueEntry = 0
    /\ autoDo = FALSE
    /\ doJobs = 0

\* The operator edits an entry the auto-DO loop reads.
EditSlaveId(e) ==
    /\ slaveEntry' = e
    /\ UNCHANGED << tvars, slotEntry, numberEntry, doValueEntry, autoDo, doJobs >>

EditSlot(e) ==
    /\ slotEntry' = e
    /\ UNCHANGED << tvars, slaveEntry, numberEntry, doValueEntry, autoDo, doJobs >>

EditNumber(e) ==
    /\ numberEntry' = e
    /\ UNCHANGED << tvars, slaveEntry, slotEntry, doValueEntry, autoDo, doJobs >>

EditDoValue(e) ==
    /\ doValueEntry' = e
    /\ UNCHANGED << tvars, slaveEntry, slotEntry, numberEntry, autoDo, doJobs >>

(***************************************************************************)
(* DO_button_cmd: int() of slave, slot, number and value (any may raise),  *)
(* address START + slot*100 + DO + number, write_holding_register (raises  *)
(* without a client).  DoRaises is the condition under which it raises.   *)
(***************************************************************************)
DoRaises ==
    \/ slaveEntry = NotAnInt
    \/ ClientMissing

DoWrite ==
    WriteHoldingRegister("DO",
        IoAddress(slotEntry, MODBUS_ADDRESS_DO, numberEntry), doValueEntry)

DoButton ==
    /\ ~DoRaises
    /\ DoWrite
    /\ UNCHANGED << entries, autoDo, doJobs >>

\* DI_button_cmd: a one-register read at START + slot*100 + DI + number.
DiButton ==
    /\ slaveEntry # NotAnInt
    /\ ReadHoldingRegisters("DI",
          IoAddress(slotEntry, MODBUS_ADDRESS_DI, numberEntry), 1)
    /\ UNCHANGED << entries, autoDo, doJobs >>

(***************************************************************************)
(* The four analog buttons share one shape: the port letter gives `shift`  *)
(* (another text leaves it unbound and the address line raises            *)
(* UnboundLocalError); the address is START + slot*100 + base + shift*2.  *)
(* The AO buttons int() the value and write it as two registers, the AI   *)
(* buttons read two registers.                                            *)
(***************************************************************************)
\* Mutant: the register offset of a port taken as 4 (bytes) per value.
AnalogAddressByteStride(base, port) ==
    IoAddress(slotEntry, base, AnalogShift[port] * 4)

AnalogAddress(base, port) == IoAddress(slotEntry, base, AnalogShift[port] * 2)

AoButton(cmd, base, port, value) ==
    /\ slaveEntry # NotAnInt
    /\ port \in AnalogPorts
    /\ WriteHoldingRegisters(cmd, AnalogAddress(base, port), value)
    /\ UNCHANGED << entries, autoDo, doJobs >>

AiButton(cmd, base, port) ==
    /\ slaveEntry # NotAnInt
    /\ port \in AnalogPorts
    /\ ReadHoldingRegisters(cmd, AnalogAddress(base, port), 2)
    /\ UNCHANGED << entries, autoDo, doJobs >>

(***************************************************************************)
(* ANALOG_SET_MODE_button_cmd: the port chain assigns `address` (left      *)
(* unbound for another text); an unknown mode shows "Invalid analog mode"  *)
(* and returns before `address` is used; a known mode with an unbound     *)
(* address raises; otherwise the mode's number is written to the port's   *)
(* mode register.                                                          *)
(***************************************************************************)
AnalogSetModeInvalid(mode) ==
    /\ slaveEntry # NotAnInt
    /\ mode \notin AnalogModes
    /\ result' = "Invalid analog mode"
    /\ UNCHANGED << present, portList, portSel, client, button, bus >>
    /\ UNCHANGED << entries, autoDo, doJobs >>

AnalogSetMode(port, mode) ==
    /\ slaveEntry # NotAnInt
    /\ port \in AnalogPorts
    /\ mode \in AnalogModes
    /\ WriteHoldingRegister("ANALOG_SET_MODE",
          IoAddress(slotEntry, MODBUS_ADDRESS_ANALOG_MODE[port], 0),
          AnalogModeValue[mode])
    /\ UNCHANGED << entries, autoDo, doJobs >>

\* manual_read_cmd: the same code as on the control-logic panel.
\* A text int() rejects or a count <= 0 only warns (no state change).
ManualReadButton(address, count) ==
    /\ slaveEntry # NotAnInt
    /\ count > 0
    /\ ReadHoldingRegisters("manual", address, count)
    /\ UNCHANGED << entries, autoDo, doJobs >>

(***************************************************************************)
(* auto_do_loop(): when auto_do_var is set, DO_button_cmd() and then       *)
(* window.after(500, auto_do_loop); an exception in DO_button_cmd leaves   *)
(* before the new job is filed.  No job id is kept, so nothing is ever     *)
(* cancelled: a job filed before the box was unchecked still runs.         *)
(* `jobs` is the number of jobs held before the new one is filed.          *)
(***************************************************************************)
AutoDoLoopBody(jobs) ==
    \/ /\ DoRaises
       /\ doJobs' = jobs
       /\ UNCHANGED tvars
    \/ /\ ~DoRaises
       /\ jobs < MaxAutoDoJobs
       /\ DoWrite
       /\ doJobs' = jobs + 1

\* Mutant: the job runs DO_button_cmd without checking auto_do_var.
AutoDoLoopFiresUnchecked ==
    /\ doJobs > 0
    /\ AutoDoLoopBody(doJobs - 1)
    /\ UNCHANGED << entries, autoDo >>

\* Tk runs one pending auto_do_loop job.
AutoDoLoopFires ==
    /\ doJobs > 0
    /\ IF autoDo
       THEN AutoDoLoopBody(doJobs - 1)
       ELSE /\ doJobs' = doJobs - 1
            /\ UNCHANGED tvars
    /\ UNCHANGED << entries, autoDo >>

\* A click on the checkbox: toggle_auto_do() starts the loop when checked.
ToggleAutoDo ==
    /\ autoDo' = ~autoDo
    /\ IF autoDo'
       THEN AutoDoLoopBody(doJobs)
       ELSE UNCHANGED << tvars, doJobs >>
    /\ UNCHANGED entries

Next ==
    \/ TransportNext /\ UNCHANGED << entries, autoDo, doJobs >>
    \/ \E e \in SlaveIds \cup {NotAnInt} : EditSlaveId(e)
    \/ \E e \in Slots : EditSlot(e)
    \/ \E e \in Channels : EditNumber(e)
    \/ \E e \in DoValues : EditDoValue(e)
    \/ DoButton
    \/ DiButton
    \/ \E port \in AnalogPorts \cup {OtherText}, v \in AoValues :
          \/ AoButton("AO_VOLTAGE", MODBUS_ADDRESS_AO_VOLTAGE, port, v)
          \/ AoButton("AO_CURRENT", MODBUS_ADDRESS_AO_CURRENT, port, v)
    \/ \E port \in AnalogPorts \cup {OtherText} :
          \/ AiButton("AI_VOLTAGE", MODBUS_ADDRESS_AI_VOLTAGE, port)
          \/ AiButton("AI_CURRENT", MODBUS_ADDRESS_AI_CURRENT, port)
    \/ \E mode \in AnalogModes \cup {OtherText} : AnalogSetModeInvalid(mode)
    \/ \E port \in AnalogPorts \cup {OtherText}, mode \in AnalogModes \cup {OtherText} :
          AnalogSetMode(port, mode)
    \/ \E a \in ManualAddrs, q \in Quantities : ManualReadButton(a, q)
    \/ AutoDoLoopFires
    \/ ToggleAutoDo

\* Tk runs due `after` jobs; the operator owes nothing.
Spec == Init /\ [][Next]_vars /\ WF_vars(AutoDoLoopFires)

-----------------------------------------------------------------------------
(***************************************************************************)
(* The registers each handler is meant to reach: its base plus every      *)
(* listed channel (or port) of every listed slot.                          *)
(***************************************************************************)
IoRegion(cmd) ==
    LET ch(base) == { IoAddress(s, base, c) : s \in ListedSlots, c \in ListedChannels }
        an(base, k) == UNION { Window(IoAddress(s, base, AnalogShift[p] * 2), k) :
                                 s \in ListedSlots, p \in AnalogPorts }
    IN  CASE cmd = "DO" -> ch(MODBUS_ADDRESS_DO)
          [] cmd = "DI" -> ch(MODBUS_ADDRESS_DI)
          [] cmd = "ANALOG_SET_MODE" ->
               { IoAddress(s, MODBUS_ADDRESS_ANALOG_MODE[p], 0) :
                   s \in ListedSlots, p \in AnalogPorts }
          [] cmd = "AO_VOLTAGE" -> an(MODBUS_ADDRESS_AO_VOLTAGE, 2)
          [] cmd = "AO_CURRENT" -> an(MODBUS_ADDRESS_AO_CURRENT, 2)
          [] cmd = "AI_VOLTAGE" -> an(MODBUS_ADDRESS_AI_VOLTAGE, 2)
          [] cmd = "AI_CURRENT" -> an(MODBUS_ADDRESS_AI_CURRENT, 2)
          [] OTHER -> {}

IoCommands == { "DO", "DI", "ANALOG_SET_MODE", "AO_VOLTAGE", "AO_CURRENT",
                "AI_VOLTAGE", "AI_CURRENT" }

(***************************************************************************)
(* Every request an I/O function button put on the bus stays inside that   *)
(* function's own registers: DO_button_cmd (also from auto_do_loop) writes *)
(* a DO register, the analog buttons a window of their kind and port.      *)
(* With the listed slots and channels this is the inductive half of        *)
(* NoCrossFunctionAccess; the other half is that the regions are disjoint. *)
(***************************************************************************)
IoBusInRegion ==
    bus # NoRequest /\ bus.cmd \in IoCommands => Touched(bus) \subseteq IoRegion(bus.cmd)

(***************************************************************************)
(* Spec 8: the address computation is injective within the board's valid  *)
(* ranges.  Seen on the bus: a request made by one board-function button   *)
(* never touches a register that belongs to another function (a DO write   *)
(* never lands on a DI, analog-mode or analog-value register, an AO write  *)
(* never overlaps the next port or the other AO kind).                     *)
(***************************************************************************)
NoCrossFunctionAccess ==
    bus # NoRequest /\ bus.cmd \in IoCommands =>
        \A other \in IoCommands \ {bus.cmd} : Touched(bus) \cap IoRegion(other) = {}

(***************************************************************************)
(* The "Auto Digital Output" comments ("schedule next run in 500 ms",      *)
(* "start loop when enabled; stop naturally when disabled") describe one  *)
(* 500 ms loop: Tk never holds more than one auto_do_loop job.             *)
(***************************************************************************)
SingleAutoDoLoop == doJobs <= 1

(***************************************************************************)
(* toggle_auto_do's comment "stop naturally when disabled": once the box   *)
(* is unchecked, the auto_do_loop jobs die out (every job still held runs  *)
(* once, sees auto_do_var false and files nothing), unless the box is      *)
(* checked again first.                                                    *)
(***************************************************************************)
AutoDoStops == ~autoDo ~> (doJobs = 0 \/ autoDo)

(***************************************************************************)
(* The comment in ANALOG_SET_MODE_button_cmd: "Validate analog_mode range  *)
(* (0, 1, 2, 4, 5 based on UI combobox values)": the mode register only    *)
(* ever receives one of those numbers.                                     *)
(***************************************************************************)
AnalogModeAsCommented ==
    bus # NoRequest /\ bus.cmd = "ANALOG_SET_MODE" => bus.arg \in {0, 1, 2, 4, 5}
=============================================================================
