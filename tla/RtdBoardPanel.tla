---------------------------- MODULE RtdBoardPanel ----------------------------
(***************************************************************************)
(* The RTD-board Modbus RTU master panel                                   *)
(* (src/kenmec/python/rtd_board_rtu_master.py): PWM frequency and duty set *)
(* and get, PWM width, AD7124 resistance, the RS-485 pressure sensor, and  *)
(* manual read.  The panel has no timer: every entry is read only by the   *)
(* button that uses it, so the entries are parameters of the actions and  *)
(* the only state is the connection of ModbusTransport.                   *)
(*                                                                         *)
(* Every handler starts with int(slave_id_entry.get()) and int() of the   *)
(* slot; a text int() rejects raises out of the handler before anything    *)
(* changes, which is a stutter step and is left out.                       *)
(***************************************************************************)
EXTENDS ModbusTransport

CONSTANTS
    Slots,        \* integers typed into "Board Slot" (editable combobox)
    Channels,     \* integers typed into "Channel Number" (editable)
    PressureIds,  \* integers typed into "485 Slave ID" (editable)
    FreqValues,   \* integers typed into "Frequency value"
    DutyValues,   \* integers typed into "Duty value"
    ManualAddrs, Quantities

ASSUME RtdBoardAssumption ==
    /\ Slots \subseteq Int /\ Channels \subseteq Int /\ PressureIds \subseteq Int
    /\ FreqValues \subseteq Int /\ DutyValues \subseteq Int
    /\ ManualAddrs \subseteq Int /\ Quantities \subseteq Int

TypeOK == TransportTypeOK

Init == TransportInit

\* The register base of a slot: START + slot_id * 1000 + <function base>.
SlotBase(slot, base) == RtdAddress(slot, base, 0)

\* PWM_frequency_set_cmd: one frequency per slot, written as 32 bits.
PwmFrequencySet(slot, value) ==
    WriteHoldingRegisters("PWM_FREQUENCY_SET",
        SlotBase(slot, MODBUS_ADDRESS_PWM_FREQUENCY), value)

\* PWM_duty_set_cmd: one register per channel.
PwmDutySet(slot, ch, value) ==
    WriteHoldingRegister("PWM_DUTY_SET",
        SlotBase(slot, MODBUS_ADDRESS_PWM_DUTY_SET) + ch, value)

\* Mutant: the duty read copied from its two-register neighbours.
PwmDutyGetTwoRegisters(slot, ch) ==
    ReadHoldingRegisters("PWM_DUTY_GET",
        SlotBase(slot, MODBUS_ADDRESS_PWM_DUTY_GET) + ch, 2)

\* PWM_duty_get_cmd: one register per channel.
PwmDutyGet(slot, ch) ==
    ReadHoldingRegisters("PWM_DUTY_GET",
        SlotBase(slot, MODBUS_ADDRESS_PWM_DUTY_GET) + ch, 1)

\* PWM_frequency_get_cmd, PWM_width_get_cmd, AD7124_resistance_get_cmd:
\* two registers per channel at base + number_id * 2.
PwmFrequencyGet(slot, ch) ==
    ReadHoldingRegisters("PWM_FREQUENCY_GET",
        SlotBase(slot, MODBUS_ADDRESS_PWM_FREQUENCY_GET) + ch * 2, 2)

PwmWidthGet(slot, ch) ==
    ReadHoldingRegisters("PWM_WIDTH_GET",
        SlotBase(slot, MODBUS_ADDRESS_PWM_WIDTH_GET) + ch * 2, 2)

Ad7124ResistanceGet(slot, ch) ==
    ReadHoldingRegisters("AD7124_RESISTANCE_GET",
        SlotBase(slot, MODBUS_ADDRESS_AD7124_RESISTANCE_GET) + ch * 2, 2)

\* pressure_sensor_get_cmd: the RS-485 id is 1-based, the table 0-based.
PressureSensorGet(slot, id) ==
    ReadHoldingRegisters("PRESSURE_GET",
        SlotBase(slot, MODBUS_ADDRESS_PRESSURE) + (id - 1), 1)

\* manual_read_cmd: a text int() rejects or a count <= 0 only warns.
ManualRead(address, count) ==
    /\ count > 0
    /\ ReadHoldingRegisters("manual", address, count)

Next ==
    \/ TransportNext
    \/ \E s \in Slots :
          \/ \E v \in FreqValues : PwmFrequencySet(s, v)
          \/ \E c \in Channels :
                \/ \E v \in DutyValues : PwmDutySet(s, c, v)
                \/ PwmDutyGet(s, c)
                \/ PwmFrequencyGet(s, c)
                \/ PwmWidthGet(s, c)
                \/ Ad7124ResistanceGet(s, c)
          \/ \E i \in PressureIds : PressureSensorGet(s, i)
    \/ \E a \in ManualAddrs, q \in Quantities : ManualRead(a, q)

Spec == Init /\ [][Next]_tvars

-----------------------------------------------------------------------------
\* The ids offered by the "485 Slave ID" combobox.
ListedPressureIds == 1 .. 32

(***************************************************************************)
(* The registers each RTD handler is meant to reach: its base, plus every  *)
(* listed channel (one or two registers each) or pressure id, in every     *)
(* listed slot.                                                            *)
(***************************************************************************)
RtdRegion(cmd) ==
    LET perCh(base, k) ==
            UNION { Window(SlotBase(s, base) + c * k, k) :
                      s \in ListedSlots, c \in ListedChannels }
    IN  CASE cmd = "PWM_FREQUENCY_SET" ->
               UNION { Window(SlotBase(s, MODBUS_ADDRESS_PWM_FREQUENCY), 2) :
                         s \in ListedSlots }
          [] cmd = "PWM_DUTY_SET" -> perCh(MODBUS_ADDRESS_PWM_DUTY_SET, 1)
          [] cmd = "PWM_DUTY_GET" -> perCh(MODBUS_ADDRESS_PWM_DUTY_GET, 1)
          [] cmd = "PWM_FREQUENCY_GET" -> perCh(MODBUS_ADDRESS_PWM_FREQUENCY_GET, 2)
          [] cmd = "PWM_WIDTH_GET" -> perCh(MODBUS_ADDRESS_PWM_WIDTH_GET, 2)
          [] cmd = "AD7124_RESISTANCE_GET" ->
               perCh(MODBUS_ADDRESS_AD7124_RESISTANCE_GET, 2)
          [] cmd = "PRESSURE_GET" ->
               { SlotBase(s, MODBUS_ADDRESS_PRESSURE) + i - 1 :
                   s \in ListedSlots, i \in ListedPressureIds }
          [] OTHER -> {}

RtdCommands == { "PWM_FREQUENCY_SET", "PWM_DUTY_SET", "PWM_DUTY_GET",
                 "PWM_FREQUENCY_GET", "PWM_WIDTH_GET", "AD7124_RESISTANCE_GET",
                 "PRESSURE_GET" }

(***************************************************************************)
(* Every request an RTD function button put on the bus stays inside that   *)
(* function's own registers: a duty read one register of the duty table,  *)
(* a frequency read the two registers of its channel, a pressure read the  *)
(* register of its RS-485 id.  With the listed slots, channels and ids     *)
(* this is the inductive half of RtdNoCrossFunctionAccess.                 *)
(***************************************************************************)
RtdBusInRegion ==
    bus # NoRequest /\ bus.cmd \in RtdCommands => Touched(bus) \subseteq RtdRegion(bus.cmd)

(***************************************************************************)
(* Spec 8, for the RTD board: a request made by one RTD function button    *)
(* never touches a register of another function, in any slot (a duty read  *)
(* never reaches a frequency register, the last pressure id never reaches  *)
(* the next slot, a frequency write never reaches a duty register).        *)
(***************************************************************************)
RtdNoCrossFunctionAccess ==
    bus # NoRequest /\ bus.cmd \in RtdCommands =>
        \A other \in RtdCommands \ {bus.cmd} : Touched(bus) \cap RtdRegion(other) = {}
=============================================================================
