---------------------------- MODULE RegisterMap ----------------------------
(***************************************************************************)
(* The register tables of the three Modbus RTU master panels and the two   *)
(* pieces of arithmetic they apply to operator input before a request goes *)
(* on the bus: the holding-register address of a board function, and the   *)
(* split of a 32-bit value into two 16-bit registers.                      *)
(*                                                                         *)
(*   src/kenmec/python/io_board_rtu_master.py       (I/O board)            *)
(*   src/kenmec/python/rtd_board_rtu_master.py      (RTD board)            *)
(*   src/kenmec/python/control_logic_rtu_master.py  (control logic)        *)
(*                                                                         *)
(* Everything here is a constant operator: the panels hard-code the        *)
(* tables, so they are definitions, not CONSTANTS.                         *)
(***************************************************************************)
EXTENDS Integers

\* The value of one holding register, and a holding-register address as the
\* Modbus frame carries it: both are 16-bit fields.
Word16 == { w \in Int : 0 <= w /\ w <= 65535 }
RegisterAddresses == Word16

\* The channel numbers offered by the "Channel Number" combobox of the
\* I/O and RTD panels, and the slots offered by "Board Slot".
ListedChannels == 0 .. 7
ListedSlots == 0 .. 3

MODBUS_ADDRESS_START == 11000

(***************************************************************************)
(* I/O board.  Every handler computes                                      *)
(*   MODBUS_ADDRESS_START + slot_id * 100 + <base> + <offset>              *)
(* where the offset is number_id (DO, DI), 0 (analog mode) or shift*2      *)
(* (the two-register analog values).                                       *)
(***************************************************************************)
IoSlotStride == 100
MODBUS_ADDRESS_DO == 1
MODBUS_ADDRESS_DI == 9
MODBUS_ADDRESS_ANALOG_MODE == [A |-> 17, B |-> 18, C |-> 19, D |-> 20]
MODBUS_ADDRESS_AO_VOLTAGE == 37
MODBUS_ADDRESS_AO_CURRENT == 45
MODBUS_ADDRESS_AI_VOLTAGE == 53
MODBUS_ADDRESS_AI_CURRENT == 61

\* The if/elif chain on analog_port_entry: port letter to shift.
AnalogShift == [A |-> 0, B |-> 1, C |-> 2, D |-> 3]
AnalogPorts == DOMAIN AnalogShift

IoAddress(slot, base, offset) ==
    MODBUS_ADDRESS_START + slot * IoSlotStride + base + offset

\* The analog-mode names of the "Analog mode" combobox and the value
\* ANALOG_SET_MODE_button_cmd writes for each.
AnalogModeValue ==
    [AO_Voltage |-> 0, AO_Current |-> 1, AI_Voltage |-> 2,
     AI_Current_loop |-> 3, AI_Current_ext |-> 4]
AnalogModes == DOMAIN AnalogModeValue

(***************************************************************************)
(* RTD board: the same shape with a slot stride of 1000.                   *)
(***************************************************************************)
RtdSlotStride == 1000
MODBUS_ADDRESS_PWM_FREQUENCY == 504
MODBUS_ADDRESS_PWM_DUTY_SET == 506
MODBUS_ADDRESS_PWM_DUTY_GET == 514
MODBUS_ADDRESS_PWM_FREQUENCY_GET == 522
MODBUS_ADDRESS_PWM_WIDTH_GET == 538
MODBUS_ADDRESS_AD7124_RESISTANCE_GET == 554
MODBUS_ADDRESS_PRESSURE == 578

RtdAddress(slot, base, offset) ==
    MODBUS_ADDRESS_START + slot * RtdSlotStride + base + offset

(***************************************************************************)
(* Control-logic board: fixed addresses selected by name.                  *)
(***************************************************************************)
ControlLogicStatusAddress ==
    [alarm |-> 2, t2_avg |-> 11, t3_avg |-> 14, t4_avg |-> 17]
ControlLogicConfigAddress ==
    [control_logic1_enable |-> 15000,
     control_logic1_fan_rotation_config |-> 15001,
     control_logic1_target_coolant_temp |-> 15002,
     control_logic1_tolerance |-> 15003,
     control_logic1_critical_high |-> 15004,
     control_logic1_critical_low |-> 15005,
     control_logic1_moving_average_windows_size |-> 15006]

(***************************************************************************)
(* write_holding_registers: low_word = value & 0xFFFF,                     *)
(* high_word = (value >> 16) & 0xFFFF, sent as [low_word, high_word].      *)
(* On Python integers, & 0xFFFF is the non-negative remainder mod 2^16 and *)
(* >> 16 is floor division by 2^16, which are TLA+'s % and \div.          *)
(***************************************************************************)
Encode32(value) == << value % 65536, (value \div 65536) % 65536 >>

\* How a device reads the two registers back (low word first).
Decode32(words) == words[1] + 65536 * words[2]

\* The registers a request starting at addr and n registers long touches.
Window(addr, n) == addr .. (addr + n - 1)
=============================================================================
