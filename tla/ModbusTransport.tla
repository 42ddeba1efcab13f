--------------------------- MODULE ModbusTransport ---------------------------
(***************************************************************************)
(* The serial connection and the three register helpers that every Modbus  *)
(* RTU master panel repeats verbatim (control_logic_rtu_master.py,         *)
(* io_board_rtu_master.py, rtd_board_rtu_master.py): the global           *)
(* modbus_client, the connect button and its colour, the COM-port          *)
(* combobox, the "Result" text box, and read_holding_registers,            *)
(* write_holding_register and write_holding_registers.                    *)
(*                                                                         *)
(* Each panel is a single-threaded Tk program: a handler runs to the end   *)
(* before the next event is taken, so every handler is one atomic step.    *)
(* A board module EXTENDS this one and adds its buttons.                   *)
(***************************************************************************)
EXTENDS RegisterMap, FiniteSets, Sequences

CONSTANTS
    Ports,      \* the serial devices that can exist (model values)
    NoPort,     \* port_var before any port has been listed
    NoClient,   \* modbus_client = None, before the first connect
    NoRequest   \* nothing sent on the bus yet

ASSUME TransportAssumption ==
    /\ IsFiniteSet(Ports)
    /\ NoPort \notin Ports
    /\ NoClient \notin [port : Ports, open : BOOLEAN]

VARIABLES
    present,    \* the ports plugged in right now (the environment)
    portList,   \* port_combo["values"]: the ports listed at the last refresh
    portSel,    \* port_var: the selected port
    client,     \* modbus_client: NoClient or [port, open]
    button,     \* connect_button's colour
    result,     \* the text shown in result_text
    bus         \* the last request put on the wire (for the properties)

tvars == << present, portList, portSel, client, button, result, bus >>

\* The texts the helpers write into result_text; "value" and "values"
\* stand for str(value) and the bracketed list of the registers read.
Results == { "", "connect error", "read error", "write error",
             "write success", "except error", "value", "values",
             "Invalid analog mode" }

Clients == { NoClient } \cup [port : Ports, open : BOOLEAN]

\* The handlers that put requests on the bus, one name per button.
Commands == { "status", "config_get", "config_set", "manual",
              "DO", "DI", "ANALOG_SET_MODE", "AO_VOLTAGE", "AO_CURRENT",
              "AI_VOLTAGE", "AI_CURRENT", "PWM_FREQUENCY_SET", "PWM_DUTY_SET",
              "PWM_DUTY_GET", "PWM_FREQUENCY_GET", "PWM_WIDTH_GET",
              "AD7124_RESISTANCE_GET", "PRESSURE_GET" }

\* A request: the handler that made it, the helper, the address, the
\* helper's count or value argument, and the words sent (<< >> for a read).
Requests == [cmd : Commands, fn : {"read", "write_register", "write_registers"},
             addr : RegisterAddresses, arg : Int, vals : Seq(Word16)]

\* The registers a request touches.
Touched(req) == Window(req.addr, IF req.fn = "read" THEN req.arg ELSE Len(req.vals))

TransportTypeOK ==
    /\ present \subseteq Ports
    /\ portList \subseteq Ports
    /\ portSel \in Ports \cup {NoPort}
    /\ client \in Clients
    /\ button \in {"red", "green"}
    /\ result \in Results
    /\ bus \in Requests \cup {NoRequest}

(***************************************************************************)
(* Start-up: the window is built with a red button, modbus_client = None,  *)
(* and refresh_ports() lists the ports and selects the first one if any.   *)
(***************************************************************************)
TransportInit ==
    /\ present \in SUBSET Ports
    /\ portList = present
    /\ IF present = {} THEN portSel = NoPort ELSE portSel \in present
    /\ client = NoClient
    /\ button = "red"
    /\ result = ""
    /\ bus = NoRequest

(***************************************************************************)
(* refresh_ports(): list_com_ports() turns the button red and returns the  *)
(* present ports; they become the combobox values and the first one is    *)
(* selected when there is one (the port order of comports() is not fixed,  *)
(* so any listed port may come first).                                     *)
(***************************************************************************)
RefreshPorts ==
    /\ button' = "red"
    /\ portList' = present
    /\ IF present = {} THEN UNCHANGED portSel ELSE portSel' \in present
    /\ UNCHANGED << present, client, result, bus >>

\* The operator picks a port from the read-only combobox.
SelectPort(p) ==
    /\ p \in portList
    /\ portSel' = p
    /\ UNCHANGED << present, portList, client, button, result, bus >>

(***************************************************************************)
(* connect_modbus(): with no port selected it only warns (no state         *)
(* change).  Otherwise it closes the old client if it is connected,        *)
(* builds a new ModbusSerialClient for the selected port, tries connect(), *)
(* colours the button by the outcome and, on success, closes the port      *)
(* again.  pymodbus' connect() reports a serial failure by returning       *)
(* False, so the except branch ends in the same state as the failure       *)
(* branch (red button, new client closed).                                 *)
(***************************************************************************)
\* Mutant: connect without the "Please select a COM port" check.
ConnectModbusNoPortCheck ==
    /\ client' = [port |-> portSel, open |-> FALSE]
    /\ button' = IF portSel \in present THEN "green" ELSE "red"
    /\ UNCHANGED << present, portList, portSel, result, bus >>

ConnectModbus ==
    /\ portSel # NoPort
    /\ client' = [port |-> portSel, open |-> FALSE]
    /\ button' = IF portSel \in present THEN "green" ELSE "red"
    /\ UNCHANGED << present, portList, portSel, result, bus >>

\* The serial device is plugged in or pulled out.
Plug(p) ==
    /\ p \notin present
    /\ present' = present \cup {p}
    /\ UNCHANGED << portList, portSel, client, button, result, bus >>

Unplug(p) ==
    /\ p \in present
    /\ present' = present \ {p}
    /\ UNCHANGED << portList, portSel, client, button, result, bus >>

(***************************************************************************)
(* The helpers.  Each starts with `if not modbus_client.connect()` outside *)
(* its try block: with modbus_client = None that line raises               *)
(* AttributeError out of the handler (ClientMissing), which the callers    *)
(* model.  connect() is True when the port is already open or can be      *)
(* opened now.  Once open the port stays open: no helper closes it.       *)
(* Inside the try: a request whose fields do not fit the 16-bit frame      *)
(* fails to encode and lands in `except`; a request to a port that has     *)
(* gone raises a serial exception; a request that reaches the bus may be   *)
(* answered normally, answered with a Modbus exception (isError()), or not *)
(* answered (pymodbus raises).                                             *)
(***************************************************************************)
ClientMissing == client = NoClient

CanConnect == client.open \/ client.port \in present

ConnectFails ==
    /\ ~CanConnect
    /\ result' = "connect error"
    /\ UNCHANGED << client, bus >>

\* pymodbus can pack the request into a frame: 16-bit address and words.
Encodable(addr, vals) ==
    /\ addr \in RegisterAddresses
    /\ \A i \in DOMAIN vals : vals[i] \in Word16

\* Put request [cmd, fn, addr, arg, vals] on an open client.
Send(cmd, fn, addr, arg, vals, okText, errText) ==
    /\ CanConnect
    /\ client' = [client EXCEPT !.open = TRUE]
    /\ \/ /\ ~Encodable(addr, vals)
          /\ result' = "except error"
          /\ UNCHANGED bus
       \/ /\ Encodable(addr, vals)
          /\ client.port \notin present
          /\ result' = "except error"
          /\ UNCHANGED bus
       \/ /\ Encodable(addr, vals)
          /\ client.port \in present
          /\ bus' = [cmd |-> cmd, fn |-> fn, addr |-> addr, arg |-> arg, vals |-> vals]
          /\ result' \in {okText, errText, "except error"}

\* read_holding_registers(address, slave_id, count)
ReadHoldingRegisters(cmd, address, count) ==
    /\ ~ClientMissing
    /\ \/ ConnectFails
       \/ Send(cmd, "read", address, count, << >>,
               IF count > 1 THEN "values" ELSE "value", "read error")
    /\ UNCHANGED << present, portList, portSel, button >>

\* write_holding_register(address, slave_id, value)
WriteHoldingRegister(cmd, address, value) ==
    /\ ~ClientMissing
    /\ \/ ConnectFails
       \/ Send(cmd, "write_register", address, value, << value >>,
               "write success", "write error")
    /\ UNCHANGED << present, portList, portSel, button >>

\* write_holding_registers(address, slave_id, value): the 32-bit split.
WriteHoldingRegisters(cmd, address, value) ==
    /\ ~ClientMissing
    /\ \/ ConnectFails
       \/ Send(cmd, "write_registers", address, value, Encode32(value),
               "write success", "write error")
    /\ UNCHANGED << present, portList, portSel, button >>

\* The operator and the environment acting on the connection.
TransportNext ==
    \/ RefreshPorts
    \/ \E p \in Ports : SelectPort(p) \/ Plug(p) \/ Unplug(p)
    \/ ConnectModbus
=============================================================================
