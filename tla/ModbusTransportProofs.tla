------------------------ MODULE ModbusTransportProofs ------------------------
(***************************************************************************)
(* Lemmas about the connection and the three register helpers of           *)
(* ModbusTransport, cited by the proofs of the board panels: every helper  *)
(* call and every connection step keeps TransportTypeOK, for all sets of   *)
(* ports.                                                                  *)
(***************************************************************************)
EXTENDS ModbusTransport, TLAPS

(***************************************************************************)
(* Send keeps the transport well typed: a request that reaches the bus was *)
(* encodable, so its address and words are 16-bit values, and the result   *)
(* text is one of the helper's texts.                                      *)
(***************************************************************************)
LEMMA SendTypeOK ==
    ASSUME TransportTypeOK,
           NEW cmd \in Commands,
           NEW fn \in {"read", "write_register", "write_registers"},
           NEW addr, NEW arg \in Int, NEW vals \in Seq(Int),
           NEW okText \in Results, NEW errText \in Results,
           ~ClientMissing,
           Send(cmd, fn, addr, arg, vals, okText, errText),
           UNCHANGED << present, portList, portSel, button >>
    PROVE  TransportTypeOK'
<1>1. client \in [port : Ports, open : BOOLEAN]
  BY DEF TransportTypeOK, Clients, ClientMissing
<1>2. client' \in Clients
  BY <1>1 DEF Send, Clients
<1>3. result' \in Results
  BY DEF Send, Results
<1>4. bus' \in Requests \cup {NoRequest}
  <2>1. CASE UNCHANGED bus
    BY <2>1 DEF TransportTypeOK
  <2>2. CASE /\ Encodable(addr, vals)
             /\ bus' = [cmd |-> cmd, fn |-> fn, addr |-> addr, arg |-> arg,
                        vals |-> vals]
    <3>1. vals \in Seq(Word16)
      BY <2>2 DEF Encodable
    <3>2. addr \in RegisterAddresses
      BY <2>2 DEF Encodable
    <3>. QED  BY <2>2, <3>1, <3>2 DEF Requests
  <2>. QED  BY <2>1, <2>2 DEF Send
<1>. QED  BY <1>2, <1>3, <1>4 DEF TransportTypeOK

\* read_holding_registers keeps the transport well typed.
LEMMA ReadTypeOK ==
    ASSUME TransportTypeOK,
           NEW cmd \in Commands, NEW address, NEW count \in Int,
           ReadHoldingRegisters(cmd, address, count)
    PROVE  TransportTypeOK'
<1>1. CASE ConnectFails
  BY <1>1 DEF ReadHoldingRegisters, ConnectFails, TransportTypeOK, Results
<1>2. CASE Send(cmd, "read", address, count, << >>,
                IF count > 1 THEN "values" ELSE "value", "read error")
  <2>1. << >> \in Seq(Int)  OBVIOUS
  <2>2. (IF count > 1 THEN "values" ELSE "value") \in Results
    BY DEF Results
  <2>3. "read error" \in Results  BY DEF Results
  <2>. QED  BY <1>2, <2>1, <2>2, <2>3, SendTypeOK DEF ReadHoldingRegisters
<1>. QED  BY <1>1, <1>2 DEF ReadHoldingRegisters

\* write_holding_register keeps the transport well typed.
LEMMA WriteRegisterTypeOK ==
    ASSUME TransportTypeOK,
           NEW cmd \in Commands, NEW address, NEW value \in Int,
           WriteHoldingRegister(cmd, address, value)
    PROVE  TransportTypeOK'
<1>1. CASE ConnectFails
  BY <1>1 DEF WriteHoldingRegister, ConnectFails, TransportTypeOK, Results
<1>2. CASE Send(cmd, "write_register", address, value, << value >>,
                "write success", "write error")
  <2>1. << value >> \in Seq(Int)  OBVIOUS
  <2>2. {"write success", "write error"} \subseteq Results  BY DEF Results
  <2>. QED  BY <1>2, <2>1, <2>2, SendTypeOK DEF WriteHoldingRegister
<1>. QED  BY <1>1, <1>2 DEF WriteHoldingRegister

\* write_holding_registers (the 32-bit split) keeps the transport well typed.
LEMMA WriteRegistersTypeOK ==
    ASSUME TransportTypeOK,
           NEW cmd \in Commands, NEW address, NEW value \in Int,
           WriteHoldingRegisters(cmd, address, value)
    PROVE  TransportTypeOK'
<1>1. CASE ConnectFails
  BY <1>1 DEF WriteHoldingRegisters, ConnectFails, TransportTypeOK, Results
<1>2. CASE Send(cmd, "write_registers", address, value, Encode32(value),
                "write success", "write error")
  <2>1. Encode32(value) \in Seq(Int)  BY DEF Encode32
  <2>2. {"write success", "write error"} \subseteq Results  BY DEF Results
  <2>. QED  BY <1>2, <2>1, <2>2, SendTypeOK DEF WriteHoldingRegisters
<1>. QED  BY <1>1, <1>2 DEF WriteHoldingRegisters

\* Refreshing, selecting, connecting and (un)plugging keep it well typed.
LEMMA TransportNextTypeOK ==
    ASSUME TransportTypeOK, TransportNext
    PROVE  TransportTypeOK'
<1>1. CASE RefreshPorts
  BY <1>1 DEF RefreshPorts, TransportTypeOK
<1>2. ASSUME NEW p \in Ports, SelectPort(p) \/ Plug(p) \/ Unplug(p)
      PROVE  TransportTypeOK'
  BY <1>2 DEF SelectPort, Plug, Unplug, TransportTypeOK
<1>3. CASE ConnectModbus
  BY <1>3 DEF ConnectModbus, TransportTypeOK, Clients
<1>. QED  BY <1>1, <1>2, <1>3 DEF TransportNext

\* The start-up state is well typed.
LEMMA TransportInitTypeOK == TransportInit => TransportTypeOK
  BY DEF TransportInit, TransportTypeOK, Clients, Results

-----------------------------------------------------------------------------
(***************************************************************************)
(* What the helpers put on the bus: nothing, or exactly the request of the *)
(* call.  The board panels' address invariants rest on these.              *)
(***************************************************************************)

\* The record Send puts on the bus.
Req(cmd, fn, addr, arg, vals) ==
    [cmd |-> cmd, fn |-> fn, addr |-> addr, arg |-> arg, vals |-> vals]

LEMMA SendBus ==
    ASSUME NEW cmd, NEW fn, NEW addr, NEW arg, NEW vals, NEW okText, NEW errText,
           Send(cmd, fn, addr, arg, vals, okText, errText)
    PROVE  bus' = bus \/ bus' = Req(cmd, fn, addr, arg, vals)
  BY DEF Send, Req

LEMMA ReadBus ==
    ASSUME NEW cmd, NEW address, NEW count,
           ReadHoldingRegisters(cmd, address, count)
    PROVE  bus' = bus \/ bus' = Req(cmd, "read", address, count, << >>)
  BY SendBus DEF ReadHoldingRegisters, ConnectFails

LEMMA WriteRegisterBus ==
    ASSUME NEW cmd, NEW address, NEW value,
           WriteHoldingRegister(cmd, address, value)
    PROVE  bus' = bus \/ bus' = Req(cmd, "write_register", address, value, << value >>)
  BY SendBus DEF WriteHoldingRegister, ConnectFails

LEMMA WriteRegistersBus ==
    ASSUME NEW cmd, NEW address, NEW value,
           WriteHoldingRegisters(cmd, address, value)
    PROVE  bus' = bus \/ bus' = Req(cmd, "write_registers", address, value, Encode32(value))
  BY SendBus DEF WriteHoldingRegisters, ConnectFails

\* The registers each helper's request touches.
LEMMA TouchedRead ==
    ASSUME NEW cmd, NEW addr \in Int, NEW n \in Int
    PROVE  Touched(Req(cmd, "read", addr, n, << >>)) = Window(addr, n)
  BY DEF Touched, Req, Window

LEMMA TouchedWriteRegister ==
    ASSUME NEW cmd, NEW addr \in Int, NEW v
    PROVE  Touched(Req(cmd, "write_register", addr, v, << v >>)) = {addr}
  BY DEF Touched, Req, Window

LEMMA TouchedWriteRegisters ==
    ASSUME NEW cmd, NEW addr \in Int, NEW v
    PROVE  Touched(Req(cmd, "write_registers", addr, v, Encode32(v))) = Window(addr, 2)
  BY DEF Touched, Req, Window, Encode32

\* Plugging, selecting, refreshing and connecting send nothing.
LEMMA TransportNextBus == TransportNext => UNCHANGED bus
  BY DEF TransportNext, RefreshPorts, SelectPort, ConnectModbus, Plug, Unplug

=============================================================================
