---------------------------- MODULE RtdBoardProofs ----------------------------
(***************************************************************************)
(* Proof that the RTD-board panel stays well typed, for every set of      *)
(* slots, channels, RS-485 ids and values the operator may type.  The      *)
(* panel's state is the transport's, so each button is one use of a        *)
(* helper lemma of ModbusTransportProofs: the helper's count or value      *)
(* argument is an integer, and whatever address the formula yields, a      *)
(* request that does not fit 16 bits never reaches the bus.  Then, for    *)
(* the listed slots, channels and ids, Spec 8: no function button's        *)
(* request touches another function's registers.                          *)
(***************************************************************************)
EXTENDS RtdBoardPanel, ModbusTransportProofs

\* Every RTD handler name is a handler the transport types.
LEMMA RtdCommandsTyped == RtdCommands \subseteq Commands
  BY DEF RtdCommands, Commands

\* Each button of the panel keeps the transport well typed.
LEMMA RtdButtonTypeOK ==
    ASSUME TransportTypeOK, NEW s \in Slots
    PROVE  /\ \A v \in FreqValues : PwmFrequencySet(s, v) => TransportTypeOK'
           /\ \A c \in Channels :
                 /\ \A v \in DutyValues : PwmDutySet(s, c, v) => TransportTypeOK'
                 /\ PwmDutyGet(s, c) => TransportTypeOK'
                 /\ PwmFrequencyGet(s, c) => TransportTypeOK'
                 /\ PwmWidthGet(s, c) => TransportTypeOK'
                 /\ Ad7124ResistanceGet(s, c) => TransportTypeOK'
           /\ \A i \in PressureIds : PressureSensorGet(s, i) => TransportTypeOK'
<1>1. \A v \in FreqValues : PwmFrequencySet(s, v) => TransportTypeOK'
  BY RtdBoardAssumption, WriteRegistersTypeOK, RtdCommandsTyped
     DEF PwmFrequencySet, RtdCommands
<1>2. \A c \in Channels, v \in DutyValues : PwmDutySet(s, c, v) => TransportTypeOK'
  BY RtdBoardAssumption, WriteRegisterTypeOK, RtdCommandsTyped
     DEF PwmDutySet, RtdCommands
<1>3. \A c \in Channels :
         /\ PwmDutyGet(s, c) => TransportTypeOK'
         /\ PwmFrequencyGet(s, c) => TransportTypeOK'
         /\ PwmWidthGet(s, c) => TransportTypeOK'
         /\ Ad7124ResistanceGet(s, c) => TransportTypeOK'
  BY ReadTypeOK, RtdCommandsTyped
     DEF PwmDutyGet, PwmFrequencyGet, PwmWidthGet, Ad7124ResistanceGet, RtdCommands
<1>4. \A i \in PressureIds : PressureSensorGet(s, i) => TransportTypeOK'
  BY ReadTypeOK, RtdCommandsTyped DEF PressureSensorGet, RtdCommands
<1>. QED  BY <1>1, <1>2, <1>3, <1>4

\* Every step of the panel keeps TypeOK.
LEMMA RtdNextTypeOK == TypeOK /\ [Next]_tvars => TypeOK'
<1> SUFFICES ASSUME TypeOK, [Next]_tvars PROVE TypeOK'
  OBVIOUS
<1>1. CASE TransportNext
  BY <1>1, TransportNextTypeOK DEF TypeOK
<1>2. ASSUME NEW s \in Slots,
             \/ \E v \in FreqValues : PwmFrequencySet(s, v)
             \/ \E c \in Channels :
                   \/ \E v \in DutyValues : PwmDutySet(s, c, v)
                   \/ PwmDutyGet(s, c)
                   \/ PwmFrequencyGet(s, c)
                   \/ PwmWidthGet(s, c)
                   \/ Ad7124ResistanceGet(s, c)
             \/ \E i \in PressureIds : PressureSensorGet(s, i)
      PROVE  TypeOK'
  BY <1>2, RtdButtonTypeOK DEF TypeOK
<1>3. ASSUME NEW a \in ManualAddrs, NEW q \in Quantities, ManualRead(a, q)
      PROVE  TypeOK'
  BY <1>3, RtdBoardAssumption, ReadTypeOK DEF ManualRead, TypeOK, Commands
<1>4. CASE UNCHANGED tvars
  BY <1>4 DEF tvars, TypeOK, TransportTypeOK
<1>. QED  BY <1>1, <1>2, <1>3, <1>4 DEF Next

(***************************************************************************)
(* For every set of typed slots, channels, RS-485 ids, values, addresses  *)
(* and quantities, every reachable state of the RTD panel is well typed:   *)
(* whatever a button computes, only 16-bit frames reach the bus and the    *)
(* Result box holds one of its texts.  TypeOK is inductive as it stands.   *)
(***************************************************************************)
THEOREM RtdTypeCorrect == Spec => []TypeOK
<1>1. Init => TypeOK  BY TransportInitTypeOK DEF Init, TypeOK
<1>2. TypeOK /\ [Next]_tvars => TypeOK'  BY RtdNextTypeOK
<1>. QED  BY <1>1, <1>2, PTL DEF Spec
-----------------------------------------------------------------------------
(***************************************************************************)
(* No cross-function access on the RTD board, for the slots, channels and  *)
(* RS-485 ids the comboboxes list.  Every register of a function's region  *)
(* lies at START + 1000 * slot + o with o in that function's band of       *)
(* 1 .. 999; the bands are disjoint, so two regions never share a          *)
(* register.  And every request of a function button lies in its own       *)
(* region (RtdBusInRegion).                                                *)
(***************************************************************************)

\* The in-slot offsets of each function's registers.
RtdBand(cmd) ==
    CASE cmd = "PWM_FREQUENCY_SET" -> 504 .. 505
      [] cmd = "PWM_DUTY_SET" -> 506 .. 513
      [] cmd = "PWM_DUTY_GET" -> 514 .. 521
      [] cmd = "PWM_FREQUENCY_GET" -> 522 .. 537
      [] cmd = "PWM_WIDTH_GET" -> 538 .. 553
      [] cmd = "AD7124_RESISTANCE_GET" -> 554 .. 569
      [] cmd = "PRESSURE_GET" -> 578 .. 609

\* The bands of two functions never meet, and all lie inside one slot.
LEMMA RtdBandsDisjoint ==
    ASSUME NEW c1 \in RtdCommands, NEW c2 \in RtdCommands, c1 # c2
    PROVE  /\ RtdBand(c1) \cap RtdBand(c2) = {}
  BY DEF RtdCommands, RtdBand

\* Every band lies inside one slot's 1000 registers.
LEMMA RtdBandInSlot ==
    ASSUME NEW c \in RtdCommands PROVE RtdBand(c) \subseteq 1 .. 999
  BY DEF RtdCommands, RtdBand

\* The registers of the channels 0 .. 7, k registers each, from `base` in
\* every listed slot.
PerChannel(base, k) ==
    UNION { Window(SlotBase(s, base) + c * k, k) : s \in ListedSlots, c \in ListedChannels }

\* A listed channel's k registers lie in the per-channel region.
LEMMA ChannelWindowInRegion ==
    ASSUME NEW s \in ListedSlots, NEW c \in ListedChannels, NEW base \in Int,
           NEW k \in {1, 2}
    PROVE  /\ SlotBase(s, base) + c * k \in Int
           /\ Window(SlotBase(s, base) + c * k, k) \subseteq PerChannel(base, k)
<1>1. SlotBase(s, base) + c * k \in Int
  BY DEF SlotBase, RtdAddress, MODBUS_ADDRESS_START, RtdSlotStride, ListedSlots,
         ListedChannels
<1>. QED  BY <1>1 DEF PerChannel

\* A per-channel register sits in base .. base + 8k - 1 of some listed slot.
LEMMA PerChannelBand ==
    ASSUME NEW base \in Int, NEW k \in {1, 2}, NEW x \in PerChannel(base, k)
    PROVE  \E s \in ListedSlots :
              x \in Int /\ x - MODBUS_ADDRESS_START - RtdSlotStride * s \in base .. base + 8 * k - 1
<1>1. PICK s \in ListedSlots, c \in ListedChannels :
         x \in Window(SlotBase(s, base) + c * k, k)
  BY DEF PerChannel
<1>2. x \in Int /\ x - MODBUS_ADDRESS_START - RtdSlotStride * s \in base .. base + 8 * k - 1
  BY <1>1 DEF Window, SlotBase, RtdAddress, MODBUS_ADDRESS_START, RtdSlotStride,
              ListedSlots, ListedChannels
<1>. QED  BY <1>2

\* The region of each per-channel handler.
LEMMA PerChannelRegions ==
    /\ RtdRegion("PWM_DUTY_SET") = PerChannel(MODBUS_ADDRESS_PWM_DUTY_SET, 1)
    /\ RtdRegion("PWM_DUTY_GET") = PerChannel(MODBUS_ADDRESS_PWM_DUTY_GET, 1)
    /\ RtdRegion("PWM_FREQUENCY_GET") = PerChannel(MODBUS_ADDRESS_PWM_FREQUENCY_GET, 2)
    /\ RtdRegion("PWM_WIDTH_GET") = PerChannel(MODBUS_ADDRESS_PWM_WIDTH_GET, 2)
    /\ RtdRegion("AD7124_RESISTANCE_GET") = PerChannel(MODBUS_ADDRESS_AD7124_RESISTANCE_GET, 2)
  BY DEF RtdRegion, PerChannel

\* Each register of a function's region sits in that function's band of
\* some listed slot.
LEMMA RtdRegionBand ==
    ASSUME NEW cmd \in RtdCommands, NEW x \in RtdRegion(cmd)
    PROVE  \E s \in ListedSlots :
              x \in Int /\ x - MODBUS_ADDRESS_START - RtdSlotStride * s \in RtdBand(cmd)
<1>1. CASE cmd = "PWM_FREQUENCY_SET"
  BY <1>1 DEF RtdRegion, RtdBand, Window, SlotBase, RtdAddress, MODBUS_ADDRESS_START,
              RtdSlotStride, ListedSlots, MODBUS_ADDRESS_PWM_FREQUENCY
<1>2. CASE cmd = "PRESSURE_GET"
  BY <1>2 DEF RtdRegion, RtdBand, SlotBase, RtdAddress, MODBUS_ADDRESS_START,
              RtdSlotStride, ListedSlots, ListedPressureIds, MODBUS_ADDRESS_PRESSURE
<1>3. ASSUME NEW base \in Int, NEW k \in {1, 2},
             RtdRegion(cmd) = PerChannel(base, k),
             RtdBand(cmd) = base .. base + 8 * k - 1
      PROVE  \E s \in ListedSlots :
                x \in Int /\ x - MODBUS_ADDRESS_START - RtdSlotStride * s \in RtdBand(cmd)
  BY <1>3, PerChannelBand
<1>4. CASE cmd = "PWM_DUTY_SET"
  <2>1. MODBUS_ADDRESS_PWM_DUTY_SET \in Int /\ RtdBand(cmd) = MODBUS_ADDRESS_PWM_DUTY_SET .. MODBUS_ADDRESS_PWM_DUTY_SET + 8 * 1 - 1
    BY <1>4 DEF RtdBand, MODBUS_ADDRESS_PWM_DUTY_SET
  <2>. QED  BY <1>4, <2>1, <1>3, PerChannelRegions
<1>5. CASE cmd = "PWM_DUTY_GET"
  <2>1. MODBUS_ADDRESS_PWM_DUTY_GET \in Int /\ RtdBand(cmd) = MODBUS_ADDRESS_PWM_DUTY_GET .. MODBUS_ADDRESS_PWM_DUTY_GET + 8 * 1 - 1
    BY <1>5 DEF RtdBand, MODBUS_ADDRESS_PWM_DUTY_GET
  <2>. QED  BY <1>5, <2>1, <1>3, PerChannelRegions
<1>6. CASE cmd = "PWM_FREQUENCY_GET"
  <2>1. MODBUS_ADDRESS_PWM_FREQUENCY_GET \in Int /\ RtdBand(cmd) = MODBUS_ADDRESS_PWM_FREQUENCY_GET .. MODBUS_ADDRESS_PWM_FREQUENCY_GET + 8 * 2 - 1
    BY <1>6 DEF RtdBand, MODBUS_ADDRESS_PWM_FREQUENCY_GET
  <2>. QED  BY <1>6, <2>1, <1>3, PerChannelRegions
<1>7. CASE cmd = "PWM_WIDTH_GET"
  <2>1. MODBUS_ADDRESS_PWM_WIDTH_GET \in Int /\ RtdBand(cmd) = MODBUS_ADDRESS_PWM_WIDTH_GET .. MODBUS_ADDRESS_PWM_WIDTH_GET + 8 * 2 - 1
    BY <1>7 DEF RtdBand, MODBUS_ADDRESS_PWM_WIDTH_GET
  <2>. QED  BY <1>7, <2>1, <1>3, PerChannelRegions
<1>8. CASE cmd = "AD7124_RESISTANCE_GET"
  <2>1. MODBUS_ADDRESS_AD7124_RESISTANCE_GET \in Int /\ RtdBand(cmd) = MODBUS_ADDRESS_AD7124_RESISTANCE_GET .. MODBUS_ADDRESS_AD7124_RESISTANCE_GET + 8 * 2 - 1
    BY <1>8 DEF RtdBand, MODBUS_ADDRESS_AD7124_RESISTANCE_GET
  <2>. QED  BY <1>8, <2>1, <1>3, PerChannelRegions
<1>. QED  BY <1>1, <1>2, <1>4, <1>5, <1>6, <1>7, <1>8 DEF RtdCommands

\* The regions of two different RTD functions share no register.
LEMMA RtdRegionsDisjoint ==
    ASSUME NEW c1 \in RtdCommands, NEW c2 \in RtdCommands, c1 # c2
    PROVE  RtdRegion(c1) \cap RtdRegion(c2) = {}
<1> SUFFICES ASSUME NEW x \in RtdRegion(c1), x \in RtdRegion(c2) PROVE FALSE
  OBVIOUS
<1>1. PICK s1 \in ListedSlots :
         x \in Int /\ x - MODBUS_ADDRESS_START - RtdSlotStride * s1 \in RtdBand(c1)
  BY RtdRegionBand
<1>2. PICK s2 \in ListedSlots :
         x - MODBUS_ADDRESS_START - RtdSlotStride * s2 \in RtdBand(c2)
  BY RtdRegionBand
<1>3. /\ x - MODBUS_ADDRESS_START - RtdSlotStride * s1 \in 1 .. 999
      /\ x - MODBUS_ADDRESS_START - RtdSlotStride * s2 \in 1 .. 999
  BY <1>1, <1>2, RtdBandInSlot
<1>4. s1 = s2
  BY <1>1, <1>3 DEF ListedSlots, RtdSlotStride, MODBUS_ADDRESS_START
<1>. QED  BY <1>1, <1>2, <1>4, RtdBandsDisjoint
\* The slots, channels and RS-485 ids the comboboxes list (the hypothesis
\* of the no-cross-function theorems).
RtdListedEntries ==
    /\ Slots \subseteq ListedSlots /\ Channels \subseteq ListedChannels
    /\ PressureIds \subseteq ListedPressureIds

\* A step puts on the bus a request of handler c inside c's region.
RtdSendsInRegion(c) == bus'.cmd = c /\ Touched(bus') \subseteq RtdRegion(c)

\* A step that leaves the bus alone or sends inside its handler's region
\* keeps RtdBusInRegion.
LEMMA KeepsRtdBusInRegion ==
    ASSUME RtdBusInRegion, NEW c, bus' = bus \/ RtdSendsInRegion(c)
    PROVE  RtdBusInRegion'
  BY DEF RtdBusInRegion, RtdSendsInRegion

\* PWM_frequency_set_cmd writes the two frequency registers of its slot.
LEMMA FrequencySetInRegion ==
    ASSUME NEW s \in ListedSlots, NEW v, PwmFrequencySet(s, v)
    PROVE  bus' = bus \/ RtdSendsInRegion("PWM_FREQUENCY_SET")
<1>1. DEFINE a == SlotBase(s, MODBUS_ADDRESS_PWM_FREQUENCY)
<1>2. a \in Int /\ Window(a, 2) \subseteq RtdRegion("PWM_FREQUENCY_SET")
  BY DEF RtdRegion, SlotBase, RtdAddress, MODBUS_ADDRESS_START, RtdSlotStride,
         ListedSlots, MODBUS_ADDRESS_PWM_FREQUENCY
<1>3. bus' = bus \/ bus' = Req("PWM_FREQUENCY_SET", "write_registers", a, v, Encode32(v))
  BY WriteRegistersBus DEF PwmFrequencySet
<1>4. Touched(Req("PWM_FREQUENCY_SET", "write_registers", a, v, Encode32(v))) = Window(a, 2)
  BY <1>2, TouchedWriteRegisters
<1>5. Req("PWM_FREQUENCY_SET", "write_registers", a, v, Encode32(v)).cmd = "PWM_FREQUENCY_SET"
  BY DEF Req
<1>. QED  BY <1>2, <1>3, <1>4, <1>5 DEF RtdSendsInRegion

\* PWM_duty_set_cmd writes the duty register of its channel.
LEMMA DutySetInRegion ==
    ASSUME NEW s \in ListedSlots, NEW c \in ListedChannels, NEW v, PwmDutySet(s, c, v)
    PROVE  bus' = bus \/ RtdSendsInRegion("PWM_DUTY_SET")
<1>1. DEFINE a == SlotBase(s, MODBUS_ADDRESS_PWM_DUTY_SET) + c
<1>2. a \in Int /\ {a} \subseteq RtdRegion("PWM_DUTY_SET")
  <2>1. MODBUS_ADDRESS_PWM_DUTY_SET \in Int  BY DEF MODBUS_ADDRESS_PWM_DUTY_SET
  <2>2. a = SlotBase(s, MODBUS_ADDRESS_PWM_DUTY_SET) + c * 1 /\ Window(a, 1) = {a}
    BY DEF ListedChannels, ListedSlots, Window, SlotBase, RtdAddress,
           MODBUS_ADDRESS_START, RtdSlotStride, MODBUS_ADDRESS_PWM_DUTY_SET
  <2>. QED  BY <2>1, <2>2, ChannelWindowInRegion, PerChannelRegions
<1>3. bus' = bus \/ bus' = Req("PWM_DUTY_SET", "write_register", a, v, << v >>)
  BY WriteRegisterBus DEF PwmDutySet
<1>4. Touched(Req("PWM_DUTY_SET", "write_register", a, v, << v >>)) = {a}
  BY <1>2, TouchedWriteRegister
<1>5. Req("PWM_DUTY_SET", "write_register", a, v, << v >>).cmd = "PWM_DUTY_SET"
  BY DEF Req
<1>. QED  BY <1>2, <1>3, <1>4, <1>5 DEF RtdSendsInRegion

\* A read of k registers at base + channel * k, as the duty, frequency,
\* width and AD7124 reads issue, lies in that handler's region.
LEMMA ChannelReadInRegion ==
    ASSUME NEW s \in ListedSlots, NEW c \in ListedChannels, NEW cmd,
           NEW base \in Int, NEW k \in {1, 2}, RtdRegion(cmd) = PerChannel(base, k),
           ReadHoldingRegisters(cmd, SlotBase(s, base) + c * k, k)
    PROVE  bus' = bus \/ RtdSendsInRegion(cmd)
<1>1. DEFINE a == SlotBase(s, base) + c * k
<1>2. a \in Int /\ Window(a, k) \subseteq RtdRegion(cmd)
  BY ChannelWindowInRegion
<1>3. bus' = bus \/ bus' = Req(cmd, "read", a, k, << >>)
  BY ReadBus
<1>4. Touched(Req(cmd, "read", a, k, << >>)) = Window(a, k)
  BY <1>2, TouchedRead
<1>5. Req(cmd, "read", a, k, << >>).cmd = cmd
  BY DEF Req
<1>. QED  BY <1>2, <1>3, <1>4, <1>5 DEF RtdSendsInRegion

\* pressure_sensor_get_cmd reads the register of its RS-485 id.
LEMMA PressureGetInRegion ==
    ASSUME NEW s \in ListedSlots, NEW i \in ListedPressureIds, PressureSensorGet(s, i)
    PROVE  bus' = bus \/ RtdSendsInRegion("PRESSURE_GET")
<1>1. DEFINE a == SlotBase(s, MODBUS_ADDRESS_PRESSURE) + (i - 1)
<1>2. a \in Int /\ Window(a, 1) \subseteq RtdRegion("PRESSURE_GET")
  BY DEF RtdRegion, SlotBase, RtdAddress, MODBUS_ADDRESS_START, RtdSlotStride,
         ListedSlots, ListedPressureIds, MODBUS_ADDRESS_PRESSURE, Window
<1>3. bus' = bus \/ bus' = Req("PRESSURE_GET", "read", a, 1, << >>)
  BY ReadBus DEF PressureSensorGet
<1>4. Touched(Req("PRESSURE_GET", "read", a, 1, << >>)) = Window(a, 1)
  BY <1>2, TouchedRead
<1>5. Req("PRESSURE_GET", "read", a, 1, << >>).cmd = "PRESSURE_GET"
  BY DEF Req
<1>. QED  BY <1>2, <1>3, <1>4, <1>5 DEF RtdSendsInRegion

(***************************************************************************)
(* Every step of the RTD panel keeps RtdBusInRegion, for listed slots,     *)
(* channels and ids: each function button sends inside its region; the    *)
(* manual read and the transport's own steps send nothing a function owns. *)
(***************************************************************************)
LEMMA RtdNextBusInRegion ==
    ASSUME RtdListedEntries, RtdBusInRegion, [Next]_tvars
    PROVE  RtdBusInRegion'
<1>1. CASE TransportNext
  BY <1>1, TransportNextBus, KeepsRtdBusInRegion
<1>2. ASSUME NEW s \in Slots, NEW v, PwmFrequencySet(s, v)
      PROVE  RtdBusInRegion'
  BY <1>2, FrequencySetInRegion, KeepsRtdBusInRegion DEF RtdListedEntries
<1>3. ASSUME NEW s \in Slots, NEW c \in Channels, NEW v, PwmDutySet(s, c, v)
      PROVE  RtdBusInRegion'
  BY <1>3, DutySetInRegion, KeepsRtdBusInRegion DEF RtdListedEntries
<1>4. ASSUME NEW s \in Slots, NEW c \in Channels,
             \/ PwmDutyGet(s, c)
             \/ PwmFrequencyGet(s, c)
             \/ PwmWidthGet(s, c)
             \/ Ad7124ResistanceGet(s, c)
      PROVE  RtdBusInRegion'
  <2>1. s \in ListedSlots /\ c \in ListedChannels
    BY DEF RtdListedEntries
  <2>2. /\ MODBUS_ADDRESS_PWM_DUTY_GET \in Int
        /\ MODBUS_ADDRESS_PWM_FREQUENCY_GET \in Int
        /\ MODBUS_ADDRESS_PWM_WIDTH_GET \in Int
        /\ MODBUS_ADDRESS_AD7124_RESISTANCE_GET \in Int
    BY DEF MODBUS_ADDRESS_PWM_DUTY_GET, MODBUS_ADDRESS_PWM_FREQUENCY_GET,
           MODBUS_ADDRESS_PWM_WIDTH_GET, MODBUS_ADDRESS_AD7124_RESISTANCE_GET
  <2>3. CASE PwmDutyGet(s, c)
    <3>1. ReadHoldingRegisters("PWM_DUTY_GET",
              SlotBase(s, MODBUS_ADDRESS_PWM_DUTY_GET) + c * 1, 1)
      BY <2>1, <2>3 DEF PwmDutyGet, ListedChannels
    <3>. QED  BY <2>1, <2>2, <3>1, ChannelReadInRegion, PerChannelRegions,
                 KeepsRtdBusInRegion
  <2>4. CASE PwmFrequencyGet(s, c)
    BY <2>1, <2>2, <2>4, ChannelReadInRegion, PerChannelRegions, KeepsRtdBusInRegion
       DEF PwmFrequencyGet
  <2>5. CASE PwmWidthGet(s, c)
    BY <2>1, <2>2, <2>5, ChannelReadInRegion, PerChannelRegions, KeepsRtdBusInRegion
       DEF PwmWidthGet
  <2>6. CASE Ad7124ResistanceGet(s, c)
    BY <2>1, <2>2, <2>6, ChannelReadInRegion, PerChannelRegions, KeepsRtdBusInRegion
       DEF Ad7124ResistanceGet
  <2>. QED  BY <1>4, <2>3, <2>4, <2>5, <2>6
<1>5. ASSUME NEW s \in Slots, NEW i \in PressureIds, PressureSensorGet(s, i)
      PROVE  RtdBusInRegion'
  BY <1>5, PressureGetInRegion, KeepsRtdBusInRegion DEF RtdListedEntries
<1>6. ASSUME NEW a, NEW q, ManualRead(a, q)
      PROVE  RtdBusInRegion'
  <2>1. bus' = bus \/ bus' = Req("manual", "read", a, q, << >>)
    BY <1>6, ReadBus DEF ManualRead
  <2>2. "manual" \notin RtdCommands  BY DEF RtdCommands
  <2>. QED  BY <2>1, <2>2 DEF RtdBusInRegion, Req
<1>7. CASE UNCHANGED tvars
  BY <1>7, KeepsRtdBusInRegion DEF tvars
<1>. QED  BY <1>1, <1>2, <1>3, <1>4, <1>5, <1>6, <1>7 DEF Next

\* The two halves of RtdNoCrossFunctionAccess.
LEMMA RtdInRegionNoCross ==
    ASSUME RtdBusInRegion PROVE RtdNoCrossFunctionAccess
<1> SUFFICES ASSUME bus # NoRequest, bus.cmd \in RtdCommands,
                    NEW other \in RtdCommands \ {bus.cmd}
             PROVE  Touched(bus) \cap RtdRegion(other) = {}
  BY DEF RtdNoCrossFunctionAccess
<1>1. Touched(bus) \subseteq RtdRegion(bus.cmd)  BY DEF RtdBusInRegion
<1>2. RtdRegion(bus.cmd) \cap RtdRegion(other) = {}  BY RtdRegionsDisjoint
<1>. QED  BY <1>1, <1>2

(***************************************************************************)
(* For every set of ports and typed values, as long as the slot, channel   *)
(* and "485 Slave ID" comboboxes offer only the listed 0 .. 3, 0 .. 7 and  *)
(* 1 .. 32: every request an RTD function button (PWM frequency and duty   *)
(* set, duty, frequency and width get, AD7124 resistance, pressure) puts   *)
(* on the bus lies in that function's own registers.  Inductive as it      *)
(* stands: a step sends nothing or one request that its handler's address  *)
(* formula places in the region.                                           *)
(***************************************************************************)
THEOREM RtdBusInRegionInvariant ==
    ASSUME Slots \subseteq ListedSlots, Channels \subseteq ListedChannels,
           PressureIds \subseteq ListedPressureIds
    PROVE  Spec => []RtdBusInRegion
<1>1. Init => RtdBusInRegion
  BY DEF Init, TransportInit, RtdBusInRegion
<1>2. RtdBusInRegion /\ [Next]_tvars => RtdBusInRegion'
  BY RtdNextBusInRegion DEF RtdListedEntries
<1>. QED  BY <1>1, <1>2, PTL DEF Spec

(***************************************************************************)
(* Spec 8 for the RTD board, for the listed slots, channels and ids: no    *)
(* request of one function's button touches a register of another          *)
(* function in any slot.  The bands of the functions in 504 .. 609 never   *)
(* meet, and slots are 1000 registers apart.                               *)
(***************************************************************************)
THEOREM RtdNoCrossFunctionAccessInvariant ==
    ASSUME Slots \subseteq ListedSlots, Channels \subseteq ListedChannels,
           PressureIds \subseteq ListedPressureIds
    PROVE  Spec => []RtdNoCrossFunctionAccess
<1>1. RtdBusInRegion => RtdNoCrossFunctionAccess
  BY RtdInRegionNoCross
<1>. QED  BY <1>1, RtdBusInRegionInvariant, PTL

=============================================================================
