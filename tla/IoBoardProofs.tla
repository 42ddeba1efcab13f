--------------------------- MODULE IoBoardProofs ---------------------------
(***************************************************************************)
(* Proofs about the I/O-board panel for every set of ports, entry values   *)
(* and job bound: every reachable state is well typed, in particular the   *)
(* count of auto_do_loop jobs Tk holds stays within 0 .. MaxAutoDoJobs;    *)
(* and, while the slots and channels are the listed ones, no function      *)
(* button's request touches another function's registers (Spec 8).        *)
(***************************************************************************)
EXTENDS IoBoardPanel, ModbusTransportProofs

\* The facts about the constants that the proofs use.
LEMMA IoEntryDomains ==
    /\ SlaveIds \subseteq Int /\ Slots \subseteq Int /\ Channels \subseteq Int
    /\ DoValues \subseteq Int /\ AoValues \subseteq Int
    /\ ManualAddrs \subseteq Int /\ Quantities \subseteq Int
    /\ 100 \in SlaveIds /\ 0 \in Slots /\ 0 \in Channels /\ 0 \in DoValues
    /\ MaxAutoDoJobs \in Nat
  BY IoBoardAssumption

\* The I/O handler names are handler names of the transport.
LEMMA IoCommandsTyped == IoCommands \cup {"manual"} \subseteq Commands
  BY DEF IoCommands, Commands

\* The address of every I/O handler is an integer.
LEMMA IoAddressInt ==
    ASSUME NEW s \in Int, NEW b \in Int, NEW o \in Int
    PROVE  IoAddress(s, b, o) \in Int
  BY DEF IoAddress, MODBUS_ADDRESS_START, IoSlotStride

\* The per-port and per-mode numbers of the register map are integers.
LEMMA AnalogTablesInt ==
    /\ \A p \in AnalogPorts : /\ AnalogShift[p] \in Int
                             /\ MODBUS_ADDRESS_ANALOG_MODE[p] \in Int
    /\ \A m \in AnalogModes : AnalogModeValue[m] \in Int
  BY DEF AnalogPorts, AnalogShift, MODBUS_ADDRESS_ANALOG_MODE, AnalogModes,
        AnalogModeValue

\* What TypeOK says of the entries the handlers compute addresses from.
LEMMA EntriesInt ==
    ASSUME TypeOK
    PROVE  /\ TransportTypeOK
           /\ slotEntry \in Int /\ numberEntry \in Int /\ doValueEntry \in Int
  BY IoEntryDomains DEF TypeOK

(***************************************************************************)
(* auto_do_loop's body keeps the transport typed and the job count in its  *)
(* range, from a count `jobs` in range.                                    *)
(***************************************************************************)
LEMMA AutoDoBodyTypeOK ==
    ASSUME TypeOK, NEW jobs \in 0 .. MaxAutoDoJobs, AutoDoLoopBody(jobs)
    PROVE  TransportTypeOK' /\ doJobs' \in 0 .. MaxAutoDoJobs
<1>1. CASE DoRaises /\ doJobs' = jobs /\ UNCHANGED tvars
  BY <1>1 DEF TypeOK, TransportTypeOK, tvars
<1>2. CASE ~DoRaises /\ jobs < MaxAutoDoJobs /\ DoWrite /\ doJobs' = jobs + 1
  <2>1. IoAddress(slotEntry, MODBUS_ADDRESS_DO, numberEntry) \in Int
    BY IoEntryDomains, IoAddressInt DEF TypeOK, MODBUS_ADDRESS_DO
  <2>2. TransportTypeOK'
    BY <1>2, <2>1, IoEntryDomains, IoCommandsTyped, WriteRegisterTypeOK
       DEF DoWrite, TypeOK, IoCommands
  <2>3. doJobs' \in 0 .. MaxAutoDoJobs
    BY <1>2, IoEntryDomains
  <2>. QED  BY <2>2, <2>3
<1>. QED  BY <1>1, <1>2 DEF AutoDoLoopBody

\* The start-up state is well typed.
LEMMA IoInitTypeOK == Init => TypeOK
<1> SUFFICES ASSUME Init PROVE TypeOK
  OBVIOUS
<1>1. TransportTypeOK  BY TransportInitTypeOK DEF Init
<1>2. autoDo \in BOOLEAN
  <2>1. autoDo = FALSE  BY DEF Init
  <2>. QED  BY <2>1
<1>. QED  BY <1>1, <1>2, IoEntryDomains DEF Init, TypeOK

(***************************************************************************)
(* Every step of the panel keeps TypeOK: one step per handler.             *)
(***************************************************************************)
LEMMA IoNextTypeOK == TypeOK /\ [Next]_vars => TypeOK'
<1> SUFFICES ASSUME TypeOK, [Next]_vars PROVE TypeOK'
  OBVIOUS
<1> DEFINE Rest == UNCHANGED << entries, autoDo, doJobs >>
<1>1. ASSUME TransportTypeOK' , Rest PROVE TypeOK'
  BY <1>1 DEF TypeOK, entries
<1>2. CASE TransportNext /\ Rest
  BY <1>1, <1>2, TransportNextTypeOK DEF TypeOK
<1>3. ASSUME NEW e \in SlaveIds \cup {NotAnInt}, EditSlaveId(e) PROVE TypeOK'
  BY <1>3 DEF EditSlaveId, TypeOK, TransportTypeOK, tvars
<1>4. ASSUME NEW e \in Slots, EditSlot(e) PROVE TypeOK'
  BY <1>4 DEF EditSlot, TypeOK, TransportTypeOK, tvars
<1>5. ASSUME NEW e \in Channels, EditNumber(e) PROVE TypeOK'
  BY <1>5 DEF EditNumber, TypeOK, TransportTypeOK, tvars
<1>6. ASSUME NEW e \in DoValues, EditDoValue(e) PROVE TypeOK'
  BY <1>6 DEF EditDoValue, TypeOK, TransportTypeOK, tvars
<1>0. /\ TransportTypeOK
      /\ slotEntry \in Int /\ numberEntry \in Int /\ doValueEntry \in Int
  BY EntriesInt
<1>7. CASE DoButton
  <2>1. IoAddress(slotEntry, MODBUS_ADDRESS_DO, numberEntry) \in Int
    BY <1>0, IoAddressInt DEF MODBUS_ADDRESS_DO
  <2>2. TransportTypeOK'
    BY <1>0, <1>7, <2>1, WriteRegisterTypeOK DEF DoButton, DoWrite, Commands
  <2>. QED  BY <1>1, <1>7, <2>2 DEF DoButton
<1>8. CASE DiButton
  <2>1. IoAddress(slotEntry, MODBUS_ADDRESS_DI, numberEntry) \in Int
    BY <1>0, IoAddressInt DEF MODBUS_ADDRESS_DI
  <2>2. TransportTypeOK'
    BY <1>0, <1>8, <2>1, ReadTypeOK DEF DiButton, Commands
  <2>. QED  BY <1>1, <1>8, <2>2 DEF DiButton
<1>9. ASSUME NEW port \in AnalogPorts \cup {OtherText}, NEW v \in AoValues,
             NEW cmd \in {"AO_VOLTAGE", "AO_CURRENT"},
             NEW base \in {MODBUS_ADDRESS_AO_VOLTAGE, MODBUS_ADDRESS_AO_CURRENT},
             AoButton(cmd, base, port, v)
      PROVE  TypeOK'
  <2>1. port \in AnalogPorts  BY <1>9 DEF AoButton
  <2>2. base \in Int
    BY DEF MODBUS_ADDRESS_AO_VOLTAGE, MODBUS_ADDRESS_AO_CURRENT
  <2>3. AnalogAddress(base, port) \in Int
    <3>1. AnalogShift[port] * 2 \in Int  BY <2>1, AnalogTablesInt
    <3>. QED  BY <1>0, <2>2, <3>1
              DEF AnalogAddress, IoAddress, MODBUS_ADDRESS_START, IoSlotStride
  <2>4. cmd \in Commands /\ v \in Int  BY IoEntryDomains DEF Commands
  <2>5. TransportTypeOK'
    BY <1>0, <1>9, <2>3, <2>4, WriteRegistersTypeOK DEF AoButton
  <2>. QED  BY <1>1, <1>9, <2>5 DEF AoButton
<1>10. ASSUME NEW port \in AnalogPorts \cup {OtherText},
              NEW cmd \in {"AI_VOLTAGE", "AI_CURRENT"},
              NEW base \in {MODBUS_ADDRESS_AI_VOLTAGE, MODBUS_ADDRESS_AI_CURRENT},
              AiButton(cmd, base, port)
       PROVE  TypeOK'
  <2>1. port \in AnalogPorts  BY <1>10 DEF AiButton
  <2>2. base \in Int
    BY DEF MODBUS_ADDRESS_AI_VOLTAGE, MODBUS_ADDRESS_AI_CURRENT
  <2>3. AnalogAddress(base, port) \in Int
    <3>1. AnalogShift[port] * 2 \in Int  BY <2>1, AnalogTablesInt
    <3>. QED  BY <1>0, <2>2, <3>1
              DEF AnalogAddress, IoAddress, MODBUS_ADDRESS_START, IoSlotStride
  <2>4. cmd \in Commands  BY DEF Commands
  <2>5. TransportTypeOK'
    BY <1>0, <1>10, <2>3, <2>4, ReadTypeOK DEF AiButton
  <2>. QED  BY <1>1, <1>10, <2>5 DEF AiButton
<1>11. ASSUME NEW mode \in AnalogModes \cup {OtherText}, AnalogSetModeInvalid(mode)
       PROVE  TypeOK'
  <2>1. TransportTypeOK'
    BY <1>0, <1>11 DEF AnalogSetModeInvalid, TransportTypeOK, Results
  <2>. QED  BY <1>1, <1>11, <2>1 DEF AnalogSetModeInvalid
<1>12. ASSUME NEW port \in AnalogPorts \cup {OtherText},
              NEW mode \in AnalogModes \cup {OtherText}, AnalogSetMode(port, mode)
       PROVE  TypeOK'
  <2>1. port \in AnalogPorts /\ mode \in AnalogModes  BY <1>12 DEF AnalogSetMode
  <2>2. IoAddress(slotEntry, MODBUS_ADDRESS_ANALOG_MODE[port], 0) \in Int
    <3>1. MODBUS_ADDRESS_ANALOG_MODE[port] \in Int  BY <2>1, AnalogTablesInt
    <3>. QED  BY <1>0, <3>1 DEF IoAddress, MODBUS_ADDRESS_START, IoSlotStride
  <2>3. AnalogModeValue[mode] \in Int
    BY <2>1, AnalogTablesInt
  <2>4. "ANALOG_SET_MODE" \in Commands  BY DEF Commands
  <2>5. TransportTypeOK'
    BY <1>0, <1>12, <2>2, <2>3, <2>4, WriteRegisterTypeOK DEF AnalogSetMode
  <2>. QED  BY <1>1, <1>12, <2>5 DEF AnalogSetMode
<1>13. ASSUME NEW a \in ManualAddrs, NEW q \in Quantities, ManualReadButton(a, q)
       PROVE  TypeOK'
  <2>1. "manual" \in Commands /\ q \in Int  BY IoEntryDomains DEF Commands
  <2>2. TransportTypeOK'
    BY <1>0, <1>13, <2>1, ReadTypeOK DEF ManualReadButton
  <2>. QED  BY <1>1, <1>13, <2>2 DEF ManualReadButton
<1>14. CASE AutoDoLoopFires
  <2>1. CASE autoDo
    <3>1. doJobs - 1 \in 0 .. MaxAutoDoJobs
      BY <1>14, IoEntryDomains DEF AutoDoLoopFires, TypeOK
    <3>2. AutoDoLoopBody(doJobs - 1)
      BY <1>14, <2>1 DEF AutoDoLoopFires
    <3>. QED  BY <1>14, <3>1, <3>2, AutoDoBodyTypeOK
              DEF AutoDoLoopFires, TypeOK, entries
  <2>3. CASE ~autoDo
    BY <1>14, <2>3, IoEntryDomains DEF AutoDoLoopFires, TypeOK,
       TransportTypeOK, tvars, entries
  <2>. QED  BY <2>1, <2>3
<1>15. CASE ToggleAutoDo
  <2>1. autoDo' \in BOOLEAN  BY <1>15 DEF ToggleAutoDo, TypeOK
  <2>2. CASE autoDo' = TRUE
    BY <1>15, <2>1, <2>2, AutoDoBodyTypeOK DEF ToggleAutoDo, TypeOK, entries
  <2>3. CASE autoDo' = FALSE
    BY <1>15, <2>1, <2>3 DEF ToggleAutoDo, TypeOK, TransportTypeOK, tvars,
       entries
  <2>. QED  BY <2>1, <2>2, <2>3
<1>16. CASE UNCHANGED vars
  BY <1>16 DEF vars, tvars, entries, TypeOK, TransportTypeOK
<1>. QED  BY <1>2, <1>3, <1>4, <1>5, <1>6, <1>7, <1>8, <1>9, <1>10, <1>11,
             <1>12, <1>13, <1>14, <1>15, <1>16 DEF Next

(***************************************************************************)
(* Every reachable state of the I/O panel is well typed: whatever the      *)
(* operator types into the editable comboboxes and however the Auto DO     *)
(* checkbox and its 500 ms jobs interleave, the requests on the bus are    *)
(* 16-bit frames and Tk holds between 0 and MaxAutoDoJobs loop jobs.       *)
(***************************************************************************)
THEOREM IoTypeCorrect == Spec => []TypeOK
<1>1. Init => TypeOK  BY IoInitTypeOK
<1>2. TypeOK /\ [Next]_vars => TypeOK'  BY IoNextTypeOK
<1>. QED  BY <1>1, <1>2, PTL DEF Spec
-----------------------------------------------------------------------------
(***************************************************************************)
(* No cross-function access, for the slots and channels the comboboxes     *)
(* list.  Every register of a function's region lies at                    *)
(* START + 100 * slot + o with o in that function's band of 1 .. 99; the   *)
(* bands are disjoint, so two regions never share a register.  And every  *)
(* request of a function button lies in its own region (IoBusInRegion).    *)
(***************************************************************************)

\* The in-slot offsets of each function's registers.
IoBand(cmd) ==
    CASE cmd = "DO" -> 1 .. 8
      [] cmd = "DI" -> 9 .. 16
      [] cmd = "ANALOG_SET_MODE" -> 17 .. 20
      [] cmd = "AO_VOLTAGE" -> 37 .. 44
      [] cmd = "AO_CURRENT" -> 45 .. 52
      [] cmd = "AI_VOLTAGE" -> 53 .. 60
      [] cmd = "AI_CURRENT" -> 61 .. 68

\* The bands of two functions never meet, and all lie inside one slot.
LEMMA IoBandsDisjoint ==
    ASSUME NEW c1 \in IoCommands, NEW c2 \in IoCommands, c1 # c2
    PROVE  /\ IoBand(c1) \cap IoBand(c2) = {}
           /\ IoBand(c1) \subseteq 1 .. 99
  BY DEF IoCommands, IoBand

\* A register of the analog region of base `base` sits in base .. base + 7
\* of some listed slot: four ports of two registers each.
AnalogRegion(base) ==
    UNION { Window(IoAddress(s, base, AnalogShift[p] * 2), 2) :
              s \in ListedSlots, p \in AnalogPorts }

LEMMA AnalogRegionBand ==
    ASSUME NEW base \in Int, NEW x \in AnalogRegion(base)
    PROVE  \E s \in ListedSlots :
              x \in Int /\ x - MODBUS_ADDRESS_START - IoSlotStride * s \in base .. base + 7
<1>1. PICK s \in ListedSlots, p \in AnalogPorts :
         x \in Window(IoAddress(s, base, AnalogShift[p] * 2), 2)
  BY DEF AnalogRegion
<1>2. AnalogShift[p] \in 0 .. 3
  BY DEF AnalogPorts, AnalogShift
<1>3. x \in Int /\ x - MODBUS_ADDRESS_START - IoSlotStride * s \in base .. base + 7
  BY <1>1, <1>2 DEF Window, IoAddress, MODBUS_ADDRESS_START, IoSlotStride,
                    ListedSlots
<1>. QED  BY <1>3

\* Each register of a function's region sits in that function's band of
\* some listed slot.
LEMMA IoRegionBand ==
    ASSUME NEW cmd \in IoCommands, NEW x \in IoRegion(cmd)
    PROVE  \E s \in ListedSlots :
              x \in Int /\ x - MODBUS_ADDRESS_START - IoSlotStride * s \in IoBand(cmd)
<1>1. CASE cmd = "DO"
  BY <1>1 DEF IoRegion, IoAddress, MODBUS_ADDRESS_START, IoSlotStride,
              ListedSlots, ListedChannels, IoBand, MODBUS_ADDRESS_DO
<1>2. CASE cmd = "DI"
  BY <1>2 DEF IoRegion, IoAddress, MODBUS_ADDRESS_START, IoSlotStride,
              ListedSlots, ListedChannels, IoBand, MODBUS_ADDRESS_DI
<1>3. CASE cmd = "ANALOG_SET_MODE"
  <2>1. PICK s \in ListedSlots, p \in AnalogPorts :
           x = IoAddress(s, MODBUS_ADDRESS_ANALOG_MODE[p], 0)
    BY <1>3 DEF IoRegion
  <2>2. MODBUS_ADDRESS_ANALOG_MODE[p] \in 17 .. 20
    BY DEF MODBUS_ADDRESS_ANALOG_MODE, AnalogPorts, AnalogShift
  <2>3. x \in Int /\ x - MODBUS_ADDRESS_START - IoSlotStride * s \in IoBand(cmd)
    BY <1>3, <2>1, <2>2 DEF IoAddress, MODBUS_ADDRESS_START, IoSlotStride,
                            ListedSlots, IoBand
  <2>. QED  BY <2>3
<1>4. CASE cmd = "AO_VOLTAGE"
  <2>1. x \in AnalogRegion(37)
    BY <1>4 DEF IoRegion, AnalogRegion, MODBUS_ADDRESS_AO_VOLTAGE
  <2>2. \E s \in ListedSlots :
           x \in Int /\ x - MODBUS_ADDRESS_START - IoSlotStride * s \in 37 .. 44
    BY <2>1, AnalogRegionBand
  <2>. QED  BY <1>4, <2>2 DEF IoBand
<1>5. CASE cmd = "AO_CURRENT"
  <2>1. x \in AnalogRegion(45)
    BY <1>5 DEF IoRegion, AnalogRegion, MODBUS_ADDRESS_AO_CURRENT
  <2>2. \E s \in ListedSlots :
           x \in Int /\ x - MODBUS_ADDRESS_START - IoSlotStride * s \in 45 .. 52
    BY <2>1, AnalogRegionBand
  <2>. QED  BY <1>5, <2>2 DEF IoBand
<1>6. CASE cmd = "AI_VOLTAGE"
  <2>1. x \in AnalogRegion(53)
    BY <1>6 DEF IoRegion, AnalogRegion, MODBUS_ADDRESS_AI_VOLTAGE
  <2>2. \E s \in ListedSlots :
           x \in Int /\ x - MODBUS_ADDRESS_START - IoSlotStride * s \in 53 .. 60
    BY <2>1, AnalogRegionBand
  <2>. QED  BY <1>6, <2>2 DEF IoBand
<1>7. CASE cmd = "AI_CURRENT"
  <2>1. x \in AnalogRegion(61)
    BY <1>7 DEF IoRegion, AnalogRegion, MODBUS_ADDRESS_AI_CURRENT
  <2>2. \E s \in ListedSlots :
           x \in Int /\ x - MODBUS_ADDRESS_START - IoSlotStride * s \in 61 .. 68
    BY <2>1, AnalogRegionBand
  <2>. QED  BY <1>7, <2>2 DEF IoBand
<1>. QED  BY <1>1, <1>2, <1>3, <1>4, <1>5, <1>6, <1>7 DEF IoCommands

\* The regions of two different I/O functions share no register.
LEMMA IoRegionsDisjoint ==
    ASSUME NEW c1 \in IoCommands, NEW c2 \in IoCommands, c1 # c2
    PROVE  IoRegion(c1) \cap IoRegion(c2) = {}
<1> SUFFICES ASSUME NEW x \in IoRegion(c1), x \in IoRegion(c2) PROVE FALSE
  OBVIOUS
<1>1. PICK s1 \in ListedSlots :
         x \in Int /\ x - MODBUS_ADDRESS_START - IoSlotStride * s1 \in IoBand(c1)
  BY IoRegionBand
<1>2. PICK s2 \in ListedSlots :
         x - MODBUS_ADDRESS_START - IoSlotStride * s2 \in IoBand(c2)
  BY IoRegionBand
<1>3. IoBand(c1) \subseteq 1 .. 99 /\ IoBand(c2) \subseteq 1 .. 99
  BY IoBandsDisjoint
<1>4. s1 = s2
  BY <1>1, <1>2, <1>3 DEF ListedSlots, IoSlotStride, MODBUS_ADDRESS_START
<1>. QED  BY <1>1, <1>2, <1>4, IoBandsDisjoint

\* The slots and channels the comboboxes list (the hypothesis of the
\* no-cross-function theorems: a typed number is the violation run).
ListedEntries == Slots \subseteq ListedSlots /\ Channels \subseteq ListedChannels

\* A step puts on the bus a request of handler c inside c's region.
SendsInRegion(c) == bus'.cmd = c /\ Touched(bus') \subseteq IoRegion(c)

\* A step that leaves the bus alone or sends inside its handler's region
\* keeps IoBusInRegion.
LEMMA KeepsBusInRegion ==
    ASSUME IoBusInRegion, NEW c, bus' = bus \/ SendsInRegion(c)
    PROVE  IoBusInRegion'
  BY DEF IoBusInRegion, SendsInRegion

\* DO_button_cmd's write, from listed entries, lands in the DO region.
LEMMA DoWriteInRegion ==
    ASSUME TypeOK, ListedEntries, DoWrite
    PROVE  bus' = bus \/ SendsInRegion("DO")
<1>1. slotEntry \in ListedSlots /\ numberEntry \in ListedChannels /\ doValueEntry \in Int
  BY IoEntryDomains DEF TypeOK, ListedEntries
<1>2. DEFINE a == IoAddress(slotEntry, MODBUS_ADDRESS_DO, numberEntry)
<1>3. a \in Int /\ a \in IoRegion("DO")
  BY <1>1 DEF IoRegion, IoAddress, MODBUS_ADDRESS_START, IoSlotStride,
              MODBUS_ADDRESS_DO, ListedSlots, ListedChannels
<1>4. bus' = bus \/ bus' = Req("DO", "write_register", a, doValueEntry, << doValueEntry >>)
  BY WriteRegisterBus DEF DoWrite
<1>5. Touched(Req("DO", "write_register", a, doValueEntry, << doValueEntry >>)) = {a}
  BY <1>3, TouchedWriteRegister
<1>6. Req("DO", "write_register", a, doValueEntry, << doValueEntry >>).cmd = "DO"
  BY DEF Req
<1>. QED  BY <1>3, <1>4, <1>5, <1>6 DEF SendsInRegion

\* DI_button_cmd's one-register read, from listed entries, is a DI register.
LEMMA DiReadInRegion ==
    ASSUME TypeOK, ListedEntries,
           ReadHoldingRegisters("DI", IoAddress(slotEntry, MODBUS_ADDRESS_DI, numberEntry), 1)
    PROVE  bus' = bus \/ SendsInRegion("DI")
<1>1. slotEntry \in ListedSlots /\ numberEntry \in ListedChannels
  BY DEF TypeOK, ListedEntries
<1>2. DEFINE a == IoAddress(slotEntry, MODBUS_ADDRESS_DI, numberEntry)
<1>3. a \in Int /\ Window(a, 1) \subseteq IoRegion("DI")
  BY <1>1 DEF IoRegion, IoAddress, MODBUS_ADDRESS_START, IoSlotStride,
              MODBUS_ADDRESS_DI, ListedSlots, ListedChannels, Window
<1>4. bus' = bus \/ bus' = Req("DI", "read", a, 1, << >>)
  BY ReadBus
<1>5. Touched(Req("DI", "read", a, 1, << >>)) = Window(a, 1)
  BY <1>3, TouchedRead
<1>6. Req("DI", "read", a, 1, << >>).cmd = "DI"
  BY DEF Req
<1>. QED  BY <1>3, <1>4, <1>5, <1>6 DEF SendsInRegion

\* The two-register window of a listed port of a listed slot lies in the
\* analog region of its base.
LEMMA AnalogWindowInRegion ==
    ASSUME TypeOK, ListedEntries, NEW base \in Int, NEW port \in AnalogPorts
    PROVE  /\ AnalogAddress(base, port) \in Int
           /\ Window(AnalogAddress(base, port), 2) \subseteq AnalogRegion(base)
<1>1. slotEntry \in ListedSlots
  BY DEF TypeOK, ListedEntries
<1>2. AnalogShift[port] \in Int
  BY AnalogTablesInt
<1>3. AnalogAddress(base, port) \in Int
  BY <1>1, <1>2 DEF AnalogAddress, IoAddress, MODBUS_ADDRESS_START, IoSlotStride,
                    ListedSlots
<1>. QED  BY <1>1, <1>3 DEF AnalogAddress, AnalogRegion

\* The region of each analog handler is the analog region of its base.
LEMMA AnalogRegions ==
    /\ IoRegion("AO_VOLTAGE") = AnalogRegion(MODBUS_ADDRESS_AO_VOLTAGE)
    /\ IoRegion("AO_CURRENT") = AnalogRegion(MODBUS_ADDRESS_AO_CURRENT)
    /\ IoRegion("AI_VOLTAGE") = AnalogRegion(MODBUS_ADDRESS_AI_VOLTAGE)
    /\ IoRegion("AI_CURRENT") = AnalogRegion(MODBUS_ADDRESS_AI_CURRENT)
  BY DEF IoRegion, AnalogRegion

\* An AO button's two-register write, for a listed port, lands in its region.
LEMMA AoWriteInRegion ==
    ASSUME TypeOK, ListedEntries,
           NEW cmd, NEW base \in Int, IoRegion(cmd) = AnalogRegion(base),
           NEW port, NEW v, AoButton(cmd, base, port, v)
    PROVE  bus' = bus \/ SendsInRegion(cmd)
<1>1. port \in AnalogPorts  BY DEF AoButton
<1>2. bus' = bus \/ bus' = Req(cmd, "write_registers", AnalogAddress(base, port), v, Encode32(v))
  BY WriteRegistersBus DEF AoButton
<1>3. AnalogAddress(base, port) \in Int
      /\ Window(AnalogAddress(base, port), 2) \subseteq IoRegion(cmd)
  BY <1>1, AnalogWindowInRegion
<1>4. Touched(Req(cmd, "write_registers", AnalogAddress(base, port), v, Encode32(v)))
        = Window(AnalogAddress(base, port), 2)
  BY <1>3, TouchedWriteRegisters
<1>5. Req(cmd, "write_registers", AnalogAddress(base, port), v, Encode32(v)).cmd = cmd
  BY DEF Req
<1>. QED  BY <1>2, <1>3, <1>4, <1>5 DEF SendsInRegion

\* An AI button's two-register read, for a listed port, lies in its region.
LEMMA AiReadInRegion ==
    ASSUME TypeOK, ListedEntries,
           NEW cmd, NEW base \in Int, IoRegion(cmd) = AnalogRegion(base),
           NEW port, AiButton(cmd, base, port)
    PROVE  bus' = bus \/ SendsInRegion(cmd)
<1>1. port \in AnalogPorts  BY DEF AiButton
<1>2. bus' = bus \/ bus' = Req(cmd, "read", AnalogAddress(base, port), 2, << >>)
  BY ReadBus DEF AiButton
<1>3. AnalogAddress(base, port) \in Int
      /\ Window(AnalogAddress(base, port), 2) \subseteq IoRegion(cmd)
  BY <1>1, AnalogWindowInRegion
<1>4. Touched(Req(cmd, "read", AnalogAddress(base, port), 2, << >>))
        = Window(AnalogAddress(base, port), 2)
  BY <1>3, TouchedRead
<1>5. Req(cmd, "read", AnalogAddress(base, port), 2, << >>).cmd = cmd
  BY DEF Req
<1>. QED  BY <1>2, <1>3, <1>4, <1>5 DEF SendsInRegion

\* ANALOG_SET_MODE_button_cmd writes the mode register of a listed port.
LEMMA SetModeInRegion ==
    ASSUME TypeOK, ListedEntries, NEW port, NEW mode, AnalogSetMode(port, mode)
    PROVE  bus' = bus \/ SendsInRegion("ANALOG_SET_MODE")
<1>1. port \in AnalogPorts /\ slotEntry \in ListedSlots
  BY DEF AnalogSetMode, TypeOK, ListedEntries
<1>2. DEFINE a == IoAddress(slotEntry, MODBUS_ADDRESS_ANALOG_MODE[port], 0)
<1>3. a \in Int /\ a \in IoRegion("ANALOG_SET_MODE")
  <2>1. MODBUS_ADDRESS_ANALOG_MODE[port] \in Int  BY <1>1, AnalogTablesInt
  <2>2. a \in Int
    BY <1>1, <2>1 DEF IoAddress, MODBUS_ADDRESS_START, IoSlotStride, ListedSlots
  <2>. QED  BY <1>1, <2>2 DEF IoRegion
<1>4. bus' = bus \/ bus' = Req("ANALOG_SET_MODE", "write_register", a,
                               AnalogModeValue[mode], << AnalogModeValue[mode] >>)
  BY WriteRegisterBus DEF AnalogSetMode
<1>5. Touched(Req("ANALOG_SET_MODE", "write_register", a, AnalogModeValue[mode],
                 << AnalogModeValue[mode] >>)) = {a}
  BY <1>3, TouchedWriteRegister
<1>6. Req("ANALOG_SET_MODE", "write_register", a, AnalogModeValue[mode],
          << AnalogModeValue[mode] >>).cmd = "ANALOG_SET_MODE"
  BY DEF Req
<1>. QED  BY <1>3, <1>4, <1>5, <1>6 DEF SendsInRegion

\* auto_do_loop's body sends nothing or DO_button_cmd's write.
LEMMA AutoDoBodyInRegion ==
    ASSUME TypeOK, ListedEntries, NEW jobs, AutoDoLoopBody(jobs)
    PROVE  bus' = bus \/ SendsInRegion("DO")
<1>1. CASE UNCHANGED tvars  BY <1>1 DEF tvars
<1>2. CASE DoWrite  BY <1>2, DoWriteInRegion
<1>. QED  BY <1>1, <1>2 DEF AutoDoLoopBody

(***************************************************************************)
(* Every step of the panel keeps IoBusInRegion, for listed entries: each    *)
(* function button sends inside its region, the manual read and the        *)
(* transport's own steps send nothing an I/O function owns.                *)
(***************************************************************************)
LEMMA IoNextBusInRegion ==
    ASSUME ListedEntries, TypeOK, IoBusInRegion, [Next]_vars
    PROVE  IoBusInRegion'
<1>1. CASE TransportNext /\ UNCHANGED << entries, autoDo, doJobs >>
  BY <1>1, TransportNextBus, KeepsBusInRegion
<1>2. CASE \/ \E e \in SlaveIds \cup {NotAnInt} : EditSlaveId(e)
           \/ \E e \in Slots : EditSlot(e)
           \/ \E e \in Channels : EditNumber(e)
           \/ \E e \in DoValues : EditDoValue(e)
  <2>1. bus' = bus
    BY <1>2 DEF EditSlaveId, EditSlot, EditNumber, EditDoValue, tvars
  <2>. QED  BY <2>1, KeepsBusInRegion
<1>3. CASE DoButton
  BY <1>3, DoWriteInRegion, KeepsBusInRegion DEF DoButton
<1>4. CASE DiButton
  BY <1>4, DiReadInRegion, KeepsBusInRegion DEF DiButton
<1>5. ASSUME NEW port, NEW v,
             \/ AoButton("AO_VOLTAGE", MODBUS_ADDRESS_AO_VOLTAGE, port, v)
             \/ AoButton("AO_CURRENT", MODBUS_ADDRESS_AO_CURRENT, port, v)
      PROVE  IoBusInRegion'
  <2>1. MODBUS_ADDRESS_AO_VOLTAGE \in Int /\ MODBUS_ADDRESS_AO_CURRENT \in Int
    BY DEF MODBUS_ADDRESS_AO_VOLTAGE, MODBUS_ADDRESS_AO_CURRENT
  <2>. QED  BY <1>5, <2>1, AnalogRegions, AoWriteInRegion, KeepsBusInRegion
<1>6. ASSUME NEW port,
             \/ AiButton("AI_VOLTAGE", MODBUS_ADDRESS_AI_VOLTAGE, port)
             \/ AiButton("AI_CURRENT", MODBUS_ADDRESS_AI_CURRENT, port)
      PROVE  IoBusInRegion'
  <2>1. MODBUS_ADDRESS_AI_VOLTAGE \in Int /\ MODBUS_ADDRESS_AI_CURRENT \in Int
    BY DEF MODBUS_ADDRESS_AI_VOLTAGE, MODBUS_ADDRESS_AI_CURRENT
  <2>. QED  BY <1>6, <2>1, AnalogRegions, AiReadInRegion, KeepsBusInRegion
<1>7. CASE \E mode \in AnalogModes \cup {OtherText} : AnalogSetModeInvalid(mode)
  BY <1>7, KeepsBusInRegion DEF AnalogSetModeInvalid
<1>8. ASSUME NEW port, NEW mode, AnalogSetMode(port, mode)
      PROVE  IoBusInRegion'
  BY <1>8, SetModeInRegion, KeepsBusInRegion
<1>9. ASSUME NEW a, NEW q, ManualReadButton(a, q)
      PROVE  IoBusInRegion'
  <2>1. bus' = bus \/ bus' = Req("manual", "read", a, q, << >>)
    BY <1>9, ReadBus DEF ManualReadButton
  <2>2. "manual" \notin IoCommands  BY DEF IoCommands
  <2>. QED  BY <2>1, <2>2 DEF IoBusInRegion, Req
<1>10. CASE AutoDoLoopFires
  <2>1. bus' = bus \/ SendsInRegion("DO")
    BY <1>10, AutoDoBodyInRegion DEF AutoDoLoopFires, tvars
  <2>. QED  BY <2>1, KeepsBusInRegion
<1>11. CASE ToggleAutoDo
  <2>1. bus' = bus \/ SendsInRegion("DO")
    BY <1>11, AutoDoBodyInRegion DEF ToggleAutoDo, tvars
  <2>. QED  BY <2>1, KeepsBusInRegion
<1>12. CASE UNCHANGED vars
  BY <1>12, KeepsBusInRegion DEF vars, tvars
<1>. QED  BY <1>1, <1>2, <1>3, <1>4, <1>5, <1>6, <1>7, <1>8, <1>9, <1>10,
             <1>11, <1>12 DEF Next

\* The two halves of NoCrossFunctionAccess: in its own region, and regions
\* disjoint.
LEMMA InRegionNoCross ==
    ASSUME TypeOK, IoBusInRegion
    PROVE  NoCrossFunctionAccess
<1> SUFFICES ASSUME bus # NoRequest, bus.cmd \in IoCommands,
                    NEW other \in IoCommands \ {bus.cmd}
             PROVE  Touched(bus) \cap IoRegion(other) = {}
  BY DEF NoCrossFunctionAccess
<1>1. Touched(bus) \subseteq IoRegion(bus.cmd)  BY DEF IoBusInRegion
<1>2. IoRegion(bus.cmd) \cap IoRegion(other) = {}  BY IoRegionsDisjoint
<1>. QED  BY <1>1, <1>2

(***************************************************************************)
(* For every set of ports and entry values, as long as the slot and        *)
(* channel comboboxes offer only the listed 0 .. 3 and 0 .. 7: every        *)
(* request DO_button_cmd (by hand or from auto_do_loop), DI_button_cmd,     *)
(* the AO/AI buttons and ANALOG_SET_MODE_button_cmd put on the bus lies in  *)
(* that function's own registers.  The invariant is inductive once TypeOK   *)
(* is known: a step either sends nothing or sends one request, whose        *)
(* registers the address formula of its handler places in the region.      *)
(***************************************************************************)
THEOREM IoBusInRegionInvariant ==
    ASSUME Slots \subseteq ListedSlots, Channels \subseteq ListedChannels
    PROVE  Spec => []IoBusInRegion
<1>1. Init => IoBusInRegion
  BY DEF Init, TransportInit, IoBusInRegion
<1>2. TypeOK /\ IoBusInRegion /\ [Next]_vars => IoBusInRegion'
  BY IoNextBusInRegion DEF ListedEntries
<1>. QED  BY <1>1, <1>2, IoTypeCorrect, PTL DEF Spec

(***************************************************************************)
(* Spec 8 for the listed slots and channels: no request of one I/O         *)
(* function's button ever touches a register of another function.  It      *)
(* follows from IoBusInRegion and the regions being pairwise disjoint: the  *)
(* bands of 1 .. 99 of the functions inside one slot never meet, and slots  *)
(* are 100 registers apart.  (With a typed channel number the property      *)
(* fails: that is the violation run io_typed_channel.)                     *)
(***************************************************************************)
THEOREM IoNoCrossFunctionAccess ==
    ASSUME Slots \subseteq ListedSlots, Channels \subseteq ListedChannels
    PROVE  Spec => []NoCrossFunctionAccess
<1>1. TypeOK /\ IoBusInRegion => NoCrossFunctionAccess
  BY InRegionNoCross
<1>. QED  BY <1>1, IoTypeCorrect, IoBusInRegionInvariant, PTL

=============================================================================
