CONSTANTS
    p1 = p1
    Ports <- MCPorts
    Slots <- MCSlots
    Channels <- MCChannels
    PressureIds <- MCPressureIds
    FreqValues <- MCFreqValues
    DutyValues <- MCDutyValues
    ManualAddrs <- MCManualAddrs
    Quantities <- MCQuantities
    NoPort = NoPort
    NoClient = NoClient
    NoRequest = NoRequest
SPECIFICATION Spec
INVARIANTS
    TypeOK
    RtdBusInRegion
    RtdNoCrossFunctionAccess
