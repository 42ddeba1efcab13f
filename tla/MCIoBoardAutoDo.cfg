CONSTANTS
    p1 = p1
    Ports <- MCPorts
    SlaveIds <- MCSlaveIds
    Slots <- MCSlots
    Channels <- MCChannels
    DoValues <- MCDoValues
    AoValues <- MCAoValues
    ManualAddrs <- MCManualAddrs
    Quantities <- MCQuantities
    MaxAutoDoJobs = 2
    NoPort = NoPort
    NoClient = NoClient
    NoRequest = NoRequest
    NotAnInt = NotAnInt
    OtherText = OtherText
SPECIFICATION Spec
INVARIANTS
    SingleAutoDoLoop
