SPECIFICATION MachineSpec
CONSTANTS
    Sizes = {5}
    Executed = {5}
    Abis = {"win64"}
    Signs <- MCSigns
    LeafLog = 3
    MaxLog = 5
    Calls <- MCCalls
    Count <- MCCount
    WsIs <- MCWsIs
INVARIANT NonvolatileKept
