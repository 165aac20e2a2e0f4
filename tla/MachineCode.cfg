SPECIFICATION MachineSpec
CONSTANTS
    Sizes = {5, 6, 7, 8, 9, 10, 11}
    Executed = {5, 6, 7, 8}
    Abis = {"sysv", "win64"}
    Signs <- MCSigns
    LeafLog = 3
    MaxLog = 11
    Calls <- MCCalls
    Count <- MCCount
    WsIs <- MCWsIs
INVARIANTS TypeOK NeverFaults OperandsRight RegistersRight TargetsAligned RightTransform GeneralRegistersKept ListFits TextFits
PROPERTY ImplementsSubTransforms
