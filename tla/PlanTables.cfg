SPECIFICATION SpecTables
CONSTANTS
    Logs <- MCLogs
    Kinds = {"pow2", "real"}
    Builds <- MCBuilds
    MaxPoints = 32
    LeafLog = 3
INVARIANTS TableComplete WritesInWs TwiddlesFit RealTransform RealInverse
CHECK_DEADLOCK FALSE
