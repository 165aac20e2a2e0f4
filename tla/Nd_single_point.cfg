SPECIFICATION NdSpec
CONSTANTS
    Tile = 1
    Requests <- MCPairs
    NestedMayFail <- MCNoneFails
INVARIANT Complete
