SPECIFICATION NdSpec
CONSTANTS
    Tile = 1
    Requests <- MCCubes
    NestedMayFail <- MCNoneFails
INVARIANT NoDoubleFree
