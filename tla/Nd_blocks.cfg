SPECIFICATION NdSpec
CONSTANTS
    Tile = 8
    Requests <- MCBlocks
    NestedMayFail <- MCNoneFails
INVARIANT TransformRight
