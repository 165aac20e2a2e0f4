SPECIFICATION NdSpec
CONSTANTS
    Tile = 1
    Requests <- MCPlans
    NestedMayFail <- MCRealFails
INVARIANTS TypeOK NoDoubleFree NoLeak Complete StaysInArrays TransformRight
