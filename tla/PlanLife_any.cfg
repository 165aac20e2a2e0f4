SPECIFICATION Spec
CONSTANTS
    h1 = h1
    h2 = h2
    h3 = h3
    Handles = {h1, h2, h3}
    NoPlan = NoPlan
    Kinds <- MCDynamicKinds
    MayFail <- MCAny
    PosixMmap = TRUE
INVARIANTS OnlyUntestedCrash NoDoubleFree NestedOwned
SYMMETRY Symmetry
CHECK_DEADLOCK FALSE
