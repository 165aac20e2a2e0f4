SPECIFICATION Spec
CONSTANTS
    h1 = h1
    h2 = h2
    h3 = h3
    Handles = {h1, h2}
    NoPlan = NoPlan
    Kinds <- MCBothKinds
    MayFail <- MCTested
    PosixMmap = FALSE
INVARIANTS TypeOK Usable
PROPERTIES ApiImplemented CallsReturn
