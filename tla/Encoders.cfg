SPECIFICATION Spec
CONSTANTS
    Registers <- MCRegisters
    Fields <- MCFields
    Addresses = {100, 70000}
    Displacements <- MCDisplacements
    Shifts = {0, 3}
    Immediates <- MCImmediates
    Distances <- MCDistances
    Masks <- MCMasks
INVARIANTS
    ReadsBack
    PaddingIsIdle
    FrameUndone
CHECK_DEADLOCK FALSE
