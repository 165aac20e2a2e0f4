SPECIFICATION PlanSpec
CONSTANTS
    TableSizes <- MCTableSizes
    Nums <- MCNums
    Dens <- MCDens
INVARIANTS AngleExact InTable TableInBounds TableComplete Convolves NoOldValues
PROPERTY PlansGetReady
CHECK_DEADLOCK FALSE
