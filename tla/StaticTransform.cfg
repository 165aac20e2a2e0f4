SPECIFICATION Spec
CONSTANTS
    Logs = {1, 2, 3, 4, 5, 6, 7, 8}
    LeafLog = 3
    MaxLog = 8
INVARIANTS TransformRight
PROPERTY ImplementsSubTransforms
