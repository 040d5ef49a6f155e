SPECIFICATION Spec
CONSTANTS
    NULL = NULL
    a = a
    b = b
    Names <- TwoNames
    Types <- AllTypes
    Settings <- FewSettings
    Newer <- NewerFields
    MaxDepth = 1
    MaxWeight = 2
    MaxGrown = 3
SYMMETRY Renamings
INVARIANT SizesAgree
PROPERTY IsValue
