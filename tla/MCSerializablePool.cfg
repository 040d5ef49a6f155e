SPECIFICATION Spec
CONSTANTS
    Handles = {h1, h2}
    Impls = {i1, i2, i3}
    Null = Null
    Values <- MCValues
    Pad <- MCPad
    MaxFields = 2
SYMMETRY Alike
INVARIANTS WellFormed LastSaved IndexCurrent
