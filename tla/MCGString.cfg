SPECIFICATION Spec
CONSTANTS
    a = a
    b = b
    c = c
    b1 = b1
    b2 = b2
    b3 = b3
    stack = stack
    literal = literal
    Null = Null
    Junk = "junk"
    Names <- TwoNames
    Blocks <- TwoBlocks
    Stacks <- OneStack
    Literals <- OneLiteral
    Static <- TheStatic
    Texts <- TheTexts
    Numbers <- TheNumbers
    Digit <- TheDigits
    NumberRoom = 3
    Times <- TheTimes
    TimeMin = 2
    TimeMax = 2
    LengthBits = 2
    Habits = {}
VIEW Seen
SYMMETRY Symmetric
INVARIANTS
    OneOwner
    NoLeak
    InBounds
PROPERTIES
    IsValue
CHECK_DEADLOCK FALSE
