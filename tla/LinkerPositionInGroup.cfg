CONSTANTS
    Modulus = 16
    EntryPoint = 1
    CodeImage = "code"
    DataImage = "data"
    ConstImage = "data"
    Programs <- Groups
SPECIFICATION Spec
INVARIANTS
    PositionInGroup
CHECK_DEADLOCK FALSE
