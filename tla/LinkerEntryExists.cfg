CONSTANTS
    Modulus = 16
    EntryPoint = 1
    CodeImage = "code"
    DataImage = "data"
    ConstImage = "data"
    Programs <- Conditionals
SPECIFICATION Spec
INVARIANTS
    EntryExists
CHECK_DEADLOCK FALSE
