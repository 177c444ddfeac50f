CONSTANTS
    Modulus = 16
    EntryPoint = 1
    CodeImage = "code"
    DataImage = "data"
    ConstImage = "data"
    Programs <- Directory
SPECIFICATION Spec
INVARIANTS
    AliasesRedirected
CHECK_DEADLOCK FALSE
