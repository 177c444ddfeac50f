SPECIFICATION Spec
CONSTANT Modulus = 8
INVARIANTS
    Canonical
    Represents
    OverlapsIsExact
CHECK_DEADLOCK FALSE
