SPECIFICATION Spec
CONSTANTS
    Modulus = 16
    Origins = {0, 3, 12}
    Alignments = {1, 4}
    Sizes = {0, 1, 2, 5}
    MaxSections = 4
INVARIANTS
    DesignateAsserts
CHECK_DEADLOCK FALSE
