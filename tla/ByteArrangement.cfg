SPECIFICATION Spec
CONSTANTS
    Modulus = 32
    Origins = {0, 3, 8, 14, 30}
    Alignments = {1, 4}
    Sizes = {0, 1, 3}
    MaxSections = 4
    Bank = 8
    Banks = 4
    RecordLength = 4
INVARIANTS
    SectionsDisjoint
    PlacedAsRequired
    DesignateInBounds
    InOrder
    NextFitIsFirst
    ImageProgrammed
CHECK_DEADLOCK FALSE
