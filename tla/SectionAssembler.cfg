CONSTANTS
    Origin = 0
    Inlined = FALSE
    InstructionAlignment = 2
    SectionAlignment = 2
    Reach <- ShortReach
    Programs <- AllPrograms
SPECIFICATION Spec
INVARIANTS
    BranchesMatch
    AssertionsHold
    MalformedRejected
    LabelsMatch
    UniqueLabels
    AttributesMatch
    SpecifiedOnce
CHECK_DEADLOCK FALSE
