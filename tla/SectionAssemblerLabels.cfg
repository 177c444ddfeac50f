CONSTANTS
    Origin = 2
    Inlined = TRUE
    InstructionAlignment = 2
    SectionAlignment = 2
    Reach <- ShortReach
    Programs <- Branches
SPECIFICATION Spec
INVARIANTS
    LabelsResolve
CHECK_DEADLOCK FALSE
