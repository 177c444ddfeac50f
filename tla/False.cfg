SPECIFICATION Spec
CONSTANTS
    Programs <- MCPrograms
    Inputs <- MCInputs
    Reserve = 8
    Words = 18
    Width = 6
INVARIANT SavedBalanced
PROPERTY Interprets
CHECK_DEADLOCK FALSE
