CONSTANTS
    Modulus = 16
    EntryPoint = 1
    CodeImage = "code"
    DataImage = "data"
    ConstImage = "data"
    Programs <- AllPrograms
SPECIFICATION Spec
INVARIANTS
    DiscardedIsGone
    GivesWay
    LiveNamesResolve
    InOccurrence
    UsedExactly
    ActivationsDistinct
    GroupTotals
    ResolvedToDefinition
    ExecutesInOrder
PROPERTIES
    Termination
    LinksAsPromised
CHECK_DEADLOCK FALSE
