SPECIFICATION CompilationSpec
CONSTANTS
    RMax = 2
    PMax = 2
    Width = 2
    Nothing = Nothing
    Unmapped = Unmapped
    Unsupported = {"SUB"}
    Slots = {1, 2, 3}
    Memory <- MCMemory
    Clients <- MCClients
    Sections <- MCSections
    RepeatedModulo = FALSE
INVARIANTS TypeOK MappedWhileNeeded MappedApart NeverStale SectionAccepted RegistersCounted
PROPERTY Evaluates
CHECK_DEADLOCK FALSE
