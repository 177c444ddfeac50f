SPECIFICATION Spec
CONSTANTS
    Projects <- MCProjects
    Main <- MCMain
    SourceDirectories <- MCSourceDirectories
    HeaderDirectories <- MCHeaderDirectories
    MaxNesting = 4
    Decide <- Decided
    Predefined <- MCPredefined
    Joins <- MCJoins
    MaxLength = 30
INVARIANTS
    Preprocessed
    ResumesBehindInclude
PROPERTIES
    SourceKept
    Termination
CHECK_DEADLOCK FALSE
