\* seeds() against the specification when MEM_PORT is left at its default.
CONSTANTS
    Alphabet <- MCAlphabet
    MaxLen = 4
    DefaultGddMemPort = 12
    GddMemPort = 12
SPECIFICATION Spec
CHECK_DEADLOCK FALSE
INVARIANTS
    TypeOK
    SeedsAsSpecified
PROPERTIES
    LoopRefinement
