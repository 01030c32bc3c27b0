\* seeds() does not turn every field into host:MEM_PORT when the field has no usable port.
CONSTANTS
    Alphabet <- MCAlphabet
    MaxLen = 4
    DefaultGddMemPort = 12
    GddMemPort = 21
SPECIFICATION Spec
CHECK_DEADLOCK FALSE
INVARIANTS
    SeedsAllHavePort
