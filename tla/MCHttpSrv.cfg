\* Two routes, two user middlewares, up to four calls before Run, every
\* combination of the four environment switches.
CONSTANTS
    r1 = r1
    r2 = r2
    u1 = u1
    u2 = u2
    Routes <- MCRoutes
    UserMws <- MCUserMws
    MaxCalls = 4
    MaxReqs = 2
SPECIFICATION Spec
\* After Run returns the process exits: nothing follows "stopped".
CHECK_DEADLOCK FALSE
INVARIANTS
    TypeOK
    ChainAsDocumented
PROPERTIES
    ShutdownCompletes
