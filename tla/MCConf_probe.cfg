\* MEM_PROBE_TIMEOUT alone varied, probe interval at its default of 1 s: "0" gives a zero timeout, "1" a timeout of 1 s.
CONSTANTS
    Samples <- MCSamples
    VariedKeys <- MCProbeOnly
    Default <- MCDefault
    Hostname <- MCHostname
SPECIFICATION Spec
CHECK_DEADLOCK FALSE
INVARIANTS
    ProbeTimingSane
