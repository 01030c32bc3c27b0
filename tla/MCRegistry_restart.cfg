\* A provider registered before a Shutdown and a new NewNode keeps members the new instance never reports.
CONSTANTS
    n1 = n1
    n2 = n2
    self = self
    sp1 = sp1
    sp2 = sp2
    m1 = m1
    m2 = m2
    Nil = Nil
    Absent = Absent
    Nodes <- MCOneNodes
    Self <- self
    SPs <- MCOneSP
    Metas <- MCMetas
    MaxInc = 1
    MaxNewNode = 2
SYMMETRY MCSymmetry
SPECIFICATION Spec
\* Once MaxNewNode calls are spent and everything is shut down, nothing is left to do.
CHECK_DEADLOCK FALSE
INVARIANTS
    ProviderViewAcrossRestart
