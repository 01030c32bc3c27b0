\* A membership edge between seeding and subscribing a provider is lost (one NewNode call).
CONSTANTS
    n1 = n1
    n2 = n2
    self = self
    sp1 = sp1
    sp2 = sp2
    m1 = m1
    m2 = m2
    Nil = Nil
    Absent = Absent
    Nodes <- MCOneNodes
    Self <- self
    SPs <- MCOneSP
    Metas <- MCMetas
    MaxInc = 1
    MaxNewNode = 1
SYMMETRY MCSymmetry
SPECIFICATION Spec
CHECK_DEADLOCK FALSE
INVARIANTS
    RegisterAtomic
