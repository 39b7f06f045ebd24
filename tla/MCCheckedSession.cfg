SPECIFICATION Spec
CONSTANTS
    c1 = c1
    c2 = c2
    n1 = n1
    n2 = n2
    k1 = k1
    k2 = k2
    d1 = d1
    this = this
    other = other
    None = None
    Cases = {c1, c2}
    Nodes = {n1, n2}
    Checks = {k1, k2}
    Data = {d1}
    Ids = {this, other}
    MaxTroubles = 1
    MaxSlips = 1
SYMMETRY Symmetry
INVARIANTS
    TypeOK
    PassIsEarned
    
    HonestSessionIsDecided
    ChecksAreEarned
    FaithfulSuiteIsAccepted
CHECK_DEADLOCK FALSE
