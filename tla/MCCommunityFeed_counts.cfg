SPECIFICATION Spec
CONSTANTS
    p1 = p1
    p2 = p2
    None = None
    Pages = {p1, p2}
    Slots = {"load", "search", "act"}
    MaxPosts = 2
    MaxImages = 1
    MaxComments = 2
    MaxRequests = 4
    MaxFaults = 1
SYMMETRY Symmetry
INVARIANTS
    CountsAgree
CHECK_DEADLOCK FALSE
