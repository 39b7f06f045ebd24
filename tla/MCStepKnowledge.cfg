SPECIFICATION Spec
CONSTANTS
    p1 = p1
    p2 = p2
    a = a
    None = None
    Promoters = {p1, p2}
    Steps = {a}
    RepairRounds = 1
    MaxAttempts = 3
    MaxEdits = 2
SYMMETRY Symmetry
INVARIANTS
    RunnerTypeOK
    RepairsAreBounded
    
    
PROPERTIES
    
    KnowledgeIsKept
CHECK_DEADLOCK FALSE
