SPECIFICATION FairSpec
CONSTANTS
    r1 = r1
    r2 = r2
    s1 = s1
    None = None
    Stranger = Stranger
    Runners = {r1, r2}
    Sessions = {s1}
INVARIANTS
    TypeOK
    
    SuitesStayApart
    
    
    

    
CHECK_DEADLOCK FALSE
