SPECIFICATION Spec
CONSTANTS
    None = None
    RepairRounds = 1
    MaxAttempts = 2
    MaxEdits = 1
    MaxReviews = 1
INVARIANTS
    TypeOK
    VerifiedIsWhatWasReviewed
    
CHECK_DEADLOCK FALSE
