SPECIFICATION Spec
CONSTANTS
    None = None
    RepairRounds = 1
    MaxAttempts = 1
    MaxEdits = 1
    MaxReviews = 1
INVARIANT
    ChangedCapturesInvalidate
CHECK_DEADLOCK FALSE
