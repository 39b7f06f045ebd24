CONSTANTS
    c1 = c1
    c2 = c2
    r1 = r1
    r2 = r2
    q1 = q1
    q2 = q2
    v1 = v1
    v2 = v2
    Callers = {c1, c2}
    Runs = {r1}
    Generated = {r1}
    Requests = {q1, q2}
    Values = {v1, v2}
    None = None
    MaxInvocations = 3
SPECIFICATION Spec
SYMMETRY Symmetry
INVARIANTS TypeOK OneAttemptPerRequest CompletedNamesOwnAttempt NoVerdictOverLostAttempt
PROPERTIES NoAttemptBesideUncertain DecisionsAreFinal CachedAnswerIsBacked KeepsPromise
