SPECIFICATION Spec
CONSTANTS
    a1 = a1  a2 = a2  w1 = w1  w2 = w2  u1 = u1
    Attempts = {a1}
    Workers = {w1, w2}
    Users = {}
    NoOne = NoOne
    Outcomes <- EndingOutcomes
    MaxFailures = 2
    MaxFaults = 2
    MaxRequeues = 1
INVARIANTS TypeOK DecidedAtRest DeadLetterHasCause
PROPERTIES ClaimsAreKept PendingSettles
CHECK_DEADLOCK FALSE
