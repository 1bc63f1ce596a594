SPECIFICATION Spec
CONSTANTS
    a1 = a1  a2 = a2  w1 = w1  w2 = w2  u1 = u1
    Attempts = {a1, a2}
    Workers = {}
    Users = {u1}
    NoOne = NoOne
    Outcomes <- OneOutcome
    MaxFailures = 2
    MaxFaults = 0
    MaxRequeues = 0
INVARIANTS ClosedIffDelivered TerminalHasOutbox AtMostOnePending
PROPERTIES OutcomesStay
SYMMETRY AttemptSymmetry
CHECK_DEADLOCK FALSE
