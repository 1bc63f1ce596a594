SPECIFICATION Spec
CONSTANTS
    b1 = b1
    b2 = b2
    m1 = m1
    m2 = m2
    Bridges = {b1, b2}
    Messages = {m1, m2}
    MaxRetries = 0
    MaxLeft = 2
    QueueLimit = 2
    Commands <- AllCommands
    Faults = TRUE
    Nobody = Nobody
    None = None
SYMMETRY Symmetry
INVARIANTS TypeOK RunsOnce UnsentNeverRuns
PROPERTIES OutcomesStay
CHECK_DEADLOCK FALSE
