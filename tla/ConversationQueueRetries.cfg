SPECIFICATION Spec
CONSTANTS
    b1 = b1
    b2 = b2
    m1 = m1
    m2 = m2
    Bridges = {b1}
    Messages = {m1, m2}
    MaxRetries = 1
    MaxLeft = 1
    QueueLimit = 2
    Commands <- AllCommands
    Faults = TRUE
    Nobody = Nobody
    None = None
INVARIANTS OneVersionQueued
PROPERTIES CommandsEnd
CHECK_DEADLOCK FALSE
