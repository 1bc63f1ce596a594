SPECIFICATION Spec
CONSTANTS
    j1 = j1
    j2 = j2
    r1 = r1
    r2 = r2
    Jobs = {j1, j2}
    Poison = {}
    Runtimes = {r1}
    Nobody = Nobody
    MaxActive = 1
    MaxWaiters = 0
    MaxAttempts = 2
    Faults = FALSE
    LateReceipts = TRUE
PROPERTIES PoisonDoesNotBlock
CHECK_DEADLOCK FALSE
