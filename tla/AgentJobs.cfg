SPECIFICATION Spec
CONSTANTS
    j1 = j1
    j2 = j2
    r1 = r1
    r2 = r2
    Jobs = {j1, j2}
    Poison = {j2}
    Runtimes = {r1, r2}
    Nobody = Nobody
    MaxActive = 1
    MaxWaiters = 1
    MaxAttempts = 2
    Faults = TRUE
    LateReceipts = FALSE
INVARIANTS TypeOK CapacityHeld
PROPERTIES PublicationsSettle WaitersAreServed
CHECK_DEADLOCK FALSE
