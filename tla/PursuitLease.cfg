SPECIFICATION Spec
CONSTANTS
    Sessions = {s1, s2}
    NoSession = NoSession
    LeaseSeconds = 2
    RenewSeconds = 1
    MaxTime = 3
    MaxFences = 1
    MaxFaults = 1
INVARIANTS TypeOK LossHasCause HeartbeatMatchesLease ChecksFollowEpochs
PROPERTIES HeartbeatMovesOn ClosingEnds
CHECK_DEADLOCK FALSE
