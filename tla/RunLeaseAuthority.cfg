CONSTANTS
    Owners = {o1, o2}
    NoOwner = NoOwner
    Operations = {p1, p2}
    LeaseSeconds = 2
    ClocksStepBack = FALSE
    MaxTime = 3
    MaxEpoch = 2
SPECIFICATION Spec
SYMMETRY Symmetry
INVARIANTS TypeOK OneOwnerPerEpoch EpochsDoNotInterleave
PROPERTIES EpochAdvances LeaseNotShortened ImplementsFencedOwnership
