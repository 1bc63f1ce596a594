SPECIFICATION Spec
CONSTANTS
    e1 = e1
    e2 = e2
    e3 = e3
    p1 = p1
    p2 = p2
    Executors = {e1, e2}
    NoExecutor = none
    Processes = {p1, p2}
    NoProcess = noproc
    ProcessOf <- OneProcess
    ToolActions = {"bash"}
    TaskActions = {"background"}
    DirectActions = {"file"}
    LeaseSeconds = 1
    MaxTime = 0
    MaxIterations = 2
    MaxActions = 2
SYMMETRY Alike
INVARIANTS SafeCheckpointsAreAccounted
CHECK_DEADLOCK FALSE
