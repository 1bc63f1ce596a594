SPECIFICATION Spec
CONSTANTS
    e1 = e1
    e2 = e2
    e3 = e3
    p1 = p1
    p2 = p2
    Executors = {e1, e2}
    NoExecutor = none
    Processes = {p1, p2}
    NoProcess = noproc
    ProcessOf <- TwoProcesses
    ToolActions = {"bash"}
    TaskActions = {}
    DirectActions = {}
    LeaseSeconds = 1
    MaxTime = 1
    MaxIterations = 1
    MaxActions = 1
INVARIANTS TerminalAgrees
CHECK_DEADLOCK FALSE
