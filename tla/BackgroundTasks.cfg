SPECIFICATION Spec
CONSTANTS
    Runners = {r1}
    NoRunner = NoRunner
    Keys = {k1}
    NoKey = NoKey
    Calls = {c1, c2}
    Operations = {"unkeyed", "cancel", "cleanup", "shutdown", "restart"}
    MaxTasks = 2
    MaxSpawns = 2
INVARIANTS TypeOK KeyStartsOneProcess FinishedIsStopped RunningIsWatched
PROPERTIES TasksEnd
CHECK_DEADLOCK FALSE
