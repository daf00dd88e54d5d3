CONSTANTS
    NumRoots = 3
    ConfigRoot = 2
    AgentRoot = 3
    MaxRelease = 2
    Scheduler = scheduler
    Triggers = {trigger1}
    NoTask = noTask
    MaxRetries = 1
    Withdrawals = FALSE
    CrashPhases <- MCSwapPhases
    FaultPhases <- MCNoPhases
    MaxCrashes = 2
    MaxFaults = 0
    MaxEdits = 0

SPECIFICATION Spec

INVARIANT SuccessIsWhole

CHECK_DEADLOCK FALSE
