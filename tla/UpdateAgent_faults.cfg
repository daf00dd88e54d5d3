CONSTANTS
    NumRoots = 2
    ConfigRoot = 1
    AgentRoot = 2
    MaxRelease = 2
    Scheduler = scheduler
    Triggers = {trigger1}
    NoTask = noTask
    MaxRetries = 2
    Withdrawals = FALSE
    CrashPhases <- MCUnswapped
    FaultPhases <- MCRolledBack
    MaxCrashes = 2
    MaxFaults = 1
    MaxEdits = 0

SPECIFICATION FairSpec

INVARIANTS
    TypeOK
    OneCycleAtATime
    NobodyWaitsInVain
    RebootWillApply
    AppliesOneRelease
    NeverMixed

PROPERTIES
    EveryActivityEnds
    LockReleased
    ReleaseArrives

CHECK_DEADLOCK FALSE
