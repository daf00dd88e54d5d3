CONSTANTS
    NumRoots = 1
    ConfigRoot = 1
    AgentRoot = 1
    MaxRelease = 2
    Scheduler = scheduler
    Triggers = {trigger1}
    NoTask = noTask
    MaxRetries = 1
    Withdrawals = FALSE
    CrashPhases = {}
    FaultPhases = {}
    MaxCrashes = 0
    MaxFaults = 0
    MaxEdits = 0
    StatusRequests = {status1, status2}
    CheckRequests = {check1}

SPECIFICATION StatusSpec

SYMMETRY MCSymmetry

CONSTRAINT MCTwoInFlight

INVARIANTS
    StatusTypeOK
    OneCycleAtATime
    RebootWillApply
    OneRecoveryPerCooldown
