CONSTANTS
    NumRoots = 3
    ConfigRoot = 2
    AgentRoot = 3
    MaxRelease = 3
    Scheduler = scheduler
    Triggers = {trigger1, trigger2}
    NoTask = noTask
    MaxRetries = 1
    Withdrawals = FALSE
    CrashPhases <- MCSafePhases
    FaultPhases <- MCSafePhases
    MaxCrashes = 2
    MaxFaults = 1
    MaxEdits = 1

SPECIFICATION Spec

INVARIANTS
    NeverHalfUpdated
    OnlyUpgrades
    PrefsPresent
    TrackingMatches

PROPERTY KeepsPromise
