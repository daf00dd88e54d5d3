CONSTANTS
    User = {u1, u2}
    Email = {e1}
    Subject = {s1}
    Reset = {r1}
    OState = {o1}
    Pair = {1, 2}
    AccessTTL = 1
    RefreshTTL = 2
    ResetTTL = 1
    StateTTL = 1
    LockTTL = 1
    MaxFailed = 1
    None = None
    MaxNow = 2
    MaxLosses = 1

SPECIFICATION Spec

SYMMETRY MCSymmetry

INVARIANTS
    TypeOK
    IndexSound
    NoSessionForDeleted
    GuessesBounded

PROPERTIES
    NeverAcceptedAgain
    SingleUseTickets

CHECK_DEADLOCK FALSE
