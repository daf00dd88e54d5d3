CONSTANTS
    User = {u1, u2}
    Device = {d1, d2}
    Fingerprint = {f1}
    Session = {s1, s2}
    Item = {i1, i2}
    None = None
    CodeTTL = 1
    QrTTL = 2
    MaxNow = 2

SPECIFICATION Spec

SYMMETRY MCSymmetry

INVARIANTS
    TypeOK
    OneLinkPerFingerprint
    ClaimNamesItsDevice
    StatusTellsRevoked
    AuditTrail

PROPERTIES
    SingleUseTickets

CHECK_DEADLOCK FALSE
