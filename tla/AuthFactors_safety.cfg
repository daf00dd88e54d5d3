CONSTANTS
    User = {u1, u2}
    Secret = {k1, k2}
    Batch = {b1, b2}
    Code = {c1, c2}
    Fingerprint = {f1}
    Token = {t1, t2}
    None = None
    SetupTTL = 2
    RenewalTTL = {2, 3}
    MaxNow = 3

SPECIFICATION Spec

SYMMETRY MCSymmetry

INVARIANTS
    TypeOK
    OneEnrolment
    ReplacedIsRefused

PROPERTIES
    SingleUseTickets

CHECK_DEADLOCK FALSE
