CONSTANTS
    Users = {alice, bob}
    Names = {default, hall}
    DefaultName = default
    None = None
    MaxLosses = 1

SPECIFICATION Spec

SYMMETRY MCSymmetry

INVARIANTS
    TypeOK
    BeaconNeverLies
    SilentOnlyAfterFailure
    IdentityPerLoss

PROPERTIES
    RecoverySparesOwners
    PermissionIsKept
