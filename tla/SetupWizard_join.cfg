CONSTANTS
    Users = {alice}
    Names = {default}
    DefaultName = default
    None = None
    MaxLosses = 0
    Installer = alice
    Others = {office}
    MaxPending = 2

SPECIFICATION WizardSpec

INVARIANT SatelliteWhenToldSo

CHECK_DEADLOCK FALSE
