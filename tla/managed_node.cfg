SPECIFICATION FairSpec
CONSTANTS
    None = None
    Killed = Killed
    Admins = {a1, a2}
    Configs = {c1, c2}
    MaxOps = 2
    MaxEvents = 2
INVARIANTS
    RecoveryFile
    ReviewedRestartStays
PROPERTIES
    ImplementsManagedChange
    ProcessRecovers
CHECK_DEADLOCK FALSE
