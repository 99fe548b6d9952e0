SPECIFICATION FairSpec
CONSTANTS
    None = None
    Order <- Streams
    Present = {"a", "b"}
    PageSize = 1
    Cap = 2
    AdvisoryCap = 1
    Settings = {"default", "saved"}
    Initial = "default"
    Tabs = {t1, t2}
    MaxEvents = 2
INVARIANTS
    AbsenceHasCause
    AdvisoryLossVisible
PROPERTIES
    InventoryExact
    SettingsReachCache
    RestartsReachLog
