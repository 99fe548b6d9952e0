SPECIFICATION FairSpec
CONSTANTS
    None = None
    Order <- Streams
    Present = {"a"}
    PageSize = 1
    Cap = 1
    AdvisoryCap = 1
    Settings = {"default"}
    Initial = "default"
    Tabs = {t1}
    MaxEvents = 2
PROPERTY ObservedRestartsRecorded
