SPECIFICATION FairSpec
CONSTANTS
    None = None
    Calls = {c1, c2}
    Servers = {a, b}
    SlotLimit = 1
    RecordLimit = 1
    Quarters = 1
    MaxCalls = 3
    MaxEvents = 2
    Rules <- MCRules
    Patterns <- MCPatterns
    Subjects_ <- MCSubjects
    Logins <- MCAccesses
    Resources <- MCResources
    Published <- MCCaptured
INVARIANTS
    LoginGrants
    HistoryInOrder
    ChangesCompared
    LinksKept
    WatchCoverage
PROPERTIES
    ChoiceNeverGoesBack
    CallsAnswered
CHECK_DEADLOCK FALSE
