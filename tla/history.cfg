SPECIFICATION Spec
CONSTANTS
    None = None
    Identities = {id1, id2}
    Settings <- SmallSettings
    Initial <- InitialSettings
    Sizes = {1, 4}
    Pendings = {0, 1}
    Budget = 3
    IncidentBudget = 1
    ActivityLimit = 1
    ChartLimit = 2
    Bins = 2
    GapIntervals = 1
    MaxNow = 2
    MaxWrites = 2
SYMMETRY Symmetry
INVARIANTS
    WithinBudgets
    OneIdentity
    ChartHonest
PROPERTY HistoryKeepsNewest
