SPECIFICATION FairSpec
CONSTANTS
    None = None
    Admins = {a1, a2}
    Users = {u1}
    MaxOps = 2
    MaxEvents = 2
CHECK_DEADLOCK FALSE
INVARIANTS AcceptedIsPublished
PROPERTIES ImplementsManagedChange AuthorityFree
