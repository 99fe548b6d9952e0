SPECIFICATION Spec
CONSTANTS
    Users = {u1}
    Procs = {p1, p2}
    Secrets = {s1, s2, s3, s4}
    None = None
    BootstrapKey = BootstrapKey
    Roles = {"admin"}
    NatsEnabled = TRUE
    MaxUsers = 1
    MaxSessions = 2
    MaxTickets = 1
    MaxRevision = 3
    MaxAttempts = 2
    Window = 1
    SessionLife = 2
    TicketLife = 1
    MaxNow = 0
SYMMETRY Symmetry
INVARIANTS
    RevisionOrder
    ConfirmedChangeHolds
    StaleFormRejected
    ExternalSessionIncarnation
PROPERTY NoRevival ImplementsAuthority
