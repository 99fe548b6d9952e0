SPECIFICATION FairSpec
CONSTANTS
    Users = {u1}
    Procs = {p1, p2}
    Secrets = {s1, s2, s3}
    None = None
    BootstrapKey = BootstrapKey
    Roles = {"viewer"}
    NatsEnabled = FALSE
    MaxUsers = 1
    MaxSessions = 2
    MaxTickets = 1
    MaxRevision = 1
    MaxAttempts = 2
    Window = 1
    SessionLife = 1
    TicketLife = 1
    MaxNow = 1
INVARIANT TicketSingleUse
PROPERTY SessionLossExplained RequestsAnswered
