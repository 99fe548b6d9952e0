SPECIFICATION FairSpec
CONSTANTS
    Procs = {p1, p2}
    Owners = {o1, o2}
    Tokens = {t1}
    Resources = {r1}
    Configs = {c1, c2}
    Kinds = {"update", "delete", "create", "pause", "records", "publish", "core"}
    None = None
    MaxReviews = 1
    MaxCreations = 2
INVARIANTS
    AnswersHonest
    OutcomeLogged
PROPERTIES
    ImplementsReviewedChange
    ApplyAnswered
