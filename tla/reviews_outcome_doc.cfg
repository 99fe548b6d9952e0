SPECIFICATION Spec
CONSTANTS
    Procs = {p1}
    Owners = {o1}
    Tokens = {t1}
    Resources = {r1}
    Configs = {c1}
    Kinds = {"delete"}
    None = None
    MaxReviews = 1
    MaxCreations = 1
INVARIANTS
    OutcomeAlwaysLogged
