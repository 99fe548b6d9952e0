SPECIFICATION Spec
CONSTANTS
    Procs = {p1, p2}
    Owners = {o1}
    Tokens = {t1, t2}
    Resources = {r1}
    Configs = {c1, c2}
    Kinds = {"update", "delete"}
    None = None
    MaxReviews = 1
    MaxCreations = 1
SYMMETRY Symmetry
INVARIANTS
    ApplyOrder
PROPERTIES
    AppliedToReviewedState
