\* Two create requests, of one user or of two, or two requests for categories
\* of a user who pays.
CONSTANTS
    u1 = u1
    u2 = u2
    k1 = k1
    k2 = k2
    c1 = c1
    c2 = c2
    Users = {u1, u2}
    Keys = {k1, k2}
    Creates = {c1, c2}
    Owners = {u1}
    Names = {n1, n2, n3, n4}
    CatRequests = {q1, q2}
    None = None
SPECIFICATION MCSpec
INVARIANTS
    RowsFollowProvider
    CategoryLimit
PROPERTIES
    SettledForGood
    RowsCatchUp
    KeepsLedger
CHECK_DEADLOCK FALSE
