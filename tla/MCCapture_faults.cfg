CONSTANTS
    Updates = {u1, u2}
    Blank = {}
    Requests = {r1, r2}
    Classes = {c1, c2}
    PageIds = {p1, p2, p3}
    MaxCrashes = 1
    MaxTrashes = 1
    LateCreates = TRUE
    None = None
SPECIFICATION Spec
SYMMETRY Symmetry
INVARIANTS
    OneAtATime
    NoSilentLoss
    AckMatchesStore
PROPERTIES
    InboxSpec
CHECK_DEADLOCK FALSE
