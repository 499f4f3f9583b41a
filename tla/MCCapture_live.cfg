CONSTANTS
    Updates = {u1, b1}
    Blank = {b1}
    Requests = {r1, r2}
    Classes = {c1}
    PageIds = {p1, p2}
    MaxCrashes = 1
    MaxTrashes = 1
    LateCreates = FALSE
    None = None
SPECIFICATION FairSpec
INVARIANTS
    AtMostOneActivePage
    ActiveNeverReclassified
PROPERTIES
    RequestsEnd
    EventuallyCaptured
CHECK_DEADLOCK FALSE
