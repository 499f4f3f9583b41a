CONSTANTS
    d1 = d1
    d2 = d2
    Domains = {d1, d2}
    MaxEntries = 3
    Settings <- Windows
SPECIFICATION Spec
INVARIANT
    AlwaysAPlan
CHECK_DEADLOCK FALSE
