CONSTANTS
    d1 = d1
    d2 = d2
    Domains = {d1, d2}
    MaxEntries = 5
    Settings <- Windows
SPECIFICATION Spec
SYMMETRY Symmetry
INVARIANTS
    WithinCaps
    NoEmptyPlace
    UrgentFirst
    RankUnlessDomainFull
    BackfillLast
CHECK_DEADLOCK FALSE
