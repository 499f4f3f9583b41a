CONSTANTS
    Keys = {k1, k2}
    Callers = {c1, c2}
    Tasks = {t1, t2, t3}
    Retention = 2
    MaxCompleted = 1
    MaxTime = 2
    MaxRestarts = 1
    None = None
SPECIFICATION Spec
SYMMETRY Symmetry
INVARIANTS
    AtMostOneRunning
    CompletedBounded
    NoStuckEntry
PROPERTY
    LedgerSpec
CHECK_DEADLOCK FALSE
