CONSTANTS
    Items = {p1, p2, p3}
    StartKinds <- AllPlanned
    EditedKinds = {}
    Slots = {s1, s2}
    KeepDays <- Keep
    SnoozeDays = {1}
    CooldownDays = 3
    SavedDates = {0}
    MaxDay = 2
    MaxPresses = 2
    MaxCrashes = 1
    MaxTrashes = 1
    MaxRestores = 0
    MaxEdits = 0
    NoItem = NoItem
SPECIFICATION Spec
SYMMETRY Symmetry
INVARIANTS
    TypeOK
    AtMostOneFocus
    CooldownBeforeTrash
    RetrySafe
    NoFalseSuccess
PROPERTY
    CooldownNeverShortens
CHECK_DEADLOCK FALSE
