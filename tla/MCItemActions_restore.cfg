CONSTANTS
    Items = {p1, p2}
    StartKinds <- AllPlanned
    EditedKinds = {}
    Slots = {s1}
    KeepDays <- Keep
    SnoozeDays = {1}
    CooldownDays = 3
    SavedDates = {0}
    MaxDay = 1
    MaxPresses = 3
    MaxCrashes = 0
    MaxTrashes = 0
    MaxRestores = 1
    MaxEdits = 0
    NoItem = NoItem
SPECIFICATION OwnerSpec
INVARIANT
    AtMostOneFocus
CHECK_DEADLOCK FALSE
