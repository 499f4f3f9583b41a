CONSTANTS
    p1 = p1
    t1 = t1
    m1 = m1
    m2 = m2
    Items = {p1, t1}
    StartKinds <- PurchaseAndTask
    EditedKinds = {"planned", "shoppingTask"}
    Messages = {m1, m2}
    ItemOf <- OneEach
    Slots = {s1, s2}
    KeepDays <- Keep
    SnoozeDays <- MonthButton
    CooldownDays = 3
    SavedDates = {0}
    MaxDay = 1
    MaxPresses = 2
    MaxCrashes = 1
    MaxTrashes = 0
    MaxRestores = 1
    MaxEdits = 1
    NoItem = NoItem
    NoMessage = NoMessage
SPECIFICATION ChatSpec
INVARIANT
    ButtonsWhileActive
    RefusedOnlyIfEdited
PROPERTY
    PressesEnd
CHECK_DEADLOCK FALSE
