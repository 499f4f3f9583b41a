CONSTANTS
    k1 = k1
    k2 = k2
    NoKey = NoKey
    Items = {1, 2, 3}
    Databases <- SmallDatabases
    SpacingDays <- PolicySpacing
    MinimumAge <- PolicyAge
    EntryLimit <- SmallLimit
    SoftCap <- PolicyCap
    RoutineLimit = 1
    Runs = {r1, r2}
    FirstDay = 40
    WeekendDays = {40}
    Keys = {k1, k2}
    Slot <- EveningAndAfterWork
    Retention = 3
    MaxCompleted = 1
    MaxDay = 41
    MaxRuns = 2
    MaxUserActions = 1
    MaxCrashes = 1
SPECIFICATION FairSpec
INVARIANTS
    TypeOK
    NoRepeatWithoutExcuse
PROPERTIES
    DeliverySpec
    DueTaskReminded
    RunsSettle
CHECK_DEADLOCK FALSE
