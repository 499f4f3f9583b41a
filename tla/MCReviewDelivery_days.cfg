CONSTANTS
    i1 = i1
    i2 = i2
    Items = {i1, i2}
    Databases <- TaskAndIdea
    SpacingDays <- SmallSpacing
    MinimumAge <- SmallAge
    Runs = {r1, r2}
    Limit <- Two
    FirstDay = 1
    WeekendDays = {3}
    AcrossMidnight = FALSE
    MaxDay = 3
    MaxRuns = 3
    MaxUserActions = 1
    MaxCrashes = 1
SPECIFICATION Spec
INVARIANTS
    TypeOK
    SurfacedOnlyIfShown
    RecordedIsTrue
PROPERTY
    SpacingKept
CHECK_DEADLOCK FALSE
