CONSTANTS
    orchard = orchard
    orchardWide = orchardWide
    dessert = dessert
    q1 = q1
    None = None
    Items = {1, 2, 3}
    Spellings = {orchard, orchardWide, dessert}
    Norm <- Word
    Attributes <- Kinds
    Questions = {q1}
    AskedForms <- SomeForms
    ShortcutPlan <- Shortcut
    Plans <- AnyPlan
    Requests = {r1}
    PageSize = 2
    ResultLimit = 2
    Today <- Wednesday
    MaxChanges = 1
    MaxCrashes = 1
SPECIFICATION FairSpec
INVARIANTS
    TypeOK
    AnsweredInFull
    BestFirst
    NothingMissed
PROPERTIES
    QuestionsAnswered
CHECK_DEADLOCK FALSE
