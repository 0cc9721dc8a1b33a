SPECIFICATION Spec
CONSTANTS
    Cfg = {g1}
    Task = {t1, t2}
    None = None
    DayLen = 2
    WeekLen = 1
    Times = {0}
    DaySets <- EveryDay
    MaxDay = 0
    MaxDue = 1
    PromptTicks = TRUE
    PromptTasks = TRUE
    Crashes = TRUE
    Faults = TRUE
    MinLen = 2
    app = app
    bucket = bucket
    NameOf <- OneName
    PlaceOf <- OnePlace
    StemOf <- OneName
    KeepOf <- OneUnit
    Begins <- Unrelated
    Contains <- Unrelated
    Place = {bucket}
    S3 = {bucket}
    Unfiled = {}
    Flaky = {}
    MaxNow = 2
SYMMETRY Symm
\* the horizon MaxNow ends every behaviour
CHECK_DEADLOCK FALSE
INVARIANT SuccessIsStored
INVARIANT NeverWithoutBackup
