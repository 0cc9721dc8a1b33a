SPECIFICATION Spec
CONSTANTS
    Cfg = {g1}
    Task = {t1, t2, t3}
    None = None
    DayLen = 3
    WeekLen = 2
    Times = {2}
    DaySets <- EveryDay
    MaxDay = 3
    MaxDue = 1
    PromptTicks = TRUE
    PromptTasks = FALSE
    Crashes = FALSE
    Faults = FALSE
\* the horizon MaxDay ends every behaviour
CHECK_DEADLOCK FALSE
SYMMETRY Symm
INVARIANT EachDayItsOwnRun
