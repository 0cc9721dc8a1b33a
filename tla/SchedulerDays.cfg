SPECIFICATION Spec
CONSTANTS
    Cfg = {g1}
    Task = {t1,t2}
    None = None
    DayLen = 3
    WeekLen = 2
    Times = {0, 2}
    DaySets <- DailyOrWeekly
    MaxDay = 2
    MaxDue = 1
    PromptTicks = TRUE
    PromptTasks = TRUE
    Crashes = TRUE
    Faults = TRUE
\* the horizon MaxDay ends every behaviour
CHECK_DEADLOCK FALSE
SYMMETRY Symm
INVARIANT ScheduledDayHasRun
INVARIANT AtMostOncePerDay
INVARIANT HistoryRefersToConfig
PROPERTY HistoryIsLog
