SPECIFICATION FairSpec
CONSTANTS
    NumWorkers = 2
    DelayedTasks = {d1, d2}
    PeriodicTasks = {}
    LongTasks = {d1}
    NoTask = NoTask
    MaxTime = 1
PROPERTY
    DueTaskRuns
CHECK_DEADLOCK FALSE
