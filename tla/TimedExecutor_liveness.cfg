SPECIFICATION FairSpec
CONSTANTS
    NumWorkers = 2
    DelayedTasks = {d1, d2}
    PeriodicTasks = {}
    LongTasks = {}
    NoTask = NoTask
    MaxTime = 1
PROPERTIES
    DueTaskRuns
    DestructorResolves
CHECK_DEADLOCK FALSE
