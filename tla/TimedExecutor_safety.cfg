SPECIFICATION Spec
CONSTANTS
    NumWorkers = 2
    DelayedTasks = {d1, d2}
    PeriodicTasks = {p1}
    LongTasks = {}
    NoTask = NoTask
    MaxTime = 1
SYMMETRY Symmetry
INVARIANTS
    QueueNotForgotten
    StopForwarded
PROPERTIES
    ImplementsExecutor
    EarliestFirst
CHECK_DEADLOCK FALSE
