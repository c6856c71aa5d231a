SPECIFICATION FairSpec
CONSTANTS
    Workers = {w1, w2}
    Clients = {c1, c2}
    Tasks = {k1, k2, l1}
    LongTasks = {l1}
    NoTask = NoTask
INVARIANTS
    NoTaskStranded
    ShutdownStopsTasks
PROPERTIES
    ImplementsExecutor
    PostedTaskRuns
    DestructorTerminates
CHECK_DEADLOCK FALSE
