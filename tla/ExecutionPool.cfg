\* Two workers, one client and three tasks: a queue can hold two of them, a
\* task can push a task, and either worker can steal from the other.
CONSTANTS
    WorkerCount = 2
    Clients = {c1}
    Destroyer = d
    TaskCount = 3
    None = None
SPECIFICATION FairSpec
INVARIANTS
    NoLostWakeUp
    DrainedAlone
PROPERTIES
    DestructorTerminates
    ImplementsExecutor
CHECK_DEADLOCK FALSE
