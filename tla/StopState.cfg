SPECIFICATION FairSpec
CONSTANTS
    Threads = {t1, t2, t3}
    Callbacks = {c1, c2}
    MaxCallbackId = 3
    NoThread = NoThread
    NoCallback = NoCallback
INVARIANTS
    CallbackOutlivesItsExecution
    NoCallbackMissed
PROPERTIES
    DestructorTerminates
CHECK_DEADLOCK FALSE
