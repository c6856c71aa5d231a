SPECIFICATION FairSpec
CONSTANTS
    Waiters = {w1, w2}
    Producers = {p1}
    Stopper = Stopper
    NoThread = NoThread
    MaxItems = 1
INVARIANTS
    NoLostWakeUp
    ResultSound
    NoUseAfterDestruction
PROPERTIES
    WaitEnds
CHECK_DEADLOCK FALSE
