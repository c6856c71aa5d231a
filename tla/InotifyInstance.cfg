\* Two readers that race for two events, and two calls of Close.
CONSTANTS
    Readers = {r1, r2}
    PipeCapacity = 1
    MaxRead = 1
    Paths = {p1}
    MaxCalls = 2
    MaxEvents = 2
SPECIFICATION InotifyFairSpec
INVARIANTS
    DescriptorsStayOpen
PROPERTIES
    ClosedForGood
    CallsReturn
CHECK_DEADLOCK FALSE
