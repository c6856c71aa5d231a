\* Unique or shared futures, two setters, and a scope that may expire.
SPECIFICATION Spec
CONSTANTS
    Setters = {s1, s2}
    Futures = {f1, f2}
    Broken = Broken
SYMMETRY Symmetry
INVARIANTS
    OutcomeSound
    ContinuationOnce
    AbortExact
    ScopeRespected
PROPERTIES
    ValueStable
CHECK_DEADLOCK FALSE
