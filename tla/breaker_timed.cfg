SPECIFICATION Spec
CONSTANTS
    SuccessThreshold = 2
    FailureThreshold = 3
    Timeout = 2
    Window = 2
    MaxTime = 7
INVARIANTS TypeOK ClosedMeansBelowThreshold
PROPERTIES OpensOnlyOnBurst OpenLastsTimeout RefinesAbstractBreaker
CHECK_DEADLOCK FALSE
