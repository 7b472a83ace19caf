SPECIFICATION Spec
CONSTANTS
    MaxRetry = 3
    TimerIds = {t1, t2, t3, t4}
    RequestIds = {q1, q2, q3}
    NoTimer = NoTimer
    Faults = {"retrieve"}
    MaxVersion = 1
SYMMETRY Symmetry
CHECK_DEADLOCK FALSE
PROPERTY
    RetryTimerHeeded
