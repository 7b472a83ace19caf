SPECIFICATION FairSpec
CONSTANTS
    MaxRetry = 2
    TimerIds = {t1, t2, t3}
    RequestIds = {q1, q2}
    NoTimer = NoTimer
    Faults = {"send", "retrieve", "storage"}
    MaxVersion = 1
CHECK_DEADLOCK FALSE
PROPERTY
    UpdateSettled
    EndReached
