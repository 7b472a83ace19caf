SPECIFICATION Spec
CONSTANTS
    MaxRetry = 3
    TimerIds = {t1, t2, t3, t4}
    RequestIds = {q1, q2, q3}
    NoTimer = NoTimer
    Faults = {"send", "retrieve", "storage", "xo", "encode"}
    MaxVersion = 2
SYMMETRY Symmetry
CHECK_DEADLOCK FALSE
INVARIANTS
    TypeOK
    RegisteredIffActive
    OneNotifyAtATime
    WaitingHasTimer
    DeletedIsQuiet
    NoLostUpdate
    ToldExpiredOnlyWhenGone
PROPERTY
    EndIsFinal
