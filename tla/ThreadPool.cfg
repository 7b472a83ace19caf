SPECIFICATION FairSpec
CONSTANTS
    QueueSize = 2
    MinThreads = 1
    MaxThreads = 2
    Threads = {t1, t2}
    Senders = {s1, s2}
    MaxSends = 3
    None = None
INVARIANTS
    TypeOK
    RunnablesConserved
    ThreadsCounted
    WaitingCounted
    ProcessedOnce
    NoSleepBesideWork
PROPERTIES
    AcceptedIsProcessed
    DestroyReturns
CHECK_DEADLOCK FALSE
