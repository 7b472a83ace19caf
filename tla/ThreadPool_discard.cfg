SPECIFICATION Spec
CONSTANTS
    QueueSize = 2
    MinThreads = 1
    MaxThreads = 1
    Threads = {t1}
    Senders = {s1}
    MaxSends = 8
    None = None
INVARIANTS
    DiscardReported
CHECK_DEADLOCK FALSE
