SPECIFICATION FairSpec
CONSTANTS
    Capacity = 2
    Values = {v1, v2}
    Null = Null
    Consumers = {c1, c2, c3}
INVARIANTS
    TypeOK
    SlotsMatchIndices
    NoLostWakeUp
PROPERTIES
    ImplementsQueue
    WaitersServed
