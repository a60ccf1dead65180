SPECIFICATION FairSpec
CONSTANTS
    Storage = "memory"
    e1 = e1
    e2 = e2
    w1 = w1
    w2 = w2
    p1 = p1
    p2 = p2
    s1 = s1
    t1 = t1
    None = None
    Old = {e1}
    Writer = {w2}
    Replay = {p1, p2}
    Summary = {s1}
    Trends = {}
    TimeOf <- MCTimeOf
    From <- MCFrom
    To <- MCTo
    MaxConcurrent = 1
    MaxFaults = 0
INVARIANTS
    TypeOK
    ReplaysAreComplete
PROPERTIES
    RequestsAreAnswered
    SavesFinish
    ScansEnd
CHECK_DEADLOCK FALSE
