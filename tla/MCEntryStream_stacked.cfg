SPECIFICATION FairSpec
CONSTANTS
    Storage = "mongodb"
    e1 = e1
    e2 = e2
    w1 = w1
    w2 = w2
    p1 = p1
    p2 = p2
    s1 = s1
    t1 = t1
    None = None
    Old = {e1}
    Writer = {}
    Replay = {p1, p2}
    Summary = {}
    Trends = {}
    TimeOf <- MCTimeOf
    From <- MCFrom
    To <- MCTo
    MaxConcurrent = 1
    MaxFaults = 0
PROPERTY WorkIsNotStacked
CHECK_DEADLOCK FALSE
