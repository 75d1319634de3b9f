\* Three turns of one session, no outages and one catalog.
CONSTANTS
    s1 = s1
    t1 = t1
    t2 = t2
    t3 = t3
    m1 = m1
    None = None
    Sessions = {s1}
    Turns = {t1, t2, t3}
    Markers = {m1}
    MaxRevision = 1
    MaxRestarts = 0
    MaxFaults = 0
SPECIFICATION FairSpec
PROPERTY EveryTurnEnds
CHECK_DEADLOCK FALSE
