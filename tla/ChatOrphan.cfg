\* One restart while a turn is in progress.
CONSTANTS
    s1 = s1
    t1 = t1
    t2 = t2
    m1 = m1
    None = None
    Sessions = {s1}
    Turns = {t1, t2}
    Markers = {m1}
    MaxRevision = 1
    MaxRestarts = 1
    MaxFaults = 0
SPECIFICATION FairSpec
INVARIANT NoOrphanTurn
CHECK_DEADLOCK FALSE
