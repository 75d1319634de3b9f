\* A store error after the turn is answered.
CONSTANTS
    s1 = s1
    t1 = t1
    t2 = t2
    m1 = m1
    None = None
    Sessions = {s1}
    Turns = {t1, t2}
    Markers = {m1}
    MaxRevision = 1
    MaxRestarts = 0
    MaxFaults = 1
SPECIFICATION FairSpec
PROPERTY AnswerIsImmutable
CHECK_DEADLOCK FALSE
