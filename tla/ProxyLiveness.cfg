\* Two commands, one channel, and a process that may stop once.
CONSTANTS
    c1 = c1
    c2 = c2
    ch1 = ch1
    s1 = s1
    k1 = k1
    k2 = k2
    p1 = p1
    None = None
    Commands = {c1, c2}
    Channels = {ch1}
    Sessions = {s1}
    Keys = {k1, k2}
    Polls = {p1}
    MaxPending = 2
    MaxChannels = 1
    MaxRestarts = 1
SPECIFICATION FairSpec
PROPERTY EveryCallEnds
