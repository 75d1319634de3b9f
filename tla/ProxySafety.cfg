\* Two commands on two channels, two polls, one restart.
CONSTANTS
    c1 = c1
    c2 = c2
    ch1 = ch1
    ch2 = ch2
    s1 = s1
    k1 = k1
    k2 = k2
    p1 = p1
    p2 = p2
    None = None
    Commands = {c1, c2}
    Channels = {ch1, ch2}
    Sessions = {s1}
    Keys = {k1, k2}
    Polls = {p1, p2}
    MaxPending = 2
    MaxChannels = 2
    MaxRestarts = 1
SPECIFICATION Spec
SYMMETRY Symmetry
INVARIANTS
    TypeOK
    NoMissedWakeup
    PendingIsIndexed
    NothingPendingAfterShutdown
    QueuedWaitsInQueue
PROPERTY ImplementsLifecycle
