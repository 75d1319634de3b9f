\* One restart, one store fault, two catalog revisions.
CONSTANTS
    s1 = s1
    t1 = t1
    t2 = t2
    t3 = t3
    m1 = m1
    m2 = m2
    None = None
    Sessions = {s1}
    Turns = {t1, t2, t3}
    Markers = {m1, m2}
    MaxRevision = 2
    MaxRestarts = 1
    MaxFaults = 1
SPECIFICATION Spec
SYMMETRY Symmetry
INVARIANTS
    TypeOK
    AnswersOnDistinctVersions
    HandleClaimedOnce
    OneOpenQuestion
    NothingBetweenQuestionAndReply
    VersionCountsEndedTurns
PROPERTIES
    ReplyOnNewestCatalog
    EndedTurnIsFinal
    ImplementsDialogue
CHECK_DEADLOCK FALSE
