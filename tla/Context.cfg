\* Two sessions, three turns, three slots.
CONSTANTS
    s1 = s1
    s2 = s2
    t1 = t1
    t2 = t2
    t3 = t3
    item = item
    store = store
    None = None
    Sessions = {s1, s2}
    Turns = {t1, t2, t3}
    Keys = {item, store}
    Shapes <- PlanShapes
    Exported <- Exports
    MaxHandles = 3
    MaxTime = 1
    MaxRevision = 2
    MaxFaults = 1
SPECIFICATION Spec
SYMMETRY Symmetry
INVARIANTS
    TypeOK
    GenerationsChain
    UsedWasActive
    ClaimableChoicesStand
PROPERTIES
    SlotEndsForCause
    AnswerMovesOn
CHECK_DEADLOCK FALSE
