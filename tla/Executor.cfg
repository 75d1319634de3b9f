SPECIFICATION Spec
CONSTANTS
    Plans <- AllPlans
    PageSize = 2
    MaxMembers = 1
    MaxChoices = 2
    MaxRounds = 2
INVARIANTS
    TypeOK
    RunsAfterInputs
    OnlyFailuresBlock
    FullAnswerIsFull
    OnlySettledExported
    NoListCutShort
PROPERTIES
    RunEnds
CHECK_DEADLOCK FALSE
