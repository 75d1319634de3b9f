SPECIFICATION Spec
CONSTANTS
    Plans <- AskingPlans
    PageSize = 2
    MaxMembers = 1
    MaxChoices = 2
    MaxRounds = 3
INVARIANT NeverAsksAgain
CHECK_DEADLOCK FALSE
