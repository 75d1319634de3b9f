\* Accepted keyset queries whose cursor part is one operand of OR or negated.
CONSTANTS
    Rows = {1, 2, 3}
    Keys = {1, 2}
    Skills <- LaxWhereSkills
    PageSize = 1
    Maximum = 5
    MaxTotal = 3
    MaxChanges = 0
SPECIFICATION Spec
INVARIANT AcceptedListsRepeatNothing
CHECK_DEADLOCK FALSE
