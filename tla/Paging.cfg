\* Lists of up to three rows, one row to a page, 1C changing twice.
CONSTANTS
    Rows = {1, 2, 3}
    Keys = {1, 2}
    Skills <- AllSkills
    PageSize = 1
    Maximum = 5
    MaxTotal = 3
    MaxChanges = 2
SPECIFICATION Spec
INVARIANTS
    TypeOK
    PagesAddUp
    QuietListIsWhole
CHECK_DEADLOCK FALSE
