CONSTANTS
    Size = 3
    Empty = Empty
    None = None
    Initial <- MCInitial
    MaxCaptures = 3
SPECIFICATION Spec
INVARIANTS
    ReasonsAgree
PROPERTIES
    RulesFollowed
    NothingNewDies
    PrisonersBalance
CHECK_DEADLOCK FALSE
