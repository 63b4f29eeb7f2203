\* One attempt that may be retried once, two clientMoveIds, two requests.
SPECIFICATION Spec
SYMMETRY Symmetry
CONSTANTS
    Attempts = {a1}
    Requests = {r1, r2}
    ClientIds = {m1, m2}
    Nodes <- MCNodes
    Root = start
    Kind <- MCKind
    Children <- MCChildren
    Replies <- MCReplies
    BaseScore = 20
    RetryLimit = 2
    HintCount = 1
    MaxRetries = 1
    NoLimit = NoLimit
    None = None
    start = start
    middle = middle
    solved = solved
    lost = lost
INVARIANTS
    TypeOK
    PositionMatchesLog
    OutcomeIsEarned
PROPERTIES
    FinishedStaysFinished
CHECK_DEADLOCK FALSE
