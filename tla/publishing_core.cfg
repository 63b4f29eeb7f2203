SPECIFICATION Spec
CONSTANTS
    Users = {"ann", "bob"}
    Files = {1, 2, 3}
    Materials = {"book"}
    Helpers = {"kit"}
    Posts = {"post"}
    Notices = {"notice"}
    Inquiries = {"inquiry"}
    Places <- MCPlaces
    Lessons = {"l1", "l2"}
    InFlight = {1, 2}
    Scenarios <- MCScenarios
    None = None
INVARIANTS
    TypeOK
    FilesAreKept
PROPERTIES
    HistoryIsFaithful
CHECK_DEADLOCK FALSE
