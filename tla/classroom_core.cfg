SPECIFICATION FairSpec
CONSTANTS
    Staff = {"boss", "teacher"}
    Students = {"ann", "bob"}
    Classes = {"go", "baduk"}
    Codes = {1, 2}
    Lessons = {"l1"}
    Unlimited = Unlimited
    Homeworks = {1, 2}
    Missions = {"l1"}
    Take = 2
    MaxDeaths = 1
    InFlight = {1, 2}
    Scenarios <- MCScenarios
    None = None
INVARIANTS
    TypeOK
    SeatsWithinCeiling
    CodeAdmitsOne
PROPERTIES
    DueSoonIsReminded
CHECK_DEADLOCK FALSE
