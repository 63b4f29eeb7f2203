SPECIFICATION FairSpec
CONSTANTS
    N = 3
    Emails = {1, 2}
    Provider <- MCProvider
    Address <- MCAddress
    Inquiries = {1}
    InFlight = {1, 2}
    Scenarios <- MCScenarios
    Jobs <- MCJobs
    MailWorkers <- MCMailWorkers
    MaxAttempts = 2
    MaxFaults = 1
    MaxReopens = 1
    None = None
INVARIANTS
    TypeOK
    OneTimeOnly
    DeletedStaysAnonymous
    AnswerIsNotified
PROPERTIES
    MailWithinBudget
    MailSettles
CHECK_DEADLOCK FALSE
