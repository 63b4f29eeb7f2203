SPECIFICATION FairSpec
CONSTANTS
    N = 2
    Packages = {p1}
    Requests = {r1}
    ScanMax = 2
    TranscodeMax = 1
    DeleteMax = 2
    MaxFaults = 1
    None = None
INVARIANTS
    TypeOK
    PlayedIsReady
    LiveVideoIsStored
    MissingIsQueued
PROPERTIES
    NewerMp4Stays
    UploadsAreAnswered
CHECK_DEADLOCK FALSE
