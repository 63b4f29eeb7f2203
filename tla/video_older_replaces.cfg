SPECIFICATION Spec
CONSTANTS
    N = 2
    Packages = {}
    Requests = {r1}
    ScanMax = 2
    TranscodeMax = 1
    DeleteMax = 1
    MaxFaults = 1
    None = None
PROPERTIES
    NewerVideoStays
CHECK_DEADLOCK FALSE
