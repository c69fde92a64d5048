CONSTANTS
    r1 = r1
    r2 = r2
    Requests = {r1, r2}
    MaxRuns = 1
    MaxInFlight = 1
    MaxTries = 0
    Mode = "soft"
    Limit = 2
    Alert = 1
SPECIFICATION FairSpec
PROPERTY Drains
CHECK_DEADLOCK FALSE
