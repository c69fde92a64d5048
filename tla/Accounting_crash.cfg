CONSTANTS
    r1 = r1
    r2 = r2
    Requests = {r1, r2}
    MaxRuns = 2
    MaxInFlight = 1
    MaxTries = 1
    Mode = "hard"
    Limit = 1
    Alert = 1
SPECIFICATION Spec
INVARIANT LedgerConsistent
PROPERTY FailClosed
PROPERTY RecoveryLeavesLiveAttempts
PROPERTY LatchStopsDispatch
SYMMETRY RequestSymmetry
CHECK_DEADLOCK FALSE
