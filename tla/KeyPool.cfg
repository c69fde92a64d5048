CONSTANTS
    r1 = r1
    r2 = r2
    r3 = r3
    Requests = {r1, r2}
    None = None
    MaxPools = 2
    Shapes <- MCShapes
    MaxTime = 2
    Day = 2
    StreakLimit = 1
    Delays = {1}
SPECIFICATION FairSpec
INVARIANT PoolsConsistent
PROPERTY DispatchOutsidePauses
PROPERTY PausesOutliveOlderSuccesses
PROPERTY OldViewsLeaveKeyHealth
PROPERTY ClaimsReleased
