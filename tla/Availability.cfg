CONSTANTS
    r1 = r1
    r2 = r2
    r3 = r3
    m1 = m1
    m2 = m2
    p1 = p1
    Requests = {r1, r2}
    None = None
    Providers = {p1}
    Models = {m1, m2}
    SafeModels = {m1}
    MaxGen = 2
    MaxEpoch = 1
    MaxTime = 2
    Delays = {1}
    Limit = 1
    TTL = 2
    SweepEvery = 1
    MaxFailures = 1
    MaxStreak = 2
SPECIFICATION FairSpec
INVARIANT TableConsistent
PROPERTY SentAfterCooldown
PROPERTY OnlyProbeJudges
PROPERTY OldViewsOnlyRelease
PROPERTY ActiveProbesRetained
PROPERTY ProbesReleased
