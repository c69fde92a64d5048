CONSTANTS
    r1 = r1
    r2 = r2
    r3 = r3
    Requests = {r1, r2, r3}
    None = None
    Shapes <- SharedShapes
    MaxPools = 2
    MaxTime = 3
    Day = 2
    StreakLimit = 2
    Delays = {1}
SPECIFICATION Spec
INVARIANT OneProbePerServer
SYMMETRY RequestSymmetry
