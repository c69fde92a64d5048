CONSTANTS
    r1 = r1
    r2 = r2
    s1 = s1
    p1 = p1
    p2 = p2
    None = None
    Requests = {r1, r2}
    Named = {s1}
    Providers = {p1, p2}
    Limits = {1}
    MaxReloads = 1
SPECIFICATION Spec
INVARIANT LimitersConsistent
PROPERTY RetainedUntilIdle
PROPERTY ImplementsCapacity
SYMMETRY NameSymmetry
