CONSTANTS
    r1 = r1
    r2 = r2
    s1 = s1
    p1 = p1
    p2 = p2
    None = None
    Requests = {r1, r2}
    AutoSets = {{r1, r2}, {}}
    Providers = {p1, p2}
    Sessions = {s1}
    SessionOf <- SameSession
    Configs <- MCConfigs
    FirstConfigs <- MCFirst
    Price <- MCPrice
    Threshold = TRUE
    MaxChanges = 1
    MaxReloads = 1
SPECIFICATION Spec
SYMMETRY Symmetry
INVARIANT ChainsConsistent
INVARIANT BindingsUsable
PROPERTY BindingsKeepRoute
PROPERTY SessionsAgree
CHECK_DEADLOCK FALSE
