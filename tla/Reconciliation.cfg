CONSTANTS
    r1 = r1
    f1 = f1
    f2 = f2
    export = export
    bad = bad
    None = None
    Requests = {r1}
    Currency = "usd"
    MaxTime = 2
    Contents = {export, bad}
    Rows <- MCRows
    Files = {f1, f2}
    MaxFaults = 1
SPECIFICATION FairSpec
INVARIANT TablesConsistent
INVARIANT ChargedOnce
PROPERTY SuccessIsHonest
PROPERTY ExportsImported
