CONSTANTS
    c1 = c1
    c2 = c2
    None = None
    Captures = {c1, c2}
    MaxChunks = 1
    Files = {1, 2, 3, 4}
    LineBytes = 2
    FileBytes = 4
    DirectoryBytes = 6
    QueueEvents = 1
    MaxEntries = 4
    MaxFaults = 1
    MaxCrashes = 1
SPECIFICATION FairSpec
INVARIANT CompleteIsWhole
INVARIANT DirectoryConsistent
PROPERTY HandedOffFrozen
PROPERTY WriterDrains
CHECK_DEADLOCK FALSE
