SPECIFICATION FairSpec
CONSTANTS
    p1 = p1
    p2 = p2
    c1 = c1
    c2 = c2
    Procs = {p1, p2}
    Callers = {c1, c2}
    MaxRuns = 2
    RetainLast = TRUE
    None = None
INVARIANTS
    FilesAreTheHolders
    OneGeneration
    OwnSession
PROPERTIES
    StopEnds
    ImplementsWorktree
