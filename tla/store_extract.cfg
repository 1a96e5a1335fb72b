CONSTANTS
    Procs = {p1, p2}
    Ids = {e1, e2}
    Tags = {t1, t2}
    Paths = {f1, f2, f3}
    NoPath = NoPath
    NoId = NoId
    TargetEvents = 1
    Operations = {"extract", "reclassify"}
    MaxSeq = 2
SPECIFICATION ReaderSpec
INVARIANTS ReplayedOnce ArchiveIntegrity
SYMMETRY Symmetry
CHECK_DEADLOCK FALSE
