CONSTANTS
    Procs = {p1, p2}
    Ids = {e1, e2, e3}
    Tags = {t1}
    Paths = {f1, f2}
    NoPath = NoPath
    NoId = NoId
    TargetEvents = 0
    Operations = {"archive", "extract"}
    MaxSeq = 3
SPECIFICATION ReaderSpec
INVARIANTS TypeOK ReplayMissesOnlyMoved
PROPERTY ImplementsLog
SYMMETRY Symmetry
CHECK_DEADLOCK FALSE
