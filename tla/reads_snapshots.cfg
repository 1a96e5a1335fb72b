CONSTANTS
    Registers = {r1, r2}
    Backtests = {b1}
    KeepN = 1
    EveryK = 1
    Ahead = 0
    MaxSeq = 2
    MaxTime = 1
    MaxArchives = 1
    MaxReads = 3
SPECIFICATION Spec
INVARIANTS TypeOK NothingFromTheFuture MissesOnlyLaterDated
SYMMETRY Symmetry
CHECK_DEADLOCK FALSE
