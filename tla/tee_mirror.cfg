CONSTANTS
    Procs = {p1}
    Backfills = {b1}
    NoProc = NoProc
    Types = {t1}
    AlertType = SubstrateAlert
    MaxSeq = 3
    MaxArchived = 1
    MaxFaults = 2
SPECIFICATION Spec
INVARIANTS TypeOK FoldOrder FailureAlerted VerdictSound BackfillComplete
CHECK_DEADLOCK FALSE
