CONSTANTS
    Closer = c
    Readers = {r1}
    PeriodEnd = 1
    KeepN = 1
    EveryK = 2
    MaxTime = 2
    MaxOutside = 3
SPECIFICATION Spec
INVARIANTS TypeOK BalanceComplete OneClosePerOpen CursorCoversBalance
PROPERTY ClosesOnWhatWasThere
CHECK_DEADLOCK FALSE
