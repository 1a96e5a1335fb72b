CONSTANTS
    Tickers = {t1}
    Runners = {r1}
    Events = {e1, e2}
    Handlers = {h1}
    SubscribersOf <- AllSubscribed
    NoHandler = NoHandler
    NoPair = NoPair
    MaxSeq = 2
    MaxFaults = 1
SPECIFICATION FairSpec
INVARIANTS TypeOK CursorSafe
PROPERTIES AuditedOnce EventuallyDispatched ImplementsAtMostOnce
