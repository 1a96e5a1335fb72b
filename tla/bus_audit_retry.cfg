CONSTANTS
    Tickers = {t1}
    Runners = {}
    Events = {e1}
    Handlers = {h1}
    SubscribersOf <- AllSubscribed
    NoHandler = NoHandler
    NoPair = NoPair
    MaxSeq = 2
    MaxFaults = 1
SPECIFICATION FairSpec
PROPERTY LostAuditRetried
