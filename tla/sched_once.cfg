CONSTANTS
    Tickers = {t1}
    Emitters = {}
    daily = daily
    odd = odd
    Entries = {daily, odd}
    FireDays <- Calendar
    Holidays = {1}
    LookBack = 4
    Removable = {}
    NoTrigger = NoTrigger
    MaxDay = 3
    MaxFaults = 2
    MaxEvictions = 0
SPECIFICATION FairSpec
INVARIANT FiredOnce
PROPERTIES FireTimesDispatched ImplementsAtMostOnce
