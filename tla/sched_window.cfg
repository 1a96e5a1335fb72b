CONSTANTS
    Tickers = {t1}
    Emitters = {m1}
    daily = daily
    odd = odd
    Entries = {daily}
    FireDays <- Calendar
    Holidays = {1}
    LookBack = 2
    Removable = {daily}
    NoTrigger = NoTrigger
    MaxDay = 2
    MaxFaults = 1
    MaxEvictions = 1
SPECIFICATION Spec
INVARIANTS TypeOK CaughtUp RunsPerTrigger
CHECK_DEADLOCK FALSE
