\* Two overlapping attempts and no fault at all.
CONSTANTS
    a1 = a1  a2 = a2  a3 = a3
    k1 = k1  k2 = k2
    small = small  large = large
    NoPayload = NoPayload
    Attempts = {a1, a2}
    Keys = {k1, k2}
    Payloads = {small, large}
    Reserve <- MCReserve
    Consumptions = {0, 3}
    MonthlyTokens = 4
    QuotaPeriod = 1
    MaxNow = 0
    MaxFaults = 0
    Overlap = TRUE
SPECIFICATION Spec
CHECK_DEADLOCK FALSE
INVARIANT
    NothingHeldWhenIdle
