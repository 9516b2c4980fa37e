\* One attempt at a time, faults and one period end.
CONSTANTS
    a1 = a1  a2 = a2  a3 = a3
    k1 = k1  k2 = k2
    small = small  large = large
    NoPayload = NoPayload
    Attempts = {a1, a2, a3}
    Keys = {k1, k2}
    Payloads = {small, large}
    Reserve <- MCReserve
    Consumptions = {0, 3}
    MonthlyTokens = 4
    QuotaPeriod = 1
    MaxNow = 1
    MaxFaults = 1
    Overlap = FALSE
SPECIFICATION FairSpec
\* The attempts of the bounded instance end.
CHECK_DEADLOCK FALSE
INVARIANT
    ReservedIsEscrow
PROPERTIES
    LedgerSpec
    OnlyFaultsLeak
