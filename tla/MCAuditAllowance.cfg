\* Three attempts of three plans and abandoned reservations; no faults.
CONSTANTS
    a1 = a1  a2 = a2  a3 = a3
    k1 = k1  k2 = k2
    p1 = p1  p2 = p2
    Attempts = {a1, a2, a3}
    Keys = {k1, k2}
    Payloads = {p1}
    Plans <- MCPlans
    Periods <- MCPeriods
    Limit <- MCLimit
    Entitlements <- MCEntitlements
    StaleAfter = 0
    MaxNow = 1
    MaxFaults = 0
SYMMETRY MCSymmetry
SPECIFICATION Spec
\* The attempts of the bounded instance end.
CHECK_DEADLOCK FALSE
INVARIANTS
    WithinAllowance
