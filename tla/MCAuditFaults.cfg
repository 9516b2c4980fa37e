\* Two attempts, with crashes and commits in doubt, under fairness.
CONSTANTS
    a1 = a1  a2 = a2  a3 = a3
    k1 = k1  k2 = k2
    p1 = p1  p2 = p2
    Attempts = {a1, a2}
    Keys = {k1, k2}
    Payloads = {p1, p2}
    Plans <- MCPlans
    Periods <- MCPeriods
    Limit <- MCLimit
    Entitlements <- MCSteadyPlan
    StaleAfter = 1
    MaxNow = 2
    MaxFaults = 2
SPECIFICATION FairSpec
\* The attempts of the bounded instance end.
CHECK_DEADLOCK FALSE
INVARIANTS
    WithinAllowance
    ChargedForAReport
    ServedIsCharged
PROPERTIES
    FailedAuditsDoNotRefuse
    ReservationsEnd
