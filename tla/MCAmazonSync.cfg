\* Two product syncs and a refresh, one enrichment, one reauthorisation or reconnection.
CONSTANTS
    s1 = s1  s2 = s2  s3 = s3
    c1 = c1
    k1 = k1  x1 = x1  x2 = x2
    t1 = t1  t2 = t2
    a1 = a1  a2 = a2
    Syncs = {s1, s2, s3}
    Lookups = {c1}
    Skus = {k1}
    Asins = {a1, a2}
    MaxPages = 2
    MaxItems = 2
    Readings <- MCReadings
    MarketReplies <- MCMarketReplies
    CatalogReplies <- MCCatalogReplies
    Plans <- MCPlans
    Duration = 1
    Ttl = 1
    MaxNow = 2
    MaxIssued = 2
    MaxFaults = 1
SYMMETRY MCSymmetry
SPECIFICATION Spec
\* The syncs of the bounded instance end.
CHECK_DEADLOCK FALSE
INVARIANTS
    LogMatchesLease
    ListingsAreOfTheLastSync
    BlamedForItsToken
PROPERTIES
    DisabledIsLeftAlone
