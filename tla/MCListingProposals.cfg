\* Five requests on one product: an import or a patch, two generations, and two that review or import.
CONSTANTS
    r1 = r1  r2 = r2  r3 = r3  r4 = r4  r5 = r5
    f1 = f1  f2 = f2
    k1 = k1  k2 = k2
    t1 = t1  t2 = t2  t3 = t3
    Requests = {r1, r2, r3, r4, r5}
    Fields = {f1, f2}
    Keys = {k1, k2}
    Texts = {t1, t2, t3}
    Plays <- MCPlays
    MaxFaults = 1
SPECIFICATION Spec
\* The requests of the bounded instance end.
CHECK_DEADLOCK FALSE
INVARIANTS
    LinearHistory
    ApprovedIsMerge
    OneWinnerPerRevision
    AnswersAreTrue
    ReviewIsTheChange
PROPERTIES
    DecidedForGood
    RequestsAreAnswered
