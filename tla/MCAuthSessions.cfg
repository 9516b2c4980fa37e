\* Two sessions, three requests for setup, confirmation or verification.
CONSTANTS
    s1 = s1  s2 = s2
    c1 = c1  c2 = c2  c3 = c3
    r1 = r1
    w = w
    Sessions = {s1, s2}
    Calls = {c1, c2, c3}
    Recovery = {r1}
    Wrong = w
    MaxFailed = 2
    MaxMfaFailed = 2
    Lock = 1
    Ttl = 2
    MaxNow = 2
SYMMETRY MCSymmetry
SPECIFICATION Spec
\* The requests of the bounded instance end.
CHECK_DEADLOCK FALSE
INVARIANTS
    TypeOK
    SingleUse
    SecretsShownAreKept
    GuessesAreBounded
    WrongCodesEndASession
