\* Three callers: it takes three for two exchanges to overlap.  No symmetry, for liveness.
CONSTANTS
    c1 = c1  c2 = c2  c3 = c3
    Callers = {c1, c2, c3}
    Life = 1
    MaxNow = 2
SPECIFICATION Spec
\* The callers of the bounded instance are answered.
CHECK_DEADLOCK FALSE
INVARIANTS
    OneExchange
PROPERTIES
    CallersAreAnswered
