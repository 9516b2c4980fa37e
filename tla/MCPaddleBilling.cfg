\* Three events, two workers, two subscriptions of one user.
CONSTANTS
    e1 = e1  e2 = e2  e3 = e3
    s1 = s1  s2 = s2
    u1 = u1
    w1 = w1  w2 = w2
    Events = {e1, e2, e3}
    Subs = {s1, s2}
    Users = {u1}
    Workers = {w1, w2}
    Owner <- MCOwner
    Stories <- MCStories
    MaxFaults = 1
SPECIFICATION Spec
INVARIANTS
    AppliedOnce
    LastEventDecides
PROPERTIES
    EventsTakeEffect
