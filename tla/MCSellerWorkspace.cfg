\* Two callbacks: one links a seller, the other rotates its token or competes.
CONSTANTS
    u1 = u1  u2 = u2
    x1 = x1  x2 = x2
    s1 = s1  s2 = s2
    c1 = c1  c2 = c2
    d1 = d1  d2 = d2
    j1 = j1  j2 = j2
    p1 = p1  p2 = p2
    Users = {u1, u2}
    Sellers = {x1, x2}
    States = {s1, s2}
    Callbacks = {c1, c2}
    Deletions = {d1, d2}
    Projects = {j1, j2}
    Products = {p1, p2}
    Requests = {g1}
    None = None
    Deleted = Deleted
SPECIFICATION WorkspaceSpec
\* The states and callbacks of the bounded instance are used up.
CHECK_DEADLOCK FALSE
SYMMETRY Symmetry
CONSTRAINT OverlapsAreEarly
INVARIANTS
    OneExchangePerState
    TokensBelong
    TenantsApart
    FiledTogether
    ShownIsOwn
