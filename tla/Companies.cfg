SPECIFICATION Spec
CONSTANTS
    Company = {c1, c2}
    Phone = {p1, p2}
    App = {a1, a2}
    Password = {w1, w2}
    Server = {s1, s2}
    Handler = {h1, h2}
    MaxRequests = 4
    MaxFaults = 1
    None = None
INVARIANTS
    TypeOK
    EveryCompanyIsServed
    NoConcreteIsLeft
    OneCompanyPerPhone
SYMMETRY Symmetry
CHECK_DEADLOCK FALSE
