SPECIFICATION Spec
CONSTANTS
    User = {u1, u2}
    CompanyUser = {k1, k2}
    Conversation = {c1}
    Row = {r1, r2}
    Item = {x1, x2}
    Handler = {h1, h2}
    Kind = {"inbound", "compose", "schedule"}
    MaxTouches = 1
    None = None
INVARIANTS
    TypeOK
    SeatedOnce
    SeatsComplete
    UnreadIsShown
    CountedOnce
SYMMETRY Symmetry
CHECK_DEADLOCK FALSE
