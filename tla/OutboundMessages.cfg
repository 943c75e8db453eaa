SPECIFICATION Spec
CONSTANTS
    Msg = {m1, m2}
    Ext = {x1, x2}
    Phone = {p1}
    Before = {"stranger", "elsewhere", "inactive"}
    Text = {t1}
    Handler = {h1, h2}
    Batch = 1
    Request = {"create", "compose", "edit"}
    MaxRequests = 2
    MaxSoftphone = 1
    MaxLists = 1
    MaxFaults = 1
    MaxRestarts = 1
    None = None
INVARIANTS
    TypeOK
    SendingIsOnItsWay
    AnswerBinds
    GivenIsCommitted
SYMMETRY Symmetry
CHECK_DEADLOCK FALSE
