SPECIFICATION Spec
CONSTANTS
    Msg = {m1, m2}
    Ext = {x1, x2}
    Phone = {p1}
    Before = {"active"}
    Text = {t1}
    Handler = {h1, h2}
    Batch = 1
    Request = {"create", "compose", "edit"}
    MaxRequests = 1
    MaxSoftphone = 1
    MaxLists = 1
    MaxFaults = 0
    MaxRestarts = 0
    None = None
PROPERTIES
    QueuedIsResolved
    SendingEnds
CHECK_DEADLOCK FALSE
