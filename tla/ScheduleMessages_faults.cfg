SPECIFICATION Spec
CONSTANTS
    Schedule = {s1, s2}
    MsgSet = {m1}
    Plan = {once}
    CronPlan = {}
    Operator = {o1, o2}
    Call = {c1}
    FileRows = 1
    Command = {"create", "stop", "pause", "resume"}
    Report = {"other", "last", "late", "error"}
    Outcome = {"queued", "delivered", "failed"}
    Fault = {"rpc", "sets", "db"}
    MaxRequests = 4
    MaxRestarts = 1
    None = None
SYMMETRY Symmetry
INVARIANTS
    PublishedOncePerDelivery
    VisibleIsKnownToWorker
PROPERTY DeliversSets
CHECK_DEADLOCK FALSE
