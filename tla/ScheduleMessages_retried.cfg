SPECIFICATION Spec
CONSTANTS
    Schedule = {s1, s2}
    MsgSet = {m1}
    Plan = {once}
    CronPlan = {}
    Operator = {o1}
    Call = {c1}
    FileRows = 1
    Command = {"create", "delete"}
    Report = {"other", "last"}
    Outcome = {"queued", "delivered", "failed"}
    Fault = {}
    MaxRequests = 2
    MaxRestarts = 0
    None = None
INVARIANT RetriedIsMarked
CHECK_DEADLOCK FALSE
