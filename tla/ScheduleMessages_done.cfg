SPECIFICATION Spec
CONSTANTS
    Schedule = {s1}
    MsgSet = {m1}
    Plan = {once}
    CronPlan = {}
    Operator = {o1}
    Call = {c1}
    FileRows = 1
    Command = {"create", "pause"}
    Report = {"other", "last"}
    Outcome = {"queued", "delivered", "failed"}
    Fault = {}
    MaxRequests = 2
    MaxRestarts = 0
    None = None
PROPERTY DoneIsFinal
CHECK_DEADLOCK FALSE
