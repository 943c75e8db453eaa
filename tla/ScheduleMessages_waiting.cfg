SPECIFICATION Spec
CONSTANTS
    Schedule = {s1}
    MsgSet = {m1}
    Plan = {cron}
    CronPlan = {cron}
    Operator = {o1}
    Call = {c1}
    FileRows = 1
    Command = {"create", "stop"}
    Report = {"other", "last"}
    Outcome = {"queued", "delivered", "failed"}
    Fault = {}
    MaxRequests = 2
    MaxRestarts = 0
    None = None
INVARIANT WaitingWillStart
CHECK_DEADLOCK FALSE
