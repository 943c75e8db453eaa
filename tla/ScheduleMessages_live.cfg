SPECIFICATION LiveSpec
CONSTANTS
    Schedule = {s1}
    MsgSet = {m1, m2}
    Plan = {once}
    CronPlan = {}
    Operator = {o1, o2}
    Call = {c1}
    FileRows = 2
    Command = {"create", "stop", "pause", "resume", "runHttp"}
    Report = {"other", "last", "late", "error"}
    Outcome = {"delivered"}
    Fault = {}
    MaxRequests = 3
    MaxRestarts = 0
    None = None
PROPERTY NoSetForgotten
CHECK_DEADLOCK FALSE
