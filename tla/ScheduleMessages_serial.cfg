SPECIFICATION Spec
CONSTANTS
    Schedule = {s1}
    MsgSet = {m1, m2}
    Plan = {once, cron}
    CronPlan = {cron}
    Operator = {o1, o2}
    Call = {c1}
    FileRows = 2
    Command = {"create", "update", "stop", "pause", "resume", "delete", "pull", "runHttp"}
    Report = {"other", "last", "late", "error"}
    Outcome = {"queued", "delivered", "failed"}
    Fault = {}
    MaxRequests = 3
    MaxRestarts = 0
    None = None
SYMMETRY Symmetry
INVARIANT TypeOK
PROPERTIES
    StoppedNeverSent
    DeliversSets
CHECK_DEADLOCK FALSE
