SPECIFICATION Spec
CONSTANTS
    Customer = {c1}
    Campaign = {k1}
    RowId = {r1, r2}
    Suggestion = {s1, s2}
    Word = {w1}
    Message = {m1}
    Handler = {h1, h2}
    Direction = {inbound, outbound}
    MaxRequests = 4
    MaxBatches = 1
    MaxFaults = 1
    None = None
INVARIANTS
    TypeOK
    AnswerStands
    LearnedIsDecided
PROPERTY
    DecisionIsLearned
CHECK_DEADLOCK FALSE
