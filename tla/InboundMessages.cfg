SPECIFICATION Spec
CONSTANTS
    Item = {x1, x2}
    Phone = {p1}
    Kind = {"message", "group", "call"}
    Before = {"stranger", "elsewhere", "inactive", "disabled", "active"}
    Handler = {h1, h2}
    Pool = 4
    MaxFaults = 1
    None = None
PROPERTIES
    HandlersEnd
INVARIANTS
    TypeOK
    OneConversation
    FirstContactIsWhole
    
    LostIsBounded
CHECK_DEADLOCK FALSE
