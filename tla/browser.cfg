SPECIFICATION Spec
CONSTANTS
    u1 = u1  r1 = r1  r2 = r2  b1 = b1
    Users = {u1}
    Clients = {u1}
    Me = u1
    Tokens <- ThreeTokens
    ResetTokens = {}
    Roles = {}
    Requests = {r1, r2}
    Tabs = {b1}
    MaxCalls = 2
INVARIANTS
    TypeOK
    OneUsePerToken
PROPERTIES
    WaitingEnds
CHECK_DEADLOCK FALSE
