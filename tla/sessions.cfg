SPECIFICATION SessionsSpec
CONSTANTS
    u1 = u1  r1 = r1  r2 = r2  r3 = r3
    Users = {u1}
    Clients = {u1}
    Tokens <- ThreeTokens
    ResetTokens <- OneToken
    Roles = {}
    Requests = {r1, r2, r3}
SYMMETRY Symmetry
INVARIANTS
    SessionsTypeOK
    RotationIsExclusive
    SessionsEndWithCredentials
CHECK_DEADLOCK FALSE
