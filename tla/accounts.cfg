SPECIFICATION AccountsSpec
CONSTANTS
    u1 = u1  u2 = u2  manager = manager  r1 = r1  r2 = r2  r3 = r3
    Users = {u1, u2}
    Clients = {u2}
    Tokens <- OneToken
    ResetTokens = {}
    Roles <- StaffRoles
    Requests = {r1, r2}
    SystemRoles <- Seeded
    OWNER = "OWNER"
    CUSTOMER = "CUSTOMER"
    OwnerOnly = {"OWNER"}
    granted <- ManagersRun
SYMMETRY Symmetry
INVARIANTS
    AccountsTypeOK
PROPERTIES
    OwnersRemain
    EveryoneKeepsARole
CHECK_DEADLOCK FALSE
