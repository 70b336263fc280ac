SPECIFICATION Spec
CONSTANTS
    u1 = u1  u2 = u2  u3 = u3  d1 = d1  d2 = d2  Permission = Permission
    Users = {u1, u3}
    StaffUsers = {u1}
    Events <- OneEvent
    recipientOf <- CustomerOnly
    Passes = {d1}
    MaxAttempts = 3
    Batch = 1
    MaxRecipients = 1
    MaxFailures = 0
    MaxCrashes = 1
INVARIANT
    ProcessedIsHandedOver
