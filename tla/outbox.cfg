SPECIFICATION FairSpec
CONSTANTS
    u1 = u1  u2 = u2  u3 = u3  d1 = d1  d2 = d2  Permission = Permission
    Users = {u1, u2}
    StaffUsers = {u1, u2}
    Events <- OneEvent
    recipientOf <- StaffOnly
    Passes = {d1, d2}
    MaxAttempts = 2
    Batch = 1
    MaxRecipients = 2
    MaxFailures = 3
    MaxCrashes = 1
INVARIANTS
    TypeOK
    SettledWithReason
    DeliveredAtMostOnce
PROPERTY
    EveryEventSettles
CHECK_DEADLOCK FALSE
