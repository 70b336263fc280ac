SPECIFICATION Spec
CONSTANTS
    k1 = k1  k2 = k2  l1 = l1  l2 = l2
    r1 = r1  r2 = r2  r3 = r3  r4 = r4
    Ids <- TwoIds
    Keys = {k1, k2}
    Locales = {l1, l2}
    Requests = {r1, r2, r3, r4}
    MaxCrashes = 1
SYMMETRY Symmetry
INVARIANTS
    TypeOK
    OneActive
    StatusIsAnnounced
    AnswerIsOfTheKey
