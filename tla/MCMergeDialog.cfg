SPECIFICATION MCFairSpec
CONSTANTS
    a1 = a1
    a2 = a2
    a3 = a3
    t1 = t1
    t2 = t2
    NONE = NONE
    Approval = {a1, a2, a3}
    Task = {t1, t2}
    Short = {}
    MaxOwn = 1
    MaxCalls = 1
    MaxActs = 5
INVARIANTS SignedAsRead
PROPERTY ChangeSurfaces
CHECK_DEADLOCK FALSE
