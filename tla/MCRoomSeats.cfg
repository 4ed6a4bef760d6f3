SPECIFICATION MCFairSpec
CONSTANTS
    s1 = s1
    s2 = s2
    r1 = r1
    r2 = r2
    l1 = l1
    l2 = l2
    Seats = {s1, s2}
    Owners = {o1}
    Labels = {l1, l2, l3}
    Requests = {r1, r2}
    From <- MCFrom
    To <- MCTo
    Shared = {l3}
    Stalls = {}
    Mortal = {s1}
    MaxPending = 1
    MaxActs = 2
    NONE = NONE
CONSTRAINT Bounded
INVARIANTS
    SentOnce
    LineExplained
    OneLateClaim
PROPERTIES
    StrandedSettles
CHECK_DEADLOCK FALSE
