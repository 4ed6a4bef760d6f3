SPECIFICATION MCFairSpec
CONSTANTS
    A = A
    B = B
    s1 = s1
    a1 = a1
    a2 = a2
    NULL = NULL
    Rooms = {A, B}
    Terminals = {s1}
    Approvals = {a1}
    RoomOf <- OnA
    Limit = 1
    MaxCalls = 1
    MaxMoves = 3
INVARIANTS LiveLedger NewsOnce
PROPERTY PageSettles
CHECK_DEADLOCK FALSE
