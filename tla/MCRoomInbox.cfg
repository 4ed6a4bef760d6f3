SPECIFICATION FairSpec
CONSTANTS
    s1 = s1
    s2 = s2
    w1 = w1
    w2 = w2
    Seats = {s1, s2}
    Owners = {o1}
    Loops = {w1, w2}
    LoopSeat <- MCLoopSeat
    Tokens = {t1, t2}
    Texts = {x1}
    MaxDeliveries = 1
    PendingLimit = 1
    MaxAttempts = 2
    NONE = NONE
CONSTRAINT OnlyAsks
INVARIANTS
    ReplyRecorded
PROPERTIES
    AcknowledgedWorkKept
    ClaimedByNewest
    ImplementsExchange
    UnacknowledgedHandedBack
    DeadSeatSettles
CHECK_DEADLOCK FALSE
