SPECIFICATION IdentityFairSpec
CONSTANTS
    Reader = {s, r}
    Starter = s
    Pid = {1, 2}
    OwnerPid = 1
    Hooked = {TRUE, FALSE}
    Faults = {"spawn", "row", "marker", "trace", "lose", "payload", "column", "hash", "group", "death", "reboot", "reuse"}
    MaxFaults = 2
    NOID = NOID
INVARIANTS ShortPhraseMeansGone ClosedMeansOver
PROPERTY OwnerGetsOut
CHECK_DEADLOCK FALSE
