SPECIFICATION FairSpec
CONSTANTS
    p1 = p1
    p2 = p2
    r1 = r1
    v1 = v1
    v2 = v2
    Proc = {p1, p2}
    Host = {p1,p2}
    Run = {r1}
    Reviewer = {v1,v2}
    Optional = {"fallback","tester"}
    Api = {v1}
    MaxActive = 1
    MaxRounds = 2
    MaxCalls = 9
    MaxSubprocesses = 9
    MaxErrors = 3
    MaxGoverned = 1
    MaxWork = 2
    MaxStops = 1
    MaxDeaths = 1
    Faults = {"linger"}
CHECK_DEADLOCK FALSE
CONSTRAINT Bounded
INVARIANTS RowTellsTruth CompletedAsReviewed
PROPERTIES VerdictStays StopsReach RunEnds
