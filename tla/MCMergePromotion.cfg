SPECIFICATION Spec
CONSTANTS
    a1 = a1  a2 = a2  t1 = t1  t2 = t2  p1 = p1  p2 = p2
    Approval = {a1, a2}
    Task = {t1, t2}
    Proc = {p1, p2}
    Hooked = {}
    MaxOwn = 1
    MaxDeaths = 1
    Faults = {"spawn", "unnamed", "kill", "group", "abort"}
    NONE = NONE
SYMMETRY AllAlike
CONSTRAINT InstanceBound
INVARIANTS ResetOverNobody SoleMerge
PROPERTIES MarkerHeld ImplementsDecision
CHECK_DEADLOCK FALSE
