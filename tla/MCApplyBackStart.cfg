SPECIFICATION Spec
CONSTANTS
    s1 = s1
    s2 = s2
    c1 = c1
    c2 = c2
    Path <- MCPath
    Slot = {s1}
    Call = {c1}
    Kind = {"run", "room"}
    Pending = 1
    MaxEdits = 1
    MaxFaults = 1
    MaxDeaths = 1
INVARIANTS PreservedWriterCompletes
CHECK_DEADLOCK FALSE
