\* A start and a completion, two processes, one death.
SPECIFICATION Spec
CONSTANTS
    s = s f = f
    p1 = p1 p2 = p2
    Proc = {p1, p2}
    StartKey = {s}
    CheckKey = {}
    CompleteKey = {f}
    MaxId = 2
    MaxHead = 2
    MaxDeaths = 1
    NONE = NONE
SYMMETRY Alike
CONSTRAINT TwoCalls
INVARIANTS OneArtifact SuccessIsThere RecoveryReady
PROPERTY CreatorUndisturbed
CHECK_DEADLOCK FALSE
