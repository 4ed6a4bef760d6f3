SPECIFICATION Spec
CONSTANTS
    g1 = g1  g2 = g2  r1 = r1  r2 = r2  c1 = c1  c2 = c2  t1 = t1  t2 = t2
    Guis = {g1, g2}
    Calls = {r1, r2}
    Children = {c1}
    Readers = {}
    Trees = {t1}
    MaxEpoch = 2
    ChildLimit = 1
    Faults = {"stall"}
    NONE = NONE
INVARIANTS OneWriterCall FencedWrites
SYMMETRY Alike
