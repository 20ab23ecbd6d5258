\* Two turns that overlap, and a watch or a launch that is lost.
SPECIFICATION Spec
CONSTANTS
    t1 = t1
    t2 = t2
    t3 = t3
    o1 = o1
    o2 = o2
    Turns = {t1, t2}
    Observations = {o1, o2}
    MaxLost = 1
INVARIANTS
    TypeOK
    HandedAtMostOnce
    WorkerOutputIsCredited
    LinkerIsVisible
PROPERTIES
    KeepsLedger
SYMMETRY Symmetry
CHECK_DEADLOCK FALSE
