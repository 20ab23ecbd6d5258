\* Two turns; every run that was launched is watched to its end or unwatched.
SPECIFICATION FairSpec
CONSTANTS
    t1 = t1
    t2 = t2
    t3 = t3
    o1 = o1
    o2 = o2
    Turns = {t1, t2}
    Observations = {o1}
    MaxLost = 0
PROPERTIES
    WaitingIsSettled
CHECK_DEADLOCK FALSE
