SPECIFICATION FairSpec
CONSTANTS
    Session = {s1, s2}
    MaxListed = 1
    MaxLosses = 1
    SlowGreeter = TRUE
    None = None
INVARIANTS NothingMissed ExportsSnapshot ObserversAgree NeverEarly
PROPERTIES MirrorSettles
CHECK_DEADLOCK FALSE
