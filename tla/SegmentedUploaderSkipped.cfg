CONSTANTS
    s1 = s1
    s2 = s2
    s3 = s3
    s4 = s4
    s5 = s5
    Seg = {s1, s2}
    NoSeg = NoSeg
    Request <- Pair
    Step = 2
    Far = 9
    MaxClip = 3
    EndTime = {5}
    Stored <- CloudEmpty
    Worlds <- Flawless
    Gap = 4
    Threads = 2
SPECIFICATION Spec
INVARIANT EverythingPlanned
CHECK_DEADLOCK FALSE
