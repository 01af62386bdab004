CONSTANTS
    s1 = s1
    s2 = s2
    s3 = s3
    s4 = s4
    s5 = s5
    Seg = {s1, s2, s3, s4, s5}
    NoSeg = NoSeg
    Request <- Events
    Step = 2
    Far = 9
    MaxClip = 3
    EndTime = {5}
    Stored <- CloudHas
    Worlds <- Cameras
    Gap = 4
    Threads = 2
SPECIFICATION FairSpec
INVARIANTS TypeOK NothingSkipped SilentOnlyWhenEmpty PlannedOnce SquashExact
PROPERTIES FinalIsLast CancelStops AllProcessed
CHECK_DEADLOCK FALSE
