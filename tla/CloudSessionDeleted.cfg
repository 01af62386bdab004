CONSTANTS
    Wsi = {w1, w2}
    NoWsi = NoWsi
    Timer = {t1, t2}
    NoTimer = NoTimer
    MaxTasks = 3
    MaxReq = 2
    Worlds <- DeletedWorld
SPECIFICATION Spec
PROPERTY DeletedStops
CHECK_DEADLOCK FALSE
