CONSTANTS
    Wsi = {w1, w2}
    NoWsi = NoWsi
    Timer = {t1, t2}
    NoTimer = NoTimer
    MaxTasks = 3
    MaxReq = 2
    Worlds <- AllWorlds
SPECIFICATION FairSpec
INVARIANTS NeverStuck NotificationPrecedesReconnect OneAttempt RegisteredIsLive GaveUpIsQuiet
PROPERTIES RedirectOnlyOnBye KeepsTrying
CHECK_DEADLOCK FALSE
