CONSTANTS
    t1 = t1
    t2 = t2
    Thread = {t1, t2}
    MaxFiles <- OneOfEach
    MaxEvent = 5
    Wrap = 8
    Worlds <- AllWorlds
SPECIFICATION Spec
INVARIANTS FilesBounded FilesAwaited
CHECK_DEADLOCK FALSE
