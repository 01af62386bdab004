CONSTANTS
    e1 = e1
    e2 = e2
    p1 = p1
    Stream = {s1}
    DefaultStream = s1
    Event = {e1, e2}
    Pulse = {p1}
    Direct = Direct
    NeedsSource = TRUE
    Worlds <- AllWorlds
SPECIFICATION FairSpec
INVARIANTS TypeOK SinkCounted SinkFed  ByEventAsked
PROPERTIES RecordEventClosed EventStreamEnds CardRecords
