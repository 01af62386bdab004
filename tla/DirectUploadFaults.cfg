CONSTANTS
    Upload = {1, 2, 3}
    None = 0
    MaxVideo = 1
    Wrap = 8
    Worlds <- AllWorlds
SPECIFICATION FairSpec
INVARIANTS ClipsBounded SlotsMatch NothingLost ReportsCounted RecordsAwaited
PROPERTIES  EveryChunkReported
CHECK_DEADLOCK FALSE
