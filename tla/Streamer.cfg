CONSTANTS
    MaxItems = 2
    MaxFrames = 5
    MaxStarts = 4
SPECIFICATION FairSpec
INVARIANTS MuxerValid NoFrameLost
PROPERTY ControlReturns
CHECK_DEADLOCK FALSE
