SPECIFICATION Spec
CONSTANTS
    AppData <- MCAppData
    SpEtss = 9
    Apps = {2, 9}
    ZoneSize = 8
    TotalSize = 16
    ReadLen = 4
    ProgramLen = 2
    EraseSize = 4
    FlashAreaAddr = 4
    BlockSize = 8
    SectorSize = 4
    NumBlocks = 1
    MaxSize = 6
    MaxPolls = 2
    MaxSessions = 2
    Width = 2
    AddrWidth = 5
    MaxFaults = 2
INVARIANTS RangeDone SessionClosed ChunkFinished InitTruthful
