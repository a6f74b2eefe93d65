SPECIFICATION Spec
CONSTANTS
    f1 = f1
    f2 = f2
    f3 = f3
    v1 = v1
    v2 = v2
    Fid <- MCFid
    Value <- MCValue1
    NoFid = NoFid
    None = None
    Sizes = {1, 2}
    OnceFlags = {FALSE}
    SwapMod = 4
    EraseVal = 3
    NumBlocks = 4
    BlockSize = 4
    DataStart = 2
    MaxNumFiles = 3
    MaxFileSize = 2
    LegacyImage = TRUE
    LegacyPad = 2
PROPERTIES ServesAgain
