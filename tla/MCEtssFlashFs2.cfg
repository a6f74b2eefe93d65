SPECIFICATION Spec
CONSTANTS
    f1 = f1
    f2 = f2
    f3 = f3
    v1 = v1
    v2 = v2
    Fid <- MCFid
    Value <- MCValue1
    NoFid = NoFid
    None = None
    Sizes = {1, 2}
    OnceFlags = {FALSE, TRUE}
    SwapMod = 4
    EraseVal = 3
    NumBlocks = 2
    BlockSize = 7
    DataStart = 1
    MaxNumFiles = 3
    MaxFileSize = 2
    LegacyImage = FALSE
    LegacyPad = 0
PROPERTIES ImplementsStore ServesAgain
