CONSTANTS
    SwapMod = 4
    EraseVal = 3
    NumBlocks = 5
    MaxVersion = 6
SPECIFICATION Spec
INVARIANTS
    RecoversLastCommit
    CommittedDataIntact
    IndInv
PROPERTIES
    NoRollback
