SPECIFICATION Spec
CONSTANTS
    Columns = 4
    Rows = 3
    Transforms = 8
    Block = 2
    QueueLength = 2
    BufferingLen = 3
    MaxTyped = 8
    MaxOther = 1
    MaxFailedDraws = 1
INVARIANT TransfersRight
PROPERTY ExamplesFinish
CHECK_DEADLOCK FALSE
