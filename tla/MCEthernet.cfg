SPECIFICATION Spec
CONSTANTS
    TimeOut = 3
    ResetTimeOut = 2
    MacDelays = {0, 2, 4}
    PhyDelays = {0, 3}
    RxSizes <- MCRxSizes
    TxSizes <- MCTxSizes
    Sender = {s1, s2}
    TxSpace = 28
    RxSlots = 2
    Buffers = 2
    EventSlots = 1
INVARIANTS LinkConfigured TrafficIntact
PROPERTIES FramesServed
CHECK_DEADLOCK FALSE
