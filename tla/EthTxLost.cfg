\* A frame is sent while the handler calls the callback of the one before.
SPECIFICATION FairSpec
CONSTANTS
    N = 2
    CounterMod = 8
    Parts = 2
    MaxFrames = 2
    MaxRx = 0
PROPERTY StampsDelivered
CHECK_DEADLOCK FALSE
