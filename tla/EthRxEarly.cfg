\* The thread is still reading when the next stamped frame comes.
SPECIFICATION Spec
CONSTANTS
    N = 4
    Stacks = {"EtherLib"}
    Spare = TRUE
    MaxFrames = 2
    MaxTx = 0
INVARIANT StampsOwn
CHECK_DEADLOCK FALSE
