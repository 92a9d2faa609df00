\* Both stacks; a ring of four, which three stamped frames wrap around.
SPECIFICATION FairSpec
CONSTANTS
    N = 4
    Stacks = {"lwIP", "EtherLib"}
    Spare = TRUE
    MaxFrames = 3
    MaxTx = 1
INVARIANTS TypeOK InOrder FramesRight
PROPERTY AllRead
CHECK_DEADLOCK FALSE
