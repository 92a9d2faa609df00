\* The stack has no memory for a frame and takes the next one.
SPECIFICATION Spec
CONSTANTS
    N = 4
    Stacks = {"lwIP"}
    Spare = TRUE
    MaxFrames = 3
    MaxTx = 0
PROPERTY OldestFound
CHECK_DEADLOCK FALSE
