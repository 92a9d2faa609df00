\* The interrupt comes while the task erases the descriptor for the frame after next.
SPECIFICATION Spec
CONSTANTS
    N = 2
    CounterMod = 8
    Parts = 2
    MaxFrames = 3
    MaxRx = 0
INVARIANT StampsWhole
CHECK_DEADLOCK FALSE
