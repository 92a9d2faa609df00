\* A ring of two; four frames, with or without time stamp, wrap the counter around.
SPECIFICATION FairSpec
CONSTANTS
    N = 2
    CounterMod = 4
    Parts = 2
    MaxFrames = 4
    MaxRx = 1
INVARIANTS TypeOK StampsRight
PROPERTIES OwnedUntouched ImplementsChannel AllSent
CHECK_DEADLOCK FALSE
