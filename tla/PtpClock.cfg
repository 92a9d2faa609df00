\* Four calls of any kind, with the hardware as slow as it likes.
SPECIFICATION Spec
CONSTANTS
    Second = 8
    Seconds = {1}
    Nanos = {4}
    Addends = {1, 2}
    Rounds = 2
    MaxCalls = 4
INVARIANTS TypeOK JumpsOnce NoJumpLost AddendRight
CHECK_DEADLOCK FALSE
