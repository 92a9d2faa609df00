\* Two calls, the second before the hardware has carried out the first.
SPECIFICATION Spec
CONSTANTS
    Second = 8
    Seconds = {1}
    Nanos = {4}
    Addends = {1, 2}
    Rounds = 2
    MaxCalls = 2
INVARIANT JumpsAsGiven
CHECK_DEADLOCK FALSE
