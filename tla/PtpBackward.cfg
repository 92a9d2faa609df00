\* One jump by a negative or a positive time.
SPECIFICATION Spec
CONSTANTS
    Second = 8
    Seconds = {1}
    Nanos = {4}
    Addends = {1, 2}
    Rounds = 2
    MaxCalls = 1
PROPERTY NegativeGoesBack
CHECK_DEADLOCK FALSE
