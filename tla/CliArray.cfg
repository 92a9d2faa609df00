\* One task that registers three commands and removes them as an array.
SPECIFICATION Spec
CONSTANTS
    Tasks = {ptp}
    Names = {eth, ip, mem}
    Typed = {eth, ip, mem}
    Cap = 3
    MaxCmds = 3
PROPERTY RemovedAsGiven
CHECK_DEADLOCK FALSE
