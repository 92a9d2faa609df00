\* One task that registers two commands and removes them as an array.
SPECIFICATION Spec
CONSTANTS
    Tasks = {ptp}
    Names = {eth, ip}
    Typed = {eth, ip}
    Cap = 2
    MaxCmds = 2
INVARIANT Released
CHECK_DEADLOCK FALSE
