\* Two tasks and room for one command.
SPECIFICATION Spec
CONSTANTS
    Tasks = {startup, ptp}
    Names = {eth, ip}
    Typed = {eth, ip}
    Cap = 1
    MaxCmds = 2
INVARIANT LimitKept
CHECK_DEADLOCK FALSE
