\* One task besides the CLI's, which looks a command up.
SPECIFICATION Spec
CONSTANTS
    Tasks = {ptp}
    Names = {eth, ip}
    Typed = {eth, ip}
    Cap = 2
    MaxCmds = 2
INVARIANT CalledAsTyped
CHECK_DEADLOCK FALSE
