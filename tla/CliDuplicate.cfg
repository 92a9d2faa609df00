\* One task that registers a command twice.
SPECIFICATION FairSpec
CONSTANTS
    Tasks = {startup}
    Names = {eth}
    Typed = {eth}
    Cap = 2
    MaxCmds = 2
PROPERTY DuplicatesGo
CHECK_DEADLOCK FALSE
