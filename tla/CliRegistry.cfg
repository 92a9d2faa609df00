\* Two tasks, two names, and one call more than the table has room for.
SPECIFICATION Spec
CONSTANTS
    Tasks = {startup, ptp}
    Names = {eth, ip}
    Typed = {eth, ip}
    Cap = 2
    MaxCmds = 3
INVARIANTS TypeOK MutexRight TableRight HandleRight LookupRight HelpTidy
SYMMETRY Symmetry
CHECK_DEADLOCK FALSE
