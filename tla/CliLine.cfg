\* Three lines of up to three characters; a history of two, one too few. A prefix of
\* two columns is hidden by some entries and left over by others.
SPECIFICATION Spec
CONSTANTS
    LineLen = 3
    Depth = 2
    ParamLen = 2
    PrefixLen = 2
    Typed = {"x", "h", " "}
    MaxLines = 3
INVARIANTS TypeOK BufferKept HistoryExact LineRight
CHECK_DEADLOCK FALSE
