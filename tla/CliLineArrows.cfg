\* An arrow after another one: the comments of cli.c:370 and :371.
SPECIFICATION Spec
CONSTANTS
    LineLen = 3
    Depth = 2
    ParamLen = 2
    PrefixLen = 2
    Typed = {"x", "h", " "}
    MaxLines = 3
PROPERTY ArrowsMove
CHECK_DEADLOCK FALSE
