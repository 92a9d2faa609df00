\* An arrow after typed characters: the comment of cli.c:372.
SPECIFICATION Spec
CONSTANTS
    LineLen = 3
    Depth = 2
    ParamLen = 2
    PrefixLen = 2
    Typed = {"x", "h", " "}
    MaxLines = 2
PROPERTY KeptIfEdited
CHECK_DEADLOCK FALSE
