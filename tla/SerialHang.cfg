\* A push of the start-up task overlaps the thread: the flag is never set.
SPECIFICATION FairSerialSpec
CONSTANTS
    Size = 4
    MaxRead = 2
    MaxPush = 2
    MaxBytes = 6
    Modulus = 16
    Rereads = FALSE
    PopWaits = FALSE
PROPERTY ThreadReturns
CHECK_DEADLOCK FALSE
