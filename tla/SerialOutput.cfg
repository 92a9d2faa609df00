\* The serial thread on its FIFO in the Release build, both scaled down.
SPECIFICATION FairSerialSpec
CONSTANTS
    Size = 4
    MaxRead = 3
    MaxPush = 2
    MaxBytes = 6
    Modulus = 16
    Rereads = FALSE
    PopWaits = FALSE
INVARIANTS SerialTypeOK SemaphoresRight ReadInOrder WireInOrder
PROPERTIES LineBufStable AllTransmitted ImplementsChannel
CHECK_DEADLOCK FALSE
