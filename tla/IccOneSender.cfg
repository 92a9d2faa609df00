\* The pipe from the CM7 to the CM4: its only sender is the UART interrupt.
SPECIFICATION FairSpec
CONSTANTS
    Senders = {uart}
    Length = 4
    MaxWrite = 3
    MaxBytes = 8
    Modulus = 16
    Rereads = FALSE
    Gated = TRUE
INVARIANTS TypeOK PendingIsAnnounced DrainRight
PROPERTIES AllDelivered ImplementsChannel
CHECK_DEADLOCK FALSE
