\* Two tasks of the CM4 printing at once: the ring has no lock.
SPECIFICATION Spec
CONSTANTS
    Senders = {ptp, cli}
    Length = 3
    MaxWrite = 2
    MaxBytes = 3
    Modulus = 16
    Rereads = FALSE
    Gated = FALSE
INVARIANT PushedIsStored
CHECK_DEADLOCK FALSE
