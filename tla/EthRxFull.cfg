\* The ring fills before it is processed.
SPECIFICATION FairSpec
CONSTANTS
    N = 3
    Stacks = {"EtherLib"}
    Spare = FALSE
    MaxFrames = 3
    MaxTx = 0
PROPERTY SearchEnds
CHECK_DEADLOCK FALSE
