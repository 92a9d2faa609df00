\* The link monitor in both builds, with a cable that is unplugged, replugged
\* and renegotiated between and during the rounds.
SPECIFICATION FairSpec
CONSTANTS
    Modes = {"100F", "10H"}
    Stacks = {"lwIP", "EtherLib"}
    Settles = TRUE
    MaxChanges = 3
    MaxTriggers = 1
INVARIANTS TypeOK MacMatchesPhy
PROPERTIES ToldAlternates LossTold LinkFollowed
CHECK_DEADLOCK FALSE
