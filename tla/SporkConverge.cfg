\* Reliable delivery, both nodes synced, at most one update per id and second.
CONSTANTS
    m = m  n1 = n1  n2 = n2  attacker = attacker
    masterKey = masterKey  wrongKey = wrongKey  noKey = noKey  none = none
    Nodes <- MCNodes
    Master <- m
    Attacker <- attacker
    MasterKey <- masterKey
    WrongKey <- wrongKey
    NoKey <- noKey
    None <- none
    SporkIDs <- MCSporkIDs
    SPORK_7_RECONSIDER_BLOCKS = 7
    SPORK_10_SIGMA = 10
    Default <- MCDefault
    Values = {0, 1}
    StartTime = 11
    MaxTime = 13
    OffTime = 100
    Timeout = 2
    MaxBlocks = 6
    MaxUpdates = 2
    Synced <- MCNodes
    Lossy = FALSE
    Forge = FALSE
    SameSecond = FALSE
SPECIFICATION LiveSpec
PROPERTY Convergence
