\* Operator's node and one peer; two ids; values 0, 1 and 12 (one reconsider
\* within nMaxBlocks, one beyond); three seconds with a 2 s nTimeout; lossy
\* network, the peer starts without a tip; attacker sends junk and replays.
CONSTANTS
    m = m  n1 = n1  n2 = n2  attacker = attacker
    masterKey = masterKey  wrongKey = wrongKey  noKey = noKey  none = none
    Nodes <- MCNodes
    Master <- m
    Attacker <- attacker
    MasterKey <- masterKey
    WrongKey <- wrongKey
    NoKey <- noKey
    None <- none
    SporkIDs <- MCSporkIDs
    SPORK_7_RECONSIDER_BLOCKS = 7
    SPORK_10_SIGMA = 10
    Default <- MCDefault
    Values = {0, 1, 12}
    StartTime = 11
    MaxTime = 13
    OffTime = 100
    Timeout = 2
    MaxBlocks = 6
    MaxUpdates = 2
    Synced = {m}
    Lossy = TRUE
    Forge = FALSE
    SameSecond = TRUE
SPECIFICATION Spec
INVARIANT TypeOK
INVARIANT NoHonestPeerPenalised
PROPERTY ActiveTimeMonotone
