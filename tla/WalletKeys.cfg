\* Archive moves and key writers of one wallet thread, with crashes between
\* their calls and failing writes and erases, on a file of an older client.
SPECIFICATION WalletSpec
CONSTANTS
    m1 = m1
    m2 = m2
    c1 = c1
    k1 = k1
    k2 = k2
    NoMeta = NoMeta
    NoLoad = NoLoad
    Mints <- MCMints
    Coins <- MCCoins
    PubKeys <- MCPubKeys
    Times <- MCTimes
    WriteMayFail = TRUE
SYMMETRY MCSymmetry
INVARIANT WalletTypeOK
INVARIANT MintNeverLost
INVARIANT KeyNeverLost
