\* Shared coin, two threads, the cache read and written one word at a time.
CONSTANTS
    t1 = t1  t2 = t2  k0 = k0  k1 = k1  k2 = k2  r1 = r1  r2 = r2
    badDenom = badDenom  NoCall = NoCall
    COIN = 7
    BadDenominations = {badDenom}
    Amounts <- MCAmounts
    Labels <- MCLabels
    NoCoin = NoCoin
    Threads <- MCThreads
    Keys <- MCKeys
    ValidKeys <- MCValidKeys
    Randomness <- MCRandomness
    Denominations <- MCDenominations
    W = 2
SPECIFICATION Spec
INVARIANT TypeOK
INVARIANT ValueHashStableAfterFill
INVARIANT DenominationLaws
