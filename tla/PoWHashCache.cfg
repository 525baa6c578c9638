\* Mainnet callers that also ask with an unknown height (-1): the cache
\* answers a header with another header's hash.
SPECIFICATION Spec
CONSTANTS
    v1 = v1
    v2 = v2
    NoHash = NoHash
    NoAnswer = NoAnswer
    Variants <- MCVariants
    MainVariant = v1
    MaxHeight = 3
    Precomputed = 1
    TestNet = FALSE
    UnknownHeight = TRUE
PROPERTY PoWHashRefined
