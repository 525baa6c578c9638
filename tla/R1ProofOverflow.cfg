\* One group element, two scalars; proofs with f of length 0..3 from the
\* stream; three (n, m) shapes, elements of 2 and 1 bytes.
CONSTANTS
    g1 = g1  s1 = s1  s2 = s2
    NoProof = NoProof
    GroupElements <- MCGroupElements
    Scalars <- MCScalars
    Dims <- MCDims
    GSize = 2
    SSize = 1
    MaxF = 3
SPECIFICATION Spec
INVARIANT NoBufferOverflow
