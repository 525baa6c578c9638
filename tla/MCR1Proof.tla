----------------------------- MODULE MCR1Proof -----------------------------
EXTENDS R1Proof

CONSTANTS g1, s1, s2

MCGroupElements == {g1}
MCScalars == {s1, s2}
\* n in {2, 3}, m in {1, 2}: f lengths 1, 2, 2 and 4 cells of room.
MCDims == {<<2, 1>>, <<2, 2>>, <<3, 1>>}
=============================================================================
