--------------------------- MODULE MCPoWHashCache ---------------------------
(* Four heights, the first above genesis precomputed, two competing        *)
(* headers at each height: enough for a reorganisation at two heights,    *)
(* each before and after its invalidation.                                 *)
EXTENDS PoWHashCache, TLC

CONSTANTS v1, v2

MCVariants == {v1, v2}
=============================================================================
