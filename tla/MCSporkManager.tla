--------------------------- MODULE MCSporkManager ---------------------------
EXTENDS SporkManager, TLC

CONSTANTS m, n1, n2, attacker, masterKey, wrongKey, noKey, none

\* SPORK_7 and SPORK_10 carry their number as id; ids stay below the clock.
MCNodes == {m, n1}
MCNodes3 == {m, n1, n2}
MCSporkIDs == {7, 10}
\* SPORK_7_RECONSIDER_BLOCKS_DEFAULT is 0 (on); SPORK_10_SIGMA_DEFAULT is off.
MCDefault == (7 :> 0) @@ (10 :> 100)
=============================================================================
