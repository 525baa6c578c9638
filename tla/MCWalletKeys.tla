---------------------------- MODULE MCWalletKeys ----------------------------
(* Two HD mints and one coin value as in MCWalletArchive, and two keys     *)
(* with two creation times: one key can be written while the other is     *)
(* encrypted, and the fold of creation times has two records to order.    *)
EXTENDS WalletKeys, TLC

CONSTANTS m1, m2, c1, k1, k2

MCMints == {m1, m2}
MCCoins == {c1}
MCPubKeys == {k1, k2}
MCTimes == {2, 3}

(* Mints are interchangeable, and so are keys: nothing orders them, and   *)
(* the fold's CHOOSE computes a minimum, whatever element it takes first. *)
MCSymmetry == Permutations(MCMints) \cup Permutations(MCPubKeys)
=============================================================================
