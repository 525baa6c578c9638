---------------------------- MODULE MCWalletLoad ----------------------------
(* Instance of WalletLoad for TLC: four items, enough for two unordered   *)
(* ones received before a numbered one, and for a corrupt record among    *)
(* them; in WalletLoad.cfg the second is a default-account accounting      *)
(* entry.                                                                   *)
EXTENDS WalletLoad, TLC

MCN == 4
MCAcEntries == {2}
MCNoEntries == {}
=============================================================================
