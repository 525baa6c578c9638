---------------------------- MODULE MCWalletFlush ----------------------------
(* Instance of WalletFlush for TLC: two writer threads.                    *)
EXTENDS WalletFlush, TLC

CONSTANTS t1, t2
MCThreads == {t1, t2}
=============================================================================
