---------------------------- MODULE MCSigmaCoin ----------------------------
(* Two threads calling getValueHash on one freshly minted coin, of two of *)
(* the registry's denominations; with it, the registry's conversions on    *)
(* every input below.  COIN is scaled down (TLC integers are 32-bit).  The *)
(* amounts are every amount from -1 to 60 * COIN, which covers 1, 10 and  *)
(* 50 coins and every non-multiple of COIN between them, and each larger   *)
(* legal amount with its neighbours; the labels and near-misses of them.   *)
EXTENDS SigmaCoin, SigmaDenomination

CONSTANTS t1, t2, k0, k1, k2, r1, r2, badDenom

MCThreads == {t1, t2}
MCKeys == {k0, k1, k2}
MCValidKeys == {k1, k2}
MCRandomness == {r1, r2}
MCDenominations == {"SIGMA_DENOM_X1", "SIGMA_DENOM_X100"}
MCAmounts == (-1..(60 * COIN)) \cup
             {k * COIN + e : k \in {100, 500, 1000, 5000}, e \in {-1, 0, 1}}
MCLabels == {"1", "10", "50", "100", "500", "1000", "5000",
             "01", "1.0", "5", "0", "", " 1", "100000000", "-1"}

(* The registry's conversions obey their laws on every input above, and a *)
(* minted coin's denomination (PrivateCoin's constructor argument) is an  *)
(* enumerator whose amount converts back to it.                            *)
DenominationLaws ==
    /\ ConversionLaws
    /\ coin # NoCoin =>
          LET d == coin.publicCoin.denomination
              amount == DenominationToInteger(d, NoCall)
          IN amount.ok /\ IntegerToDenomination(amount.out, NoCall).out = d
=============================================================================
