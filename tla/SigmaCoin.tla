----------------------------- MODULE SigmaCoin -----------------------------
(***************************************************************************)
(* The sigma coin of src/sigma/coin.cpp: minting a PrivateCoin             *)
(* (PrivateCoin::mintCoin) and the lazily cached value hash of its         *)
(* PublicCoin (PublicCoin::getValueHash), called by several threads on     *)
(* one shared coin.                                                        *)
(*                                                                         *)
(* The cache `valueHash` is a uint256: W machine words.  getValueHash      *)
(* reads it with uint256::IsNull (a loop over the words that returns at    *)
(* the first non-zero word), fills it word by word when null and returns  *)
(* a reference that the caller copies word by word.  The reads and writes *)
(* of two threads are not synchronised (a data race in C++); the model    *)
(* lets them interleave at word granularity, the outcomes a build can     *)
(* produce.                                                                *)
(***************************************************************************)
EXTENDS Naturals, Sequences

CONSTANTS
    Threads,        \* threads calling getValueHash on the shared coin
    W,              \* number of words the uint256 cache is read/written in
    Keys,           \* 32-byte candidates RAND_bytes can produce
    ValidKeys,      \* those secp256k1_ec_pubkey_create accepts
    Randomness,     \* values Scalar::randomize can produce
    Denominations,  \* the CoinDenomination values a mint is asked for
    NoCoin          \* no PrivateCoin constructed yet

ASSUME /\ W \in Nat \ {0}
       /\ ValidKeys \subseteq Keys /\ ValidKeys # {}

Words == 1..W

(* serialNumberFromSerializedPublicKey: SHA256 of a tag and the ECDH of    *)
(* the public key with the scalar one; a function of the secret key.       *)
SerialOf(k) == <<"serial", k>>

(* SigmaPrimitives::commit(g, s, h0, r) = g^s h0^r, binding.               *)
Commit(s, r) == <<"commit", s, r>>

(* primitives::GetPubCoinValueHash: a digest of the group element, never   *)
(* the null uint256; word i of it.  Zero is the all-zero word.             *)
Zero == <<"zero">>
HashWord(v, i) == <<"hash", v, i>>
ValueHash(v) == [i \in Words |-> HashWord(v, i)]
NullHash == [i \in Words |-> Zero]
Word == {Zero} \cup {HashWord(Commit(SerialOf(k), r), i) :
                    k \in ValidKeys, r \in Randomness, i \in Words}

VARIABLES
    coin,       \* the PrivateCoin, or NoCoin
    pc,         \* per thread: where it is inside getValueHash
    idx,        \* per thread: the word it reads or writes next
    res,        \* per thread: the words it has copied out of the reference
    afterFill,  \* per thread: its call started after a fill had completed
    filled      \* some thread has written the whole cache

vars == <<coin, pc, idx, res, afterFill, filled>>

PublicCoinT == [value: {Commit(SerialOf(k), r) : k \in ValidKeys, r \in Randomness},
                denomination: Denominations, valueHash: [Words -> Word]]

TypeOK ==
    /\ coin \in {NoCoin} \cup
          [ecdsaSeckey: ValidKeys, serialNumber: {SerialOf(k) : k \in ValidKeys},
           randomness: Randomness, publicCoin: PublicCoinT]
    /\ pc \in [Threads -> {"idle", "isnull", "write", "read", "done"}]
    /\ idx \in [Threads -> 1..(W + 1)]
    /\ res \in [Threads -> Seq(Word)]
    /\ afterFill \in [Threads -> BOOLEAN]
    /\ filled \in BOOLEAN

Init ==
    /\ coin = NoCoin
    /\ pc = [t \in Threads |-> "idle"]
    /\ idx = [t \in Threads |-> 1]
    /\ res = [t \in Threads |-> <<>>]
    /\ afterFill = [t \in Threads |-> FALSE]
    /\ filled = FALSE

(* PrivateCoin(p, d, v) -> mintCoin(d): sample keys until                  *)
(* secp256k1_ec_pubkey_create accepts one, derive the serial from it,      *)
(* randomise, commit, and wrap the commitment in a fresh PublicCoin whose  *)
(* valueHash is null.  When RAND_bytes fails, ZerocoinException leaves    *)
(* the constructor and no coin exists: a stuttering step, not modelled.    *)
(* Mutant: the first RAND_bytes output is kept without the                 *)
(* secp256k1_ec_pubkey_create test.                                        *)
MintKeyUnchecked(k) == k \in Keys

MintKey(k) == k \in ValidKeys

MintCoin(d) ==
    /\ coin = NoCoin
    /\ \E k \in Keys, r \in Randomness :
         /\ MintKey(k)
         /\ coin' = [ecdsaSeckey |-> k, serialNumber |-> SerialOf(k),
                     randomness |-> r,
                     publicCoin |-> [value |-> Commit(SerialOf(k), r),
                                     denomination |-> d, valueHash |-> NullHash]]
    /\ UNCHANGED <<pc, idx, res, afterFill, filled>>

(* getValueHash() entered: IsNull starts at word 1.                        *)
StartGetValueHash(t) ==
    /\ coin # NoCoin
    /\ pc[t] = "idle"
    /\ pc' = [pc EXCEPT ![t] = "isnull"]
    /\ idx' = [idx EXCEPT ![t] = 1]
    /\ res' = [res EXCEPT ![t] = <<>>]
    /\ afterFill' = [afterFill EXCEPT ![t] = filled]
    /\ UNCHANGED <<coin, filled>>

(* One iteration of uint256::IsNull: a non-zero word returns false and the *)
(* cached value is returned; all W words zero returns true and the cache   *)
(* is filled.                                                              *)
IsNullStep(t) ==
    /\ pc[t] = "isnull"
    /\ LET w == coin.publicCoin.valueHash[idx[t]] IN
         IF w # Zero
         THEN /\ pc' = [pc EXCEPT ![t] = "read"]
              /\ idx' = [idx EXCEPT ![t] = 1]
         ELSE IF idx[t] = W
              THEN /\ pc' = [pc EXCEPT ![t] = "write"]
                   /\ idx' = [idx EXCEPT ![t] = 1]
              ELSE /\ idx' = [idx EXCEPT ![t] = @ + 1]
                   /\ UNCHANGED pc
    /\ UNCHANGED <<coin, res, afterFill, filled>>

(* valueHash = GetPubCoinValueHash(value): the assignment copies one word  *)
(* per step; the fill is complete after word `last`.                       *)
FillUpTo(t, last) ==
    /\ pc[t] = "write"
    /\ coin' = [coin EXCEPT !.publicCoin.valueHash[idx[t]] =
                              HashWord(coin.publicCoin.value, idx[t])]
    /\ IF idx[t] = last
       THEN /\ pc' = [pc EXCEPT ![t] = "read"]
            /\ idx' = [idx EXCEPT ![t] = 1]
            /\ filled' = TRUE
       ELSE /\ idx' = [idx EXCEPT ![t] = @ + 1]
            /\ UNCHANGED <<pc, filled>>
    /\ UNCHANGED <<res, afterFill>>

(* Mutant: the copy stops one word short.                                  *)
FillStepShort(t) == FillUpTo(t, W - 1)

FillStep(t) == FillUpTo(t, W)

(* return valueHash: the caller copies the referenced words one by one.    *)
ReadStep(t) ==
    /\ pc[t] = "read"
    /\ res' = [res EXCEPT ![t] = Append(@, coin.publicCoin.valueHash[idx[t]])]
    /\ IF idx[t] = W
       THEN /\ pc' = [pc EXCEPT ![t] = "done"]
            /\ idx' = [idx EXCEPT ![t] = 1]
       ELSE /\ idx' = [idx EXCEPT ![t] = @ + 1]
            /\ UNCHANGED pc
    /\ UNCHANGED <<coin, afterFill, filled>>

(* The caller is done with the hash and may call again.                    *)
Return(t) ==
    /\ pc[t] = "done"
    /\ pc' = [pc EXCEPT ![t] = "idle"]
    /\ UNCHANGED <<coin, idx, res, afterFill, filled>>

Next ==
    \/ \E d \in Denominations : MintCoin(d)
    \/ \E t \in Threads :
         \/ StartGetValueHash(t) \/ IsNullStep(t) \/ FillStep(t)
         \/ ReadStep(t) \/ Return(t)

Spec == Init /\ [][Next]_vars

-----------------------------------------------------------------------------
(* Once one getValueHash has filled the cache, every later call returns    *)
(* GetPubCoinValueHash(value): the lazily computed cache is stable and     *)
(* complete once written (PublicCoin::getValueHash).                       *)
ValueHashStableAfterFill ==
    \A t \in Threads :
        (pc[t] = "done" /\ afterFill[t]) => res[t] = ValueHash(coin.publicCoin.value)

(* Every getValueHash returns GetPubCoinValueHash(value), however the      *)
(* calls of several threads on one coin interleave: spec section 5 says    *)
(* concurrent first readers racing to fill the cache is benign.            *)
ValueHashCorrect ==
    \A t \in Threads :
        pc[t] = "done" => res[t] = ValueHash(coin.publicCoin.value)

=============================================================================
