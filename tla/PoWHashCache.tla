---------------------------- MODULE PoWHashCache ----------------------------
(***************************************************************************)
(* The PoW-hash cache of src/primitives/block.cpp.  GetPoWHash(nHeight,    *)
(* forceCalc) looks the hash up in the global mapPoWHash, keyed by the     *)
(* height alone, and otherwise computes LYRA2 over the header and inserts  *)
(* the result at that height; a negative height first loads the table of  *)
(* precomputed main-chain hashes.  InvalidateCachedPoWHash(nHeight) erases *)
(* a height's entry.  On testnet the lookups are skipped.                  *)
(*                                                                         *)
(* The callers (block validation, outside this source tree) hold the      *)
(* active chain: `chain` is its header at each height, and a              *)
(* reorganisation replaces the header at a height above the precomputed   *)
(* ones.  Nothing in this tree says when callers invalidate, so they may  *)
(* ask, reorganise and invalidate in any order.  A header is              *)
(* <<height, variant>>.                                                     *)
(***************************************************************************)
EXTENDS Integers

CONSTANTS
    MaxHeight,          \* heights 0..MaxHeight of the active chain
    Precomputed,        \* buildMapPoWHash loads heights 1..Precomputed
    Variants,           \* competing headers at one height
    MainVariant,        \* the variant of the chain buildMapPoWHash was made from
    TestNet,            \* Params().NetworkIDString() == TESTNET
    UnknownHeight,      \* callers also ask with nHeight = -1
    NoHash, NoAnswer

ASSUME MaxHeight >= 1 /\ Precomputed \in 1..MaxHeight /\ MainVariant \in Variants

Heights == 0..MaxHeight
Keys == Heights \cup (IF UnknownHeight THEN {-1} ELSE {})
Headers == Heights \X Variants

VARIABLES
    mapPoWHash,  \* height -> cached hash, or NoHash when absent
    chain,       \* the callers' active chain
    answer       \* the last GetPoWHash call and what it returned

vars == <<mapPoWHash, chain, answer>>

AbstractAnswer ==
    IF answer = NoAnswer THEN NoAnswer
    ELSE [header |-> answer.header, hash |-> answer.hash]

Abstract == INSTANCE PoWHash WITH answer <- AbstractAnswer

Lyra2(hdr) == Abstract!Lyra2(hdr)
Hashes == {Lyra2(hdr) : hdr \in Headers}

(* The cache holds LYRA2 hashes of headers; the chain has a header of      *)
(* height h at each height h.                                               *)
TypeOK ==
    /\ mapPoWHash \in [Keys -> Hashes \cup {NoHash}]
    /\ \A h \in Heights : chain[h] \in {h} \X Variants
    /\ answer \in {NoAnswer} \cup [header: Headers, height: Keys, hash: Hashes]

Init ==
    /\ mapPoWHash = [k \in Keys |-> NoHash]
    /\ chain = [h \in Heights |-> <<h, MainVariant>>]
    /\ answer = NoAnswer

(* buildMapPoWHash(): inserts the precomputed hashes of the main chain.    *)
BuildMapPoWHash(map) ==
    [k \in Keys |-> IF k \in 1..Precomputed /\ map[k] = NoHash
                    THEN Lyra2(<<k, MainVariant>>) ELSE map[k]]

(* CBlockHeader::GetPoWHash(nHeight, forceCalc) for header hdr: the lookup *)
(* (skipped on testnet and when forced), else LYRA2 and                    *)
(* mapPoWHash.insert, which leaves an existing entry in place.             *)
GetPoWHash(hdr, nHeight, forceCalc) ==
    LET built == IF ~TestNet /\ nHeight < 0 /\ mapPoWHash[1] = NoHash
                 THEN BuildMapPoWHash(mapPoWHash) ELSE mapPoWHash
        hit == ~TestNet /\ ~forceCalc /\ built[nHeight] # NoHash
        powHash == IF hit THEN built[nHeight] ELSE Lyra2(hdr)
    IN /\ mapPoWHash' = IF built[nHeight] = NoHash
                        THEN [built EXCEPT ![nHeight] = powHash] ELSE built
       /\ answer' = [header |-> hdr, height |-> nHeight, hash |-> powHash]
       /\ UNCHANGED chain

(* A caller asks about the active chain's header at a height, or about    *)
(* any header with the height unknown (-1).                                 *)
Query ==
    \E k \in Keys, forceCalc \in BOOLEAN :
       \E hdr \in IF k < 0 THEN Headers ELSE {chain[k]} :
          GetPoWHash(hdr, k, forceCalc)

(* A competing header replaces the active chain's header at a height      *)
(* above the checkpointed, precomputed ones.                               *)
Reorg ==
    \E h \in (Precomputed + 1)..MaxHeight, v \in Variants :
       /\ chain[h] # <<h, v>>
       /\ chain' = [chain EXCEPT ![h] = <<h, v>>]
       /\ UNCHANGED <<mapPoWHash, answer>>

(* CBlockHeader::InvalidateCachedPoWHash(nHeight)                           *)
InvalidateCachedPoWHash(nHeight) ==
    /\ mapPoWHash' = IF nHeight >= 0 /\ mapPoWHash[nHeight] # NoHash
                     THEN [mapPoWHash EXCEPT ![nHeight] = NoHash] ELSE mapPoWHash
    /\ UNCHANGED <<chain, answer>>

Next ==
    \/ Query
    \/ Reorg
    \/ \E k \in Keys : InvalidateCachedPoWHash(k)

Spec == Init /\ [][Next]_vars

-----------------------------------------------------------------------------
(* GetPoWHash, a const member of CBlockHeader, returns that header's PoW   *)
(* hash: every hash it returns is the LYRA2 hash of the header asked      *)
(* about, as if computed afresh, through reorganisations, unknown heights, *)
(* forced recomputations and invalidations.                                *)
PoWHashRefined == Abstract!Spec

=============================================================================
