---------------------------- MODULE WalletArchive ----------------------------
(***************************************************************************)
(* The mint records of the wallet database (src/wallet/walletdb.cpp) and   *)
(* the functions that move them between the live and the archive tables:  *)
(* ArchiveDeterministicOrphan and UnarchiveHDMint for HD mints ("hdmint"  *)
(* and "dzco" records), ArchiveMintOrphan for v1 zerocoin entries and     *)
(* UnarchiveZerocoinMint for sigma entries ("zerocoin", "zco" and         *)
(* "sigma_mint" records), and ZapSigmaMints.                               *)
(*                                                                         *)
(* Each function is a sequence of Write and Erase calls, each atomic and   *)
(* durable on its own (BerkeleyDB with its log); the process may crash     *)
(* between two of them, and a Write or an Erase may fail.  CDB::Erase of  *)
(* an absent key succeeds.  The database is the set of keys present; a   *)
(* key is <<type, id>>, the id a mint, a coin value or the hash of one.   *)
(***************************************************************************)
EXTENDS FiniteSets

CONSTANTS
    Mints,        \* HD mints (CHDMint), named by their pubcoin hash
    Coins,        \* zerocoin values (CZerocoinEntry / CSigmaEntry .value)
    WriteMayFail  \* a Write or an Erase may fail (disk full, I/O error)

(* Hash(ss << value): the key ArchiveMintOrphan and UnarchiveZerocoinMint  *)
(* compute; GetPubCoinValueHash hashes the same serialization.             *)
Hash(v) == <<"hash", v>>

HDKeys == {"hdmint", "dzco"} \X Mints
CoinKeys == ({"zerocoin", "sigma_mint"} \X Coins) \cup ({"zco"} \X {Hash(v) : v \in Coins})
Keys == HDKeys \cup CoinKeys

Idle == [op |-> "idle"]

VARIABLES
    db,       \* the keys present in wallet.dat
    pc,       \* the wallet thread's place inside the function it runs
    written,  \* mints and coins whose record was ever written
    zapped    \* mints and coins ZapSigmaMints listed for erasure

vars == <<db, pc, written, zapped>>

TypeOK ==
    /\ db \subseteq Keys
    /\ pc \in {Idle}
              \cup [op: {"archiveHD", "unarchiveHD"}, id: Mints]
              \cup [op: {"archiveZC", "unarchiveZC"}, id: Coins]
              \cup [op: {"zap"}, todo: SUBSET Keys]
    /\ written \subseteq Mints \cup Coins
    /\ zapped \subseteq Mints \cup Coins

Init == db = {} /\ pc = Idle /\ written = {} /\ zapped = {}

Outcomes == IF WriteMayFail THEN BOOLEAN ELSE {TRUE}

(* Write(key) or Erase(key): the database after the call, if it succeeds. *)
Put(key, ok) == IF ok THEN db \cup {key} ELSE db
Del(key, ok) == IF ok THEN db \ {key} ELSE db

(* Mutant: the zerocoin record keyed by the value's hash.                  *)
WriteZerocoinEntryHashed(v) ==
    /\ pc = Idle
    /\ \E ok \in Outcomes : /\ db' = Put(<<"zerocoin", Hash(v)>>, ok)
                            /\ written' = IF ok THEN written \cup {v} ELSE written
    /\ UNCHANGED <<pc, zapped>>

(* WriteHDMint(dMint) and WriteZerocoinEntry(const CZerocoinEntry&).      *)
WriteHDMint(m) ==
    /\ pc = Idle
    /\ \E ok \in Outcomes : /\ db' = Put(<<"hdmint", m>>, ok)
                            /\ written' = IF ok THEN written \cup {m} ELSE written
    /\ UNCHANGED <<pc, zapped>>

WriteZerocoinEntry(v) ==
    /\ pc = Idle
    /\ \E ok \in Outcomes : /\ db' = Put(<<"zerocoin", v>>, ok)
                            /\ written' = IF ok THEN written \cup {v} ELSE written
    /\ UNCHANGED <<pc, zapped>>

(* Mutant: the archive record is written under the "hdmint" key.          *)
ArchiveDeterministicOrphanSameKey(m) ==
    /\ pc = Idle /\ m \in written
    /\ \E ok \in Outcomes : /\ db' = Put(<<"hdmint", m>>, ok)
                            /\ pc' = IF ok THEN [op |-> "archiveHD", id |-> m] ELSE Idle
    /\ UNCHANGED <<written, zapped>>

(* ArchiveDeterministicOrphan(dMint): Write("dzco", hash); on failure      *)
(* return; then Erase("hdmint", hash).                                      *)
ArchiveDeterministicOrphan(m) ==
    /\ pc = Idle /\ m \in written
    /\ \E ok \in Outcomes : /\ db' = Put(<<"dzco", m>>, ok)
                            /\ pc' = IF ok THEN [op |-> "archiveHD", id |-> m] ELSE Idle
    /\ UNCHANGED <<written, zapped>>

(* UnarchiveHDMint(hashPubcoin, dMint): Read("dzco", hash), failing if it *)
(* is absent; WriteHDMint(dMint); then Erase("dzco", hash).                *)
UnarchiveHDMint(m) ==
    /\ pc = Idle /\ <<"dzco", m>> \in db
    /\ \E ok \in Outcomes : /\ db' = Put(<<"hdmint", m>>, ok)
                            /\ pc' = IF ok THEN [op |-> "unarchiveHD", id |-> m] ELSE Idle
    /\ UNCHANGED <<written, zapped>>

(* ArchiveMintOrphan(zerocoin): Write(("zco", hash), zerocoin), then       *)
(* Erase(("zerocoin", hash)), hash being Hash(ss << zerocoin.value).       *)
ArchiveMintOrphan(v) ==
    /\ pc = Idle /\ <<"zerocoin", v>> \in db
    /\ \E ok \in Outcomes : /\ db' = Put(<<"zco", Hash(v)>>, ok)
                            /\ pc' = IF ok THEN [op |-> "archiveZC", id |-> v] ELSE Idle
    /\ UNCHANGED <<written, zapped>>

(* UnarchiveZerocoinMint(hashPubcoin, zerocoin): Read("zco", hashPubcoin), *)
(* failing if absent; WriteZerocoinEntry(zerocoin), a "sigma_mint" record; *)
(* then Erase("zco", GetPubCoinValueHash(zerocoin.value)).                 *)
UnarchiveZerocoinMint(v) ==
    /\ pc = Idle /\ <<"zco", Hash(v)>> \in db
    /\ \E ok \in Outcomes : /\ db' = Put(<<"sigma_mint", v>>, ok)
                            /\ pc' = IF ok THEN [op |-> "unarchiveZC", id |-> v] ELSE Idle
    /\ UNCHANGED <<written, zapped>>

(* The erase that ends each of the four: its key, by function.             *)
EraseKey(p) ==
    CASE p.op = "archiveHD"   -> <<"hdmint", p.id>>
      [] p.op = "unarchiveHD" -> <<"dzco", p.id>>
      [] p.op = "archiveZC"   -> <<"zerocoin", Hash(p.id)>>
      [] p.op = "unarchiveZC" -> <<"zco", Hash(p.id)>>

FinishMove ==
    /\ pc.op \in {"archiveHD", "unarchiveHD", "archiveZC", "unarchiveZC"}
    /\ \E ok \in Outcomes : db' = Del(EraseKey(pc), ok)
    /\ pc' = Idle
    /\ UNCHANGED <<written, zapped>>

(* ListHDMints and ListSigmaPubCoin: cursor scans returning every record  *)
(* of their type.                                                           *)
ListHDMints == {m \in Mints : <<"hdmint", m>> \in db}
ListSigmaPubCoin == {v \in Coins : <<"sigma_mint", v>> \in db}

(* ZapSigmaMints: ListHDMints() and ListSigmaPubCoin(), then EraseHDMint  *)
(* for each HD mint and EraseZerocoinEntry for each sigma entry, returning *)
(* DB_CORRUPT at the first failed erase.                                    *)
ZapSigmaMints ==
    /\ pc = Idle
    /\ pc' = [op |-> "zap",
              todo |-> ({"hdmint"} \X ListHDMints) \cup ({"sigma_mint"} \X ListSigmaPubCoin)]
    /\ zapped' = zapped \cup ListHDMints \cup ListSigmaPubCoin
    /\ UNCHANGED <<db, written>>

ZapErase ==
    /\ pc.op = "zap"
    /\ IF pc.todo = {} THEN /\ pc' = Idle /\ UNCHANGED db
       ELSE \E k \in pc.todo, ok \in Outcomes :
              /\ db' = Del(k, ok)
              /\ pc' = IF ok THEN [pc EXCEPT !.todo = pc.todo \ {k}] ELSE Idle
    /\ UNCHANGED <<written, zapped>>

(* The process dies: whatever function was running stops where it was.    *)
Crash ==
    /\ pc # Idle
    /\ pc' = Idle
    /\ UNCHANGED <<db, written, zapped>>

Next ==
    \/ \E m \in Mints : WriteHDMint(m) \/ ArchiveDeterministicOrphan(m) \/ UnarchiveHDMint(m)
    \/ \E v \in Coins : WriteZerocoinEntry(v) \/ ArchiveMintOrphan(v) \/ UnarchiveZerocoinMint(v)
    \/ FinishMove \/ ZapSigmaMints \/ ZapErase \/ Crash

Spec == Init /\ [][Next]_vars

-----------------------------------------------------------------------------
(* No mint is lost by moving it: whatever crashes and failed writes or    *)
(* erases interrupt ArchiveDeterministicOrphan, UnarchiveHDMint,           *)
(* ArchiveMintOrphan and UnarchiveZerocoinMint, every mint or coin once    *)
(* written and not listed by ZapSigmaMints still has a live or an archived *)
(* record: each move writes the new record before it erases the old one.  *)
MintNeverLost ==
    /\ \A m \in (written \cap Mints) \ zapped :
          <<"hdmint", m>> \in db \/ <<"dzco", m>> \in db
    /\ \A v \in (written \cap Coins) \ zapped :
          \E k \in {<<"zerocoin", v>>, <<"zco", Hash(v)>>, <<"sigma_mint", v>>} : k \in db

=============================================================================
