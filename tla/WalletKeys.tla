----------------------------- MODULE WalletKeys -----------------------------
(***************************************************************************)
(* The key records of the wallet database (src/wallet/walletdb.cpp),      *)
(* written by the same wallet thread, in the same wallet.dat, as the mint *)
(* records of WalletArchive, whose moves, crash and failing calls this     *)
(* module composes with the key writers:                                   *)
(*   WriteKey        "keymeta" (no overwrite), then "key" (no overwrite);  *)
(*   WriteCryptedKey "keymeta", then "ckey" (no overwrite), then Erase of  *)
(*                   "key" and "wkey", their results ignored;             *)
(* and with the part of LoadWallet that reads them: ReadKeyValue counts   *)
(* "key", "ckey" and "keymeta" records and folds the creation times into  *)
(* nTimeFirstKey, which LoadWallet resets to 1 unless the counts agree.    *)
(* A file may hold "key" and "wkey" records of an older client, written    *)
(* before key metadata existed.                                             *)
(***************************************************************************)
EXTENDS WalletArchive, Integers

CONSTANTS
    PubKeys,  \* the wallet's public keys
    Times,    \* creation times of CKeyMetadata (positive: GetTime())
    NoMeta,   \* no "keymeta" record for the key
    NoLoad    \* no LoadWallet yet

KeyRecords == {"key", "ckey", "wkey"} \X PubKeys

(* The "watchs" record of a watch-only script (one script suffices: only  *)
(* whether some such record exists changes what LoadWallet does).         *)
WatchRecord == <<"watchs", "dest">>

VARIABLES
    keymeta,       \* the "keymeta" record of each key: its nCreateTime
    keysAdded,     \* keys the file held or a key writer returned true for
    timeFirstKey   \* pwallet->nTimeFirstKey after the last LoadWallet

keyVars == <<keymeta, keysAdded, timeFirstKey>>
walletVars == <<db, pc, written, zapped, keymeta, keysAdded, timeFirstKey>>

HasKey(p) == \E t \in {"key", "ckey", "wkey"} : <<t, p>> \in db

WalletTypeOK ==
    /\ db \subseteq Keys \cup KeyRecords \cup {WatchRecord}
    /\ pc \in {Idle}
              \cup [op: {"archiveHD", "unarchiveHD"}, id: Mints]
              \cup [op: {"archiveZC", "unarchiveZC"}, id: Coins]
              \cup [op: {"zap"}, todo: SUBSET Keys]
              \cup [op: {"writeKey", "writeCKey", "eraseKey"}, id: PubKeys]
    /\ written \subseteq Mints \cup Coins /\ zapped \subseteq Mints \cup Coins
    /\ keymeta \in [PubKeys -> Times \cup {NoMeta}]
    /\ keysAdded \subseteq PubKeys
    /\ timeFirstKey \in {0, 1} \cup Times \cup {NoLoad}

(* A file of an older client: any "key" and "wkey" records, no metadata.  *)
WalletInit ==
    /\ db \in SUBSET ({"key", "wkey"} \X PubKeys)
    /\ pc = Idle /\ written = {} /\ zapped = {}
    /\ keymeta = [p \in PubKeys |-> NoMeta]
    /\ keysAdded = {p \in PubKeys : HasKey(p)}
    /\ timeFirstKey = NoLoad

(* Write(key, value, fOverwrite = false) fails when the key exists.        *)
PutNew(key, ok) == Put(key, ok /\ key \notin db)

(* WriteKey(vchPubKey, vchPrivKey, keyMeta), for a key the wallet does not *)
(* hold: the "keymeta" write, returning false on failure.                  *)
WriteKey(p, t) ==
    /\ pc = Idle /\ ~HasKey(p)
    /\ \E ok \in Outcomes :
          LET done == ok /\ keymeta[p] = NoMeta IN
          /\ keymeta' = IF done THEN [keymeta EXCEPT ![p] = t] ELSE keymeta
          /\ pc' = IF done THEN [op |-> "writeKey", id |-> p] ELSE Idle
    /\ UNCHANGED <<db, written, zapped, keysAdded, timeFirstKey>>

(* ... then Write(("key", pubkey), (privkey, hash), false).                *)
WriteKeyRecord ==
    /\ pc.op = "writeKey"
    /\ \E ok \in Outcomes :
          /\ db' = PutNew(<<"key", pc.id>>, ok)
          /\ keysAdded' = IF <<"key", pc.id>> \in db' THEN keysAdded \cup {pc.id} ELSE keysAdded
    /\ pc' = Idle
    /\ UNCHANGED <<written, zapped, keymeta, timeFirstKey>>

(* WriteCryptedKey(vchPubKey, vchCryptedSecret, keyMeta), for a new key or *)
(* one being encrypted: the "keymeta" write (overwriting), returning false *)
(* on failure.                                                              *)
WriteCryptedKey(p, t) ==
    /\ pc = Idle
    /\ \E ok \in Outcomes :
          /\ keymeta' = IF ok THEN [keymeta EXCEPT ![p] = t] ELSE keymeta
          /\ pc' = IF ok THEN [op |-> "writeCKey", id |-> p] ELSE Idle
    /\ UNCHANGED <<db, written, zapped, keysAdded, timeFirstKey>>

(* Mutant: a failed "ckey" write does not return false.                  *)
WriteCKeyRecordNoReturn ==
    /\ pc.op = "writeCKey"
    /\ \E ok \in Outcomes : db' = PutNew(<<"ckey", pc.id>>, ok)
    /\ pc' = [pc EXCEPT !.op = "eraseKey"]
    /\ UNCHANGED <<written, zapped, keymeta, keysAdded, timeFirstKey>>

(* ... Write(("ckey", pubkey), secret, false), returning false on failure, *)
(* an existing "ckey" record included; then the two erases of the           *)
(* unencrypted records.                                                      *)
WriteCKeyRecord ==
    /\ pc.op = "writeCKey"
    /\ \E ok \in Outcomes :
          LET stored == ok /\ <<"ckey", pc.id>> \notin db IN
          /\ db' = Put(<<"ckey", pc.id>>, stored)
          /\ pc' = IF stored THEN [pc EXCEPT !.op = "eraseKey"] ELSE Idle
    /\ UNCHANGED <<written, zapped, keymeta, keysAdded, timeFirstKey>>

(* Erase("key") and Erase("wkey"), results ignored; the function returns   *)
(* true.                                                                     *)
EraseUnencrypted ==
    /\ pc.op = "eraseKey"
    /\ \E okKey, okWKey \in Outcomes :
          db' = Del(<<"wkey", pc.id>>, okWKey) \ (IF okKey THEN {<<"key", pc.id>>} ELSE {})
    /\ keysAdded' = keysAdded \cup {pc.id}
    /\ pc' = Idle
    /\ UNCHANGED <<written, zapped, keymeta, timeFirstKey>>

(* WriteWatchOnly(dest): Write(("watchs", dest), '1'), overwriting.        *)
WriteWatchOnly ==
    /\ pc = Idle
    /\ \E ok \in Outcomes : db' = Put(WatchRecord, ok)
    /\ UNCHANGED <<pc, written, zapped, keymeta, keysAdded, timeFirstKey>>

(* EraseWatchOnly(dest): Erase(("watchs", dest)).                          *)
EraseWatchOnly ==
    /\ pc = Idle
    /\ \E ok \in Outcomes : db' = Del(WatchRecord, ok)
    /\ UNCHANGED <<pc, written, zapped, keymeta, keysAdded, timeFirstKey>>

(* The "watchs" branch of ReadKeyValue: a watch-only address has no       *)
(* birthday, so it sets nTimeFirstKey = 1.  The cursor reaches "watchs"   *)
(* after every "keymeta" record, so nothing the fold does overrides it.   *)
WatchOnlyResetsBirthday == WatchRecord \in db

(* ReadKeyValue: "key" records count in nKeys, "wkey" ones in nothing;    *)
(* "ckey" records in nCKeys; "keymeta" records in nKeyMeta.                *)
NKeys == Cardinality({p \in PubKeys : <<"key", p>> \in db})
NCKeys == Cardinality({p \in PubKeys : <<"ckey", p>> \in db})
NKeyMeta == Cardinality({p \in PubKeys : keymeta[p] # NoMeta})

(* The "keymeta" branch over the records in cursor order:                 *)
(*   if (!nTimeFirstKey || nCreateTime < nTimeFirstKey) nTimeFirstKey = .. *)
(* starting from 0 in a new CWallet; with positive times the order of the *)
(* records does not change the result.                                     *)
RECURSIVE FoldFirstKey(_, _)
FoldFirstKey(first, ps) ==
    IF ps = {} THEN first
    ELSE LET p == CHOOSE q \in ps : TRUE
             t == keymeta[p]
         IN FoldFirstKey(IF first = 0 \/ t < first THEN t ELSE first, ps \ {p})

(* LoadWallet on the file as it is (no function running): the scan, then *)
(* "nTimeFirstKey is only reliable if all keys have metadata".             *)
LoadWalletKeys ==
    LET folded == FoldFirstKey(0, {p \in PubKeys : keymeta[p] # NoMeta}) IN
    /\ pc = Idle
    /\ timeFirstKey' = IF NKeys + NCKeys # NKeyMeta \/ WatchOnlyResetsBirthday
                       THEN 1 ELSE folded
    /\ UNCHANGED <<db, pc, written, zapped, keymeta, keysAdded>>

KeysNext ==
    \/ \E p \in PubKeys, t \in Times : WriteKey(p, t) \/ WriteCryptedKey(p, t)
    \/ WriteKeyRecord \/ WriteCKeyRecord \/ EraseUnencrypted \/ LoadWalletKeys
    \/ WriteWatchOnly \/ EraseWatchOnly

WalletNext == (Next /\ UNCHANGED keyVars) \/ KeysNext

WalletSpec == WalletInit /\ [][WalletNext]_walletVars

-----------------------------------------------------------------------------
(* No key is lost: through crashes between the writes of WriteKey and     *)
(* WriteCryptedKey and failed writes and erases, every key the file held  *)
(* or a writer reported written keeps a "key", "ckey" or "wkey" record:   *)
(* WriteCryptedKey writes "ckey" before it erases the unencrypted record. *)
KeyNeverLost == \A p \in keysAdded : HasKey(p)

=============================================================================
