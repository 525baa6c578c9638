----------------------------- MODULE WalletLoad -----------------------------
(***************************************************************************)
(* Loading a wallet file (src/wallet/walletdb.cpp): CWalletDB::LoadWallet *)
(* reads every record, decides the load result, rewrites upgraded          *)
(* transactions and the version, and, when some transaction has no order   *)
(* position (nOrderPos == -1), calls ReorderTransactions, which numbers    *)
(* the transactions in time order and writes back every position it       *)
(* changes, then the "orderposnext" record.  ZapWalletTx (-zapwallettxes, *)
(* before the load) and ZapSelectTx (on a running wallet) erase "tx"       *)
(* records.                                                                 *)
(*                                                                         *)
(* Entries are the wallet's transactions and accounting entries           *)
(* ("acentry" records), named 1..N in time order (nTimeReceived, nTime:    *)
(* the order of txByTime).  Accounting entries of a named account are     *)
(* Named; the others belong to the default account "".  The node may crash *)
(* at any step and load *)
(* the file again; a failed write makes LoadWallet return DB_LOAD_FAIL and *)
(* the node stop.                                                           *)
(***************************************************************************)
EXTENDS Integers, Sequences, FiniteSets, Functions

CONSTANTS
    N,             \* number of transactions in the file
    MaxLoads,      \* bound on the number of times the file is loaded
    WriteMayFail,  \* a BerkeleyDB Write may fail (disk full, I/O error)
    Crashes,       \* the node may crash inside ReorderTransactions
    AcEntries,     \* the entries that are "acentry" records
    Named          \* the accounting entries of an account other than ""

Entries == 1..N
Unordered == -1
Txs == Entries \ AcEntries

VARIABLES
    present,     \* transactions with a "tx" record on disk
    disk,        \* nOrderPos of each "tx" record on disk
    diskNext,    \* the "orderposnext" record
    corrupt,     \* "tx" records ReadKeyValue rejects
    keyCorrupt,  \* some key record ReadKeyValue rejects
    upgrade,     \* "tx" records in a pre-31703 format (wss.vWalletUpgrade)
    oldVersion,  \* nFileVersion < CLIENT_VERSION
    phase,       \* "stopped", "reorder" (inside ReorderTransactions), "running"
    result,      \* the DBErrors value of the last LoadWallet
    loaded,      \* transactions in pwallet->mapWallet, entries in laccentries
    pos,         \* their nOrderPos in memory
    next,        \* pwallet->nOrderPosNext
    offsets,     \* nOrderPosOffsets
    cursor,      \* the txByTime iterator: the entry handled next
    loads        \* loads so far

vars == <<present, disk, diskNext, corrupt, keyCorrupt, upgrade, oldVersion, phase, result,
          loaded, pos, next, offsets, cursor, loads>>

Pos == Unordered..(N - 1)

(* Types.  Positions stay below N and nOrderPosNext at most N: the loop   *)
(* hands out one position per transaction.                               *)
TypeOK ==
    /\ present \subseteq Entries /\ AcEntries \subseteq present
    /\ Named \subseteq AcEntries
    /\ disk \in [Entries -> Pos] /\ pos \in [Entries -> Pos]
    /\ diskNext \in 0..N /\ next \in 0..N
    /\ corrupt \subseteq Entries /\ upgrade \subseteq Entries /\ loaded \subseteq Entries
    /\ keyCorrupt \in BOOLEAN /\ oldVersion \in BOOLEAN
    /\ phase \in {"stopped", "reorder", "running"}
    /\ result \in {"none", "DB_LOAD_OK", "DB_CORRUPT", "DB_NONCRITICAL_ERROR", "DB_LOAD_FAIL"}
    /\ offsets \in Seq(0..(N - 1))
    /\ cursor \in 1..(N + 1)
    /\ loads \in 0..MaxLoads

(* A file some earlier client wrote: transactions it numbered carry the    *)
(* positions 0..k-1 in time order and orderposnext k; the others are       *)
(* unordered (written by a client that did not know nOrderPos).  Any "tx" *)
(* record may be unreadable or in an old format.                           *)
Init ==
    /\ \E numbered \in SUBSET Entries :
         /\ disk = [e \in Entries |->
                      IF e \in numbered
                      THEN Cardinality({d \in numbered : d < e})
                      ELSE Unordered]
         /\ diskNext = Cardinality(numbered)
    /\ present = Entries
    /\ corrupt \in SUBSET Txs
    /\ keyCorrupt \in BOOLEAN
    /\ upgrade \in SUBSET Txs
    /\ oldVersion \in BOOLEAN
    /\ phase = "stopped" /\ result = "none"
    /\ loaded = {} /\ pos = disk /\ next = 0 /\ offsets = <<>> /\ cursor = 1
    /\ loads = 0

(* A Write and what it returns.                                            *)
WriteOutcomes == IF WriteMayFail THEN BOOLEAN ELSE {TRUE}

(* The "tx" records ReadKeyValue accepts (CheckTransaction and the hash    *)
(* check pass) and adds to mapWallet, and the "acentry" records, which     *)
(* LoadWallet lists into laccentries; fAnyUnordered if one has no position. *)
Live == present \ corrupt
AnyUnordered == \E e \in Live \ AcEntries : disk[e] = Unordered

(* The "acentry" branch: the record's number raises nAccountingEntryNumber; *)
(* until fAnyUnordered is set each entry is read and one without a          *)
(* position sets it.                                                         *)
AcEntryUnordered == \E e \in AcEntries : disk[e] = Unordered

(* ListAccountCreditDebit(strAccount): the cursor starts at ("acentry",    *)
(* (strAccount, 0)) and stops at the first record of another account,      *)
(* unless strAccount is "*".                                                 *)
ListAccountCreditDebit(strAccount) ==
    IF strAccount = "*" THEN AcEntries ELSE AcEntries \ Named

(* txByTime: every transaction of mapWallet and ListAccountCreditDebit(""). *)
TxByTime == (loaded \ AcEntries) \cup ListAccountCreditDebit("")

(* CWalletDB::LoadWallet up to ReorderTransactions.  Every record is read; *)
(* a key record ReadKeyValue rejects makes the result DB_CORRUPT and the   *)
(* load stops there; a rejected "tx" record is skipped and, since          *)
(* fNoncriticalErrors is never set, leaves the result DB_LOAD_OK.  Then    *)
(* the upgraded transactions and the version are written (results         *)
(* ignored), and ReorderTransactions starts if a loaded transaction is     *)
(* unordered; it resets nOrderPosNext to 0.                                *)
LoadWallet ==
    LET live == Live IN
    /\ phase = "stopped"
    /\ loads < MaxLoads
    /\ loads' = loads + 1
    /\ offsets' = <<>> /\ cursor' = 1
    /\ IF keyCorrupt
       THEN /\ result' = "DB_CORRUPT"
            /\ UNCHANGED <<disk, diskNext, upgrade, oldVersion, phase, loaded, pos, next>>
       ELSE /\ loaded' = live
            /\ pos' = disk
            /\ \E kept \in SUBSET (upgrade \cap live), vOk \in WriteOutcomes :
                  /\ WriteMayFail \/ kept = {}
                  /\ upgrade' = (upgrade \ live) \cup kept
                  /\ oldVersion' = (oldVersion /\ ~vOk)
            /\ IF AnyUnordered \/ AcEntryUnordered
               THEN /\ phase' = "reorder" /\ next' = 0 /\ result' = "none"
               ELSE /\ phase' = "running" /\ next' = diskNext /\ result' = "DB_LOAD_OK"
            /\ UNCHANGED <<disk, diskNext>>
    /\ UNCHANGED <<present, corrupt, keyCorrupt>>

(* The number of new positions handed out at or before old position p.     *)
Shift(p) == Cardinality({j \in DOMAIN offsets : p >= offsets[j]})

(* Mutant: nOrderPosNext = std::max(nOrderPosNext, nOrderPos + 2)          *)
RaisedNextPastGap(n, np) == IF n > np + 2 THEN n ELSE np + 2

(* nOrderPosNext = std::max(nOrderPosNext, nOrderPos + 1)                  *)
RaisedNext(n, np) == IF n > np + 1 THEN n ELSE np + 1

(* if (!nOrderPosOff) continue;  -- an unmoved entry is not written back.  *)
NeedsWriteNever(off) == FALSE
NeedsWrite(off) == off # 0

(* WriteTx, or WriteAccountingEntry(nEntryNo, acentry) for an accounting *)
(* entry, of entry e with position np: on success the loop goes on, on     *)
(* failure ReorderTransactions and LoadWallet return DB_LOAD_FAIL, with    *)
(* the positions already changed in memory.                                *)
WriteBack(e, np) ==
    \E ok \in WriteOutcomes :
        IF ok
        THEN /\ disk' = [disk EXCEPT ![e] = np]
             /\ cursor' = cursor + 1
             /\ UNCHANGED <<phase, result>>
        ELSE /\ phase' = "stopped" /\ result' = "DB_LOAD_FAIL"
             /\ UNCHANGED <<disk, cursor>>

(* One iteration of the txByTime loop on an unordered entry: it takes      *)
(* nOrderPosNext++ and the position is recorded as an offset.             *)
AssignPosition ==
    LET e == cursor IN
    /\ phase = "reorder" /\ cursor <= N /\ e \in TxByTime
    /\ pos[e] = Unordered
    /\ pos' = [pos EXCEPT ![e] = next]
    /\ next' = next + 1
    /\ offsets' = Append(offsets, next)
    /\ WriteBack(e, next)
    /\ UNCHANGED <<present, diskNext, corrupt, keyCorrupt, upgrade, oldVersion, loaded,
                   loads>>

(* One iteration on an ordered entry: its position moves up by the number *)
(* of offsets at or below it; a moved entry is written back.               *)
ShiftPosition ==
    LET e == cursor
        np == pos[e] + Shift(pos[e])
    IN
    /\ phase = "reorder" /\ cursor <= N /\ e \in TxByTime
    /\ pos[e] # Unordered
    /\ pos' = [pos EXCEPT ![e] = np]
    /\ next' = RaisedNext(next, np)
    /\ IF NeedsWrite(Shift(pos[e]))
       THEN WriteBack(e, np)
       ELSE /\ cursor' = cursor + 1
            /\ UNCHANGED <<disk, phase, result>>
    /\ UNCHANGED <<present, diskNext, corrupt, keyCorrupt, upgrade, oldVersion, loaded,
                   offsets, loads>>

(* A transaction that was not loaded, or an entry of a named account, is  *)
(* not in txByTime.                                                          *)
SkipUnloaded ==
    /\ phase = "reorder" /\ cursor <= N /\ cursor \notin TxByTime
    /\ cursor' = cursor + 1
    /\ UNCHANGED <<present, disk, diskNext, corrupt, keyCorrupt, upgrade, oldVersion, phase,
                   result, loaded, pos, next, offsets, loads>>

(* After the loop: WriteOrderPosNext(nOrderPosNext), its result ignored,   *)
(* and DB_LOAD_OK.                                                          *)
FinishReorder ==
    /\ phase = "reorder" /\ cursor = N + 1
    /\ \E ok \in WriteOutcomes : diskNext' = IF ok THEN next ELSE diskNext
    /\ phase' = "running" /\ result' = "DB_LOAD_OK"
    /\ UNCHANGED <<present, disk, corrupt, keyCorrupt, upgrade, oldVersion, loaded, pos,
                   next, offsets, cursor, loads>>

(* The process stops: shut down once running, or (Crashes) killed in the   *)
(* middle of ReorderTransactions, which runs outside any db transaction.  *)
(* Everything in memory is lost.                                            *)
Stop ==
    /\ \/ phase = "running"
       \/ phase = "reorder" /\ Crashes
    /\ phase' = "stopped" /\ loaded' = {} /\ result' = "none"
    /\ UNCHANGED <<present, disk, diskNext, corrupt, keyCorrupt, upgrade, oldVersion,
                   pos, next, offsets, cursor, loads>>

(* FindWalletTx lists every "tx" record.  It does not run CheckTransaction, *)
(* but a record that does not deserialize throws inside its try and makes *)
(* it return DB_CORRUPT.  A rejected record may have been rejected by       *)
(* either, so with one present FindWalletTx may fail or succeed.            *)
FindWalletTxMayThrow == corrupt \cap present # {}

(* CWalletDB::ZapWalletTx: FindWalletTx, then EraseTx on each record,      *)
(* returning DB_CORRUPT at the first failure.  The erase order is the      *)
(* cursor's (by hash), unrelated to Entries' order.                        *)
ZapWalletTx ==
    /\ phase = "stopped" /\ loads < MaxLoads /\ present \cap Txs # {}
    /\ \/ /\ FindWalletTxMayThrow
          /\ result' = "DB_CORRUPT"
          /\ UNCHANGED present
       \/ \E erased \in SUBSET (present \cap Txs) :
             /\ erased = present \cap Txs \/ WriteMayFail
             /\ present' = present \ erased
             /\ result' = IF erased = present \cap Txs THEN "DB_LOAD_OK" ELSE "DB_CORRUPT"
    /\ UNCHANGED <<disk, diskNext, corrupt, keyCorrupt, upgrade, oldVersion, phase,
                   loaded, pos, next, offsets, cursor, loads>>

(* CWalletDB::ZapSelectTx(vTxHashIn): FindWalletTx first, returning its    *)
(* error with nothing erased (a step that changes nothing, so not an       *)
(* action here); when it succeeds every listed transaction the file holds  *)
(* leaves mapWallet and is erased; a failed EraseTx is remembered          *)
(* (delerror) and the loop goes on.                                         *)
ZapSelectTx ==
    /\ phase = "running"
    /\ \E vTxHashIn \in SUBSET (loaded \cap Txs), failed \in SUBSET (loaded \cap Txs) :
          /\ vTxHashIn # {}
          /\ failed \subseteq vTxHashIn /\ (failed = {} \/ WriteMayFail)
          /\ loaded' = loaded \ vTxHashIn
          /\ present' = present \ (vTxHashIn \ failed)
    /\ UNCHANGED <<disk, diskNext, corrupt, keyCorrupt, upgrade, oldVersion, phase,
                   result, pos, next, offsets, cursor, loads>>

Next ==
    \/ ZapWalletTx \/ LoadWallet \/ ZapSelectTx
    \/ AssignPosition \/ ShiftPosition \/ SkipUnloaded \/ FinishReorder
    \/ Stop

Spec == Init /\ [][Next]_vars

-----------------------------------------------------------------------------
(* Once loaded, no two transactions share an order position: the wallet   *)
(* lists transactions by nOrderPos (wtxOrdered), and ReorderTransactions  *)
(* exists to give each its own.                                            *)
PositionsDistinct ==
    phase = "running" => IsInjective(Restrict(pos, loaded))

(* Once loaded, the file holds the positions the wallet uses in memory,   *)
(* whatever crashes interrupted earlier reorders.                          *)
DiskMatchesMemory ==
    phase = "running" => \A e \in loaded : disk[e] = pos[e]

=============================================================================
