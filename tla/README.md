# TLA+ models of GravityCoin

Model-checked TLA+ specifications of the parts of `src/src` that have
state: the sigma coin and its proof format, the spork manager, the block
PoW-hash cache (checked against the uncached hash as a refinement, which fails), and the
wallet database's load, reorder, Zap, archive, key-record and flush paths. Each module is written from the
C++ source. Its definitions keep the source's names. `PROJECT.json` maps
every definition to the lines it translates.

## The system and its parts

| Part | Source | State and operations | Interacts with |
|---|---|---|---|
| Denomination registry | `sigma/coin.cpp` 19-158, 318-338 | No state. It has conversions between `CoinDenomination`, integer amounts and labels, plus `GetAllDenoms`. | Coin minting, and callers in the consensus path that read the DoS score. |
| Sigma coin | `sigma/coin.cpp` 161-312 | A `PrivateCoin` is built by `mintCoin`: it rejection-samples a key, derives a serial from it, randomises, and commits. A `PublicCoin` has a lazily filled `valueHash` cache (`getValueHash`). | Wallet storage is keyed by the value hash. Any thread may ask for it. |
| R1 proof | `sigma/r1_proof.h` | There are two wire formats. The raw `memoryRequired`/`serialize`/`deserialize` format takes (n, m) from the caller. The stream `SerializationOp` format gives `f_` a length prefix. | Proofs arrive from peers in the stream format, and callers re-serialize them into raw buffers. |
| Spork manager | `spork.cpp` | Each node has `mapSporksActive` (the newest spork per id), `mapSporks`, `strMasterPrivKey` and ExecuteSpork's static `nTimeExecuted`. Operations: `ProcessSpork` (SPORK and GETSPORKS), `UpdateSpork`, `ExecuteSpork`, `SetPrivKey`, `Sign`, `CheckSignature`, `Relay`, `IsSporkActive`, `GetSporkValue`. | Peers over the network. The chain tip, through `chainActive`. `ReprocessBlocks`. |
| Block PoW cache | `primitives/block.cpp` 31-67 | `mapPoWHash` is keyed by height. `GetPoWHash` and `InvalidateCachedPoWHash` act on it. | Block validation. |
| Wallet database | `wallet/walletdb.cpp` | Key-value records. Operations: `ReorderTransactions`, `LoadWallet`, `WriteKey`, `WriteCryptedKey`, `ThreadFlushWalletDB`, `AutoBackupWallet`, `Recover`, the archive/unarchive pairs and the Zap functions. | The wallet. The BerkeleyDB environment `bitdb`. |
| Declarations | `exodus/exodus.h`, `consensus/params.h`, `version.h`, `wallet/walletexcept.h` | Constants and declarations only. | — |

The hard parts of the code, as far as a model checker reaches them:

* **Threads racing on `getValueHash`.** The cache is a `uint256` that is tested and filled without a lock.
* **Two proof formats that disagree about who fixes the length of `f`.**
* **A network that loses, duplicates and reorders spork messages.** On top of that, peers may replay or tamper with signed sporks, nodes may lack a chain tip, and ExecuteSpork is rate-limited by a process-wide static.
* **Order and crash windows in the wallet database.** This covers reordering positions, write-then-erase archive moves, the flush thread and backup rotation.

## Modules

### `SigmaDenomination` (composed into `MCSigmaCoin`)

Each conversion is an operator over its own table of cases, translated from its own `switch` or `if` chain: `DenominationToIntegerCases`, `IntegerToDenominationCases`, `StringToDenominationCases`, `DenominationToStringCases` and `ToStringCases` (the code has two label functions, `DenominationToString` and `std::to_string`). No conversion is derived from another, so the laws below compare five independently written tables. An `if` chain takes its first matching case (`FirstCase`).

* A failing numeric conversion returns `dos = 100` and leaves the out parameter untouched.
* `DenominationToString` and `std::to_string` throw on a bad value.
* `BadDenominations` stands for the enum values that are not enumerators, for example a cast or deserialised int.

The module has no state: the conversions are pure. `ConversionLaws` is a constant formula over bounded amounts, every denomination (legal and bad) and a set of labels: it relates each conversion's result to the others, checks that the two label functions agree, and says `GetAllDenoms` is complete and strictly descending. `MCSigmaCoin` extends both `SigmaCoin` and `SigmaDenomination`, and its invariant `DenominationLaws` checks `ConversionLaws` together with the law that ties the two modules: a minted coin's denomination converts to an amount that converts back to it.

### `SigmaCoin` (with `MCSigmaCoin`)

`MintCoin` is the whole `PrivateCoin` constructor. It picks a key from the ones `secp256k1_ec_pubkey_create` accepts, which models the rejection loop. It then derives the serial, chooses randomness, commits, and builds a `PublicCoin` whose cache is null. A `RAND_bytes` failure throws out of the constructor and leaves no coin, which is a stuttering step.

`getValueHash` is split into the steps a build can interleave, at word granularity:

* `IsNullStep`: `IsNull` reads words until the first non-zero one.
* `FillStep`: the assignment copies the hash word by word.
* `ReadStep`: the caller copies the returned reference word by word.

The bookkeeping variables are:

* `afterFill[t]`: whether thread t's call started after some fill had completed.
* `filled`: whether some fill has completed.

### `R1Proof` (with `MCR1Proof`)

A byte is `<<element, i>>`, meaning byte i of one element's encoding. `Serialize`, `Deserialize`, `MemoryRequired`, `StreamSerialize` and `StreamDeserialize` translate the four functions of `r1_proof.h`. `Deserialize` reads through `Byte`, which returns `"beyond"` past the allocation instead of stopping, just as the C++ does.

`params` is the (n, m) of the consensus parameters. `Init` picks one shape from `Dims`, and every caller uses it for the rest of the behaviour, as the code's callers take n and m from the fixed consensus parameters. The actions are:

* `Prove`: an honest prover builds a proof shaped for `params`.
* `ReceiveStream`: a peer's proof arrives through `SerializationOp`, with any `f` length up to `MaxF`.
* `SerializeToBuffer`: a caller allocates `memoryRequired(n, m)` bytes and calls `serialize`.
* `DeserializeFromBuffer`: `deserialize(buffer, n, m)` is called.

The flags `overflow` and `overread` record a write or a read past the allocation.

### `SporkManager` (with `MCSporkManager`)

Every node holds its own `mapSporksActive`, `mapSporks`, `strMasterPrivKey`, `hasTip` and `nTimeExecuted`. `net` is the set of SPORK messages in flight, as `[from, to, spork]` records.

The actions are:

* `ProcessSpork(m)` is the whole SPORK branch: the tip check, the seen check, then the signature check (a failure scores the sender `Misbehaving(100)`). It finishes by storing the spork, relaying it to every other node, and calling `ExecuteSpork`.
* `GetSporks(n, p)` is the GETSPORKS branch, where p pushes everything it holds to n.
* `UpdateSpork` signs with the node's key at `GetTime()`, relays and stores. It does not call `ExecuteSpork`.
* `SetPrivKey` keeps a key only if a test spork it signs passes `CheckSignature`.

The environment's actions are `Tick`, `GainTip`, `Lose` and `AttackerSend`.

Signatures are modelled by what `Sign` and `CheckSignature` do. The signed string is the decimal digits of id, value and time, concatenated (`Digits`, `Message`). `CheckSignature` accepts exactly when the key is the spork key and the string rebuilt from the spork's own fields equals the signed one.

The attacker is a peer that is not a node. It can send three kinds of spork:

* sporks signed with its own key;
* a captured spork-key signature attached to fields of its choice, for example the same id and time with another value;
* when `Forge` holds, the fields another split of the signed digit string reads as (`Splits`).

Ids, times and the "off" date are scaled but keep the code's order: ids < clock < `OffTime`. In the real code the ids are around 10^4, times around 1.5·10^9, and `OffTime` is 4070908800. `Timeout` (600 s) and `MaxBlocks` (576) are scaled in the same way.

### `WalletLoad` (with `MCWalletLoad`)

The entries are `1..N`, in time order (`nTimeReceived` for a transaction, `nTime` for an accounting entry). `AcEntries` are the "acentry" records; `Named` are those of an account other than the default "". The state on disk is:

* `present`: which transactions have a "tx" record;
* `disk`: each record's `nOrderPos`;
* `diskNext`: the "orderposnext" record;
* `corrupt` and `keyCorrupt`: which records `ReadKeyValue` rejects;
* `upgrade` and `oldVersion`: the records and file version `LoadWallet` rewrites.

The wallet in memory is `loaded`, `pos` and `next` (`nOrderPosNext`). `phase` is "stopped", "reorder" or "running".

The actions are:

* `LoadWallet`: the whole record loop and the load result. It rewrites the upgraded records and the version, where each write may fail. If a live transaction (`AnyUnordered`) or any accounting entry (`AcEntryUnordered`, the "acentry" branch of `ReadKeyValue`) is unordered, it enters `ReorderTransactions`.
* `TxByTime` is the loop's multimap: the loaded transactions and `ListAccountCreditDebit("")`, the default account's entries. `ListAccountCreditDebit` is modelled by which entries its cursor returns.
* The body of the `ReorderTransactions` loop is one step per entry:
  * `AssignPosition`: an unordered entry gets `nOrderPosNext++` and pushes an offset.
  * `ShiftPosition`: an ordered entry is moved by the offsets at or below it. The action raises `nOrderPosNext` and writes back a changed position.
  * `SkipUnloaded`: a transaction that did not load, or a named account's entry, is not in `txByTime` and is skipped.
  * A write-back is `WriteTx` for a transaction and `WriteAccountingEntry` for an entry (`WriteBack`).
* `FinishReorder`: `WriteOrderPosNext`.
* `Stop`: shutdown, or a crash inside the reorder.
* `ZapWalletTx`: `FindWalletTx` then `EraseTx`. Neither Zap touches accounting entries, and they are never corrupt in the model.
* `ZapSelectTx`: on a running wallet, returns `FindWalletTx`'s error with nothing erased (a step that changes nothing, so not an action; a rejected record may make `FindWalletTx` throw or not, since it may have failed `CheckTransaction` rather than deserialization), or drops the listed transactions from memory and erases their records, where each erase may fail.

### `PoWHash` and `PoWHashCache` (with `MCPoWHashCache`)

`PoWHash` is the abstract specification: each answer to a query about a header is `Lyra2(header)`, an injective function of the header, with no cache.

`PoWHashCache` is `primitives/block.cpp` 31-67. `mapPoWHash` maps a height (and -1) to a hash or `NoHash`.

* `GetPoWHash(hdr, nHeight, forceCalc)` is the whole function: on a negative height it first runs `buildMapPoWHash` (heights 1..`Precomputed` of the main chain, `BuildMapPoWHash`) if entry 1 is empty; it returns the cached entry unless on testnet or forced; otherwise it computes LYRA2 and calls `insert`, which leaves an existing entry in place.
* `InvalidateCachedPoWHash(nHeight)` erases a height's entry.
* The callers are outside `src/`, so their discipline is modelled from the spec: `chain` is the active chain's header at each height, `Reorg` replaces one above the precomputed heights, `Query` asks about the active header at a height (or any header at height -1 when `UnknownHeight`), and any height may be invalidated. Nothing in this tree says when a caller invalidates, so the three happen in any order.

`PoWHashRefined` is `Abstract!Spec`, where `Abstract == INSTANCE PoWHash WITH answer <- AbstractAnswer` drops the height from the answer.

### `WalletArchive`

The database is the set of keys present, a key being `<<type, id>>`. Each Write or Erase is atomic and durable and may fail (`WriteMayFail`); the process may crash between two of them (`Crash`). `pc` is the wallet thread's place inside a multi-call function.

* `WriteHDMint` and `WriteZerocoinEntry` create live records; `written` remembers them.
* `ArchiveDeterministicOrphan`, `UnarchiveHDMint`, `ArchiveMintOrphan` and `UnarchiveZerocoinMint` are the first call of each move (the write of the new record, returning on failure); `FinishMove` is the erase of the old one, with the key `EraseKey` gives. For `ArchiveMintOrphan` that key is `("zerocoin", Hash(value))`, while the record was written under `("zerocoin", value)`, as in walletdb.cpp:1513.
* `ZapSigmaMints` lists the live HD mints and sigma entries (`ListHDMints`, `ListSigmaPubCoin`); `ZapErase` erases them one per step, stopping at the first failure. `zapped` remembers what was listed.

### `WalletKeys` (with `MCWalletKeys`), composed with `WalletArchive`

`WalletKeys` extends `WalletArchive`: the key writers run on the same wallet thread, in the same `db`, with the same `pc`, `Crash` and failing calls. `WalletNext` is the archive's `Next` (leaving the key variables alone) or one of the key steps.

* `WriteKey(p, t)` is the "keymeta" write with `fOverwrite = false` (`PutNew`), which fails when a keymeta record exists; `WriteKeyRecord` is the "key" write.
* `WriteCryptedKey(p, t)` is the "keymeta" write (overwriting); `WriteCKeyRecord` the "ckey" write, returning on failure; `EraseUnencrypted` the two erases of "key" and "wkey", whose results are ignored.
* `LoadWalletKeys` is what `LoadWallet` does with these records: `NKeys` counts "key" records (not "wkey"), `NCKeys` "ckey" records, `NKeyMeta` "keymeta" records, `FoldFirstKey` folds the creation times into `nTimeFirstKey`, and the count check resets it to 1. So does a "watchs" record (`WatchOnlyResetsBirthday`), which the cursor reads after every "keymeta" record.
* `WriteWatchOnly` and `EraseWatchOnly` write and erase that record; either may fail.
* `WalletInit` is a file of an older client: any "key" and "wkey" records, with no metadata.

`keysAdded` remembers the keys the file held or a writer reported written.

### `WalletFlush` (with `MCWalletFlush`)

`ThreadFlushWalletDB` runs against writer threads.

* A writer opens a `CWalletDB` handle (`OpenHandle`), writes and closes it. A counted write bumps `nWalletDBUpdated` (`CountedWrite`); the mint-record writers do not (`UncountedWrite`).
* `FlushLoop` is one iteration of the loop. It notes a changed counter. When the counter has been still for 2 s, it is unflushed, no handle is open and the file is in `mapFileUseCount`, the loop closes and checkpoints the Db.
* Time is the quiet seconds, capped at 2 (`Tick`).

## Runs

| Run | Config | Expect | What it shows |
|---|---|---|---|
| sigma_coin_cache | `SigmaCoinCache.cfg` | pass | Once some call has completed the fill, every later `getValueHash` returns the full hash. The denomination conversions obey their round-trip laws (spec §8) on every denomination and near miss, failures score DoS 100 and leave the out parameter alone, and every minted coin's denomination round-trips (`DenominationLaws`). |
| sigma_coin_race | `SigmaCoinRace.cfg` | violation | A call that overlaps a fill returns a torn hash, part zero words and part hash words, or part of the hash. Spec §5 calls this race benign. It is not, because `IsNull` stops at the first non-zero word. |
| r1_round_trip | `R1ProofRoundTrip.cfg` | pass | With (n, m) fixed by the consensus parameters, `memoryRequired`, `serialize` and `deserialize` agree on the layout of an honest proof, for each of three shapes. |
| r1_overflow | `R1ProofOverflow.cfg` | violation | With (n, m) fixed, a proof received through `SerializationOp`, whose `f` length the peer chose, is serialized with `serialize`, which writes every element of `f_` past `memoryRequired(n, m)`. The trace is `ReceiveStream` then `SerializeToBuffer`. |
| spork_safety | `SporkSafety.cfg` | pass | This run has loss, reordering, duplication, GETSPORKS pushes, a late tip, junk and tampered sporks. Under all of that, a node's spork never gets older (`ActiveTimeMonotone`) and only the attacker is penalised (`NoHonestPeerPenalised`). |
| spork_splice | `SporkSplice.cfg` | violation | The operator signs (7, 12, 11). The attacker re-splits the digits "71211" into (7, 1, 211), a spork timed far in the future that nodes accept. No later genuine update can replace it. |
| spork_converge | `SporkConverge.cfg` | pass | If delivery is reliable, every node is synced, and the operator updates an id at most once per second, then every node ends up holding the operator node's sporks. |
| wallet_load | `WalletLoad.cfg` | pass | Over three loads of a file of three transactions and one default-account accounting entry, with corrupt records, failing writes, Zap erasures and crashes inside `ReorderTransactions`, a running wallet's positions in memory are the ones on disk (`DiskMatchesMemory`) and every position and `nOrderPosNext` stays below N (`TypeOK`). |
| wallet_reorder_collide | `WalletReorderCollide.cfg` | violation | Take A and B unordered and C at position 0, in time order A, B, C. With no crash and no failed write, `ReorderTransactions` numbers A 0 and B 1, then shifts C by one to 1, the position of B (walletdb.cpp:489). |
| pow_cache | `PoWHashCache.cfg` | violation | `GetPoWHash` is a const member that returns the header's PoW hash, and it treats a negative height as unknown. The cache does not refine the uncached hash (`PoWHashRefined`): a header asked about at -1 is cached under key -1, and the next header asked about at -1 gets its hash (three states). |
| wallet_keys | `WalletKeys.cfg` | pass | One wallet thread runs the archive moves, Zap, `WriteKey` and `WriteCryptedKey` on a file of an older client, with failing writes and erases and crashes between any two calls. No mint or coin that was written and not zapped loses its last record, because each move writes before it erases (`MintNeverLost`). No key loses its last "key", "ckey" or "wkey" record, because `WriteCryptedKey` writes "ckey" and returns on failure, or when a "ckey" record exists, before it erases (`KeyNeverLost`). |
| wallet_flush | `WalletFlush.cfg` | pass | Two writer threads run against the flush thread. Every write that bumped `nWalletDBUpdated` reaches the file once the writers go quiet. |

The mutants in `PROJECT.json` show that each passing property can fail. Each is a plausible slip in the code that TLC then catches:

* a fill that stops one word short;
* a copy-pasted case label in `IntegerToDenomination`'s switch;
* a zerocoin record written under the value's hash, and an archive that writes the live key instead of "dzco";
* `WriteCryptedKey` going on to its erases after a failed "ckey" write;
* `memoryRequired` one scalar short;
* `SetPrivKey` without its test;
* ProcessSpork without its seen check;
* `UpdateSpork` without `Relay`;
* `nOrderPosNext` raised one too far;
* a changed position that is not written back;
* the flush thread's quiet time counted per iteration, or reset every iteration.

Some disagreements were met while modelling but are not kept as runs. Each is recorded as a hazard in `PROJECT.json`:

* `deserialize` has no buffer length, so it reads past a buffer sized for a smaller shape. The `overread` flag records it.
* With no spork message received, `IsSporkActive(SPORK_10)` is true while `GetSporkValue` is the off date.
* Two `UpdateSpork` calls for one id in the same second leave the nodes split for ever.
* A crash after positions were written but before `WriteOrderPosNext` leaves a file that the next load does not reorder, so `nOrderPosNext` starts at or below positions in use (walletdb.cpp:507, 752). TLC shows it with `WalletLoad.cfg` and `Crashes` set to TRUE and the property that a running wallet's `nOrderPosNext` is above every position.
* `GetPoWHash` keys the cache by height alone. Besides the -1 trace of pow_cache, a caller that asks about a replaced header without `InvalidateCachedPoWHash` gets the old header's hash: with `UnknownHeight = FALSE` TLC gives `Query(2)`, `Reorg(2)`, `Query(2)`.
* `ArchiveMintOrphan` erases `("zerocoin", Hash(value))` though the entry was written under `("zerocoin", value)`, so the live record survives the archive and both copies exist. `MintNeverLost` still holds; the duplicate is recorded as a hazard.
* `LoadWallet` trusts `nTimeFirstKey` when the number of "key" plus "ckey" records equals the number of "keymeta" records (walletdb.cpp:860), not when each key has its metadata. A key of an older client without metadata is balanced by a keymeta record that a crashed `WriteKey` left behind (it writes keymeta first), or by any key with metadata in a file that also holds a "wkey" record (never counted). The wallet's birthday then moves past the old key's creation, and a rescan from it misses that key's transactions. TLC shows the first case in `WalletKeys`: an older client's key, then a crash after `WriteKey`'s keymeta write.
* `WriteKey` writes keymeta with `fOverwrite = false`: after such a crash every retry of `WriteKey` for that key fails at its first write.
* `ReorderTransactions` orders only the default account's accounting entries (`ListAccountCreditDebit("")`, walletdb.cpp:462), while `ReadKeyValue` raises `fAnyUnordered` for an unordered entry of any account. An unordered entry of a named account is never numbered, so every load runs `ReorderTransactions` again, and `LoadWallet` inserts the entry into `wtxOrdered` at -1. TLC shows it with `WalletLoad.cfg`, `Named <- MCAcEntries` and the invariant that no running wallet's item is at -1: it is violated after one load. No run keeps that invariant: with the default account only it says no more than that the loop visits `txByTime`.
* The mint-record writers do not bump `nWalletDBUpdated`. A write of theirs that no counted write follows is never flushed by the flush thread.

## Bounds, and why they are enough

* **SigmaCoin: two threads, W = 2 words.** Two words are the fewest for which a read can see one filled word and one zero word. Two threads are enough for one to fill while the other reads. There are two valid keys and one invalid one, so the rejection loop has both outcomes.
* **SigmaDenomination: COIN = 7.** Every amount from -1 to 60·COIN is tried, and each legal amount ±1 above that. So every case label, its neighbours, zero and a negative amount are tried. The labels include the seven canonical ones and near misses: a leading zero, a decimal point, a space, the empty string, and a number in base units.
* **R1Proof.** Elements are 2 bytes and scalars 1 byte, so a misplaced boundary shows up as a junk element. The three shapes (2,1), (2,2) and (3,1) give f lengths 1 and 2. Stream proofs carry f of length 0 to 3, so there is a proof that is too short and one that is too long for every shape.
* **SporkManager.** There are two nodes (the operator's node and one peer) and ids 7 and 10. The values 0, 1 and 12 cover no reprocess, a reprocess, and one beyond `MaxBlocks` = 6. Twelve is also the two-digit value that makes splicing possible. The clock covers three seconds with `Timeout` = 2, and there are two `UpdateSpork` calls. At most one attacker message is in flight at a time; every message it can send is still sent in some behaviour.

* **PoWHashCache: heights 0..3, two variants, `Precomputed` = 1.** Height 1 is precomputed and never reorganised; heights 2 and 3 can each be replaced, replaced back, invalidated and re-asked, so an entry can outlive one header and then be asked about with another. The run is on mainnet (`TestNet = FALSE`, where the cache is used) with -1 queries enabled; two variants are the fewest that give two headers one height.
* **WalletKeys with WalletArchive: two HD mints, one coin, two keys, creation times 2 and 3, with failures.** Two mints let one be archived while the other is zapped or unarchived; a crash or a failed call can fall between every write and erase. Two keys let one be written while the other (an older client's key, or one already written) is encrypted, and two times give the fold two different records. A watch-only record may be written and erased in between. Mints and keys are interchangeable, so the run uses symmetry over both (the fold's `CHOOSE` computes a minimum, which does not depend on the element it picks). The run has 4.2 million states and takes about 75 s.
* **WalletLoad: four entries, three loads.** In `wallet_load` the second entry is a default-account accounting entry and the others are transactions; in `wallet_reorder_collide` all four are transactions. This is enough for two unordered items received before a numbered one, which is the shape of the collision, with a corrupt record besides. It also allows a crash in a reorder, a reload, and a third load after it. `wallet_load` has 1.6 million states and takes about 15 s. `WriteMayFail` and `Crashes` are constants, so the violation runs can show the collision and the crash each without the other.
* **WalletFlush: two threads, three counted and three uncounted writes, four handle opens.** One thread can hold a handle while the other writes and closes. The open bound ends wallet activity, so that "eventually flushed" is a question about the flush thread and not about writers that never stop.

## Fairness

`spork_converge` assumes weak fairness of `ProcessSpork(m)` for every SPORK message between two nodes that carries a spork-key signature. A connected peer's queued messages are delivered (TCP), and `ProcessSpork` has no other wait. No fairness is assumed for the attacker, for GETSPORKS (it is sent on connection, outside `src/`), for `Tick`, or for `UpdateSpork`.

`wallet_flush` assumes weak fairness of `FlushLoop` (the thread loops while the wallet is loaded), of `Tick` (time passes), and of each thread's `CloseHandle`. A `CWalletDB` is a scoped object, so its destructor closes it.

## What is not modelled, and why

* `RealNumberToDenomination` is floating-point truncation, and `operator<<` is printing. Neither has state, and TLC has no floating-point numbers.
* The `PrivateCoin` setters and accessors, `PublicCoin::validate` and `operator==` are read-only or restore paths.
* `GetSporkIDByName` and `GetSporkNameByID` are name tables. The spork model ignores `fLiteMode`, a process-wide switch that disables all of `ProcessSpork`.
* The R1 `n = 0` edge (a negative `f_size`) is not reached, because (n, m) come from consensus parameters; it is not listed as a hazard.
* `AutoBackupWallet` (walletdb.cpp 1084-1198) is file copying and rotation by `boost::filesystem` modification times; its state is the file system, not a data structure of the program. On the path with a wallet, the backup call itself is commented out, yet the function returns true after rotating.
* `Recover` (walletdb.cpp 1203-1282) replays the records `CDBEnv::Salvage` returns into a new file. What Salvage yields from a damaged file is decided by BerkeleyDB's `DB_AGGRESSIVE` verify, outside this tree, so there is nothing of the program's to check beyond the loop itself.
* The remaining `CWalletDB` readers and one-line writers (counts, pubcoins, the mint pool, `destdata`, `hdchain`) are single `Read`/`Write`/`Erase` calls; their only interaction, the `nWalletDBUpdated` counter, is the counted/uncounted write of `WalletFlush`.
* `LYRA2` itself and the block header's serialization are hashing; `PoWHash` treats LYRA2 as an injective function. Its failure path (an exception caught in `GetPoWHash`, which then returns and caches the null hash) is not modelled.
* Declarations and constant tables: `exodus.h`, `consensus/params.h`, `version.h`, `walletexcept.h`.

## Plan: the order of the modules

1. Done: `SigmaDenomination`, `SigmaCoin`, `R1Proof`, `SporkManager`, `WalletLoad` (load, reorder, Zap), `WalletFlush`, `PoWHash`/`PoWHashCache` (refinement, violated) and `WalletArchive`.
2. Done: `WalletKeys`, composed with `WalletArchive`, including the watch-only record.
3. Done: accounting entries in `WalletLoad` (`ListAccountCreditDebit`, `WriteAccountingEntry`, the "acentry" branch), with four entries per file.
4. Next: liveness of the spork network under loss with retries (GETSPORKS on reconnect), and larger bounds where run time allows.

Runs are capped, so a new question replaces a weaker one rather than adding to the list.
