----------------------------- MODULE WalletFlush -----------------------------
(***************************************************************************)
(* The wallet flush thread (ThreadFlushWalletDB, src/wallet/walletdb.cpp)  *)
(* against the threads that write the wallet through CWalletDB handles.    *)
(*                                                                         *)
(* A writer opens a handle (the CDB constructor: mapFileUseCount[strFile]  *)
(* goes up, the Db is opened if it is not), makes writes and closes it.    *)
(* Most CWalletDB writers first bump the global nWalletDBUpdated; the mint *)
(* records' writers do not.  Every 500 ms the flush thread notes when the  *)
(* counter last changed, and once it has been still for 2 s, nothing is    *)
(* flushed since, no handle is open and the file is in mapFileUseCount, it *)
(* closes the Db and checkpoints it: the .dat file then holds every write. *)
(*                                                                         *)
(* Time is kept as the seconds since nLastWalletUpdate, capped at 2: the   *)
(* loop only compares it with 2.                                           *)
(***************************************************************************)
EXTENDS Naturals, FiniteSets

CONSTANTS
    Threads,     \* threads that write through a CWalletDB
    MaxUpdates,  \* bound on nWalletDBUpdated and on the uncounted writes
    MaxOpens     \* bound on the handles opened: wallet activity ends

VARIABLES
    nWalletDBUpdated,  \* the global update counter
    nLastSeen,         \* the flush thread's locals
    nLastFlushed,
    quiet,             \* GetTime() - nLastWalletUpdate, capped at 2
    handle,            \* each thread's CWalletDB: "closed" or "open"
    dbOpen,            \* bitdb.mapDb[strFile] is an open Db
    inUseMap,          \* strFile is a key of bitdb.mapFileUseCount
    unflushed,         \* which kinds of write the .dat file does not hold yet
    uncounted,         \* uncounted writes so far
    opens              \* handles opened so far

vars == <<nWalletDBUpdated, nLastSeen, nLastFlushed, quiet, handle, dbOpen,
          inUseMap, unflushed, uncounted, opens>>

TypeOK ==
    /\ nWalletDBUpdated \in 0..MaxUpdates
    /\ nLastSeen \in 0..MaxUpdates /\ nLastFlushed \in 0..MaxUpdates
    /\ quiet \in 0..2
    /\ handle \in [Threads -> {"closed", "open"}]
    /\ dbOpen \in BOOLEAN /\ inUseMap \in BOOLEAN
    /\ unflushed \subseteq {"counted", "uncounted"}
    /\ uncounted \in 0..MaxUpdates /\ opens \in 0..MaxOpens

(* The thread starts with the counter as it finds it; nothing is open.     *)
Init ==
    /\ nWalletDBUpdated = 0 /\ nLastSeen = 0 /\ nLastFlushed = 0
    /\ quiet = 0
    /\ handle = [t \in Threads |-> "closed"]
    /\ dbOpen = FALSE /\ inUseMap = FALSE
    /\ unflushed = {} /\ uncounted = 0 /\ opens = 0

(* CDB::CDB: ++mapFileUseCount[strFile], opening the Db if needed.         *)
OpenHandle(t) ==
    /\ handle[t] = "closed" /\ opens < MaxOpens
    /\ handle' = [handle EXCEPT ![t] = "open"] /\ opens' = opens + 1
    /\ dbOpen' = TRUE /\ inUseMap' = TRUE
    /\ UNCHANGED <<nWalletDBUpdated, nLastSeen, nLastFlushed, quiet, unflushed, uncounted>>

(* CDB::Close: --mapFileUseCount[strFile]; the Db stays open.              *)
CloseHandle(t) ==
    /\ handle[t] = "open"
    /\ handle' = [handle EXCEPT ![t] = "closed"]
    /\ UNCHANGED <<nWalletDBUpdated, nLastSeen, nLastFlushed, quiet, dbOpen,
                   inUseMap, unflushed, uncounted, opens>>

(* A writer that bumps the counter: nWalletDBUpdated++; return Write(...) *)
CountedWrite(t) ==
    /\ handle[t] = "open"
    /\ nWalletDBUpdated < MaxUpdates
    /\ nWalletDBUpdated' = nWalletDBUpdated + 1
    /\ unflushed' = unflushed \cup {"counted"}
    /\ UNCHANGED <<nLastSeen, nLastFlushed, quiet, handle, dbOpen, inUseMap, uncounted, opens>>

(* A writer that does not: return Write(...)                               *)
UncountedWrite(t) ==
    /\ handle[t] = "open"
    /\ uncounted < MaxUpdates
    /\ uncounted' = uncounted + 1
    /\ unflushed' = unflushed \cup {"uncounted"}
    /\ UNCHANGED <<nWalletDBUpdated, nLastSeen, nLastFlushed, quiet, handle, dbOpen, inUseMap, opens>>

(* A second passes.                                                        *)
Tick ==
    /\ quiet < 2
    /\ quiet' = quiet + 1
    /\ UNCHANGED <<nWalletDBUpdated, nLastSeen, nLastFlushed, handle, dbOpen,
                   inUseMap, unflushed, uncounted, opens>>

(* The sum of mapFileUseCount.                                             *)
RefCount == Cardinality({t \in Threads : handle[t] = "open"})

(* Mutant: nLastWalletUpdate = GetTime() on every iteration.               *)
SeenQuietAlways(seen, q) == 0

(* Mutant: each 500 ms iteration counted as a second of quiet.             *)
SeenQuietPerIteration(seen, q) == IF seen # nWalletDBUpdated THEN 0 ELSE q + 1

(* if (nLastSeen != nWalletDBUpdated) { nLastSeen = ...; nLastWalletUpdate *)
(* = GetTime(); }: the seconds of quiet the loop then sees.                *)
SeenQuiet(seen, q) == IF seen # nWalletDBUpdated THEN 0 ELSE q

(* Don't do this if any databases are in use, nor for a file not in use. *)
MayFlush == RefCount = 0 /\ inUseMap

(* One iteration of the ThreadFlushWalletDB loop after MilliSleep(500).   *)
(* TRY_LOCK(bitdb.cs_db) succeeds: handles take cs_db only inside their    *)
(* atomic open and close.  The flush is CloseDb and CheckpointLSN, then    *)
(* the file's mapFileUseCount entry is erased.                             *)
FlushLoop ==
    LET q == SeenQuiet(nLastSeen, quiet) IN
    /\ nLastSeen' = nWalletDBUpdated
    /\ IF nLastFlushed # nWalletDBUpdated /\ q >= 2 /\ MayFlush
       THEN /\ nLastFlushed' = nWalletDBUpdated
            /\ dbOpen' = FALSE /\ inUseMap' = FALSE
            /\ unflushed' = {}
       ELSE UNCHANGED <<nLastFlushed, dbOpen, inUseMap, unflushed>>
    /\ quiet' = q
    /\ UNCHANGED <<nWalletDBUpdated, handle, uncounted, opens>>

Next ==
    \/ FlushLoop \/ Tick
    \/ \E t \in Threads :
          \/ OpenHandle(t) \/ CloseHandle(t)
          \/ CountedWrite(t) \/ UncountedWrite(t)

(* The flush thread loops for ever, time passes, and a CWalletDB is a      *)
(* scoped object that its thread closes.                                   *)
Fairness ==
    /\ WF_vars(FlushLoop) /\ WF_vars(Tick)
    /\ \A t \in Threads : WF_vars(CloseHandle(t))

Spec == Init /\ [][Next]_vars /\ Fairness

-----------------------------------------------------------------------------
(* Every write that bumped nWalletDBUpdated reaches the .dat file: once   *)
(* the writers are quiet for 2 s and their handles closed, the flush      *)
(* thread checkpoints it.                                                   *)
CountedWritesFlushed == ("counted" \in unflushed) ~> ("counted" \notin unflushed)

=============================================================================
