---------------------------- MODULE SporkManager ----------------------------
(***************************************************************************)
(* Sporks (src/spork.cpp): network-wide switches signed by the spork key.  *)
(* Each node runs a CSporkManager holding mapSporksActive (the newest      *)
(* spork per id) and the global mapSporks (every accepted spork by hash).  *)
(* The operator's node signs new values (UpdateSpork); every node accepts  *)
(* a SPORK message newer than the one it holds if its signature verifies,  *)
(* relays it and executes it (ProcessSpork, ExecuteSpork); GETSPORKS makes *)
(* a peer push everything it holds.                                        *)
(*                                                                         *)
(* The network is a set of messages in flight, delivered in any order,     *)
(* possibly lost; the same spork reaches a node from several peers.  A     *)
(* peer that is not a node (Attacker) sends sporks with bad signatures,    *)
(* replays signed ones and, when Forge holds, re-splits the digits of a   *)
(* signed message into other fields (see Message).                          *)
(*                                                                         *)
(* Times, ids and the default values are scaled so that their order is    *)
(* the code's: ids < clock < OffTime.                                      *)
(***************************************************************************)
EXTENDS Integers, Sequences, SequencesExt, FiniteSets

CONSTANTS
    Nodes,          \* nodes running a CSporkManager
    Master,         \* the operator's node, where the spork key is offered
    Attacker,       \* a peer that is not one of Nodes
    MasterKey,      \* the secret matching Params().SporkPubKey()
    WrongKey,       \* any other secret
    NoKey,          \* strMasterPrivKey empty
    None,           \* no spork held for an id
    SporkIDs,       \* ids in use; includes the two below
    SPORK_7_RECONSIDER_BLOCKS,
    SPORK_10_SIGMA,
    Default,        \* [SporkIDs -> Int]: the *_DEFAULT value of each id
    Values,         \* values the operator sets
    StartTime, MaxTime, \* the clock runs over StartTime..MaxTime
    OffTime,        \* 4070908800, "off by default"
    Timeout,        \* ExecuteSpork's nTimeout (10 * 60 s)
    MaxBlocks,      \* ExecuteSpork's nMaxBlocks (576)
    MaxUpdates,     \* bound on UpdateSpork calls
    Synced,         \* nodes that have a chain tip at start
    Lossy,          \* messages may be lost
    Forge,          \* the attacker re-splits signed digit strings
    SameSecond      \* the operator may update an id twice within a second

ASSUME /\ Master \in Nodes /\ Attacker \notin Nodes
       /\ {SPORK_7_RECONSIDER_BLOCKS, SPORK_10_SIGMA} \subseteq SporkIDs
       /\ \A id \in SporkIDs : id < StartTime
       /\ MaxTime < OffTime

Peers == Nodes \cup {Attacker}
Keys == {MasterKey, WrongKey}
Times == StartTime..MaxTime

(***************************************************************************)
(* boost::lexical_cast<std::string> of a natural number, as its digits.     *)
(***************************************************************************)
RECURSIVE Digits(_)
Digits(n) == IF n < 10 THEN <<n>> ELSE Digits(n \div 10) \o <<n % 10>>

FromDigits(s) == FoldLeft(LAMBDA acc, d : acc * 10 + d, 0, s)

(* strMessage of Sign and CheckSignature: the three fields printed and     *)
(* concatenated with nothing between them.                                 *)
Message(id, value, time) == Digits(id) \o Digits(value) \o Digits(time)

(* The field triples that print as the digit string s: every split of s   *)
(* into three parts, each the way lexical_cast prints a number (no         *)
(* leading zero).                                                          *)
Canonical(part) == part # <<>> /\ (part[1] = 0 => Len(part) = 1)
Splits(s) ==
    LET Cuts == {c \in (1..Len(s)) \X (1..Len(s)) :
                    /\ c[1] < c[2] /\ c[2] < Len(s)
                    /\ Canonical(SubSeq(s, 1, c[1]))
                    /\ Canonical(SubSeq(s, c[1] + 1, c[2]))
                    /\ Canonical(SubSeq(s, c[2] + 1, Len(s)))}
    IN {<<FromDigits(SubSeq(s, 1, c[1])), FromDigits(SubSeq(s, c[1] + 1, c[2])),
          FromDigits(SubSeq(s, c[2] + 1, Len(s)))>> : c \in Cuts}

(* CSporkMessage::Sign(strSignKey): the signature binds the key and the    *)
(* message string.  GetKeysFromSecret fails on an empty key.               *)
Sign(key, id, value, time) ==
    [id |-> id, value |-> value, time |-> time,
     sig |-> [key |-> key, msg |-> Message(id, value, time)]]

(* CSporkMessage::CheckSignature: the signature verifies under the spork   *)
(* public key on the message rebuilt from the spork's own fields.          *)
CheckSignature(s) ==
    s.sig.key = MasterKey /\ s.sig.msg = Message(s.id, s.value, s.time)

VARIABLES
    now,             \* GetTime()
    strMasterPrivKey,\* per node
    mapSporksActive, \* per node: [SporkIDs -> spork or None]
    mapSporks,       \* per node: the set of sporks accepted (by hash)
    hasTip,          \* per node: chainActive.Tip() != NULL
    nTimeExecuted,   \* per node: ExecuteSpork's static
    reprocessed,     \* per node: <<time, nValue>> of each ReprocessBlocks call
    net,             \* SPORK messages in flight: [from, to, spork]
    misbehaving,     \* <<node, peer>>: node scored peer Misbehaving(100)
    signed,          \* every spork the spork key has signed (for the attacker)
    updates          \* UpdateSpork calls so far

vars == <<now, strMasterPrivKey, mapSporksActive, mapSporks, hasTip,
          nTimeExecuted, reprocessed, net, misbehaving, signed, updates>>

Spork == [id: Int, value: Int, time: Int, sig: [key: Keys, msg: Seq(0..9)]]
Msg == [from: Peers, to: Nodes, spork: Spork]

TypeOK ==
    /\ now \in Times
    /\ strMasterPrivKey \in [Nodes -> Keys \cup {NoKey}]
    /\ mapSporksActive \in [Nodes -> [SporkIDs -> Spork \cup {None}]]
    /\ mapSporks \in [Nodes -> SUBSET Spork]
    /\ hasTip \in [Nodes -> BOOLEAN]
    /\ nTimeExecuted \in [Nodes -> {0} \cup Times]
    /\ reprocessed \in [Nodes -> SUBSET (Times \X Values)]
    /\ net \subseteq Msg
    /\ misbehaving \subseteq Nodes \X Peers
    /\ signed \subseteq Spork
    /\ updates \in 0..MaxUpdates

Init ==
    /\ now = StartTime
    /\ strMasterPrivKey = [n \in Nodes |-> NoKey]
    /\ mapSporksActive = [n \in Nodes |-> [id \in SporkIDs |-> None]]
    /\ mapSporks = [n \in Nodes |-> {}]
    /\ hasTip = [n \in Nodes |-> n \in Synced]
    /\ nTimeExecuted = [n \in Nodes |-> 0]
    /\ reprocessed = [n \in Nodes |-> {}]
    /\ net = {}
    /\ misbehaving = {}
    /\ signed = {}
    /\ updates = 0

(* CSporkMessage::Relay: an inv to every peer, each of which fetches it.   *)
Relay(from, s) == {[from |-> from, to |-> p, spork |-> s] : p \in Nodes \ {from}}

(* SetPrivKey(strPrivKey): a test spork is signed with the key and checked *)
(* against the spork public key; only then is the key kept.               *)
SetPrivKeyUnchecked(n, k) ==
    /\ strMasterPrivKey' = [strMasterPrivKey EXCEPT ![n] = k]
    /\ UNCHANGED <<now, mapSporksActive, mapSporks, hasTip, nTimeExecuted,
                   reprocessed, net, misbehaving, signed, updates>>

SetPrivKey(n, k) ==
    /\ CheckSignature(Sign(k, 0, 0, 0))
    /\ strMasterPrivKey' = [strMasterPrivKey EXCEPT ![n] = k]
    /\ UNCHANGED <<now, mapSporksActive, mapSporks, hasTip, nTimeExecuted,
                   reprocessed, net, misbehaving, signed, updates>>

(* Mutant: the new spork is stored but never relayed.                      *)
UpdateSporkNoRelay(n, id, v) ==
    LET s == Sign(strMasterPrivKey[n], id, v, now) IN
    /\ strMasterPrivKey[n] # NoKey
    /\ updates < MaxUpdates
    /\ SameSecond \/ ~\E x \in mapSporks[n] : x.id = id /\ x.time = now
    /\ mapSporks' = [mapSporks EXCEPT ![n] = @ \cup {s}]
    /\ mapSporksActive' = [mapSporksActive EXCEPT ![n][id] = s]
    /\ signed' = IF s.sig.key = MasterKey THEN signed \cup {s} ELSE signed
    /\ updates' = updates + 1
    /\ UNCHANGED <<now, strMasterPrivKey, hasTip, nTimeExecuted, reprocessed,
                   misbehaving, net>>

(* UpdateSpork(nSporkID, nValue): sign with strMasterPrivKey at GetTime(), *)
(* relay, store.  Sign fails for an empty key.  It does not call           *)
(* ExecuteSpork, and it replaces the held spork whatever its time.         *)
(* Unless SameSecond, the operator never sets an id twice in one second.   *)
UpdateSpork(n, id, v) ==
    LET s == Sign(strMasterPrivKey[n], id, v, now) IN
    /\ strMasterPrivKey[n] # NoKey
    /\ updates < MaxUpdates
    /\ SameSecond \/ ~\E x \in mapSporks[n] : x.id = id /\ x.time = now
    /\ net' = net \cup Relay(n, s)
    /\ mapSporks' = [mapSporks EXCEPT ![n] = @ \cup {s}]
    /\ mapSporksActive' = [mapSporksActive EXCEPT ![n][id] = s]
    /\ signed' = IF s.sig.key = MasterKey THEN signed \cup {s} ELSE signed
    /\ updates' = updates + 1
    /\ UNCHANGED <<now, strMasterPrivKey, hasTip, nTimeExecuted, reprocessed,
                   misbehaving>>

(* ExecuteSpork(nSporkID, nValue) on node n: SPORK_7 with a positive value *)
(* reprocesses that many blocks, unless the process did so less than       *)
(* nTimeout ago or the value exceeds nMaxBlocks.  The new nTimeExecuted    *)
(* and ReprocessBlocks record.                                             *)
ExecuteSpork(n, id, v) ==
    IF /\ id = SPORK_7_RECONSIDER_BLOCKS /\ v > 0
       /\ now - nTimeExecuted[n] >= Timeout
       /\ v <= MaxBlocks
    THEN <<now, reprocessed[n] \cup {<<now, v>>}>>
    ELSE <<nTimeExecuted[n], reprocessed[n]>>

(* ProcessSpork, the "seen" test: the held spork for the id is at least as *)
(* new as the one received.                                                 *)
SeenNever(n, s) == FALSE

Seen(n, s) ==
    /\ mapSporksActive[n][s.id] # None
    /\ mapSporksActive[n][s.id].time >= s.time

(* ProcessSpork(pfrom, SPORK, spork) on node n, the message consumed.  No  *)
(* tip: dropped (setAskFor erased).  Seen: dropped.  Bad signature: the    *)
(* sender is scored 100.  Otherwise stored in mapSporks and                *)
(* mapSporksActive, relayed, executed.                                     *)
ProcessSpork(m) ==
    LET n == m.to
        s == m.spork
        ex == ExecuteSpork(n, s.id, s.value)
    IN
    /\ m \in net
    /\ IF ~hasTip[n] \/ Seen(n, s)
       THEN /\ net' = net \ {m}
            /\ UNCHANGED <<mapSporksActive, mapSporks, nTimeExecuted,
                           reprocessed, misbehaving>>
       ELSE IF ~CheckSignature(s)
       THEN /\ net' = net \ {m}
            /\ misbehaving' = misbehaving \cup {<<n, m.from>>}
            /\ UNCHANGED <<mapSporksActive, mapSporks, nTimeExecuted, reprocessed>>
       ELSE /\ mapSporks' = [mapSporks EXCEPT ![n] = @ \cup {s}]
            /\ mapSporksActive' = [mapSporksActive EXCEPT ![n][s.id] = s]
            /\ net' = (net \ {m}) \cup Relay(n, s)
            /\ nTimeExecuted' = [nTimeExecuted EXCEPT ![n] = ex[1]]
            /\ reprocessed' = [reprocessed EXCEPT ![n] = ex[2]]
            /\ UNCHANGED misbehaving
    /\ UNCHANGED <<now, strMasterPrivKey, hasTip, signed, updates>>

(* Mutant: an entry is pushed for every id, empty ones included.          *)
GetSporksAll(n, p) ==
    /\ net' = net \cup {[from |-> p, to |-> n, spork |-> mapSporksActive[p][id]] :
                          id \in SporkIDs}
    /\ UNCHANGED <<now, strMasterPrivKey, mapSporksActive, mapSporks, hasTip,
                   nTimeExecuted, reprocessed, misbehaving, signed, updates>>

(* ProcessSpork(pfrom, GETSPORKS): node p pushes every spork in its        *)
(* mapSporksActive to n.                                                    *)
GetSporks(n, p) ==
    /\ net' = net \cup {[from |-> p, to |-> n, spork |-> mapSporksActive[p][id]] :
                          id \in {i \in SporkIDs : mapSporksActive[p][i] # None}}
    /\ UNCHANGED <<now, strMasterPrivKey, mapSporksActive, mapSporks, hasTip,
                   nTimeExecuted, reprocessed, misbehaving, signed, updates>>

(* What the attacker can send: a spork signed with a key of its own, a     *)
(* spork-key signature attached to fields of its choosing (a replay when  *)
(* they are the signed ones), and, when Forge, to the fields another       *)
(* split of the signed digit string reads as.  One attacker message is in  *)
(* flight at a time (a bound on the model, not on the attacker's reach:   *)
(* every message it can send is still sent, in some behaviour).           *)
AttackerSporks ==
    {Sign(WrongKey, id, v, now) : id \in SporkIDs, v \in Values}
    \cup {[id |-> x.id, value |-> v, time |-> x.time, sig |-> x.sig] :
            x \in signed, v \in Values}
    \cup (IF Forge
          THEN UNION {{[id |-> t[1], value |-> t[2], time |-> t[3], sig |-> x.sig] :
                         t \in {u \in Splits(x.sig.msg) : u[1] \in SporkIDs}} :
                       x \in signed}
          ELSE {})

AttackerSend(n, s) ==
    /\ ~\E x \in net : x.from = Attacker
    /\ net' = net \cup {[from |-> Attacker, to |-> n, spork |-> s]}
    /\ UNCHANGED <<now, strMasterPrivKey, mapSporksActive, mapSporks, hasTip,
                   nTimeExecuted, reprocessed, misbehaving, signed, updates>>

(* A SPORK message lost on the way (a dropped connection).                 *)
Lose(m) ==
    /\ Lossy /\ m \in net
    /\ net' = net \ {m}
    /\ UNCHANGED <<now, strMasterPrivKey, mapSporksActive, mapSporks, hasTip,
                   nTimeExecuted, reprocessed, misbehaving, signed, updates>>

(* GetTime() advances; the node catches up to a chain tip.                 *)
Tick ==
    /\ now < MaxTime
    /\ now' = now + 1
    /\ UNCHANGED <<strMasterPrivKey, mapSporksActive, mapSporks, hasTip,
                   nTimeExecuted, reprocessed, net, misbehaving, signed, updates>>

GainTip(n) ==
    /\ ~hasTip[n]
    /\ hasTip' = [hasTip EXCEPT ![n] = TRUE]
    /\ UNCHANGED <<now, strMasterPrivKey, mapSporksActive, mapSporks,
                   nTimeExecuted, reprocessed, net, misbehaving, signed, updates>>

Next ==
    \/ \E k \in Keys : SetPrivKey(Master, k)
    \/ \E id \in SporkIDs, v \in Values : UpdateSpork(Master, id, v)
    \/ \E m \in net : ProcessSpork(m) \/ Lose(m)
    \/ \E n, p \in Nodes : n # p /\ GetSporks(n, p)
    \/ \E n \in Nodes, s \in AttackerSporks : AttackerSend(n, s)
    \/ \E n \in Nodes : GainTip(n)
    \/ Tick

(* Each SPORK message sent between two nodes is eventually processed: a    *)
(* connected peer's queued messages are delivered.                          *)
HonestMessages ==
    [from: Nodes, to: Nodes,
     spork: {Sign(MasterKey, id, v, t) : id \in SporkIDs, v \in Values, t \in Times}]

Fairness == \A m \in HonestMessages : WF_vars(ProcessSpork(m))

Spec == Init /\ [][Next]_vars
LiveSpec == Spec /\ Fairness

(* IsSporkActive(nSporkID): the held value, or the id's default, compared  *)
(* with GetTime().  The SPORK_10_SIGMA case reads r = SPORK_10_SIGMA.      *)
IsSporkActive(n, id) ==
    LET r == IF mapSporksActive[n][id] # None THEN mapSporksActive[n][id].value
             ELSE IF id = SPORK_10_SIGMA THEN SPORK_10_SIGMA
             ELSE IF id \in SporkIDs THEN Default[id]
             ELSE OffTime
    IN r < now

(* GetSporkValue(nSporkID): the held value, or the id's default, or -1.    *)
GetSporkValue(n, id) ==
    IF mapSporksActive[n][id] # None THEN mapSporksActive[n][id].value
    ELSE IF id \in SporkIDs THEN Default[id]
    ELSE -1

-----------------------------------------------------------------------------
(* A node's spork for an id never goes back to an older one, however       *)
(* SPORK messages are duplicated, reordered, replayed or pushed again by   *)
(* GETSPORKS (the nTimeSigned test of ProcessSpork).                       *)
ActiveTimeMonotone ==
    [][\A n \in Nodes, id \in SporkIDs :
         mapSporksActive[n][id] # None =>
            /\ mapSporksActive'[n][id] # None
            /\ mapSporksActive'[n][id].time >= mapSporksActive[n][id].time]_vars

(* Only the attacker is ever scored Misbehaving(100): a node relays and    *)
(* pushes only sporks whose signature it checked, and the operator's node  *)
(* signs only with a key SetPrivKey has tested against the spork key.      *)
NoHonestPeerPenalised == \A e \in misbehaving : e[2] = Attacker

(* Every spork a node holds carries fields the spork key signed: a         *)
(* signature verified by CheckSignature authenticates id, value and time.  *)
ActiveIsMasterSigned ==
    \A n \in Nodes, id \in SporkIDs :
        mapSporksActive[n][id] # None =>
            \E x \in signed : /\ x.id = id
                              /\ x.value = mapSporksActive[n][id].value
                              /\ x.time = mapSporksActive[n][id].time

(* Once the operator stops, every node ends up holding what the operator's *)
(* node holds, for every id.                                                *)
Convergence ==
    <>[](\A n \in Nodes, id \in SporkIDs :
            mapSporksActive[n][id] = mapSporksActive[Master][id])

=============================================================================
