---------------------------- MODULE QtumWatcher ----------------------------
(***************************************************************************)
(* The Qtum chain adapter of the bridge (src/bridge/pkg/qtum): the lock-up *)
(* confirmation tracker of QtumBridgeWatcher.Run, the header poller        *)
(* SubscribeNewHead and the log subscription of qtumContractFilterer, run  *)
(* against a chain that grows and reorganises.                             *)
(*                                                                         *)
(* Three goroutines share the watcher's state:                            *)
(*   - the event goroutine (watcher.go:153-230) takes lock-up logs from    *)
(*     tokensLockedC and stores them in pendingLocks;                      *)
(*   - the header goroutine (watcher.go:240-286) takes headers from        *)
(*     headSink and, holding pendingLocksGuard, walks pendingLocks,        *)
(*     dropping timed-out locks and sending confirmed ones on lockChan;    *)
(*   - the poller (utils.go:58-125) reads the chain tip every second and   *)
(*     sends its header on headSink.                                       *)
(* The log subscription (filterer.go:101-177) repeatedly calls qtumd's     *)
(* waitforlogs from the block after the current tip.  Any RPC failure      *)
(* ends Run with an error; the supervisor calls Run again on the same      *)
(* watcher object, so pendingLocks survives a restart while the channels   *)
(* and the poller's cache, local to Run, do not.                           *)
(*                                                                         *)
(* A block is named by its height and a version: a reorganisation gives    *)
(* the replaced heights a fresh version, so <<h, ver[h]>> plays the role   *)
(* of the block hash.                                                      *)
(***************************************************************************)
EXTENDS Integers, Sequences, FiniteSets

CONSTANTS
    Tx,             \* lock-up transactions (model values)
    MinConf,        \* QtumBridgeWatcher.minConfirmations
    MaxHeight,      \* bound: highest block the chain reaches
    MaxReorgs,      \* bound: number of reorganisations
    MaxReorgDepth,  \* bound: blocks replaced by one reorganisation
    MaxCrashes      \* bound: RPC failures that end Run

ASSUME MinConfAssumption == MinConf \in Nat \ {0}
ASSUME BoundsAssumption ==
    /\ MaxHeight \in Nat
    /\ MaxReorgs \in Nat
    /\ MaxReorgDepth \in Nat
    /\ MaxCrashes \in Nat

\* Capacity of headSink (watcher.go:233).
HeadSinkCap == 2

\* Marks "no height": an empty map slot, a transaction in no block, an idle
\* goroutine.
None == -1

Heights == 0..MaxHeight
Versions == 0..MaxReorgs
\* A lock-up log / ChainLock: the transaction and the height of its block.
LockRec == [tx : Tx, h : Heights]

VARIABLES
    tip,            \* chain: height of the best block
    ver,            \* chain: version of the block at each height
    incl,           \* chain: block a transaction was last mined in
    reorgs,         \* chain: reorganisations so far
    up,             \* Run is running (FALSE between a failure and the restart)
    crashes,        \* RPC failures so far
    wflFrom,        \* filterer: fromBlock of the pending waitforlogs call, or None
    subErr,         \* WatchLogTokensLocked has failed on a malformed log
    tokensLockedC,  \* lock-up logs on their way to the event goroutine
    pendingLocks,   \* watcher: height of each pending lock, or None
    headSink,       \* headers on their way to the header goroutine
    scanHead,       \* header goroutine: head being processed (mutex held), or None
    toScan,         \* header goroutine: map entries not yet visited in this scan
    lockChan        \* ChainLocks sent to the processor, in order

chainVars == <<tip, ver, incl, reorgs>>
watcherVars == <<up, crashes, wflFrom, subErr, tokensLockedC, pendingLocks,
                 headSink, scanHead, toScan, lockChan>>
vars == <<tip, ver, incl, reorgs, up, crashes, wflFrom, subErr, tokensLockedC,
          pendingLocks, headSink, scanHead, toScan, lockChan>>

-----------------------------------------------------------------------------
(* The chain.                                                              *)

Block == [h : Heights \cup {None}, v : Versions]

\* Transaction t is in a block of the current best chain.
Canonical(t) ==
    /\ incl[t].h \in 0..tip
    /\ ver[incl[t].h] = incl[t].v

\* A new block on top of the tip, holding some transactions that are in no
\* block of the best chain.
Mine ==
    /\ tip < MaxHeight
    /\ \E S \in SUBSET {t \in Tx : ~Canonical(t)} :
          /\ tip' = tip + 1
          /\ ver' = [ver EXCEPT ![tip + 1] = reorgs]
          /\ incl' = [t \in Tx |-> IF t \in S THEN [h |-> tip + 1, v |-> reorgs]
                                              ELSE incl[t]]
    /\ UNCHANGED <<reorgs, watcherVars>>

\* The top d blocks are replaced by empty blocks of a new version; their
\* transactions go back to the mempool.
Reorg ==
    /\ reorgs < MaxReorgs
    /\ \E d \in 1..MaxReorgDepth :
          /\ d <= tip
          /\ ver' = [h \in Heights |-> IF tip - d < h /\ h <= tip THEN reorgs + 1
                                                                ELSE ver[h]]
    /\ reorgs' = reorgs + 1
    /\ UNCHANGED <<tip, incl, watcherVars>>

-----------------------------------------------------------------------------
(* The log subscription (filterer.go:101-177, abi.go:223-260).             *)

\* The lock-up logs that waitforlogs, called with fromBlock f and minconf 0,
\* returns: logs of best-chain blocks from f up to the tip.  NewAbiQtum
\* replaces the filterer it is given by one with confirmations 0
\* (abi.go:52), so unconfirmed logs are returned.
LogsFrom(f) == {t \in Tx : Canonical(t) /\ incl[t].h >= f}

\* waitforlogs with fromBlock null waits for logs of blocks after the tip.
WaitForLogsCall ==
    /\ up
    /\ ~subErr
    /\ wflFrom = None
    /\ wflFrom' = tip + 1
    /\ UNCHANGED <<chainVars, up, crashes, subErr, tokensLockedC, pendingLocks,
                   headSink, scanHead, toScan, lockChan>>

\* waitforlogs returns a batch.  logTopics is not reset between entries
\* (filterer.go:138-144), so every entry after the first carries the topics
\* of the entries before it; UnpackLog rejects it and WatchLogTokensLocked
\* ends with an error (abi.go:241-243).  Only the first log, the one of the
\* lowest block, reaches tokensLockedC.
WaitForLogsReturn ==
    /\ up
    /\ wflFrom # None
    /\ LogsFrom(wflFrom) # {}
    /\ \E t \in LogsFrom(wflFrom) :
          /\ \A u \in LogsFrom(wflFrom) : incl[t].h <= incl[u].h
          /\ tokensLockedC' = Append(tokensLockedC, [tx |-> t, h |-> incl[t].h])
    /\ subErr' = (Cardinality(LogsFrom(wflFrom)) > 1)
    /\ wflFrom' = None
    /\ UNCHANGED <<chainVars, up, crashes, pendingLocks, headSink,
                   scanHead, toScan, lockChan>>

-----------------------------------------------------------------------------
(* The event goroutine (watcher.go:166-204).                               *)

\* BlockByNumber succeeded; under pendingLocksGuard the lock is stored by
\* transaction hash, replacing an earlier entry for the same hash.
HandleLockup ==
    /\ up
    /\ tokensLockedC # <<>>
    /\ scanHead = None
    /\ pendingLocks' = [pendingLocks EXCEPT ![Head(tokensLockedC).tx] =
                                               Head(tokensLockedC).h]
    /\ tokensLockedC' = Tail(tokensLockedC)
    /\ UNCHANGED <<chainVars, up, crashes, wflFrom, subErr, headSink,
                   scanHead, toScan, lockChan>>

-----------------------------------------------------------------------------
(* The poller (utils.go:58-125).  prevBlocksLen is declared at utils.go:62 *)
(* and never assigned, so the "no new blocks" test compares the block      *)
(* count with 0 and the reorganisation branch is never taken (module       *)
(* HeadPoller models the cache and proves it); what reaches the watcher is *)
(* the tip header on every tick.                                           *)

\* Mutant: the header is queued whether or not headSink has room.
PollHeadUncapped ==
    /\ up
    /\ tip # 0
    /\ headSink' = Append(headSink, tip)
    /\ UNCHANGED <<chainVars, up, crashes, wflFrom, subErr, tokensLockedC,
                   pendingLocks, scanHead, toScan, lockChan>>

\* One tick: GetBlockCount, GetBlockHash and GetBlockHeader of the tip,
\* then the tip header is sent on headSink (a blocking send).
PollHead ==
    /\ up
    /\ tip # 0
    /\ Len(headSink) < HeadSinkCap
    /\ headSink' = Append(headSink, tip)
    /\ UNCHANGED <<chainVars, up, crashes, wflFrom, subErr, tokensLockedC,
                   pendingLocks, scanHead, toScan, lockChan>>

-----------------------------------------------------------------------------
(* The header goroutine (watcher.go:248-283).                              *)

\* A lock at height H has timed out at head B (watcher.go:264).
TimedOut(H, B) == H + 4 * MinConf <= B
\* Mutants: the confirmation depth off by one either way.
ConfirmedEarly(H, B) == H + MinConf - 1 <= B
ConfirmedStrict(H, B) == H + MinConf < B
\* A lock at height H is confirmed at head B (watcher.go:272).
Confirmed(H, B) == H + MinConf <= B

\* Take a header and lock pendingLocksGuard; the range loop will visit every
\* entry of the map.
BeginHead ==
    /\ up
    /\ headSink # <<>>
    /\ scanHead = None
    /\ scanHead' = Head(headSink)
    /\ headSink' = Tail(headSink)
    /\ toScan' = {t \in Tx : pendingLocks[t] # None}
    /\ UNCHANGED <<chainVars, up, crashes, wflFrom, subErr, tokensLockedC,
                   pendingLocks, lockChan>>

\* Visit entry t: the timeout test comes first and wins.
ScanTimeout(t) ==
    /\ t \in toScan
    /\ TimedOut(pendingLocks[t], scanHead)
    /\ pendingLocks' = [pendingLocks EXCEPT ![t] = None]
    /\ toScan' = toScan \ {t}
    /\ UNCHANGED <<chainVars, up, crashes, wflFrom, subErr, tokensLockedC,
                   headSink, scanHead, lockChan>>

\* Mutant: the lock is sent and left in pendingLocks (no delete).
ScanConfirmKeep(t) ==
    /\ t \in toScan
    /\ ~TimedOut(pendingLocks[t], scanHead)
    /\ Confirmed(pendingLocks[t], scanHead)
    /\ lockChan' = Append(lockChan, [tx |-> t, h |-> pendingLocks[t]])
    /\ toScan' = toScan \ {t}
    /\ UNCHANGED <<chainVars, up, crashes, wflFrom, subErr, tokensLockedC,
                   pendingLocks, headSink, scanHead>>

\* Send a confirmed lock on lockChan and delete it (watcher.go:272-276).
ScanConfirm(t) ==
    /\ t \in toScan
    /\ ~TimedOut(pendingLocks[t], scanHead)
    /\ Confirmed(pendingLocks[t], scanHead)
    /\ pendingLocks' = [pendingLocks EXCEPT ![t] = None]
    /\ lockChan' = Append(lockChan, [tx |-> t, h |-> pendingLocks[t]])
    /\ toScan' = toScan \ {t}
    /\ UNCHANGED <<chainVars, up, crashes, wflFrom, subErr, tokensLockedC,
                   headSink, scanHead>>

ScanKeep(t) ==
    /\ t \in toScan
    /\ ~TimedOut(pendingLocks[t], scanHead)
    /\ ~Confirmed(pendingLocks[t], scanHead)
    /\ toScan' = toScan \ {t}
    /\ UNCHANGED <<chainVars, up, crashes, wflFrom, subErr, tokensLockedC,
                   pendingLocks, headSink, scanHead, lockChan>>

\* The loop is over: unlock pendingLocksGuard.
EndHead ==
    /\ scanHead # None
    /\ toScan = {}
    /\ scanHead' = None
    /\ UNCHANGED <<chainVars, up, crashes, wflFrom, subErr, tokensLockedC,
                   pendingLocks, headSink, toScan, lockChan>>

-----------------------------------------------------------------------------
(* Failure and restart (watcher.go:288-293, 95-151).                       *)

\* What the model drops when Run returns: its channels and the pending
\* waitforlogs call.  A scan in progress is finished by the old header
\* goroutine, which does not look at ctx inside the loop.  In the code the
\* old event goroutine returns on ctx.Done only when its select picks that
\* case: it may first take a buffered log, or finish a BlockByNumber in
\* flight, and store the lock; and the old subscription is never
\* unsubscribed.  The model lets such a lock be stored only before the
\* return (Ingest, then the failure), not after it.
Discard ==
    /\ up' = FALSE
    /\ wflFrom' = None
    /\ subErr' = FALSE
    /\ tokensLockedC' = <<>>
    /\ headSink' = <<>>

\* An RPC fails: BlockByNumber, GetBlockCount/GetBlockHash/GetBlockHeader,
\* waitforlogs or a subscription; the error reaches errC and Run returns.
RpcFailure ==
    /\ up
    /\ crashes < MaxCrashes
    /\ crashes' = crashes + 1
    /\ Discard
    /\ UNCHANGED <<chainVars, pendingLocks, scanHead, toScan, lockChan>>

\* tokensLockedSub.Err() after a malformed log (watcher.go:158-161).
SubscriptionFailure ==
    /\ up
    /\ subErr
    /\ Discard
    /\ UNCHANGED <<chainVars, crashes, pendingLocks, scanHead, toScan, lockChan>>

\* The supervisor calls Run again on the same watcher: pendingLocks is kept.
Restart ==
    /\ ~up
    /\ up' = TRUE
    /\ UNCHANGED <<chainVars, crashes, wflFrom, subErr, tokensLockedC, pendingLocks,
                   headSink, scanHead, toScan, lockChan>>

-----------------------------------------------------------------------------

Init ==
    /\ tip = 0
    /\ ver = [h \in Heights |-> 0]
    /\ incl = [t \in Tx |-> [h |-> None, v |-> 0]]
    /\ reorgs = 0
    /\ up = TRUE
    /\ crashes = 0
    /\ wflFrom = None
    /\ subErr = FALSE
    /\ tokensLockedC = <<>>
    /\ pendingLocks = [t \in Tx |-> None]
    /\ headSink = <<>>
    /\ scanHead = None
    /\ toScan = {}
    /\ lockChan = <<>>

ScanStep == \E t \in Tx : ScanTimeout(t) \/ ScanConfirm(t) \/ ScanKeep(t)

Next ==
    \/ Mine
    \/ Reorg
    \/ WaitForLogsCall
    \/ WaitForLogsReturn
    \/ HandleLockup
    \/ PollHead
    \/ BeginHead
    \/ ScanStep
    \/ EndHead
    \/ RpcFailure
    \/ SubscriptionFailure
    \/ Restart

Spec == Init /\ [][Next]_vars

\* Every goroutine is scheduled and the poller's one-second ticker keeps
\* firing; the supervisor restarts a failed Run.  The chain and failures
\* are the environment and need not happen.
Fairness ==
    /\ WF_vars(WaitForLogsCall)
    /\ WF_vars(WaitForLogsReturn)
    /\ WF_vars(HandleLockup)
    /\ WF_vars(PollHead)
    /\ WF_vars(BeginHead)
    /\ WF_vars(ScanStep)
    /\ WF_vars(EndHead)
    /\ WF_vars(SubscriptionFailure)
    /\ WF_vars(Restart)

FairSpec == Spec /\ Fairness

-----------------------------------------------------------------------------
(* Properties.                                                             *)

\* Every variable holds a value of its type; headSink within its capacity
\* and the pending waitforlogs starting at most one block past the tip.
TypeOK ==
    /\ tip \in Heights
    /\ ver \in [Heights -> Versions]
    /\ incl \in [Tx -> Block]
    /\ reorgs \in Versions
    /\ up \in BOOLEAN
    /\ crashes \in 0..MaxCrashes
    /\ wflFrom \in Heights \cup {None, MaxHeight + 1}
    /\ subErr \in BOOLEAN
    /\ tokensLockedC \in Seq(LockRec)
    /\ pendingLocks \in [Tx -> Heights \cup {None}]
    /\ headSink \in Seq(Heights)
    /\ Len(headSink) <= HeadSinkCap
    /\ scanHead \in Heights \cup {None}
    /\ toScan \in SUBSET Tx
    /\ lockChan \in Seq(LockRec)

\* The records a step appends to lockChan.
NewLocks == {lockChan'[i] : i \in Len(lockChan) + 1..Len(lockChan')}

\* A ChainLock is sent to the processor only when its block is at least
\* MinConf blocks below the chain tip, although the head that triggers the
\* send may have waited in headSink (watcher.go:272-276).
EmitOnlyConfirmed ==
    [][\A r \in NewLocks : r.h + MinConf <= tip]_vars

\* Without reorganisations, no transaction is sent to the processor twice,
\* across waitforlogs calls, restarts and repeated headers
\* (filterer.go:116-126, watcher.go:275).
NoDoubleEmission ==
    \A i, j \in 1..Len(lockChan) : i < j => lockChan[i].tx # lockChan[j].tx

\* The same ChainLock, a transaction in one block, is never sent to the
\* processor twice, with reorganisations, restarts and repeated headers:
\* waitforlogs only returns logs of blocks after the tip at its call
\* (filterer.go:116-126) and a sent lock is deleted under the mutex
\* (watcher.go:272-276).  A transaction re-mined after a reorganisation
\* may be sent again with its new block: see NoDoubleEmission.
NoDuplicateChainLock ==
    \A i, j \in 1..Len(lockChan) : i < j => lockChan[i] # lockChan[j]

\* A pending lock whose block is MinConf deep eventually leaves
\* pendingLocks: the poller keeps sending headers and the header goroutine
\* visits every entry (watcher.go:258-281, utils.go:64-116).
PendingDrains ==
    \A t \in Tx, h \in Heights :
        (pendingLocks[t] = h /\ h + MinConf <= tip) ~> (pendingLocks[t] # h)

\* Every ChainLock sent to the processor is in a block of the best chain
\* at the time it is sent (spec 4.2: locks are promoted only after
\* sufficient confirmations).
EmittedLockCanonical ==
    [][\A r \in NewLocks : Canonical(r.tx)' /\ incl'[r.tx].h = r.h]_vars

\* The tracker of spec 4.2 (module LockTracker), read off the watcher's
\* state: the pending map is pendingLocks and the sent locks are lockChan.
Abstract == INSTANCE LockTracker WITH pending <- pendingLocks, emitted <- lockChan

\* The watcher implements the tracker: every step either leaves tip,
\* pendingLocks and lockChan alone or is a step of the tracker.  A lock is
\* stored only for a mined block, while it is neither pending nor sent
\* (waitforlogs from the block after the tip, filterer.go:116-126); it is
\* sent once and deleted when MinConf deep (watcher.go:272-276), dropped
\* only when 4 * MinConf deep (watcher.go:264-268).  It needs the heads
\* the header goroutine acts on to be at most the tip.
ImplementsLockTracker == Abstract!Spec

=============================================================================
