----------------------------- MODULE HeadPoller -----------------------------
(***************************************************************************)
(* The header subscription of the Qtum adapter, SubscribeNewHead           *)
(* (src/bridge/pkg/qtum/utils.go:49-126), with its block-hash cache, run   *)
(* against a chain that grows and reorganises.  A block is named by its    *)
(* height and a version; a reorganisation gives the replaced heights a     *)
(* fresh version, so <<h, ver[h]>> plays the role of the block hash.       *)
(*                                                                         *)
(* prevBlocksLen (utils.go:62) is declared and never assigned.  It is 0    *)
(* in the "no new blocks" test, in the cache lookup that detects a         *)
(* reorganisation and in the eviction of old entries.                      *)
(***************************************************************************)
EXTENDS Integers, Sequences, FiniteSets

CONSTANTS
    MaxHeight,      \* bound: highest block the chain reaches
    MaxReorgs,      \* bound: number of reorganisations
    MaxReorgDepth,  \* bound: blocks replaced by one reorganisation
    MaxCrashes,     \* bound: RPC failures that end the subscription
    Cache           \* the cache window, const cache (utils.go:47)

ASSUME PollerBoundsAssumption ==
    /\ MaxHeight \in Nat
    /\ MaxReorgs \in Nat
    /\ MaxReorgDepth \in Nat
    /\ MaxCrashes \in Nat
    /\ Cache \in Nat

\* Capacity of headSink (watcher.go:233).
HeadSinkCap == 2

\* An absent cache entry.
None == -1

Heights == 0..MaxHeight
Versions == 0..MaxReorgs

VARIABLES
    tip,            \* chain: height of the best block
    ver,            \* chain: version of the block at each height
    reorgs,         \* chain: reorganisations so far
    up,             \* the subscription is running
    crashes,        \* RPC failures so far
    blocksCache,    \* cached version per height, or None
    headSink        \* headers (height, version) sent to the header goroutine

chainVars == <<tip, ver, reorgs>>
vars == <<tip, ver, reorgs, up, crashes, blocksCache, headSink>>

prevBlocksLen == 0

-----------------------------------------------------------------------------

\* A new block on top of the tip.
Mine ==
    /\ tip < MaxHeight
    /\ tip' = tip + 1
    /\ ver' = [ver EXCEPT ![tip + 1] = reorgs]
    /\ UNCHANGED <<reorgs, up, crashes, blocksCache, headSink>>

\* The top d blocks are replaced by blocks of a new version.
Reorg ==
    /\ reorgs < MaxReorgs
    /\ \E d \in 1..MaxReorgDepth :
          /\ d <= tip
          /\ ver' = [h \in Heights |-> IF tip - d < h /\ h <= tip THEN reorgs + 1
                                                                ELSE ver[h]]
    /\ reorgs' = reorgs + 1
    /\ UNCHANGED <<tip, up, crashes, blocksCache, headSink>>

\* utils.go:89: the entry cached at prevBlocksLen exists and differs from
\* the parent hash of the tip header.
ReorgDetected ==
    /\ blocksCache[prevBlocksLen] # None
    /\ ~(tip - 1 = prevBlocksLen /\ blocksCache[prevBlocksLen] = ver[prevBlocksLen])

\* Mutants: the "no new blocks" test dropped; the send queued without room.
PollHeadAtZero ==
    /\ up
    /\ ~ReorgDetected
    /\ Len(headSink) < HeadSinkCap
    /\ blocksCache' = [blocksCache EXCEPT ![tip] = ver[tip]]
    /\ headSink' = Append(headSink, <<tip, ver[tip]>>)
    /\ UNCHANGED <<chainVars, up, crashes>>

PollHeadUncapped ==
    /\ up
    /\ tip # prevBlocksLen
    /\ ~ReorgDetected
    /\ blocksCache' = [blocksCache EXCEPT ![tip] = ver[tip]]
    /\ headSink' = Append(headSink, <<tip, ver[tip]>>)
    /\ UNCHANGED <<chainVars, up, crashes>>

\* One tick of time.Tick (utils.go:66-116): unless the block count equals
\* prevBlocksLen ("no new blocks"), read the tip header; without a detected
\* reorganisation, cache its hash, delete the entry at prevBlocksLen - cache
\* (a negative height: nothing) and send the header.
PollHead ==
    /\ up
    /\ tip # prevBlocksLen
    /\ ~ReorgDetected
    /\ Len(headSink) < HeadSinkCap
    /\ blocksCache' = [blocksCache EXCEPT ![tip] = ver[tip]]
    /\ headSink' = Append(headSink, <<tip, ver[tip]>>)
    /\ UNCHANGED <<chainVars, up, crashes>>

\* The header goroutine takes a header (watcher.go:248).
ConsumeHead ==
    /\ headSink # <<>>
    /\ headSink' = Tail(headSink)
    /\ UNCHANGED <<chainVars, up, crashes, blocksCache>>

\* GetBlockCount, GetBlockHash or GetBlockHeader fails (utils.go:68-86): the
\* subscription ends, and with it the watcher's Run.
PollFailure ==
    /\ up
    /\ crashes < MaxCrashes
    /\ crashes' = crashes + 1
    /\ up' = FALSE
    /\ headSink' = <<>>
    /\ UNCHANGED <<chainVars, blocksCache>>

\* Run is called again: a new subscription with an empty cache (utils.go:60).
Resubscribe ==
    /\ ~up
    /\ up' = TRUE
    /\ blocksCache' = [h \in Heights |-> None]
    /\ UNCHANGED <<chainVars, crashes, headSink>>

Init ==
    /\ tip = 0
    /\ ver = [h \in Heights |-> 0]
    /\ reorgs = 0
    /\ up = TRUE
    /\ crashes = 0
    /\ blocksCache = [h \in Heights |-> None]
    /\ headSink = <<>>

Next ==
    \/ Mine
    \/ Reorg
    \/ PollHead
    \/ ConsumeHead
    \/ PollFailure
    \/ Resubscribe

Spec == Init /\ [][Next]_vars

-----------------------------------------------------------------------------
(* Properties.                                                             *)

\* Every variable holds a value of its type; headSink within its capacity.
TypeOK ==
    /\ tip \in Heights
    /\ ver \in [Heights -> Versions]
    /\ reorgs \in Versions
    /\ up \in BOOLEAN
    /\ crashes \in 0..MaxCrashes
    /\ blocksCache \in [Heights -> Versions \cup {None}]
    /\ headSink \in Seq(Heights \X Versions)
    /\ Len(headSink) <= HeadSinkCap

\* The poller never takes its reorganisation branch (utils.go:89-111): the
\* height prevBlocksLen = 0 is never cached, since a tick at block count 0
\* returns before caching and every other tick caches the tip.
ReorgBranchDead == ~ReorgDetected

\* The cache holds at most the last Cache + 1 heights (spec 4.2: a rolling
\* cache of the last W block hashes; the eviction at utils.go:115).
CacheBounded ==
    Cardinality({h \in Heights : blocksCache[h] # None}) <= Cache + 1

=============================================================================
