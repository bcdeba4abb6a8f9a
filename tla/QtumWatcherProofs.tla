------------------------- MODULE QtumWatcherProofs -------------------------
(***************************************************************************)
(* Proofs about the Qtum confirmation tracker, for every value of the      *)
(* constants: the type invariant, and that a ChainLock is only sent when   *)
(* its block is MinConf below the chain tip.  The second rests on the      *)
(* inductive invariant that every header in headSink, and the head being   *)
(* scanned, is at most the tip: the chain tip never decreases and the      *)
(* poller only ever sends the tip.                                         *)
(***************************************************************************)
EXTENDS QtumWatcher, SequenceTheorems, TLAPS

\* Headers waiting in headSink and the head being scanned are never above
\* the chain tip.
HeadsBelowTip ==
    /\ \A i \in 1..Len(headSink) : headSink[i] <= tip
    /\ scanHead # None => scanHead <= tip



-----------------------------------------------------------------------------

\* Init establishes the type invariant.
LEMMA InitTypeOK == Init => TypeOK
  <1> SUFFICES ASSUME Init PROVE TypeOK
    OBVIOUS
  <1>1. tip \in Heights /\ ver \in [Heights -> Versions] /\ reorgs \in Versions
    BY BoundsAssumption DEF Init, Heights, Versions
  <1>2. incl \in [Tx -> Block]
    BY BoundsAssumption DEF Init, Block, None, Heights, Versions
  <1>3. /\ tokensLockedC \in Seq(LockRec) /\ headSink \in Seq(Heights)
        /\ Len(headSink) <= HeadSinkCap /\ lockChan \in Seq(LockRec)
    BY DEF Init, HeadSinkCap
  <1>4. pendingLocks \in [Tx -> Heights \cup {None}]
    BY DEF Init, None, Heights
  <1>5. up \in BOOLEAN /\ subErr \in BOOLEAN /\ toScan \in SUBSET Tx
    BY Zenon DEF Init
  <1>6. crashes \in 0..MaxCrashes
    BY BoundsAssumption DEF Init
  <1>7. wflFrom \in Heights \cup {None, MaxHeight + 1} /\ scanHead \in Heights \cup {None}
    BY DEF Init, Heights, None
  <1>8. QED
    BY <1>1, <1>2, <1>3, <1>4, <1>5, <1>6, <1>7, Zenon DEF TypeOK

\* The entries left to visit in a scan are still in pendingLocks: the event
\* goroutine cannot insert or overwrite while the header goroutine holds
\* pendingLocksGuard, and the scan removes an entry only when it visits it.
ScanInv ==
    /\ \A t \in toScan : pendingLocks[t] # None
    /\ scanHead = None => toScan = {}

\* TypeOK alone is not inductive: a scan step sends pendingLocks[t], which
\* is a height only because of ScanInv.
TypeInv == TypeOK /\ ScanInv

LEMMA InitTypeInv == Init => TypeInv
  BY InitTypeOK DEF Init, TypeInv, ScanInv

\* Every action preserves TypeInv.
LEMMA NextTypeInv == TypeInv /\ [Next]_vars => TypeInv'
  <1> SUFFICES ASSUME TypeInv, [Next]_vars PROVE TypeInv'
    OBVIOUS
  <1> USE MinConfAssumption, BoundsAssumption
          DEF TypeInv, TypeOK, ScanInv, None, Heights, Versions, Block, LockRec
  <1>1. CASE Mine
    BY <1>1 DEF Mine, Canonical, watcherVars
  <1>2. CASE Reorg
    BY <1>2 DEF Reorg, watcherVars
  <1>3. CASE WaitForLogsCall
    BY <1>3 DEF WaitForLogsCall, chainVars
  <1>4. CASE WaitForLogsReturn
    <2>1. PICK t \in LogsFrom(wflFrom) :
             tokensLockedC' = Append(tokensLockedC, [tx |-> t, h |-> incl[t].h])
      BY <1>4 DEF WaitForLogsReturn
    <2>2. [tx |-> t, h |-> incl[t].h] \in LockRec
      BY <2>1 DEF LogsFrom, Canonical
    <2>3. subErr' \in BOOLEAN
      BY <1>4 DEF WaitForLogsReturn
    <2>4. tokensLockedC' \in Seq(LockRec)
      BY <2>1, <2>2, AppendProperties
    <2>5. wflFrom' \in Heights \cup {None, MaxHeight + 1}
      BY <1>4 DEF WaitForLogsReturn
    <2>6. UNCHANGED <<tip, ver, incl, reorgs, up, crashes, pendingLocks,
                      headSink, scanHead, toScan, lockChan>>
      BY <1>4 DEF WaitForLogsReturn, chainVars
    <2>7. QED
      BY <2>3, <2>4, <2>5, <2>6, Zenon
  <1>5. CASE HandleLockup
    <2>1. Head(tokensLockedC) \in LockRec /\ Tail(tokensLockedC) \in Seq(LockRec)
      BY <1>5, HeadTailProperties DEF HandleLockup
    <2>2. pendingLocks' \in [Tx -> Heights \cup {None}]
      BY <1>5, <2>1, SMTT(20) DEF HandleLockup
    <2>3. toScan = {} /\ toScan' = {} /\ scanHead' = None
      BY <1>5 DEF HandleLockup
    <2>4. QED
      BY <1>5, <2>1, <2>2, <2>3, Zenon DEF HandleLockup, chainVars
  <1>6. CASE PollHead
    BY <1>6, SMTT(20) DEF PollHead, chainVars, HeadSinkCap
  <1>7. CASE BeginHead
    <2>1. /\ Head(headSink) \in Heights /\ Tail(headSink) \in Seq(Heights)
          /\ Len(Tail(headSink)) = Len(headSink) - 1
      BY <1>7, HeadTailProperties DEF BeginHead
    <2>2. scanHead' \in Heights /\ headSink' \in Seq(Heights)
      BY <1>7, <2>1 DEF BeginHead
    <2>5. Len(headSink') <= HeadSinkCap
      BY <1>7, <2>1, LenProperties DEF BeginHead, HeadSinkCap
    <2>3. toScan' \in SUBSET Tx /\ \A t \in toScan' : pendingLocks'[t] # None
      BY <1>7 DEF BeginHead
    <2>6. scanHead' # None
      BY <2>2
    <2>4. QED
      BY <1>7, <2>2, <2>3, <2>5, <2>6, Zenon DEF BeginHead, chainVars
  <1>8. CASE ScanStep
    <2>1. PICK t \in Tx : ScanTimeout(t) \/ ScanConfirm(t) \/ ScanKeep(t)
      BY <1>8 DEF ScanStep
    <2>2. t \in toScan /\ pendingLocks[t] \in Heights
      BY <2>1 DEF ScanTimeout, ScanConfirm, ScanKeep
    <2>3. CASE ScanTimeout(t)
      BY <2>3, SMTT(20) DEF ScanTimeout, chainVars
    <2>4. CASE ScanConfirm(t)
      <3>1. [tx |-> t, h |-> pendingLocks[t]] \in LockRec
        BY <2>2
      <3>2. lockChan' \in Seq(LockRec)
        BY <2>4, <3>1, AppendProperties DEF ScanConfirm
      <3>3. QED
        BY <2>4, <3>2 DEF ScanConfirm, chainVars
    <2>5. CASE ScanKeep(t)
      BY <2>5, SMTT(20) DEF ScanKeep, chainVars
    <2>6. QED
      BY <2>1, <2>3, <2>4, <2>5
  <1>9. CASE EndHead
    BY <1>9 DEF EndHead, chainVars
  <1>10. CASE RpcFailure \/ SubscriptionFailure
    <2>1. /\ up' = FALSE /\ subErr' = FALSE /\ wflFrom' = None
          /\ tokensLockedC' = <<>> /\ headSink' = <<>>
          /\ crashes' \in 0..MaxCrashes
          /\ UNCHANGED <<chainVars, pendingLocks, scanHead, toScan, lockChan>>
      BY <1>10 DEF RpcFailure, SubscriptionFailure, Discard
    <2>2. <<>> \in Seq(LockRec) /\ <<>> \in Seq(Heights) /\ Len(<<>>) = 0
      BY EmptySeq
    <2>3. scanHead = None => toScan = {}
      OBVIOUS
    <2>4. up' \in BOOLEAN /\ subErr' \in BOOLEAN
      BY <2>1, Zenon
    <2>5. QED
      BY <2>1, <2>2, <2>3, <2>4 DEF chainVars, HeadSinkCap
  <1>12. CASE Restart
    BY <1>12 DEF Restart, chainVars
  <1>13. CASE UNCHANGED vars
    BY <1>13 DEF vars
  <1>14. QED
    BY <1>1, <1>2, <1>3, <1>4, <1>5, <1>6, <1>7, <1>8, <1>9, <1>10,
       <1>12, <1>13 DEF Next

\* The type invariant holds in every reachable state.
THEOREM TypeCorrect == Spec => []TypeOK
  <1>1. Spec => []TypeInv
    BY InitTypeInv, NextTypeInv, PTL DEF Spec
  <1>2. QED
    BY <1>1, PTL DEF TypeInv

-----------------------------------------------------------------------------

\* The invariant behind EmitOnlyConfirmed.
Inv == TypeInv /\ HeadsBelowTip

LEMMA InitInv == Init => Inv
  BY InitTypeInv DEF Init, Inv, HeadsBelowTip, None

\* Every action preserves HeadsBelowTip: Mine raises the tip, Reorg keeps
\* it, PollHead appends the tip, BeginHead moves the first header of
\* headSink to scanHead, and a failure empties headSink.
LEMMA NextInv == Inv /\ [Next]_vars => Inv'
  <1> SUFFICES ASSUME Inv, [Next]_vars PROVE Inv'
    OBVIOUS
  <1>0. TypeInv'
    BY NextTypeInv DEF Inv
  <1> USE BoundsAssumption DEF Inv, TypeInv, TypeOK, None, Heights
  <1> SUFFICES HeadsBelowTip'
    BY <1>0
  <1>1. CASE Mine
    BY <1>1 DEF Mine, watcherVars, HeadsBelowTip
  <1>2. CASE Reorg
    BY <1>2 DEF Reorg, watcherVars, HeadsBelowTip
  <1>3. CASE PollHead
    BY <1>3 DEF PollHead, chainVars, HeadsBelowTip
  <1>4. CASE BeginHead
    BY <1>4 DEF BeginHead, chainVars, HeadsBelowTip
  <1>5. CASE RpcFailure \/ SubscriptionFailure
    BY <1>5 DEF RpcFailure, SubscriptionFailure, Discard, chainVars, HeadsBelowTip
  <1>6. CASE EndHead
    BY <1>6 DEF EndHead, chainVars, HeadsBelowTip
  <1>7. CASE \/ WaitForLogsCall \/ WaitForLogsReturn \/ HandleLockup
             \/ ScanStep \/ Restart \/ UNCHANGED vars
    BY <1>7 DEF WaitForLogsCall, WaitForLogsReturn, HandleLockup, ScanStep,
                ScanTimeout, ScanConfirm, ScanKeep, Restart, vars, chainVars,
                HeadsBelowTip
  <1>8. QED
    BY <1>1, <1>2, <1>3, <1>4, <1>5, <1>6, <1>7 DEF Next

THEOREM InvCorrect == Spec => []Inv
  BY InitInv, NextInv, PTL DEF Spec

\* A step from a state satisfying Inv only appends records whose block is
\* MinConf below the tip.
LEMMA StepEmitsConfirmed ==
    Inv /\ [Next]_vars => \A r \in NewLocks : r.h + MinConf <= tip
  <1> SUFFICES ASSUME Inv, [Next]_vars, NEW r \in NewLocks
               PROVE r.h + MinConf <= tip
    OBVIOUS
  <1> USE MinConfAssumption, BoundsAssumption DEF Inv, TypeInv, TypeOK, ScanInv, None, Heights
  <1>1. CASE \E t \in Tx : ScanConfirm(t)
    <2>1. PICK t \in Tx : ScanConfirm(t)
      BY <1>1
    <2>2. r = [tx |-> t, h |-> pendingLocks[t]]
      BY <2>1 DEF ScanConfirm, NewLocks
    <2>3. scanHead # None /\ pendingLocks[t] \in Heights
      BY <2>1 DEF ScanConfirm, TimedOut, Confirmed
    <2>4. pendingLocks[t] + MinConf <= scanHead
      BY <2>1 DEF ScanConfirm, Confirmed
    <2>5. QED
      BY <2>2, <2>3, <2>4 DEF HeadsBelowTip
  <1>2. CASE ~\E t \in Tx : ScanConfirm(t)
    <2>1. lockChan' = lockChan
      BY <1>2 DEF Next, Mine, Reorg, watcherVars, WaitForLogsCall, WaitForLogsReturn,
                  HandleLockup, PollHead, BeginHead, ScanStep, ScanTimeout, ScanKeep,
                  EndHead, RpcFailure, SubscriptionFailure, Restart, vars
    <2>2. NewLocks = {}
      BY <2>1 DEF NewLocks
    <2>3. QED
      BY <2>2
  <1>3. QED
    BY <1>1, <1>2

\* A ChainLock is sent to the processor only when its block is at least
\* MinConf blocks below the chain tip (watcher.go:272-276), for every value
\* of the constants.
THEOREM EmitOnlyConfirmedCorrect == Spec => EmitOnlyConfirmed
  <1>1. Inv /\ [Next]_vars => [\A r \in NewLocks : r.h + MinConf <= tip]_vars
    BY StepEmitsConfirmed
  <1>2. QED
    BY InvCorrect, <1>1, PTL DEF Spec, EmitOnlyConfirmed

=============================================================================
