-------------------------- MODULE HeadPollerProofs --------------------------
(***************************************************************************)
(* Proofs about the header poller of SubscribeNewHead: its state keeps    *)
(* its types, and its reorganisation branch (utils.go:89-111) is dead for  *)
(* every chain length, window and number of failures.                     *)
(***************************************************************************)
EXTENDS HeadPoller, SequenceTheorems, TLAPS

\* The strengthening of ReorgBranchDead: the entry at prevBlocksLen = 0 is
\* never written, since PollHead writes only at tip # prevBlocksLen and a
\* resubscription clears the whole cache.
ZeroNeverCached == blocksCache[prevBlocksLen] = None

PollerInv == TypeOK /\ ZeroNeverCached

LEMMA InitPollerInv == Init => PollerInv
  <1> SUFFICES ASSUME Init PROVE PollerInv
    OBVIOUS
  <1> USE PollerBoundsAssumption DEF Init, Heights, Versions, None
  <1>1. up \in BOOLEAN
    BY Zenon
  <1>2. headSink \in Seq(Heights \X Versions) /\ Len(headSink) <= HeadSinkCap
    BY EmptySeq DEF HeadSinkCap
  <1>3. QED
    BY <1>1, <1>2 DEF PollerInv, TypeOK, ZeroNeverCached, prevBlocksLen

LEMMA NextPollerInv == PollerInv /\ [Next]_vars => PollerInv'
  <1> SUFFICES ASSUME PollerInv, [Next]_vars PROVE PollerInv'
    OBVIOUS
  <1> USE PollerBoundsAssumption
          DEF PollerInv, TypeOK, ZeroNeverCached, prevBlocksLen, Heights,
              Versions, None
  <1>1. CASE Mine
    BY <1>1 DEF Mine
  <1>2. CASE Reorg
    BY <1>2 DEF Reorg
  <1>3. CASE PollHead
    <2>1. headSink' \in Seq(Heights \X Versions)
          /\ Len(headSink') = Len(headSink) + 1
      BY <1>3, AppendProperties DEF PollHead
    <2>2. blocksCache' \in [Heights -> Versions \cup {None}]
          /\ blocksCache'[0] = None
      BY <1>3 DEF PollHead
    <2>3. QED
      BY <1>3, <2>1, <2>2 DEF PollHead, chainVars, HeadSinkCap
  <1>4. CASE ConsumeHead
    <2>1. headSink' \in Seq(Heights \X Versions)
          /\ Len(headSink') = Len(headSink) - 1
      BY <1>4, HeadTailProperties DEF ConsumeHead
    <2>2. UNCHANGED <<tip, ver, reorgs, up, crashes, blocksCache>>
      BY <1>4 DEF ConsumeHead, chainVars
    <2>3. Len(headSink') <= HeadSinkCap
      BY <2>1 DEF HeadSinkCap
    <2>4. QED
      BY <2>1, <2>2, <2>3, Zenon
  <1>5. CASE PollFailure
    <2>0. up' = FALSE
      BY <1>5 DEF PollFailure
    <2>1. up' \in BOOLEAN
      BY <2>0
    <2>2. headSink' \in Seq(Heights \X Versions) /\ Len(headSink') <= HeadSinkCap
      BY <1>5, EmptySeq DEF PollFailure, HeadSinkCap
    <2>3. QED
      BY <1>5, <2>1, <2>2 DEF PollFailure, chainVars
  <1>6. CASE Resubscribe
    <2>0. up' = TRUE
      BY <1>6 DEF Resubscribe
    <2>1. up' \in BOOLEAN
      BY <2>0
    <2>2. QED
      BY <1>6, <2>1 DEF Resubscribe, chainVars
  <1>7. CASE UNCHANGED vars
    BY <1>7 DEF vars
  <1>8. QED
    BY <1>1, <1>2, <1>3, <1>4, <1>5, <1>6, <1>7 DEF Next

\* The poller's reorganisation branch (utils.go:89-111) is never taken, for
\* every value of the bounds and of the cache window.
THEOREM ReorgBranchDeadCorrect == Spec => []ReorgBranchDead
  <1>1. PollerInv => ReorgBranchDead
    BY DEF PollerInv, ZeroNeverCached, ReorgBranchDead, ReorgDetected
  <1>2. QED
    BY InitPollerInv, NextPollerInv, <1>1, PTL DEF Spec

\* The poller's state keeps its types.
THEOREM PollerTypeCorrect == Spec => []TypeOK
  <1>1. PollerInv => TypeOK
    BY DEF PollerInv
  <1>2. QED
    BY InitPollerInv, NextPollerInv, <1>1, PTL DEF Spec
=============================================================================
