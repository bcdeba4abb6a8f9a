------------------------ MODULE QtumDuplicateProofs ------------------------
(***************************************************************************)
(* The Qtum watcher never sends the same ChainLock (a transaction in one   *)
(* block) to the processor twice, with reorganisations, restarts and       *)
(* repeated headers, for every value of the constants.                     *)
(*                                                                         *)
(* The argument: every lock the watcher holds, queued in tokensLockedC,    *)
(* pending or sent, is of a block at most the tip, and below the fromBlock *)
(* of a waitforlogs call in flight, which is the block after the tip at    *)
(* the call (filterer.go:116-126).  So a log that call returns is new to   *)
(* the watcher; a queued log becomes pending once, and a pending lock is   *)
(* sent once and deleted in the same step (watcher.go:272-276).            *)
(***************************************************************************)
EXTENDS QtumRefinementProofs

\* Lock r has been sent to the processor.
WasSent(r) == \E i \in 1..Len(lockChan) : lockChan[i] = r

\* The lock pendingLocks holds for transaction t.
PendingRec(t) == [tx |-> t, h |-> pendingLocks[t]]

\* Every lock the watcher holds is of a block below b.
RecsBelow(b) ==
    /\ \A i \in 1..Len(lockChan) : lockChan[i].h < b
    /\ \A t \in Tx : pendingLocks[t] # None => pendingLocks[t] < b
    /\ \A i \in 1..Len(tokensLockedC) : tokensLockedC[i].h < b

\* A pending lock is not sent yet; a queued log is neither sent, nor
\* pending, nor queued twice; all are of mined blocks and below the
\* fromBlock of the pending waitforlogs call.
DupInv ==
    /\ NoDuplicateChainLock
    /\ \A t \in Tx : pendingLocks[t] # None => ~WasSent(PendingRec(t))
    /\ \A i \in 1..Len(tokensLockedC) :
          /\ ~WasSent(tokensLockedC[i])
          /\ \A t \in Tx : pendingLocks[t] # None => tokensLockedC[i] # PendingRec(t)
          /\ \A j \in 1..Len(tokensLockedC) : i < j => tokensLockedC[i] # tokensLockedC[j]
    /\ RecsBelow(tip + 1)
    /\ wflFrom # None => RecsBelow(wflFrom)

DInv == Inv /\ DupInv

USE MinConfAssumption, BoundsAssumption

-----------------------------------------------------------------------------
(* Lemmas.                                                                 *)

\* What appending r to lockChan sends.
LEMMA WasSentAppend ==
    ASSUME TypeCore, NEW r \in LockRec, lockChan' = Append(lockChan, r),
           NEW q
    PROVE  WasSent(q)' <=> WasSent(q) \/ q = r
<1>1. /\ Len(lockChan') = Len(lockChan) + 1
      /\ lockChan'[Len(lockChan) + 1] = r
      /\ \A i \in 1..Len(lockChan) : lockChan'[i] = lockChan[i]
  BY AppendProperties DEF TypeCore
<1>2. QED
  BY <1>1 DEF WasSent, TypeCore

\* The steps that leave the locks alone, let the tip grow and leave the
\* pending waitforlogs call alone or end it.
LEMMA DupFrame ==
    ASSUME TypeCore, DupInv,
           lockChan' = lockChan, pendingLocks' = pendingLocks,
           tokensLockedC' = tokensLockedC,
           tip' \in Nat, tip <= tip', wflFrom' = wflFrom \/ wflFrom' = None
    PROVE  DupInv'
<1>1. NoDuplicateChainLock'
  BY DEF DupInv, NoDuplicateChainLock
<1>2. (\A t \in Tx : pendingLocks[t] # None => ~WasSent(PendingRec(t)))'
  BY DEF DupInv, WasSent, PendingRec
<1>3. (\A i \in 1..Len(tokensLockedC) :
          /\ ~WasSent(tokensLockedC[i])
          /\ \A t \in Tx : pendingLocks[t] # None => tokensLockedC[i] # PendingRec(t)
          /\ \A j \in 1..Len(tokensLockedC) : i < j => tokensLockedC[i] # tokensLockedC[j])'
  BY Zenon DEF DupInv, WasSent, PendingRec
<1>4. RecsBelow(tip + 1)'
  <2>1. RecsBelow(tip + 1) /\ tip \in Nat
    BY DEF DupInv, TypeCore, Heights
  <2>2. \A i \in 1..Len(lockChan) : lockChan[i].h < tip' + 1
    BY <2>1, RecordsTyped DEF RecsBelow, LockRec, Heights
  <2>3. \A t \in Tx : pendingLocks[t] # None => pendingLocks[t] < tip' + 1
    BY <2>1, RecordsTyped DEF RecsBelow, TypeCore, Heights, None
  <2>4. \A i \in 1..Len(tokensLockedC) : tokensLockedC[i].h < tip' + 1
    BY <2>1, RecordsTyped DEF RecsBelow, LockRec, Heights
  <2>5. QED
    BY <2>2, <2>3, <2>4 DEF RecsBelow
<1>5. (wflFrom # None => RecsBelow(wflFrom))'
  BY DEF DupInv, RecsBelow
<1>6. QED
  BY <1>1, <1>2, <1>3, <1>4, <1>5 DEF DupInv

LEMMA InitDInv == Init => DInv
<1> SUFFICES ASSUME Init PROVE DInv
  OBVIOUS
<1>1. Inv
  BY InitInv
<1>2. DupInv
  BY DEF Init, DupInv, NoDuplicateChainLock, WasSent, RecsBelow, None
<1>3. QED
  BY <1>1, <1>2 DEF DInv

-----------------------------------------------------------------------------
(* DupInv is inductive.                                                    *)

\* A log waitforlogs returns is of a block from the fromBlock of the call
\* up to the tip, so it is new to the watcher.
LEMMA ReturnStep ==
    ASSUME TypeCore, ScanInv, DupInv, WaitForLogsReturn
    PROVE  DupInv'
<1>1. PICK t \in LogsFrom(wflFrom) :
          /\ tokensLockedC' = Append(tokensLockedC, [tx |-> t, h |-> incl[t].h])
          /\ wflFrom' = None
          /\ UNCHANGED <<tip, pendingLocks, lockChan>>
  BY Zenon DEF WaitForLogsReturn, chainVars
<1> DEFINE r == [tx |-> t, h |-> incl[t].h]
<1>2. t \in Tx /\ incl[t].h \in 0..tip /\ incl[t].h >= wflFrom /\ wflFrom # None
  BY <1>1 DEF LogsFrom, Canonical, WaitForLogsReturn
<1>3. r \in LockRec
  <2>1. incl[t].h \in Heights
    BY <1>2 DEF Heights, TypeCore
  <2>2. QED
    BY <1>2, <2>1, Zenon DEF LockRec, r
<1>4. /\ Len(tokensLockedC') = Len(tokensLockedC) + 1
      /\ tokensLockedC'[Len(tokensLockedC) + 1] = r
      /\ \A i \in 1..Len(tokensLockedC) : tokensLockedC'[i] = tokensLockedC[i]
  BY <1>1, <1>3, AppendProperties DEF TypeCore, r
\* r is above every lock the watcher holds.
<1>5. /\ ~WasSent(r)
      /\ \A u \in Tx : pendingLocks[u] # None => r # PendingRec(u)
      /\ \A i \in 1..Len(tokensLockedC) : tokensLockedC[i] # r
  <2>1. RecsBelow(wflFrom) /\ wflFrom \in Int /\ r.h >= wflFrom
    BY <1>2 DEF DupInv, TypeCore, Heights, r
  <2>2. ~WasSent(r)
    <3> SUFFICES ASSUME NEW i \in 1..Len(lockChan) PROVE lockChan[i] # r
      BY DEF WasSent
    <3>1. lockChan[i].h \in Int /\ lockChan[i].h < wflFrom
      BY <2>1, RecordsTyped DEF RecsBelow, LockRec, Heights
    <3>2. QED
      BY <2>1, <3>1
  <2>3. \A u \in Tx : pendingLocks[u] # None => r # PendingRec(u)
    <3> SUFFICES ASSUME NEW u \in Tx, pendingLocks[u] # None PROVE r # PendingRec(u)
      OBVIOUS
    <3>1. pendingLocks[u] \in Int /\ pendingLocks[u] < wflFrom
      BY <2>1 DEF RecsBelow, TypeCore, Heights, None
    <3>2. QED
      BY <2>1, <3>1 DEF PendingRec
  <2>4. \A i \in 1..Len(tokensLockedC) : tokensLockedC[i] # r
    <3> SUFFICES ASSUME NEW i \in 1..Len(tokensLockedC) PROVE tokensLockedC[i] # r
      OBVIOUS
    <3>1. tokensLockedC[i].h \in Int /\ tokensLockedC[i].h < wflFrom
      BY <2>1, RecordsTyped DEF RecsBelow, LockRec, Heights
    <3>2. QED
      BY <2>1, <3>1
  <2>5. QED
    BY <2>2, <2>3, <2>4
<1>6. NoDuplicateChainLock' /\ (\A u \in Tx : pendingLocks[u] # None => ~WasSent(PendingRec(u)))'
  BY <1>1 DEF DupInv, NoDuplicateChainLock, WasSent, PendingRec
<1>7. (\A i \in 1..Len(tokensLockedC) :
          /\ ~WasSent(tokensLockedC[i])
          /\ \A u \in Tx : pendingLocks[u] # None => tokensLockedC[i] # PendingRec(u)
          /\ \A j \in 1..Len(tokensLockedC) : i < j => tokensLockedC[i] # tokensLockedC[j])'
  <2>1. SUFFICES ASSUME NEW i \in 1..Len(tokensLockedC')
                 PROVE  /\ \A k \in 1..Len(lockChan) : lockChan[k] # tokensLockedC'[i]
                        /\ \A u \in Tx : pendingLocks[u] # None =>
                                            tokensLockedC'[i] # PendingRec(u)
                        /\ \A j \in 1..Len(tokensLockedC') :
                              i < j => tokensLockedC'[i] # tokensLockedC'[j]
    BY <1>1 DEF WasSent, PendingRec
  <2>2. CASE i = Len(tokensLockedC) + 1
    BY <1>4, <1>5, <2>2 DEF WasSent, TypeCore
  <2>3. CASE i \in 1..Len(tokensLockedC)
    <3>1. tokensLockedC'[i] = tokensLockedC[i]
      BY <1>4, <2>3
    <3>2. \A k \in 1..Len(lockChan) : lockChan[k] # tokensLockedC[i]
      BY <2>3 DEF DupInv, WasSent
    <3>3. \A u \in Tx : pendingLocks[u] # None => tokensLockedC[i] # PendingRec(u)
      BY <2>3 DEF DupInv
    <3>4. \A j \in 1..Len(tokensLockedC') : i < j => tokensLockedC'[i] # tokensLockedC'[j]
      <4>1. \A j \in 1..Len(tokensLockedC) : i < j => tokensLockedC[i] # tokensLockedC[j]
        BY <2>3 DEF DupInv
      <4>2. tokensLockedC[i] # r
        BY <1>5, <2>3
      <4>3. QED
        BY <1>4, <2>3, <3>1, <4>1, <4>2 DEF TypeCore
    <3>5. QED
      BY <3>1, <3>2, <3>3, <3>4
  <2>4. QED
    BY <1>4, <2>2, <2>3 DEF TypeCore
<1>8. RecsBelow(tip + 1)'
  <2>1. \A i \in 1..Len(tokensLockedC) : tokensLockedC[i].h < tip + 1
    BY DEF DupInv, RecsBelow
  <2>2. r.h < tip + 1
    BY <1>2 DEF r, TypeCore, Heights
  <2>3. \A i \in 1..Len(tokensLockedC') : tokensLockedC'[i].h < tip' + 1
    BY <1>1, <1>4, <2>1, <2>2 DEF TypeCore
  <2>4. QED
    BY <1>1, <2>3 DEF DupInv, RecsBelow
<1>9. QED
  BY <1>6, <1>7, <1>8, <1>1 DEF DupInv

\* The event goroutine moves the oldest queued log into pendingLocks: it
\* was neither sent nor pending, and no other queued log equals it.
LEMMA HandleStep ==
    ASSUME TypeCore, DupInv,
           tokensLockedC # << >>,
           pendingLocks' = [pendingLocks EXCEPT ![Head(tokensLockedC).tx] =
                                                  Head(tokensLockedC).h],
           tokensLockedC' = Tail(tokensLockedC),
           UNCHANGED <<tip, wflFrom, lockChan>>
    PROVE  DupInv'
<1> DEFINE q == Head(tokensLockedC)
<1>1. /\ Len(tokensLockedC) >= 1
      /\ q = tokensLockedC[1]
      /\ Len(tokensLockedC') = Len(tokensLockedC) - 1
      /\ \A i \in 1..Len(tokensLockedC') : tokensLockedC'[i] = tokensLockedC[i + 1]
  BY HeadTailProperties DEF TypeCore, q
<1>2. q \in LockRec
  BY <1>1, RecordsTyped
<1>3. /\ ~WasSent(q)
      /\ \A j \in 1..Len(tokensLockedC) : 1 < j => q # tokensLockedC[j]
      /\ q.h < tip + 1
      /\ wflFrom # None => q.h < wflFrom
  BY <1>1 DEF DupInv, RecsBelow
\* The pending lock of each transaction after the step.
<1>4. \A u \in Tx : pendingLocks'[u] # None =>
                      PendingRec(u)' = IF u = q.tx THEN q ELSE PendingRec(u)
  BY <1>2 DEF PendingRec, LockRec, TypeCore, q
<1>5. \A u \in Tx : pendingLocks'[u] # None =>
                      u = q.tx \/ pendingLocks[u] # None
  BY <1>2 DEF LockRec, TypeCore, q
<1>6. NoDuplicateChainLock'
  BY DEF DupInv, NoDuplicateChainLock
<1>7. (\A u \in Tx : pendingLocks[u] # None => ~WasSent(PendingRec(u)))'
  BY <1>3, <1>4, <1>5 DEF DupInv, WasSent
<1>8. (\A i \in 1..Len(tokensLockedC) :
          /\ ~WasSent(tokensLockedC[i])
          /\ \A u \in Tx : pendingLocks[u] # None => tokensLockedC[i] # PendingRec(u)
          /\ \A j \in 1..Len(tokensLockedC) : i < j => tokensLockedC[i] # tokensLockedC[j])'
  <2>1. SUFFICES ASSUME NEW i \in 1..Len(tokensLockedC')
                 PROVE  /\ \A k \in 1..Len(lockChan) : lockChan[k] # tokensLockedC'[i]
                        /\ \A u \in Tx : pendingLocks'[u] # None =>
                                            tokensLockedC'[i] # PendingRec(u)'
                        /\ \A j \in 1..Len(tokensLockedC') :
                              i < j => tokensLockedC'[i] # tokensLockedC'[j]
    BY DEF WasSent
  <2>2. /\ i + 1 \in 1..Len(tokensLockedC)
        /\ tokensLockedC'[i] = tokensLockedC[i + 1]
        /\ 1 < i + 1
    BY <1>1 DEF TypeCore
  <2>3. \A k \in 1..Len(lockChan) : lockChan[k] # tokensLockedC[i + 1]
    BY <2>2 DEF DupInv, WasSent
  <2>4. \A u \in Tx : pendingLocks[u] # None => tokensLockedC[i + 1] # PendingRec(u)
    BY <2>2 DEF DupInv
  <2>5. \A j \in 1..Len(tokensLockedC) : i + 1 < j => tokensLockedC[i + 1] # tokensLockedC[j]
    BY <2>2 DEF DupInv
  <2>6. tokensLockedC[i + 1] # q
    BY <1>3, <2>2
  <2>7. QED
    BY <1>1, <1>4, <1>5, <2>2, <2>3, <2>4, <2>5, <2>6 DEF TypeCore
<1>9. RecsBelow(tip + 1)' /\ (wflFrom # None => RecsBelow(wflFrom))'
  <2>1. \A u \in Tx : pendingLocks'[u] # None =>
                        pendingLocks'[u] = pendingLocks[u] \/ pendingLocks'[u] = q.h
    BY <1>2 DEF LockRec, TypeCore, q
  <2>2. \A i \in 1..Len(tokensLockedC') : \E k \in 1..Len(tokensLockedC) :
                                              tokensLockedC'[i] = tokensLockedC[k]
    BY <1>1 DEF TypeCore
  <2>3. QED
    BY <1>3, <2>1, <2>2 DEF DupInv, RecsBelow
<1>10. QED
  BY <1>6, <1>7, <1>8, <1>9 DEF DupInv

\* The header goroutine sends a confirmed pending lock and deletes it in
\* the same step: it was not sent before, no other pending lock has its
\* transaction and no queued log equals it.
LEMMA ConfirmStep ==
    ASSUME TypeCore, DupInv, NEW t \in Tx, pendingLocks[t] # None,
           lockChan' = Append(lockChan, PendingRec(t)),
           pendingLocks' = [pendingLocks EXCEPT ![t] = None],
           UNCHANGED <<tip, wflFrom, tokensLockedC>>
    PROVE  DupInv'
<1> DEFINE p == PendingRec(t)
<1>1. p \in LockRec
  BY DEF PendingRec, p, TypeCore, LockRec, None, Heights
<1>2. /\ Len(lockChan') = Len(lockChan) + 1
      /\ lockChan'[Len(lockChan) + 1] = p
      /\ \A i \in 1..Len(lockChan) : lockChan'[i] = lockChan[i]
  BY <1>1, AppendProperties DEF TypeCore, p
<1>3. /\ \A k \in 1..Len(lockChan) : lockChan[k] # p
      /\ \A i \in 1..Len(tokensLockedC) : tokensLockedC[i] # p
      /\ p.h < tip + 1
      /\ wflFrom # None => p.h < wflFrom
  BY DEF DupInv, WasSent, RecsBelow, p, PendingRec
<1>4. \A q : WasSent(q)' <=> WasSent(q) \/ q = p
  BY <1>1, WasSentAppend DEF p
<1>5. \A u \in Tx : pendingLocks'[u] # None =>
                      u # t /\ pendingLocks[u] # None /\ PendingRec(u)' = PendingRec(u)
  BY DEF PendingRec, TypeCore
<1>6. \A u \in Tx : u # t => PendingRec(u) # p
  BY DEF PendingRec, p
<1>7. NoDuplicateChainLock'
  <2>1. SUFFICES ASSUME NEW i \in 1..Len(lockChan'), NEW j \in 1..Len(lockChan'), i < j
                 PROVE  lockChan'[i] # lockChan'[j]
    BY DEF NoDuplicateChainLock
  <2>2. CASE j = Len(lockChan) + 1
    <3>1. i \in 1..Len(lockChan)
      BY <1>2, <2>1, <2>2 DEF TypeCore
    <3>2. lockChan'[i] = lockChan[i] /\ lockChan'[j] = p
      BY <1>2, <2>2, <3>1
    <3>3. QED
      BY <1>3, <3>1, <3>2
  <2>3. CASE j \in 1..Len(lockChan)
    <3>1. i \in 1..Len(lockChan)
      BY <2>1, <2>3 DEF TypeCore
    <3>2. lockChan'[i] = lockChan[i] /\ lockChan'[j] = lockChan[j]
      BY <1>2, <2>3, <3>1
    <3>3. QED
      BY <2>1, <2>3, <3>1, <3>2 DEF DupInv, NoDuplicateChainLock
  <2>4. QED
    BY <1>2, <2>2, <2>3 DEF TypeCore
<1>8. (\A u \in Tx : pendingLocks[u] # None => ~WasSent(PendingRec(u)))'
  BY <1>4, <1>5, <1>6 DEF DupInv
<1>9. (\A i \in 1..Len(tokensLockedC) :
          /\ ~WasSent(tokensLockedC[i])
          /\ \A u \in Tx : pendingLocks[u] # None => tokensLockedC[i] # PendingRec(u)
          /\ \A j \in 1..Len(tokensLockedC) : i < j => tokensLockedC[i] # tokensLockedC[j])'
  <2>1. SUFFICES ASSUME NEW i \in 1..Len(tokensLockedC)
                 PROVE  /\ ~WasSent(tokensLockedC[i])'
                        /\ \A u \in Tx : pendingLocks'[u] # None =>
                                            tokensLockedC[i] # PendingRec(u)'
                        /\ \A j \in 1..Len(tokensLockedC) :
                              i < j => tokensLockedC[i] # tokensLockedC[j]
    BY DEF WasSent
  <2>2. ~WasSent(tokensLockedC[i])'
    BY <1>3, <1>4 DEF DupInv
  <2>3. QED
    BY <1>5, <2>2 DEF DupInv
<1>10. RecsBelow(tip + 1)' /\ (wflFrom # None => RecsBelow(wflFrom))'
  <2>1. \A i \in 1..Len(lockChan') : lockChan'[i] = p \/ \E k \in 1..Len(lockChan) : lockChan'[i] = lockChan[k]
    BY <1>2 DEF TypeCore
  <2>2. \A u \in Tx : pendingLocks'[u] # None => pendingLocks'[u] = pendingLocks[u]
    BY DEF TypeCore
  <2>3. QED
    BY <1>3, <2>1, <2>2 DEF DupInv, RecsBelow
<1>11. QED
  BY <1>7, <1>8, <1>9, <1>10 DEF DupInv

\* The header goroutine drops a timed-out lock: nothing is added.
LEMMA DropStep ==
    ASSUME TypeCore, DupInv, NEW t \in Tx,
           pendingLocks' = [pendingLocks EXCEPT ![t] = None],
           UNCHANGED <<tip, wflFrom, tokensLockedC, lockChan>>
    PROVE  DupInv'
<1>1. \A u \in Tx : pendingLocks'[u] # None =>
                      pendingLocks[u] # None /\ PendingRec(u)' = PendingRec(u)
  BY DEF PendingRec, TypeCore
<1>2. \A q : WasSent(q)' <=> WasSent(q)
  BY DEF WasSent
<1>3. QED
  BY <1>1, <1>2 DEF DupInv, NoDuplicateChainLock, RecsBelow

\* waitforlogs is called from the block after the tip, above every lock.
LEMMA CallStep ==
    ASSUME TypeCore, DupInv, wflFrom' = tip + 1,
           UNCHANGED <<tip, tokensLockedC, pendingLocks, lockChan>>
    PROVE  DupInv'
BY DEF DupInv, NoDuplicateChainLock, RecsBelow, WasSent, PendingRec, None, TypeCore,
       Heights

\* Run returns: the queued logs and the pending waitforlogs call are gone.
LEMMA FailStep ==
    ASSUME TypeCore, DupInv, tokensLockedC' = << >>, wflFrom' = None,
           UNCHANGED <<tip, pendingLocks, lockChan>>
    PROVE  DupInv'
BY DEF DupInv, NoDuplicateChainLock, RecsBelow, WasSent, PendingRec

-----------------------------------------------------------------------------
(* Every step preserves DupInv.                                            *)

LEMMA StepDup == DInv /\ [Next]_vars => DupInv'
<1> SUFFICES ASSUME DInv, [Next]_vars PROVE DupInv'
  OBVIOUS
<1>0. TypeCore /\ ScanInv /\ DupInv
  BY TypeCoreOK DEF DInv, Inv, TypeInv
<1>1. CASE Mine
  <2>1. tip' = tip + 1 /\ UNCHANGED <<wflFrom, tokensLockedC, pendingLocks, lockChan>>
    BY <1>1, Zenon DEF Mine, watcherVars
  <2>2. QED
    BY <1>0, <2>1, DupFrame DEF TypeCore, Heights
<1>2. CASE WaitForLogsCall
  <2>1. wflFrom' = tip + 1 /\ UNCHANGED <<tip, tokensLockedC, pendingLocks, lockChan>>
    BY <1>2, Zenon DEF WaitForLogsCall, chainVars
  <2>2. QED
    BY <1>0, <2>1, CallStep
<1>3. CASE WaitForLogsReturn
  BY <1>0, <1>3, ReturnStep
<1>4. CASE HandleLockup
  <2>1. /\ tokensLockedC # << >>
        /\ pendingLocks' = [pendingLocks EXCEPT ![Head(tokensLockedC).tx] =
                                                  Head(tokensLockedC).h]
        /\ tokensLockedC' = Tail(tokensLockedC)
        /\ UNCHANGED <<tip, wflFrom, lockChan>>
    BY <1>4, Zenon DEF HandleLockup, chainVars
  <2>2. QED
    BY <1>0, <2>1, HandleStep
<1>5. CASE \E t \in Tx : ScanConfirm(t)
  <2>1. PICK t \in Tx : ScanConfirm(t)
    BY <1>5
  <2>2. /\ t \in toScan
        /\ lockChan' = Append(lockChan, PendingRec(t))
        /\ pendingLocks' = [pendingLocks EXCEPT ![t] = None]
        /\ UNCHANGED <<tip, wflFrom, tokensLockedC>>
    BY <2>1, Zenon DEF ScanConfirm, chainVars, PendingRec
  <2>3. pendingLocks[t] # None
    BY <1>0, <2>2 DEF ScanInv
  <2>4. QED
    BY <1>0, <2>2, <2>3, ConfirmStep
<1>6. CASE \E t \in Tx : ScanTimeout(t)
  <2>1. PICK t \in Tx : ScanTimeout(t)
    BY <1>6
  <2>2. /\ pendingLocks' = [pendingLocks EXCEPT ![t] = None]
        /\ UNCHANGED <<tip, wflFrom, tokensLockedC, lockChan>>
    BY <2>1, Zenon DEF ScanTimeout, chainVars
  <2>3. QED
    BY <1>0, <2>2, DropStep
<1>7. CASE RpcFailure \/ SubscriptionFailure
  <2>1. /\ tokensLockedC' = << >> /\ wflFrom' = None
        /\ UNCHANGED <<tip, pendingLocks, lockChan>>
    BY <1>7, Zenon DEF RpcFailure, SubscriptionFailure, Discard, chainVars
  <2>2. QED
    BY <1>0, <2>1, FailStep
<1>8. CASE \/ Reorg \/ PollHead \/ BeginHead \/ EndHead \/ Restart
           \/ \E t \in Tx : ScanKeep(t)
           \/ UNCHANGED vars
  <2>1. UNCHANGED <<tip, wflFrom, tokensLockedC, pendingLocks, lockChan>>
    BY <1>8, Zenon DEF Reorg, PollHead, BeginHead, EndHead, Restart, ScanKeep,
                       vars, watcherVars, chainVars
  <2>2. QED
    BY <1>0, <2>1, DupFrame DEF TypeCore, Heights
<1>9. QED
  BY <1>1, <1>2, <1>3, <1>4, <1>5, <1>6, <1>7, <1>8 DEF Next, ScanStep

\* The same ChainLock, a transaction in one block, is never sent to the
\* processor twice (waitforlogs from the block after the tip,
\* filterer.go:116-126; send and delete under the mutex,
\* watcher.go:272-276), with reorganisations, restarts and repeated
\* headers, for every value of the constants.
THEOREM NoDuplicateChainLockCorrect == Spec => []NoDuplicateChainLock
<1>1. Init => DInv
  BY InitDInv
<1>2. DInv /\ [Next]_vars => DInv'
  BY NextInv, StepDup DEF DInv
<1>3. DInv => NoDuplicateChainLock
  BY DEF DInv, DupInv
<1>4. QED
  BY <1>1, <1>2, <1>3, PTL DEF Spec

=============================================================================
