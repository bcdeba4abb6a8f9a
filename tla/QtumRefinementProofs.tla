------------------------ MODULE QtumRefinementProofs ------------------------
(***************************************************************************)
(* Without reorganisations the Qtum watcher implements the confirmation    *)
(* tracker of spec 4.2 (module LockTracker under the mapping Abstract of   *)
(* QtumWatcher), and never sends a transaction to the processor twice: for *)
(* every number of transactions, confirmations, heights and failures.      *)
(*                                                                         *)
(* The argument: a transaction is mined at most once when no block is ever *)
(* replaced, and waitforlogs is always called from the block after the tip *)
(* (filterer.go:116-126), so each lock-up log reaches tokensLockedC at     *)
(* most once, and only while its transaction is neither pending nor sent. *)
(***************************************************************************)
EXTENDS QtumWatcherProofs

\* Transaction t has a lock-up log waiting in tokensLockedC.
Queued(t) == \E i \in 1..Len(tokensLockedC) : tokensLockedC[i].tx = t

\* Without reorganisations every block has version 0 and a transaction is
\* either in no block or in one of the chain.
NoReorgChain ==
    /\ reorgs = 0
    /\ \A h \in Heights : ver[h] = 0
    /\ \A t \in Tx : /\ incl[t].v = 0
                     /\ incl[t].h = None \/ incl[t].h \in 1..tip

\* A log waiting in tokensLockedC is fresh: its transaction is neither
\* pending, nor sent, nor queued twice, its block is mined, and the
\* pending waitforlogs call starts above it.  A waitforlogs call in flight
\* returns only transactions that are nowhere in the watcher yet.  Pending
\* and sent transactions are mined, and none is sent twice.
LogInv ==
    /\ \A i \in 1..Len(tokensLockedC) :
          /\ pendingLocks[tokensLockedC[i].tx] = None
          /\ tokensLockedC[i].tx \notin Abstract!Sent
          /\ tokensLockedC[i].h = incl[tokensLockedC[i].tx].h
          /\ tokensLockedC[i].h \in 0..tip
          /\ wflFrom # None => tokensLockedC[i].h < wflFrom
          /\ \A j \in 1..Len(tokensLockedC) :
                j # i => tokensLockedC[j].tx # tokensLockedC[i].tx
    /\ \A t \in Tx : pendingLocks[t] # None =>
                        /\ incl[t].h \in 0..tip
                        /\ t \notin Abstract!Sent
    /\ \A t \in Abstract!Sent : incl[t].h \in 0..tip
    /\ wflFrom # None =>
          \A t \in Tx : incl[t].h \in 0..tip /\ incl[t].h >= wflFrom =>
             /\ pendingLocks[t] = None
             /\ t \notin Abstract!Sent
             /\ ~Queued(t)
    /\ NoDoubleEmission

RInv == Inv /\ NoReorgChain /\ LogInv

USE MinConfAssumption, BoundsAssumption

-----------------------------------------------------------------------------
(* Lemmas.                                                                 *)

\* The transactions sent after appending a record to lockChan.
LEMMA SentAppend ==
    ASSUME NEW r \in LockRec, lockChan \in Seq(LockRec)
    PROVE  {Append(lockChan, r)[i].tx : i \in 1..Len(Append(lockChan, r))}
              = Abstract!Sent \cup {r.tx}
<1>1. /\ Len(Append(lockChan, r)) = Len(lockChan) + 1
      /\ Append(lockChan, r)[Len(lockChan) + 1] = r
      /\ \A i \in 1..Len(lockChan) : Append(lockChan, r)[i] = lockChan[i]
  BY AppendProperties
<1>2. QED
  BY <1>1 DEF Abstract!Sent

\* The typing facts the step proofs use, without TypeOK's Boolean conjuncts.
TypeCore ==
    /\ tip \in Heights
    /\ ver \in [Heights -> Versions]
    /\ incl \in [Tx -> Block]
    /\ reorgs \in Versions
    /\ wflFrom \in Heights \cup {None, MaxHeight + 1}
    /\ tokensLockedC \in Seq(LockRec)
    /\ pendingLocks \in [Tx -> Heights \cup {None}]
    /\ lockChan \in Seq(LockRec)
    /\ toScan \in SUBSET Tx
    /\ scanHead \in Heights \cup {None}

LEMMA TypeCoreOK == TypeOK => TypeCore
BY DEF TypeOK, TypeCore

\* Every record of the two channels is a lock record.
LEMMA RecordsTyped ==
    ASSUME TypeCore
    PROVE  /\ \A i \in 1..Len(tokensLockedC) : tokensLockedC[i] \in LockRec
           /\ \A i \in 1..Len(lockChan) : lockChan[i] \in LockRec
<1>1. \A i \in 1..Len(tokensLockedC) : tokensLockedC[i] \in LockRec
  BY ElementOfSeq DEF TypeCore
<1>2. \A i \in 1..Len(lockChan) : lockChan[i] \in LockRec
  BY ElementOfSeq DEF TypeCore
<1>3. QED
  BY <1>1, <1>2

\* Without reorganisations a transaction is on the best chain exactly when
\* it is in a block at all.
LEMMA CanonicalNoReorg ==
    ASSUME TypeCore, NoReorgChain, NEW t \in Tx
    PROVE  Canonical(t) <=> incl[t].h \in 0..tip
BY DEF TypeCore, NoReorgChain, Canonical, Heights, Block, None

\* A transaction the watcher holds in any form is in a block of the chain.
Present(t) == pendingLocks[t] # None \/ t \in Abstract!Sent \/ Queued(t)

LEMMA PresentMined ==
    ASSUME TypeCore, LogInv, NEW t \in Tx, Present(t)
    PROVE  incl[t].h \in 0..tip
BY RecordsTyped DEF TypeCore, LogInv, Present, Queued, LockRec

\* The variables NoReorgChain and LogInv depend on.
core == <<tip, ver, incl, reorgs, wflFrom, tokensLockedC, pendingLocks, lockChan>>

LEMMA CoreUnchanged ==
    ASSUME NoReorgChain, LogInv, UNCHANGED core
    PROVE  NoReorgChain' /\ LogInv'
BY DEF core, NoReorgChain, LogInv, Queued, Abstract!Sent, NoDoubleEmission

LEMMA InitRInv == Init => RInv
<1> SUFFICES ASSUME Init PROVE RInv
  OBVIOUS
<1>1. Inv
  BY InitInv
<1>2. NoReorgChain
  BY DEF Init, NoReorgChain, None
<1>3. LogInv
  BY DEF Init, LogInv, Abstract!Sent, NoDoubleEmission, Queued, None
<1>4. QED
  BY <1>1, <1>2, <1>3 DEF RInv

-----------------------------------------------------------------------------
(* RInv is inductive when there are no reorganisations.                    *)

LEMMA StepRInv ==
    ASSUME MaxReorgs = 0, RInv, [Next]_vars
    PROVE  RInv'
<1>0. Inv'
  BY NextInv DEF RInv
<1> SUFFICES NoReorgChain' /\ LogInv'
  BY <1>0 DEF RInv
<1>30. /\ TypeCore /\ ScanInv /\ HeadsBelowTip /\ NoReorgChain /\ LogInv
  BY TypeCoreOK DEF RInv, Inv, TypeInv
<1>1. CASE Mine
  <2>1. PICK S \in SUBSET {t \in Tx : ~Canonical(t)} :
           /\ tip < MaxHeight
           /\ tip' = tip + 1
           /\ ver' = [ver EXCEPT ![tip + 1] = reorgs]
           /\ incl' = [t \in Tx |-> IF t \in S THEN [h |-> tip + 1, v |-> reorgs]
                                               ELSE incl[t]]
    BY <1>1, Zenon DEF Mine
  <2>2. /\ reorgs' = reorgs /\ wflFrom' = wflFrom
        /\ tokensLockedC' = tokensLockedC /\ pendingLocks' = pendingLocks
        /\ lockChan' = lockChan
    BY <1>1, Zenon DEF Mine, watcherVars
  <2>3. \A t \in S : incl[t].h = None /\ ~Present(t)
    <3>1. \A t \in S : ~(incl[t].h \in 0..tip)
      BY <1>30, CanonicalNoReorg
    <3>2. \A t \in S : incl[t].h = None
      BY <1>30, <3>1 DEF NoReorgChain
    <3>3. QED
      BY <1>30, <3>1, <3>2, PresentMined
  <2>4. \A t \in Tx : t \notin S => incl'[t] = incl[t]
    BY <2>1
  <2>5. NoReorgChain'
    BY <1>30, <2>1, <2>2, <2>3 DEF NoReorgChain, TypeCore, Heights, Versions, None
  <2>6. \A t \in Tx : Present(t) => incl'[t] = incl[t]
    BY <2>3, <2>4
  <2>7. \A t \in Tx : Present(t) <=> Present(t)'
    BY <2>2 DEF Present, Queued, Abstract!Sent
  <2>8. LogInv'
    <3>1. \A i \in 1..Len(tokensLockedC) : tokensLockedC[i].tx \in Tx
                                         /\ Present(tokensLockedC[i].tx)
      BY <1>30, RecordsTyped DEF LockRec, Present, Queued
    <3>2. \A t \in Abstract!Sent : t \in Tx /\ Present(t)
      BY <1>30, RecordsTyped DEF LockRec, Present, Abstract!Sent
    <3>3. \A t \in Tx : incl'[t].h \in 0..tip' =>
                          \/ t \in S
                          \/ incl[t].h \in 0..tip
      BY <1>30, <2>1 DEF NoReorgChain, None
    <3>4. \A i \in 1..Len(tokensLockedC') :
             /\ pendingLocks'[tokensLockedC'[i].tx] = None
             /\ tokensLockedC'[i].tx \notin Abstract!Sent'
             /\ tokensLockedC'[i].h = incl'[tokensLockedC'[i].tx].h
             /\ tokensLockedC'[i].h \in 0..tip'
             /\ wflFrom' # None => tokensLockedC'[i].h < wflFrom'
             /\ \A j \in 1..Len(tokensLockedC') :
                   j # i => tokensLockedC'[j].tx # tokensLockedC'[i].tx
      BY <1>30, <2>1, <2>2, <2>6, <3>1 DEF LogInv, Abstract!Sent, TypeCore, Heights
    <3>5. \A t \in Tx : pendingLocks'[t] # None =>
                          /\ incl'[t].h \in 0..tip'
                          /\ t \notin Abstract!Sent'
      BY <1>30, <2>1, <2>2, <2>6 DEF LogInv, Abstract!Sent, Present, TypeCore, Heights
    <3>6. \A t \in Abstract!Sent' : incl'[t].h \in 0..tip'
      BY <1>30, <2>1, <2>2, <2>6, <3>2 DEF LogInv, Abstract!Sent, TypeCore, Heights
    <3>7. wflFrom' # None =>
             \A t \in Tx : incl'[t].h \in 0..tip' /\ incl'[t].h >= wflFrom' =>
                /\ pendingLocks'[t] = None
                /\ t \notin Abstract!Sent'
                /\ ~Queued(t)'
      <4> SUFFICES ASSUME wflFrom' # None, NEW t \in Tx,
                          incl'[t].h \in 0..tip', incl'[t].h >= wflFrom'
                   PROVE  ~Present(t)'
        BY DEF Present
      <4>1. CASE t \in S
        BY <2>3, <2>7, <4>1
      <4>2. CASE t \notin S
        <5>1. incl'[t] = incl[t] /\ incl[t].h \in 0..tip
          BY <2>4, <3>3, <4>2
        <5>2. ~Present(t)
          BY <1>30, <2>2, <5>1 DEF LogInv, Present
        <5>3. QED
          BY <2>7, <5>2
      <4>3. QED
        BY <4>1, <4>2
    <3>8. NoDoubleEmission'
      BY <1>30, <2>2 DEF LogInv, NoDoubleEmission
    <3>9. QED
      BY <3>4, <3>5, <3>6, <3>7, <3>8 DEF LogInv
  <2>9. QED
    BY <2>5, <2>8
<1>2. CASE Reorg
  BY <1>2, <1>30 DEF Reorg, NoReorgChain
<1>3. CASE PollHead \/ BeginHead \/ EndHead \/ Restart \/ UNCHANGED vars
  <2>1. UNCHANGED core
    BY <1>3, Zenon DEF PollHead, BeginHead, EndHead, Restart, vars, core, chainVars
  <2>2. QED
    BY <1>30, <2>1, CoreUnchanged
\* waitforlogs is called from the block after the tip: above every queued
\* log, and above every mined transaction.
<1>4. CASE WaitForLogsCall
  <2>1. /\ wflFrom' = tip + 1
        /\ tip' = tip /\ ver' = ver /\ incl' = incl /\ reorgs' = reorgs
        /\ tokensLockedC' = tokensLockedC /\ pendingLocks' = pendingLocks
        /\ lockChan' = lockChan
    BY <1>4, Zenon DEF WaitForLogsCall, chainVars
  <2>2. NoReorgChain'
    BY <1>30, <2>1 DEF NoReorgChain
  <2>3. \A i \in 1..Len(tokensLockedC) : tokensLockedC[i].h < tip + 1
    BY <1>30 DEF LogInv, TypeCore, Heights
  <2>4. \A t \in Tx : ~(incl[t].h \in 0..tip /\ incl[t].h >= tip + 1)
    BY <1>30 DEF TypeCore, Heights
  <2>5. QED
    BY <1>30, <2>1, <2>2, <2>3, <2>4 DEF LogInv, Queued, Abstract!Sent, NoDoubleEmission
\* The returned log is of a transaction the watcher does not hold.
<1>5. CASE WaitForLogsReturn
  <2>1. PICK t \in LogsFrom(wflFrom) :
           tokensLockedC' = Append(tokensLockedC, [tx |-> t, h |-> incl[t].h])
    BY <1>5, Zenon DEF WaitForLogsReturn
  <2>2. /\ wflFrom # None /\ wflFrom' = None
        /\ tip' = tip /\ ver' = ver /\ incl' = incl /\ reorgs' = reorgs
        /\ pendingLocks' = pendingLocks /\ lockChan' = lockChan
    BY <1>5, Zenon DEF WaitForLogsReturn, chainVars
  <2>3. t \in Tx /\ incl[t].h \in 0..tip /\ incl[t].h >= wflFrom
    BY <2>1 DEF LogsFrom, Canonical
  <2>4. /\ pendingLocks[t] = None
        /\ t \notin Abstract!Sent
        /\ \A i \in 1..Len(tokensLockedC) : tokensLockedC[i].tx # t
    BY <1>30, <2>2, <2>3 DEF LogInv, Queued
  <2>5. /\ Len(tokensLockedC') = Len(tokensLockedC) + 1
        /\ tokensLockedC'[Len(tokensLockedC) + 1] = [tx |-> t, h |-> incl[t].h]
        /\ \A i \in 1..Len(tokensLockedC) : tokensLockedC'[i] = tokensLockedC[i]
    <3>1. [tx |-> t, h |-> incl[t].h] \in LockRec
      BY <1>30, <2>3 DEF TypeCore, LockRec, Heights
    <3>2. QED
      BY <1>30, <2>1, <3>1, AppendProperties DEF TypeCore
  <2>6. NoReorgChain'
    BY <1>30, <2>2 DEF NoReorgChain
  <2>7. LogInv'
    <3>1. \A i \in 1..Len(tokensLockedC') :
             /\ pendingLocks'[tokensLockedC'[i].tx] = None
             /\ tokensLockedC'[i].tx \notin Abstract!Sent'
             /\ tokensLockedC'[i].h = incl'[tokensLockedC'[i].tx].h
             /\ tokensLockedC'[i].h \in 0..tip'
             /\ \A j \in 1..Len(tokensLockedC') :
                   j # i => tokensLockedC'[j].tx # tokensLockedC'[i].tx
      <4>1. \A i \in 1..Len(tokensLockedC) :
               /\ pendingLocks'[tokensLockedC'[i].tx] = None
               /\ tokensLockedC'[i].tx \notin Abstract!Sent'
               /\ tokensLockedC'[i].h = incl'[tokensLockedC'[i].tx].h
               /\ tokensLockedC'[i].h \in 0..tip'
               /\ \A j \in 1..Len(tokensLockedC) :
                     j # i => tokensLockedC'[j].tx # tokensLockedC'[i].tx
        <5>1. Abstract!Sent' = Abstract!Sent
          BY <2>2 DEF Abstract!Sent
        <5>2. \A i \in 1..Len(tokensLockedC) :
                 /\ pendingLocks[tokensLockedC[i].tx] = None
                 /\ tokensLockedC[i].tx \notin Abstract!Sent
                 /\ tokensLockedC[i].h = incl[tokensLockedC[i].tx].h
                 /\ tokensLockedC[i].h \in 0..tip
                 /\ \A j \in 1..Len(tokensLockedC) :
                       j # i => tokensLockedC[j].tx # tokensLockedC[i].tx
          BY <1>30 DEF LogInv
        <5>3. QED
          BY <2>2, <2>5, <5>1, <5>2
      <4>2. \A i \in 1..Len(tokensLockedC) : tokensLockedC'[i].tx # t
        BY <2>4, <2>5
      <4>3. /\ pendingLocks'[t] = None
            /\ t \notin Abstract!Sent'
            /\ incl'[t].h \in 0..tip'
        BY <2>2, <2>3, <2>4 DEF Abstract!Sent
      <4>4. Len(tokensLockedC) \in Nat
        BY <1>30 DEF TypeCore
      <4>5. tokensLockedC'[Len(tokensLockedC) + 1].tx = t
            /\ tokensLockedC'[Len(tokensLockedC) + 1].h = incl'[t].h
        BY <2>2, <2>5
      <4>6. \A i \in 1..Len(tokensLockedC') :
               i \in 1..Len(tokensLockedC) \/ i = Len(tokensLockedC) + 1
        BY <2>5, <4>4
      <4>7. QED
        BY <2>5, <4>1, <4>2, <4>3, <4>4, <4>5, <4>6
    <3>2. QED
      BY <1>30, <2>2, <3>1 DEF LogInv, Abstract!Sent, NoDoubleEmission
  <2>8. QED
    BY <2>6, <2>7
\* The event goroutine moves the oldest log into pendingLocks.
<1>6. CASE HandleLockup
  <2> DEFINE r == Head(tokensLockedC)
  <2>1. /\ tokensLockedC # << >>
        /\ pendingLocks' = [pendingLocks EXCEPT ![r.tx] = r.h]
        /\ tokensLockedC' = Tail(tokensLockedC)
        /\ tip' = tip /\ ver' = ver /\ incl' = incl /\ reorgs' = reorgs
        /\ wflFrom' = wflFrom /\ lockChan' = lockChan
    BY <1>6, Zenon DEF HandleLockup, chainVars
  <2>2. /\ Len(tokensLockedC) >= 1
        /\ r = tokensLockedC[1]
        /\ Len(tokensLockedC') = Len(tokensLockedC) - 1
        /\ \A i \in 1..Len(tokensLockedC') : tokensLockedC'[i] = tokensLockedC[i + 1]
    BY <1>30, <2>1, HeadTailProperties DEF TypeCore
  <2>3. /\ r.tx \in Tx
        /\ pendingLocks[r.tx] = None
        /\ r.tx \notin Abstract!Sent
        /\ r.h = incl[r.tx].h
        /\ r.h \in 0..tip
        /\ wflFrom # None => r.h < wflFrom
        /\ \A j \in 2..Len(tokensLockedC) : tokensLockedC[j].tx # r.tx
    BY <1>30, <2>2, RecordsTyped DEF LogInv, LockRec
  <2>4. NoReorgChain'
    BY <1>30, <2>1 DEF NoReorgChain
  <2>5. \A t \in Tx : pendingLocks'[t] = IF t = r.tx THEN r.h ELSE pendingLocks[t]
    BY <1>30, <2>1, <2>3 DEF TypeCore
  <2>6. \A t \in Tx : Queued(t)' => Queued(t)
    BY <2>2 DEF Queued
  <2>7. LogInv'
    <3>1. \A i \in 1..Len(tokensLockedC') :
             /\ pendingLocks'[tokensLockedC'[i].tx] = None
             /\ tokensLockedC'[i].tx \notin Abstract!Sent'
             /\ tokensLockedC'[i].h = incl'[tokensLockedC'[i].tx].h
             /\ tokensLockedC'[i].h \in 0..tip'
             /\ wflFrom' # None => tokensLockedC'[i].h < wflFrom'
             /\ \A j \in 1..Len(tokensLockedC') :
                   j # i => tokensLockedC'[j].tx # tokensLockedC'[i].tx
      BY <1>30, <2>1, <2>2, <2>3, <2>5, RecordsTyped DEF LogInv, Abstract!Sent, LockRec
    <3>2. \A t \in Tx : pendingLocks'[t] # None =>
                          /\ incl'[t].h \in 0..tip'
                          /\ t \notin Abstract!Sent'
      BY <1>30, <2>1, <2>3, <2>5 DEF LogInv, Abstract!Sent
    <3>3. wflFrom' # None =>
             \A t \in Tx : incl'[t].h \in 0..tip' /\ incl'[t].h >= wflFrom' =>
                /\ pendingLocks'[t] = None
                /\ t \notin Abstract!Sent'
                /\ ~Queued(t)'
      BY <1>30, <2>1, <2>3, <2>5, <2>6 DEF LogInv, Abstract!Sent, TypeCore, Heights, None
    <3>4. QED
      BY <1>30, <2>1, <3>1, <3>2, <3>3 DEF LogInv, Abstract!Sent, NoDoubleEmission
  <2>8. QED
    BY <2>4, <2>7
\* The header goroutine only removes entries of pendingLocks, and sends
\* each one it removes at most once.
<1>7. CASE ScanStep
  <2>1. PICK t \in Tx : ScanTimeout(t) \/ ScanConfirm(t) \/ ScanKeep(t)
    BY <1>7 DEF ScanStep
  <2>2. /\ t \in toScan
        /\ pendingLocks[t] \in Heights
        /\ tip' = tip /\ ver' = ver /\ incl' = incl /\ reorgs' = reorgs
        /\ wflFrom' = wflFrom /\ tokensLockedC' = tokensLockedC
    <3>1. t \in toScan /\ tip' = tip /\ ver' = ver /\ incl' = incl /\ reorgs' = reorgs
          /\ wflFrom' = wflFrom /\ tokensLockedC' = tokensLockedC
      BY <2>1, Zenon DEF ScanTimeout, ScanConfirm, ScanKeep, chainVars
    <3>2. QED
      BY <1>30, <3>1 DEF ScanInv, TypeCore
  <2>3. CASE ScanTimeout(t)
    <3>1. pendingLocks' = [pendingLocks EXCEPT ![t] = None] /\ lockChan' = lockChan
      BY <2>3, Zenon DEF ScanTimeout
    <3>2. \A u \in Tx : pendingLocks'[u] = IF u = t THEN None ELSE pendingLocks[u]
      BY <1>30, <3>1 DEF TypeCore
    <3>3. Abstract!Sent' = Abstract!Sent /\ NoDoubleEmission' = NoDoubleEmission
      BY <3>1 DEF Abstract!Sent, NoDoubleEmission
    <3>4. NoReorgChain'
      BY <1>30, <2>2 DEF NoReorgChain
    <3>5. \A i \in 1..Len(tokensLockedC') :
             /\ pendingLocks'[tokensLockedC'[i].tx] = None
             /\ tokensLockedC'[i].tx \notin Abstract!Sent'
             /\ tokensLockedC'[i].h = incl'[tokensLockedC'[i].tx].h
             /\ tokensLockedC'[i].h \in 0..tip'
             /\ wflFrom' # None => tokensLockedC'[i].h < wflFrom'
             /\ \A j \in 1..Len(tokensLockedC') :
                   j # i => tokensLockedC'[j].tx # tokensLockedC'[i].tx
      BY <1>30, <2>2, <3>2, <3>3, RecordsTyped DEF LogInv, LockRec
    <3>6. \A u \in Tx : pendingLocks'[u] # None =>
                          /\ incl'[u].h \in 0..tip'
                          /\ u \notin Abstract!Sent'
      BY <1>30, <2>2, <3>2, <3>3 DEF LogInv
    <3>7. wflFrom' # None =>
             \A u \in Tx : incl'[u].h \in 0..tip' /\ incl'[u].h >= wflFrom' =>
                /\ pendingLocks'[u] = None
                /\ u \notin Abstract!Sent'
                /\ ~Queued(u)'
      BY <1>30, <2>2, <3>2, <3>3 DEF LogInv, Queued
    <3>8. QED
      BY <1>30, <2>2, <3>3, <3>4, <3>5, <3>6, <3>7 DEF LogInv
  <2>6. CASE ScanConfirm(t)
    <3> DEFINE rec == [tx |-> t, h |-> pendingLocks[t]]
    <3>1. /\ pendingLocks' = [pendingLocks EXCEPT ![t] = None]
          /\ lockChan' = Append(lockChan, rec)
      BY <2>6, Zenon DEF ScanConfirm
    <3>2. rec \in LockRec
      BY <2>2 DEF LockRec
    <3>3. Abstract!Sent' = Abstract!Sent \cup {t}
      BY <1>30, <3>1, <3>2, SentAppend, SMTT(20) DEF TypeCore, Abstract!Sent
    <3>4. /\ Len(lockChan') = Len(lockChan) + 1
          /\ lockChan'[Len(lockChan) + 1] = rec
          /\ \A i \in 1..Len(lockChan) : lockChan'[i] = lockChan[i]
      BY <1>30, <3>1, <3>2, AppendProperties DEF TypeCore
    <3>5. incl[t].h \in 0..tip /\ t \notin Abstract!Sent
      BY <1>30, <2>2 DEF LogInv, None, Heights
    <3>6. NoDoubleEmission'
      <4>1. \A i \in 1..Len(lockChan) : lockChan[i].tx # t
        BY <3>5 DEF Abstract!Sent
      <4>2. lockChan'[Len(lockChan) + 1].tx = t /\ Len(lockChan) \in Nat
        BY <1>30, <3>4 DEF rec, TypeCore
      <4>3. QED
        BY <1>30, <3>4, <4>1, <4>2 DEF LogInv, NoDoubleEmission
    <3>7. NoReorgChain'
      BY <1>30, <2>2 DEF NoReorgChain
    <3>8. QED
      BY <1>30, <2>2, <3>1, <3>3, <3>5, <3>6, <3>7
         DEF LogInv, Queued, TypeCore, None, Heights
  <2>7. CASE ScanKeep(t)
    <3>1. UNCHANGED core
      BY <2>7, Zenon DEF ScanKeep, chainVars, core
    <3>2. QED
      BY <1>30, <3>1, CoreUnchanged
  <2>8. QED
    BY <2>1, <2>3, <2>6, <2>7
\* A failed Run drops its channels and its waitforlogs call.
<1>8. CASE RpcFailure \/ SubscriptionFailure
  <2>1. /\ wflFrom' = None /\ tokensLockedC' = << >>
        /\ tip' = tip /\ ver' = ver /\ incl' = incl /\ reorgs' = reorgs
        /\ pendingLocks' = pendingLocks /\ lockChan' = lockChan
    BY <1>8, Zenon DEF RpcFailure, SubscriptionFailure, Discard, chainVars
  <2>2. QED
    BY <1>30, <2>1 DEF NoReorgChain, LogInv, Queued, Abstract!Sent, NoDoubleEmission
<1>20. QED
  BY <1>1, <1>2, <1>3, <1>4, <1>5, <1>6, <1>7, <1>8 DEF Next

-----------------------------------------------------------------------------
(* The refinement.                                                         *)

\* Every watcher step is a step of the tracker or leaves tip, pendingLocks
\* and lockChan alone.
LEMMA StepRefines ==
    ASSUME MaxReorgs = 0, RInv, [Next]_vars
    PROVE  [Abstract!Next]_Abstract!vars
<1>30. /\ TypeCore /\ ScanInv /\ HeadsBelowTip /\ NoReorgChain /\ LogInv
  BY TypeCoreOK DEF RInv, Inv, TypeInv
\* A new block is the tracker's Grow.
<1>1. CASE Mine
  <2>1. tip < MaxHeight /\ tip' = tip + 1
        /\ pendingLocks' = pendingLocks /\ lockChan' = lockChan
    BY <1>1, Zenon DEF Mine, watcherVars
  <2>2. QED
    BY <2>1 DEF Abstract!Next, Abstract!Grow
<1>2. CASE Reorg
  BY <1>2, <1>30 DEF Reorg, NoReorgChain
\* Storing the oldest log is the tracker's Ingest of a fresh transaction.
<1>3. CASE HandleLockup
  <2> DEFINE r == Head(tokensLockedC)
  <2>1. /\ tokensLockedC # << >>
        /\ pendingLocks' = [pendingLocks EXCEPT ![r.tx] = r.h]
        /\ tip' = tip /\ lockChan' = lockChan
    BY <1>3, Zenon DEF HandleLockup, chainVars
  <2>2. r = tokensLockedC[1] /\ Len(tokensLockedC) >= 1
    BY <1>30, <2>1, HeadTailProperties, SMTT(20) DEF TypeCore
  <2>3. /\ r.tx \in Tx
        /\ pendingLocks[r.tx] = None
        /\ r.tx \notin Abstract!Sent
        /\ r.h \in 0..tip
    BY <1>30, <2>2, RecordsTyped DEF LogInv, LockRec
  <2>4. r.h \in Heights
    BY <1>30, <2>3 DEF TypeCore, Heights
  <2>5. Abstract!Ingest(r.tx, r.h)
    BY <2>1, <2>3, Zenon DEF Abstract!Ingest, Abstract!None, None
  <2>6. r.h \in Abstract!Heights
    BY <2>4 DEF Heights, Abstract!Heights
  <2>7. QED
    BY <2>3, <2>5, <2>6, Zenon DEF Abstract!Next
\* Visiting an entry: a timeout is Abandon, a confirmation is Promote.
<1>4. CASE ScanStep
  <2>1. PICK t \in Tx : ScanTimeout(t) \/ ScanConfirm(t) \/ ScanKeep(t)
    BY <1>4 DEF ScanStep
  <2>2. /\ t \in toScan
        /\ tip' = tip
    BY <2>1, Zenon DEF ScanTimeout, ScanConfirm, ScanKeep, chainVars
  <2>3. /\ pendingLocks[t] \in Heights
        /\ scanHead \in Heights
        /\ scanHead <= tip
    BY <1>30, <2>2 DEF ScanInv, HeadsBelowTip, TypeCore, None, Heights
  <2>4. CASE ScanTimeout(t)
    <3>1. /\ TimedOut(pendingLocks[t], scanHead)
          /\ pendingLocks' = [pendingLocks EXCEPT ![t] = None]
          /\ lockChan' = lockChan
      BY <2>4, Zenon DEF ScanTimeout
    <3>2. Abstract!Abandon(t)
      <4>1. pendingLocks[t] # Abstract!None /\ pendingLocks[t] + 4 * MinConf <= tip
        BY <1>30, <2>3, <3>1 DEF TimedOut, Abstract!None, Heights, TypeCore
      <4>2. QED
        BY <2>2, <3>1, <4>1, Zenon DEF Abstract!Abandon, Abstract!None, None
    <3>3. QED
      BY <3>2 DEF Abstract!Next
  <2>5. CASE ScanConfirm(t)
    <3>1. /\ Confirmed(pendingLocks[t], scanHead)
          /\ pendingLocks' = [pendingLocks EXCEPT ![t] = None]
          /\ lockChan' = Append(lockChan, [tx |-> t, h |-> pendingLocks[t]])
      BY <2>5, Zenon DEF ScanConfirm
    <3>2. Abstract!Promote(t)
      <4>1. pendingLocks[t] # Abstract!None /\ pendingLocks[t] + MinConf <= tip
        BY <1>30, <2>3, <3>1 DEF Confirmed, Abstract!None, Heights, TypeCore
      <4>2. QED
        BY <2>2, <3>1, <4>1, Zenon DEF Abstract!Promote, Abstract!None, None
    <3>3. QED
      BY <3>2 DEF Abstract!Next
  <2>6. CASE ScanKeep(t)
    <3>1. pendingLocks' = pendingLocks /\ lockChan' = lockChan
      BY <2>6, Zenon DEF ScanKeep
    <3>2. QED
      BY <2>2, <3>1 DEF Abstract!vars
  <2>7. QED
    BY <2>1, <2>4, <2>5, <2>6
\* Everything else leaves the tracker's variables alone.
<1>5. CASE \/ WaitForLogsCall \/ WaitForLogsReturn \/ PollHead \/ BeginHead
           \/ EndHead \/ RpcFailure \/ SubscriptionFailure \/ Restart
           \/ UNCHANGED vars
  <2>1. tip' = tip /\ pendingLocks' = pendingLocks /\ lockChan' = lockChan
    BY <1>5, Zenon DEF WaitForLogsCall, WaitForLogsReturn, PollHead, BeginHead,
                       EndHead, RpcFailure, SubscriptionFailure, Restart, vars,
                       chainVars
  <2>2. QED
    BY <2>1 DEF Abstract!vars
<1>6. QED
  BY <1>1, <1>2, <1>3, <1>4, <1>5 DEF Next

\* The watcher's initial state is the tracker's.
LEMMA InitRefines == Init => Abstract!Init
BY DEF Init, Abstract!Init, Abstract!None, None

\* Without reorganisations the Qtum watcher implements the confirmation
\* tracker of spec 4.2, for every number of transactions, confirmations,
\* heights and RPC failures: a lock is stored only for a mined block while
\* it is neither pending nor sent (waitforlogs from the block after the
\* tip, filterer.go:116-126, and the event goroutine, watcher.go:166-204),
\* sent once and deleted when MinConf deep (watcher.go:272-276), and
\* dropped only when 4 * MinConf deep (watcher.go:264-268).
THEOREM RefinesWithoutReorgs == MaxReorgs = 0 => (Spec => ImplementsLockTracker)
<1> SUFFICES ASSUME MaxReorgs = 0 PROVE Spec => ImplementsLockTracker
  OBVIOUS
<1>1. Init => RInv /\ Abstract!Init
  BY InitRInv, InitRefines
<1>2. RInv /\ [Next]_vars => RInv'
  BY StepRInv
<1>3. RInv /\ [Next]_vars => [Abstract!Next]_Abstract!vars
  BY StepRefines
<1>4. QED
  BY <1>1, <1>2, <1>3, PTL DEF Spec, ImplementsLockTracker, Abstract!Spec

\* Without reorganisations no transaction is sent to the processor twice,
\* across waitforlogs calls, restarts and repeated headers
\* (filterer.go:116-126, watcher.go:275), for every value of the bounds.
THEOREM NoDoubleEmissionWithoutReorgs == MaxReorgs = 0 => (Spec => []NoDoubleEmission)
<1> SUFFICES ASSUME MaxReorgs = 0 PROVE Spec => []NoDoubleEmission
  OBVIOUS
<1>1. Init => RInv
  BY InitRInv
<1>2. RInv /\ [Next]_vars => RInv'
  BY StepRInv
<1>3. RInv => NoDoubleEmission
  BY DEF RInv, LogInv
<1>4. QED
  BY <1>1, <1>2, <1>3, PTL DEF Spec

=============================================================================
