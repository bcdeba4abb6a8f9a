--------------------------- MODULE GuardianSetSync ---------------------------
(***************************************************************************)
(* How the guardian set on the Qtum chain reaches the processor.           *)
(*                                                                         *)
(* Each Run of QtumBridgeWatcher (watcher.go:94-151) subscribes to         *)
(* LogGuardianSetChanged (watcher.go:127).  The filterer goroutine calls   *)
(* waitforlogs with fromBlock null in a loop (filterer.go:101-159) and     *)
(* pushes what it returns into the 128-entry logs buffer of                *)
(* bind.WatchLogs; the wrapper of abi.go:177-198 unpacks each log and      *)
(* sends it on guardianSetC (capacity 2).  Run then fetches the current    *)
(* set (FetchCurrentGuardianSet, watcher.go:139-144) and sends it on       *)
(* setChan, blocking until the processor takes it (watcher.go:148-151).   *)
(* Only then does the event goroutine start (watcher.go:153); for each     *)
(* change event it calls GetGuardianSet and sends the set on setChan,      *)
(* again blocking (watcher.go:206-229).                                    *)
(*                                                                         *)
(* An error ends Run; the supervisor runs it again.  Nothing of the ended  *)
(* Run is stopped but its ctx: the subscriptions use context.Background    *)
(* and are never unsubscribed, GetGuardianSet takes no context, and the    *)
(* sends on setChan have no ctx case.  So each Run keeps its own           *)
(* subscription and event goroutine: the per-Run state below is a          *)
(* function of the Run number.  An ended Run's event goroutine returns on  *)
(* ctx.Done only when its select picks that case; it may pick a buffered   *)
(* event first, or be inside GetGuardianSet, and send afterwards.          *)
(*                                                                         *)
(* The processor (processor.go:159-186) takes each set from setC and       *)
(* replaces p.gs with it.  setC is made outside this repository and is     *)
(* taken to be unbuffered: the blocked senders queue in FIFO order, setQ.  *)
(* A guardian set is named by its index.                                   *)
(***************************************************************************)
EXTENDS Integers, Sequences

CONSTANTS
    MaxIndex,       \* bound: guardian set rotations on the chain
    MaxCrashes      \* bound: RPC failures

ASSUME SyncBoundsAssumption ==
    /\ MaxIndex \in Nat
    /\ MaxCrashes \in Nat

\* Capacity of guardianSetC (watcher.go:125).
GuardianSetCCap == 2

None == -1
\* A log the wrapper fails to unpack (filterer.go:138-144, abi.go:185-187).
Malformed == -2
Indices == 0..MaxIndex
\* A Run ends on an RPC failure or on a malformed log, which takes two
\* rotations: Run numbers stay below MaxCrashes + MaxIndex.
Gens == 0..MaxCrashes + MaxIndex
Phases == {"fetch", "send", "running", "down"}
\* Event goroutine of a Run: not started, in its select, in
\* GetGuardianSet, blocked sending on setChan, returned or blocked on errC.
EvStates == {"none", "idle", "fetch", "send", "exit"}

VARIABLES
    chainIdx,       \* chain: index of the current guardian set
    phase,          \* current Run: fetching the set, sending it, running, or ended
    gen,            \* number of the current Run
    wfl,            \* per Run: chain index when its pending waitforlogs was called, or None
    logs,           \* per Run: the logs buffer between filterer and wrapper
    subErr,         \* per Run: its subscription has failed
    gsC,            \* per Run: guardianSetC
    evSt,           \* per Run: where its event goroutine is
    evIdx,          \* per Run: the index of the event its goroutine handles
    setQ,           \* blocked sends on setChan, oldest first: [idx, gen]
    procGs,         \* processor: index of p.gs, or None
    crashes         \* RPC failures so far

vars == <<chainIdx, phase, gen, wfl, logs, subErr, gsC, evSt, evIdx, setQ,
          procGs, crashes>>
subVars == <<wfl, logs, subErr, gsC>>
evVars == <<evSt, evIdx>>

\* Run g's ctx is done.
RunEnded(g) == g < gen \/ phase = "down"
\* An error Run g's event goroutine sends on errC ends the current Run; the
\* send of a goroutine whose Run has returned blocks forever.
EndsRun(g) == g = gen /\ phase = "running"
\* What a waitforlogs call made at chain index from returns at index to:
\* the first change event, and a malformed second one if there is one.
Batch(from, to) ==
    IF to - from > 1 THEN <<from + 1, Malformed>> ELSE <<from + 1>>

-----------------------------------------------------------------------------

\* The guardian set changes on the chain (a submitted guardian set VAA).
Rotate ==
    /\ chainIdx < MaxIndex
    /\ chainIdx' = chainIdx + 1
    /\ UNCHANGED <<phase, gen, crashes, subVars, evVars, setQ, procGs>>

\* Mutant: the event goroutine is started before the initial send.
FetchCurrentGuardianSetGoFirst ==
    /\ phase = "fetch"
    /\ phase' = "send"
    /\ setQ' = Append(setQ, [idx |-> chainIdx, gen |-> gen])
    /\ evSt' = [evSt EXCEPT ![gen] = "idle"]
    /\ UNCHANGED <<chainIdx, gen, crashes, subVars, evIdx, procGs>>

\* FetchCurrentGuardianSet: GuardianSetIndex, then GetGuardianSet of that
\* index (watcher.go:139-144, 296-314); Run then blocks sending it.
FetchCurrentGuardianSet ==
    /\ phase = "fetch"
    /\ phase' = "send"
    /\ setQ' = Append(setQ, [idx |-> chainIdx, gen |-> gen])
    /\ UNCHANGED <<chainIdx, gen, crashes, subVars, evVars, procGs>>

\* The filterer goroutine of Run g calls waitforlogs with fromBlock null:
\* it waits for change events of blocks after the current tip
\* (filterer.go:113-125).  It runs from the subscription on, before the
\* initial fetch, and after Run g has ended.
WaitForLogsCall(g) ==
    /\ g <= gen
    /\ ~subErr[g]
    /\ wfl[g] = None
    /\ wfl' = [wfl EXCEPT ![g] = chainIdx]
    /\ UNCHANGED <<chainIdx, phase, gen, crashes, logs, subErr, gsC, evVars,
                   setQ, procGs>>

\* waitforlogs returns every change event since the call; the filterer
\* forwards them into the logs buffer (filterer.go:131-159, 162-167).
WaitForLogsReturn(g) ==
    /\ ~subErr[g]
    /\ wfl[g] # None
    /\ chainIdx > wfl[g]
    /\ logs' = [logs EXCEPT ![g] = @ \o Batch(wfl[g], chainIdx)]
    /\ wfl' = [wfl EXCEPT ![g] = None]
    /\ UNCHANGED <<chainIdx, phase, gen, crashes, subErr, gsC, evVars, setQ,
                   procGs>>

\* Mutant: the wrapper sends on guardianSetC whether or not it has room.
DeliverLogUncapped(g) ==
    /\ ~subErr[g]
    /\ logs[g] # << >>
    /\ Head(logs[g]) # Malformed
    /\ gsC' = [gsC EXCEPT ![g] = Append(@, Head(logs[g]))]
    /\ logs' = [logs EXCEPT ![g] = Tail(@)]
    /\ UNCHANGED <<chainIdx, phase, gen, crashes, wfl, subErr, evVars, setQ,
                   procGs>>

\* The wrapper unpacks a log and sends it on guardianSetC once it has room
\* (abi.go:178-192).
DeliverLog(g) ==
    /\ ~subErr[g]
    /\ logs[g] # << >>
    /\ Head(logs[g]) # Malformed
    /\ Len(gsC[g]) < GuardianSetCCap
    /\ gsC' = [gsC EXCEPT ![g] = Append(@, Head(logs[g]))]
    /\ logs' = [logs EXCEPT ![g] = Tail(@)]
    /\ UNCHANGED <<chainIdx, phase, gen, crashes, wfl, subErr, evVars, setQ,
                   procGs>>

\* UnpackLog fails: the wrapper returns the error, which fails the
\* subscription, and unsubscribes the filterer (abi.go:181-183).
UnpackFailure(g) ==
    /\ ~subErr[g]
    /\ logs[g] # << >>
    /\ Head(logs[g]) = Malformed
    /\ subErr' = [subErr EXCEPT ![g] = TRUE]
    /\ logs' = [logs EXCEPT ![g] = << >>]
    /\ wfl' = [wfl EXCEPT ![g] = None]
    /\ UNCHANGED <<chainIdx, phase, gen, crashes, gsC, evVars, setQ, procGs>>

\* The event goroutine's select takes guardianSetEvent.Err() and sends the
\* error on errC (watcher.go:162-165).
HandleSubscriptionError(g) ==
    /\ evSt[g] = "idle"
    /\ subErr[g]
    /\ evSt' = [evSt EXCEPT ![g] = "exit"]
    /\ phase' = IF EndsRun(g) THEN "down" ELSE phase
    /\ UNCHANGED <<chainIdx, gen, crashes, subVars, evIdx, setQ, procGs>>

\* The event goroutine's select takes ctx.Done (watcher.go:156-157).
Quit(g) ==
    /\ evSt[g] = "idle"
    /\ RunEnded(g)
    /\ evSt' = [evSt EXCEPT ![g] = "exit"]
    /\ UNCHANGED <<chainIdx, phase, gen, crashes, subVars, evIdx, setQ, procGs>>

\* The event goroutine's select takes a change event (watcher.go:206-212).
TakeGuardianSetEvent(g) ==
    /\ evSt[g] = "idle"
    /\ gsC[g] # << >>
    /\ evIdx' = [evIdx EXCEPT ![g] = Head(gsC[g])]
    /\ gsC' = [gsC EXCEPT ![g] = Tail(@)]
    /\ evSt' = [evSt EXCEPT ![g] = "fetch"]
    /\ UNCHANGED <<chainIdx, phase, gen, crashes, wfl, logs, subErr, setQ,
                   procGs>>

\* GetGuardianSet of the event's new index returns; the goroutine blocks
\* sending the set on setChan (watcher.go:213-228).
GetGuardianSet(g) ==
    /\ evSt[g] = "fetch"
    /\ setQ' = Append(setQ, [idx |-> evIdx[g], gen |-> g])
    /\ evSt' = [evSt EXCEPT ![g] = "send"]
    /\ UNCHANGED <<chainIdx, phase, gen, crashes, subVars, evIdx, procGs>>

\* GetGuardianSet fails and the goroutine sends the error on errC
\* (watcher.go:214-220).
GetGuardianSetFailure(g) ==
    /\ evSt[g] = "fetch"
    /\ crashes < MaxCrashes
    /\ crashes' = crashes + 1
    /\ evSt' = [evSt EXCEPT ![g] = "exit"]
    /\ phase' = IF EndsRun(g) THEN "down" ELSE phase
    /\ UNCHANGED <<chainIdx, gen, subVars, evIdx, setQ, procGs>>

\* Another call of the current Run fails and Run returns: the subscribe
\* calls and FetchCurrentGuardianSet (watcher.go:117-144), or a call of the
\* lock-up and header side.  Run cannot fail while blocked in its initial
\* send.
RpcFailure ==
    /\ phase \in {"fetch", "running"}
    /\ crashes < MaxCrashes
    /\ crashes' = crashes + 1
    /\ phase' = "down"
    /\ UNCHANGED <<chainIdx, gen, subVars, evVars, setQ, procGs>>

\* The supervisor runs Run again.
Restart ==
    /\ phase = "down"
    /\ phase' = "fetch"
    /\ gen' = gen + 1
    /\ UNCHANGED <<chainIdx, crashes, subVars, evVars, setQ, procGs>>

\* The processor's case p.gs = <-p.setC (processor.go:165-175): the oldest
\* blocked sender hands over its set.  A Run leaving its initial send
\* starts its event goroutine; an event goroutine returns to its select.
ReceiveGuardianSet ==
    /\ setQ # << >>
    /\ LET s == Head(setQ)
       IN  /\ procGs' = s.idx
           /\ phase' = IF evSt[s.gen] = "none" THEN "running" ELSE phase
           /\ evSt' = [evSt EXCEPT ![s.gen] = "idle"]
    /\ setQ' = Tail(setQ)
    /\ UNCHANGED <<chainIdx, gen, crashes, subVars, evIdx>>

Init ==
    /\ chainIdx = 0
    /\ phase = "fetch"
    /\ gen = 0
    /\ wfl = [g \in Gens |-> None]
    /\ logs = [g \in Gens |-> << >>]
    /\ subErr = [g \in Gens |-> FALSE]
    /\ gsC = [g \in Gens |-> << >>]
    /\ evSt = [g \in Gens |-> "none"]
    /\ evIdx = [g \in Gens |-> None]
    /\ setQ = << >>
    /\ procGs = None
    /\ crashes = 0

\* The steps of Run g's subscription and event goroutine.
RunStep(g) ==
    \/ WaitForLogsCall(g)
    \/ WaitForLogsReturn(g)
    \/ DeliverLog(g)
    \/ UnpackFailure(g)
    \/ HandleSubscriptionError(g)
    \/ Quit(g)
    \/ TakeGuardianSetEvent(g)
    \/ GetGuardianSet(g)
    \/ GetGuardianSetFailure(g)

Next ==
    \/ Rotate
    \/ FetchCurrentGuardianSet
    \/ \E g \in Gens : RunStep(g)
    \/ RpcFailure
    \/ Restart
    \/ ReceiveGuardianSet

Spec == Init /\ [][Next]_vars

\* The goroutines are scheduled, the processor keeps reading setC and the
\* supervisor restarts a failed Run; rotations and RPC failures are the
\* environment, and ctx.Done is one case of a random select.
Fairness ==
    /\ WF_vars(FetchCurrentGuardianSet)
    /\ WF_vars(ReceiveGuardianSet)
    /\ WF_vars(Restart)
    /\ \A g \in Gens :
          /\ WF_vars(WaitForLogsCall(g))
          /\ WF_vars(WaitForLogsReturn(g))
          /\ WF_vars(DeliverLog(g))
          /\ WF_vars(UnpackFailure(g))
          /\ WF_vars(HandleSubscriptionError(g))
          /\ WF_vars(TakeGuardianSetEvent(g))
          /\ WF_vars(GetGuardianSet(g))

FairSpec == Spec /\ Fairness

-----------------------------------------------------------------------------
(* Properties.                                                             *)

\* Every variable holds a value of its type; each guardianSetC within its
\* capacity, so the wrapper of abi.go:188-192 blocks rather than overfill.
TypeOK ==
    /\ chainIdx \in Indices
    /\ phase \in Phases
    /\ gen \in Gens
    /\ wfl \in [Gens -> Indices \cup {None}]
    /\ logs \in [Gens -> Seq(Indices \cup {Malformed})]
    /\ subErr \in [Gens -> BOOLEAN]
    /\ gsC \in [Gens -> Seq(Indices)]
    /\ \A g \in Gens : Len(gsC[g]) <= GuardianSetCCap
    /\ evSt \in [Gens -> EvStates]
    /\ evIdx \in [Gens -> Indices \cup {None}]
    /\ setQ \in Seq([idx : Indices, gen : Gens])
    /\ procGs \in Indices \cup {None}
    /\ crashes \in 0..MaxCrashes

\* Each Run has at most one set waiting on setChan: the initial send
\* (watcher.go:148-151) completes before the event goroutine starts
\* (watcher.go:153), and that goroutine blocks in its own send
\* (watcher.go:224-227) before it takes the next event.
OneSendPerRun ==
    \A i, j \in 1..Len(setQ) : i # j => setQ[i].gen # setQ[j].gen

\* The sets waiting on setChan queue in the order their Runs started, so
\* the set a restarted Run fetches is the last one the processor receives
\* (the comment at watcher.go:217-218: crashing the runnable causes the
\* guardian set to be re-fetched).
SetQOrderedByRun ==
    \A i, j \in 1..Len(setQ) : i < j => setQ[i].gen < setQ[j].gen

\* The processor's guardian set index never decreases (spec: the index is
\* monotonically increasing and a set replaces the prior one wholesale).
GuardianSetMonotonic ==
    [][procGs' >= procGs]_vars

\* Once the chain's guardian set stops changing, the processor eventually
\* holds it for good (spec: the adapter resynchronizes the guardian set
\* after a change event).
GuardianSetEventuallyCurrent ==
    <>[](procGs = chainIdx)

=============================================================================
