------------------------ MODULE GuardianSetSyncProofs ------------------------
(***************************************************************************)
(* Proofs about guardian set delivery (GuardianSetSync), for every bound   *)
(* on rotations and failures: the state stays well typed, the number of    *)
(* Runs stays within RPC failures plus rotations, and each Run, its        *)
(* subscription and event goroutine outliving it, has at most one set      *)
(* waiting on the unbuffered setC.                                         *)
(***************************************************************************)
EXTENDS GuardianSetSync, SequenceTheorems, TLAPS

\* 1 when the predicate holds, else 0.
Ind(b) == IF b THEN 1 ELSE 0

\* The sequence s holds x.
Has(s, x) == \E k \in 1..Len(s) : s[k] = x

\* The current Run's subscription has failed, or will when the wrapper
\* reaches the malformed log in its buffer.
Doomed == subErr[gen] \/ Has(logs[gen], Malformed)

\* Runs started so far, plus an ended or doomed current Run, never exceed
\* RPC failures plus rotations: a subscription fails only on a batch of two
\* change events (filterer.go:138-144), so only after the chain has
\* rotated twice since a waitforlogs call of the current Run.
RunBound ==
    /\ \A g \in Gens : wfl[g] # None => wfl[g] <= chainIdx
    /\ gen + Ind(phase = "down" \/ Doomed) <= crashes + chainIdx
    /\ wfl[gen] # None /\ ~Doomed =>
          gen + Ind(phase = "down") <= crashes + wfl[gen]

\* Runs not started yet have touched nothing; every queued set is of a
\* started Run; a goroutine in GetGuardianSet knows its index.
Fresh ==
    /\ \A g \in Gens : g > gen =>
          /\ wfl[g] = None
          /\ logs[g] = << >>
          /\ subErr[g] = FALSE
          /\ evSt[g] = "none"
    /\ \A i \in 1..Len(setQ) : setQ[i].gen <= gen
    /\ \A g \in Gens : evSt[g] = "fetch" => evIdx[g] \in Indices

TypeInv == TypeOK /\ RunBound /\ Fresh

USE SyncBoundsAssumption

-----------------------------------------------------------------------------
(* Lemmas about the logs buffer.                                           *)

LogSeq == Seq(Indices \cup {Malformed})

\* Dropping a head that is not x keeps whether x is held.
LEMMA HasTail ==
    ASSUME NEW S, NEW s \in Seq(S), NEW x, s # << >>, Head(s) # x
    PROVE  Has(Tail(s), x) <=> Has(s, x)
<1>1. /\ Len(Tail(s)) = Len(s) - 1
      /\ \A i \in 1..Len(Tail(s)) : Tail(s)[i] = s[i + 1]
      /\ Head(s) = s[1]
      /\ Len(s) \in Nat \ {0}
  BY HeadTailProperties, EmptySeq, LenProperties
<1>2. QED
  BY <1>1 DEF Has

\* A concatenation holds x when one of its parts does.
LEMMA HasConcat ==
    ASSUME NEW S, NEW s \in Seq(S), NEW b \in Seq(S), NEW x
    PROVE  Has(s \o b, x) <=> Has(s, x) \/ Has(b, x)
<1>1. /\ Len(s \o b) = Len(s) + Len(b)
      /\ \A i \in 1..Len(s) + Len(b) :
            (s \o b)[i] = IF i <= Len(s) THEN s[i] ELSE b[i - Len(s)]
      /\ Len(s) \in Nat /\ Len(b) \in Nat
  BY ConcatProperties, LenProperties
<1>2. Has(s \o b, x) => Has(s, x) \/ Has(b, x)
  <2> SUFFICES ASSUME NEW k \in 1..Len(s \o b), (s \o b)[k] = x
               PROVE  Has(s, x) \/ Has(b, x)
    BY DEF Has
  <2>1. CASE k <= Len(s)
    BY <1>1, <2>1 DEF Has
  <2>2. CASE k > Len(s)
    <3>1. k - Len(s) \in 1..Len(b) /\ b[k - Len(s)] = x
      BY <1>1, <2>2
    <3>2. QED
      BY <3>1 DEF Has
  <2>3. QED
    BY <1>1, <2>1, <2>2
<1>3. Has(s, x) => Has(s \o b, x)
  BY <1>1 DEF Has
<1>4. Has(b, x) => Has(s \o b, x)
  <2> SUFFICES ASSUME NEW k \in 1..Len(b), b[k] = x
               PROVE  Has(s \o b, x)
    BY DEF Has
  <2>1. k + Len(s) \in 1..Len(s \o b) /\ (s \o b)[k + Len(s)] = x
    BY <1>1
  <2>2. QED
    BY <2>1 DEF Has
<1>5. QED
  BY <1>2, <1>3, <1>4

\* What a waitforlogs return appends: log entries, malformed exactly when
\* the chain rotated more than once since the call.
LEMMA BatchProps ==
    ASSUME NEW f \in Indices, NEW t \in Indices, t > f
    PROVE  /\ Batch(f, t) \in LogSeq
           /\ Batch(f, t) # << >>
           /\ Head(Batch(f, t)) = f + 1
           /\ Has(Batch(f, t), Malformed) <=> t - f > 1
<1>1. f + 1 \in Indices /\ f + 1 # Malformed
  BY DEF Indices, Malformed
<1>2. CASE t - f > 1
  <2>1. Batch(f, t) = <<f + 1, Malformed>>
    BY <1>2 DEF Batch
  <2>2. QED
    BY <1>1, <1>2, <2>1 DEF LogSeq, Has
<1>3. CASE ~(t - f > 1)
  <2>1. Batch(f, t) = <<f + 1>>
    BY <1>3 DEF Batch
  <2>2. QED
    BY <1>1, <1>3, <2>1 DEF LogSeq, Has
<1>4. QED
  BY <1>2, <1>3

-----------------------------------------------------------------------------
(* Type correctness.                                                       *)

Entry == [idx : Indices, gen : Gens]

LEMMA TypeInit == Init => TypeInv
<1> SUFFICES ASSUME Init PROVE TypeInv
  OBVIOUS
<1>1. << >> \in Seq(Indices) /\ << >> \in LogSeq /\ << >> \in Seq(Entry)
      /\ Len(<< >>) = 0
  BY EmptySeq DEF LogSeq
<1>2. ~Doomed
  <2>1. gen \in Gens
    BY DEF Init, Gens
  <2>2. subErr[gen] = FALSE /\ logs[gen] = << >>
    BY <2>1 DEF Init
  <2>3. ~Has(logs[gen], Malformed)
    BY <1>1, <2>2 DEF Has
  <2>4. QED
    BY <2>2, <2>3, Zenon DEF Doomed
<1>3. TypeOK
  BY <1>1 DEF Init, TypeOK, Indices, Gens, Phases, EvStates, None, GuardianSetCCap,
             LogSeq, Entry
<1>4. RunBound
  BY <1>2 DEF Init, RunBound, Ind, None, Gens
<1>5. Fresh
  BY <1>1 DEF Init, Fresh, Gens
<1>6. QED
  BY <1>3, <1>4, <1>5 DEF TypeInv

\* TypeOK without its Boolean-valued conjunct, which Zenon handles better.
TypeCore ==
    /\ chainIdx \in Indices
    /\ phase \in Phases
    /\ gen \in Gens
    /\ wfl \in [Gens -> Indices \cup {None}]
    /\ logs \in [Gens -> LogSeq]
    /\ gsC \in [Gens -> Seq(Indices)]
    /\ \A g \in Gens : Len(gsC[g]) <= GuardianSetCCap
    /\ evSt \in [Gens -> EvStates]
    /\ evIdx \in [Gens -> Indices \cup {None}]
    /\ setQ \in Seq(Entry)
    /\ procGs \in Indices \cup {None}
    /\ crashes \in 0..MaxCrashes

LEMMA TypeSplit == TypeOK <=> TypeCore /\ subErr \in [Gens -> BOOLEAN]
BY Zenon DEF TypeOK, TypeCore, LogSeq, Entry

LEMMA TypeSplitPrime == TypeOK' <=> TypeCore' /\ subErr' \in [Gens -> BOOLEAN]
BY Zenon DEF TypeOK, TypeCore, LogSeq, Entry

\* A bound g + i <= c + x survives a step that does not raise i, keeps c
\* and does not lower x.
LEMMA IndBound ==
    ASSUME NEW g \in Int, NEW c \in Int, NEW x \in Int, NEW x2 \in Int,
           NEW i \in {0, 1}, NEW i2 \in {0, 1},
           g + i <= c + x, i2 <= i, x2 >= x
    PROVE  g + i2 <= c + x2
OBVIOUS

\* A step that moves neither the Run number nor the failure count, does not
\* lower the chain index, leaves the current Run's call and doom alone and
\* ends no Run that was not doomed keeps RunBound.
LEMMA RunBoundGen ==
    ASSUME TypeInv, TypeCore', gen' = gen, crashes' = crashes,
           chainIdx' >= chainIdx, Doomed' = Doomed, wfl'[gen] = wfl[gen],
           \A g \in Gens : wfl'[g] # None => wfl'[g] <= chainIdx',
           phase' = "down" => phase = "down" \/ Doomed
    PROVE  RunBound'
<1>1. TypeCore /\ RunBound
  BY TypeSplit DEF TypeInv
<1>3. gen \in Int /\ chainIdx \in Int /\ chainIdx' \in Int
      /\ crashes \in Int /\ wfl[gen] \in Indices \cup {None}
  BY <1>1 DEF TypeCore, Gens, Indices
<1>4. /\ Ind(phase' = "down" \/ Doomed') \in {0, 1}
      /\ Ind(phase = "down" \/ Doomed) \in {0, 1}
      /\ Ind(phase' = "down") \in {0, 1}
      /\ Ind(phase = "down") \in {0, 1}
      /\ Ind(phase' = "down" \/ Doomed') <= Ind(phase = "down" \/ Doomed)
      /\ ~Doomed => Ind(phase' = "down") <= Ind(phase = "down")
  BY DEF Ind
<1> HIDE DEF Ind
<1>5. gen' + Ind(phase' = "down" \/ Doomed') <= crashes' + chainIdx'
  <2>1. gen + Ind(phase = "down" \/ Doomed) <= crashes + chainIdx
    BY <1>1 DEF RunBound
  <2>2. QED
    BY <1>3, <1>4, <2>1, IndBound
<1>6. wfl'[gen'] # None /\ ~Doomed' =>
         gen' + Ind(phase' = "down") <= crashes' + wfl'[gen']
  <2> SUFFICES ASSUME wfl'[gen'] # None, ~Doomed'
               PROVE  gen' + Ind(phase' = "down") <= crashes' + wfl'[gen']
    OBVIOUS
  <2>1. wfl[gen] # None /\ ~Doomed
    OBVIOUS
  <2>2. gen + Ind(phase = "down") <= crashes + wfl[gen]
    BY <1>1, <2>1 DEF RunBound
  <2>3. wfl[gen] \in Int
    BY <1>3, <2>1 DEF Indices, None
  <2>4. QED
    BY <1>3, <1>4, <2>1, <2>2, <2>3, IndBound
<1>7. QED
  BY <1>5, <1>6 DEF RunBound

\* A step that leaves the Run number, the subscriptions and the failures
\* alone, does not lower the chain index and ends no Run keeps RunBound.
LEMMA RunBoundKept ==
    ASSUME TypeInv, TypeCore', gen' = gen, wfl' = wfl, logs' = logs,
           subErr' = subErr, crashes' = crashes,
           chainIdx' >= chainIdx, phase' = "down" => phase = "down" \/ Doomed
    PROVE  RunBound'
<1>1. TypeCore
  BY TypeSplit DEF TypeInv
<1>2. Doomed' = Doomed
  BY Zenon DEF Doomed
<1>3. gen \in Gens /\ chainIdx \in Indices /\ chainIdx' \in Indices
      /\ crashes \in Int /\ wfl[gen] \in Indices \cup {None}
  BY <1>1 DEF TypeCore
<1>4. RunBound
  BY DEF TypeInv
<1>5. gen' = gen /\ wfl' = wfl /\ crashes' = crashes
  OBVIOUS
<1>6. \A g \in Gens : wfl'[g] # None => wfl'[g] <= chainIdx'
  BY <1>1, <1>3, <1>4, <1>5 DEF RunBound, TypeCore, Indices, None
<1>7. Ind(phase' = "down" \/ Doomed') <= Ind(phase = "down" \/ Doomed)
  BY <1>2 DEF Ind
<1>13. ~Doomed => Ind(phase' = "down") <= Ind(phase = "down")
  BY DEF Ind
<1>11. /\ Ind(phase' = "down" \/ Doomed') \in {0, 1}
       /\ Ind(phase = "down" \/ Doomed) \in {0, 1}
       /\ Ind(phase' = "down") \in {0, 1}
       /\ Ind(phase = "down") \in {0, 1}
  BY DEF Ind
<1>12. gen \in Int /\ chainIdx \in Int /\ chainIdx' \in Int
  BY <1>3 DEF Gens, Indices
<1> HIDE DEF Ind
<1>8. gen' + Ind(phase' = "down" \/ Doomed') <= crashes' + chainIdx'
  <2>1. gen + Ind(phase = "down" \/ Doomed) <= crashes + chainIdx
    BY <1>4 DEF RunBound
  <2>2. QED
    BY <1>3, <1>5, <1>7, <1>11, <1>12, <2>1, IndBound
<1>9. wfl'[gen'] # None /\ ~Doomed' =>
         gen' + Ind(phase' = "down") <= crashes' + wfl'[gen']
  <2> SUFFICES ASSUME wfl'[gen'] # None, ~Doomed'
               PROVE  gen' + Ind(phase' = "down") <= crashes' + wfl'[gen']
    OBVIOUS
  <2>1. wfl[gen] # None /\ ~Doomed
    BY <1>2, <1>5
  <2>2. gen + Ind(phase = "down") <= crashes + wfl[gen]
    BY <1>4, <2>1 DEF RunBound
  <2>3. wfl[gen] \in Int
    BY <1>3, <2>1 DEF Indices, None
  <2>5. Ind(phase' = "down") <= Ind(phase = "down")
    BY <1>13, <2>1
  <2>4. QED
    BY <1>3, <1>5, <2>5, <1>11, <1>12, <2>2, <2>3, IndBound
<1>10. QED
  BY <1>6, <1>8, <1>9 DEF RunBound

\* A failure that counts against the RPC bound, whatever Run it ends,
\* keeps RunBound.
LEMMA RunBoundCrash ==
    ASSUME TypeInv, TypeCore', gen' = gen, wfl' = wfl, logs' = logs,
           subErr' = subErr, crashes' = crashes + 1, chainIdx' = chainIdx
    PROVE  RunBound'
<1>1. TypeCore /\ RunBound
  BY TypeSplit DEF TypeInv
<1>2. Doomed' = Doomed
  BY Zenon DEF Doomed
<1>3. gen \in Int /\ chainIdx \in Int /\ crashes \in Int
      /\ wfl[gen] \in Indices \cup {None}
  BY <1>1 DEF TypeCore, Gens, Indices
<1>4. /\ Ind(phase' = "down" \/ Doomed') \in {0, 1}
      /\ Ind(phase = "down" \/ Doomed) \in {0, 1}
      /\ Ind(phase' = "down") \in {0, 1}
      /\ Ind(phase = "down") \in {0, 1}
  BY DEF Ind
<1> HIDE DEF Ind
<1>5. \A g \in Gens : wfl'[g] # None => wfl'[g] <= chainIdx'
  BY <1>1 DEF RunBound
<1>6. gen' + Ind(phase' = "down" \/ Doomed') <= crashes' + chainIdx'
  BY <1>1, <1>3, <1>4 DEF RunBound
<1>7. wfl'[gen'] # None /\ ~Doomed' =>
         gen' + Ind(phase' = "down") <= crashes' + wfl'[gen']
  BY <1>1, <1>2, <1>3, <1>4 DEF RunBound, Indices, None
<1>8. QED
  BY <1>5, <1>6, <1>7 DEF RunBound

\* A step that leaves the per-Run state and the queue alone keeps Fresh.
LEMMA FreshKept ==
    ASSUME TypeInv, UNCHANGED <<gen, wfl, logs, subErr, evSt, evIdx, setQ>>
    PROVE  Fresh'
BY Zenon DEF TypeInv, Fresh

LEMMA RotateStep == TypeInv /\ Rotate => TypeInv'
<1> SUFFICES ASSUME TypeInv, Rotate PROVE TypeInv'
  OBVIOUS
<1>1. /\ chainIdx < MaxIndex /\ chainIdx' = chainIdx + 1
      /\ phase' = phase /\ gen' = gen /\ crashes' = crashes /\ wfl' = wfl
      /\ logs' = logs /\ subErr' = subErr /\ gsC' = gsC /\ evSt' = evSt
      /\ evIdx' = evIdx /\ setQ' = setQ /\ procGs' = procGs
  BY Zenon DEF Rotate, subVars, evVars
<1>2. TypeCore /\ subErr \in [Gens -> BOOLEAN]
  BY TypeSplit DEF TypeInv
<1>3. TypeCore' /\ subErr' \in [Gens -> BOOLEAN]
  <2>1. TypeCore'
    BY <1>1, <1>2 DEF TypeCore, Indices
  <2>2. QED
    BY <1>1, <1>2, <2>1, Zenon
<1>4. chainIdx' >= chainIdx
  BY <1>1, <1>2 DEF TypeCore, Indices
<1>5. RunBound'
  BY <1>1, <1>3, <1>4, RunBoundKept, Zenon
<1>6. QED
  BY <1>1, <1>3, <1>5, FreshKept, TypeSplitPrime, Zenon DEF TypeInv

LEMMA FetchStep == TypeInv /\ FetchCurrentGuardianSet => TypeInv'
<1> SUFFICES ASSUME TypeInv, FetchCurrentGuardianSet PROVE TypeInv'
  OBVIOUS
<1>1. /\ phase = "fetch" /\ phase' = "send"
      /\ setQ' = Append(setQ, [idx |-> chainIdx, gen |-> gen])
      /\ chainIdx' = chainIdx /\ gen' = gen /\ crashes' = crashes /\ wfl' = wfl
      /\ logs' = logs /\ subErr' = subErr /\ gsC' = gsC /\ evSt' = evSt
      /\ evIdx' = evIdx /\ procGs' = procGs
  BY Zenon DEF FetchCurrentGuardianSet, subVars, evVars
<1>2. TypeCore /\ subErr \in [Gens -> BOOLEAN] /\ Fresh
  BY TypeSplit DEF TypeInv
<1>3. [idx |-> chainIdx, gen |-> gen] \in Entry
  BY <1>2 DEF TypeCore, Entry
<1>4. /\ setQ' \in Seq(Entry)
      /\ Len(setQ') = Len(setQ) + 1
      /\ \A i \in 1..Len(setQ) : setQ'[i] = setQ[i]
      /\ setQ'[Len(setQ) + 1] = [idx |-> chainIdx, gen |-> gen]
  BY <1>1, <1>2, <1>3, AppendProperties DEF TypeCore
<1>5. TypeCore' /\ subErr' \in [Gens -> BOOLEAN]
  <2>1. TypeCore'
    BY <1>1, <1>2, <1>4 DEF TypeCore, Phases
  <2>2. QED
    BY <1>1, <1>2, <2>1, Zenon
<1>6. RunBound'
  <2>1. chainIdx' >= chainIdx
    BY <1>1, <1>2 DEF TypeCore, Indices
  <2>2. QED
    BY <1>1, <1>5, <2>1, RunBoundKept, Zenon
<1>7. Fresh'
  <2>1. Len(setQ) \in Nat
    BY <1>2, LenProperties DEF TypeCore
  <2>2. /\ \A i \in 1..Len(setQ) : setQ[i].gen <= gen
        /\ gen' = gen
    BY <1>1, <1>2, Zenon DEF Fresh
  <2>5. gen \in Int
    BY <1>2 DEF TypeCore, Gens
  <2>3. \A i \in 1..Len(setQ') : setQ'[i].gen <= gen'
    <3> SUFFICES ASSUME NEW i \in 1..Len(setQ') PROVE setQ'[i].gen <= gen'
      OBVIOUS
    <3>1. CASE i <= Len(setQ)
      BY <1>4, <2>1, <2>2, <3>1
    <3>2. CASE i = Len(setQ) + 1
      BY <1>4, <2>2, <2>5, <3>2
    <3>3. QED
      BY <1>4, <2>1, <3>1, <3>2
  <2>4. QED
    BY <1>1, <1>2, <2>3, Zenon DEF Fresh
<1>8. QED
  BY <1>5, <1>6, <1>7, TypeSplitPrime DEF TypeInv

\* A Run whose goroutine or subscription has done anything has started.
LEMMA Started ==
    ASSUME TypeInv, NEW g \in Gens,
           evSt[g] # "none" \/ wfl[g] # None \/ logs[g] # << >> \/ subErr[g] # FALSE
    PROVE  g <= gen
<1>1. gen \in Gens
  BY DEF TypeInv, TypeOK
<1>2. ~(g > gen)
  BY Zenon DEF TypeInv, Fresh
<1>3. QED
  BY <1>1, <1>2 DEF Gens

LEMMA QuitStep ==
    ASSUME TypeInv, NEW g \in Gens, Quit(g)
    PROVE  TypeInv'
<1>1. /\ evSt[g] = "idle"
      /\ evSt' = [evSt EXCEPT ![g] = "exit"]
      /\ chainIdx' = chainIdx /\ phase' = phase /\ gen' = gen /\ crashes' = crashes
      /\ wfl' = wfl /\ logs' = logs /\ subErr' = subErr /\ gsC' = gsC
      /\ evIdx' = evIdx /\ setQ' = setQ /\ procGs' = procGs
  BY Zenon DEF Quit, subVars
<1>2. TypeCore /\ subErr \in [Gens -> BOOLEAN]
  BY TypeSplit DEF TypeInv
<1>3. g <= gen
  BY <1>1, Started
<1>4. TypeCore'
  BY <1>1, <1>2 DEF TypeCore, EvStates
<1>5. subErr' \in [Gens -> BOOLEAN]
  BY <1>1, <1>2, Zenon
<1>6. RunBound'
  <2>1. chainIdx' >= chainIdx
    BY <1>1, <1>2 DEF TypeCore, Indices
  <2>2. QED
    BY <1>1, <1>4, <2>1, RunBoundKept, Zenon
<1>7. Fresh'
  <2>1. \A h \in Gens : h > gen => evSt'[h] = evSt[h]
    BY <1>1, <1>2, <1>3 DEF TypeCore, Gens
  <2>2. \A h \in Gens : evSt'[h] = "fetch" => evSt[h] = "fetch"
    BY <1>1, <1>2 DEF TypeCore
  <2>3. QED
    BY <1>1, <2>1, <2>2, Zenon DEF TypeInv, Fresh
<1>8. QED
  BY <1>4, <1>5, <1>6, <1>7, TypeSplitPrime DEF TypeInv

LEMMA TakeStep ==
    ASSUME TypeInv, NEW g \in Gens, TakeGuardianSetEvent(g)
    PROVE  TypeInv'
<1>1. /\ evSt[g] = "idle" /\ gsC[g] # << >>
      /\ evIdx' = [evIdx EXCEPT ![g] = Head(gsC[g])]
      /\ gsC' = [gsC EXCEPT ![g] = Tail(gsC[g])]
      /\ evSt' = [evSt EXCEPT ![g] = "fetch"]
      /\ chainIdx' = chainIdx /\ phase' = phase /\ gen' = gen /\ crashes' = crashes
      /\ wfl' = wfl /\ logs' = logs /\ subErr' = subErr
      /\ setQ' = setQ /\ procGs' = procGs
  BY Zenon DEF TakeGuardianSetEvent
<1>2. TypeCore /\ subErr \in [Gens -> BOOLEAN]
  BY TypeSplit DEF TypeInv
<1>3. g <= gen
  BY <1>1, Started
<1>4. /\ Head(gsC[g]) \in Indices
      /\ Tail(gsC[g]) \in Seq(Indices)
      /\ Len(Tail(gsC[g])) = Len(gsC[g]) - 1
  BY <1>1, <1>2, HeadTailProperties DEF TypeCore
<1>10. TypeCore
  BY <1>2
<1>11. /\ gsC' \in [Gens -> Seq(Indices)]
       /\ \A h \in Gens : Len(gsC'[h]) <= GuardianSetCCap
  <2>1. gsC \in [Gens -> Seq(Indices)] /\ Len(gsC[g]) <= GuardianSetCCap
        /\ \A h \in Gens : Len(gsC[h]) <= GuardianSetCCap
    BY <1>10 DEF TypeCore
  <2>2. gsC' = [gsC EXCEPT ![g] = Tail(gsC[g])]
    BY <1>1
  <2>3. QED
    BY <1>4, <2>1, <2>2 DEF GuardianSetCCap
<1>12. evIdx' \in [Gens -> Indices \cup {None}] /\ evSt' \in [Gens -> EvStates]
  BY <1>1, <1>4, <1>10 DEF TypeCore, EvStates
<1>5. TypeCore'
  BY <1>1, <1>10, <1>11, <1>12 DEF TypeCore
<1>6. subErr' \in [Gens -> BOOLEAN]
  BY <1>1, <1>2, Zenon
<1>7. RunBound'
  <2>1. chainIdx' >= chainIdx
    BY <1>1, <1>10 DEF TypeCore, Indices
  <2>2. QED
    BY <1>1, <1>5, <2>1, RunBoundKept, Zenon
<1>8. Fresh'
  <2>1. \A h \in Gens : h > gen => evSt'[h] = evSt[h]
    BY <1>1, <1>10, <1>3 DEF TypeCore, Gens
  <2>2. \A h \in Gens : evSt'[h] = "fetch" => evIdx'[h] \in Indices
    BY <1>1, <1>2, <1>4 DEF TypeCore, TypeInv, Fresh
  <2>3. QED
    BY <1>1, <2>1, <2>2, Zenon DEF TypeInv, Fresh
<1>9. QED
  BY <1>5, <1>6, <1>7, <1>8, TypeSplitPrime DEF TypeInv

LEMMA GetGuardianSetStep ==
    ASSUME TypeInv, NEW g \in Gens, GetGuardianSet(g)
    PROVE  TypeInv'
<1>1. /\ evSt[g] = "fetch"
      /\ setQ' = Append(setQ, [idx |-> evIdx[g], gen |-> g])
      /\ evSt' = [evSt EXCEPT ![g] = "send"]
      /\ chainIdx' = chainIdx /\ phase' = phase /\ gen' = gen /\ crashes' = crashes
      /\ wfl' = wfl /\ logs' = logs /\ subErr' = subErr /\ gsC' = gsC
      /\ evIdx' = evIdx /\ procGs' = procGs
  BY Zenon DEF GetGuardianSet, subVars
<1>2. TypeCore /\ subErr \in [Gens -> BOOLEAN]
  BY TypeSplit DEF TypeInv
<1>3. g <= gen
  BY <1>1, Started
<1>4. evIdx[g] \in Indices
  BY <1>1 DEF TypeInv, Fresh
<1>5. [idx |-> evIdx[g], gen |-> g] \in Entry
  BY <1>4 DEF Entry
<1>6. /\ setQ' \in Seq(Entry)
      /\ Len(setQ') = Len(setQ) + 1
      /\ \A i \in 1..Len(setQ) : setQ'[i] = setQ[i]
      /\ setQ'[Len(setQ) + 1] = [idx |-> evIdx[g], gen |-> g]
      /\ Len(setQ) \in Nat
  BY <1>1, <1>2, <1>5, AppendProperties, LenProperties DEF TypeCore
<1>7. TypeCore'
  BY <1>1, <1>2, <1>6 DEF TypeCore, EvStates
<1>8. subErr' \in [Gens -> BOOLEAN]
  BY <1>1, <1>2, Zenon
<1>9. RunBound'
  <2>1. chainIdx' >= chainIdx
    BY <1>1, <1>2 DEF TypeCore, Indices
  <2>2. QED
    BY <1>1, <1>7, <2>1, RunBoundKept, Zenon
<1>10. Fresh'
  <2>1. \A h \in Gens : h > gen => evSt'[h] = evSt[h]
    BY <1>1, <1>2, <1>3 DEF TypeCore, Gens
  <2>2. \A h \in Gens : evSt'[h] = "fetch" => evSt[h] = "fetch"
    BY <1>1, <1>2 DEF TypeCore
  <2>3. /\ \A i \in 1..Len(setQ) : setQ[i].gen <= gen
        /\ gen' = gen
    BY <1>1, Zenon DEF TypeInv, Fresh
  <2>4. \A i \in 1..Len(setQ') : setQ'[i].gen <= gen'
    <3> SUFFICES ASSUME NEW i \in 1..Len(setQ') PROVE setQ'[i].gen <= gen'
      OBVIOUS
    <3>1. CASE i <= Len(setQ)
      BY <1>6, <2>3, <3>1
    <3>2. CASE i = Len(setQ) + 1
      BY <1>3, <1>6, <2>3, <3>2
    <3>3. QED
      BY <1>6, <3>1, <3>2
  <2>5. QED
    BY <1>1, <2>1, <2>2, <2>4, Zenon DEF TypeInv, Fresh
<1>11. QED
  BY <1>7, <1>8, <1>9, <1>10, TypeSplitPrime DEF TypeInv

LEMMA SubErrorStep ==
    ASSUME TypeInv, NEW g \in Gens, HandleSubscriptionError(g)
    PROVE  TypeInv'
<1>1. /\ evSt[g] = "idle" /\ subErr[g]
      /\ evSt' = [evSt EXCEPT ![g] = "exit"]
      /\ phase' = IF EndsRun(g) THEN "down" ELSE phase
      /\ chainIdx' = chainIdx /\ gen' = gen /\ crashes' = crashes
      /\ wfl' = wfl /\ logs' = logs /\ subErr' = subErr /\ gsC' = gsC
      /\ evIdx' = evIdx /\ setQ' = setQ /\ procGs' = procGs
  BY Zenon DEF HandleSubscriptionError, subVars
<1>2. TypeCore /\ subErr \in [Gens -> BOOLEAN]
  BY TypeSplit DEF TypeInv
<1>3. g <= gen
  BY <1>1, Started
<1>4. TypeCore'
  <2>1. phase' \in Phases /\ evSt' \in [Gens -> EvStates]
    BY <1>1, <1>2 DEF TypeCore, Phases, EvStates
  <2>2. QED
    BY <1>1, <1>2, <2>1, Zenon DEF TypeCore
<1>5. subErr' \in [Gens -> BOOLEAN]
  BY <1>1, <1>2, Zenon
<1>6. phase' = "down" => phase = "down" \/ Doomed
  <2>1. CASE EndsRun(g)
    <3>1. g = gen
      BY <2>1 DEF EndsRun
    <3>2. subErr[gen]
      BY <1>1, <3>1, Zenon
    <3>3. QED
      BY <3>2, Zenon DEF Doomed
  <2>2. CASE ~EndsRun(g)
    BY <1>1, <2>2, Zenon
  <2>3. QED
    BY <2>1, <2>2
<1>7. RunBound'
  <2>1. chainIdx' >= chainIdx
    BY <1>1, <1>2 DEF TypeCore, Indices
  <2>2. QED
    BY <1>1, <1>4, <1>6, <2>1, RunBoundKept, Zenon
<1>8. Fresh'
  <2>1. \A h \in Gens : h > gen => evSt'[h] = evSt[h]
    BY <1>1, <1>2, <1>3 DEF TypeCore, Gens
  <2>2. \A h \in Gens : evSt'[h] = "fetch" => evSt[h] = "fetch"
    BY <1>1, <1>2 DEF TypeCore
  <2>3. QED
    BY <1>1, <2>1, <2>2, Zenon DEF TypeInv, Fresh
<1>9. QED
  BY <1>4, <1>5, <1>7, <1>8, TypeSplitPrime DEF TypeInv

LEMMA FetchFailureStep ==
    ASSUME TypeInv, NEW g \in Gens, GetGuardianSetFailure(g)
    PROVE  TypeInv'
<1>1. /\ evSt[g] = "fetch" /\ crashes < MaxCrashes
      /\ crashes' = crashes + 1
      /\ evSt' = [evSt EXCEPT ![g] = "exit"]
      /\ phase' = IF EndsRun(g) THEN "down" ELSE phase
      /\ chainIdx' = chainIdx /\ gen' = gen
      /\ wfl' = wfl /\ logs' = logs /\ subErr' = subErr /\ gsC' = gsC
      /\ evIdx' = evIdx /\ setQ' = setQ /\ procGs' = procGs
  BY Zenon DEF GetGuardianSetFailure, subVars
<1>2. TypeCore /\ subErr \in [Gens -> BOOLEAN]
  BY TypeSplit DEF TypeInv
<1>3. g <= gen
  BY <1>1, Started
<1>4. TypeCore'
  <2>1. phase' \in Phases /\ evSt' \in [Gens -> EvStates]
        /\ crashes' \in 0..MaxCrashes
    BY <1>1, <1>2 DEF TypeCore, Phases, EvStates
  <2>2. QED
    BY <1>1, <1>2, <2>1, Zenon DEF TypeCore
<1>5. subErr' \in [Gens -> BOOLEAN]
  BY <1>1, <1>2, Zenon
<1>6. RunBound'
  BY <1>1, <1>4, RunBoundCrash, Zenon
<1>7. Fresh'
  <2>1. \A h \in Gens : h > gen => evSt'[h] = evSt[h]
    BY <1>1, <1>2, <1>3 DEF TypeCore, Gens
  <2>2. \A h \in Gens : evSt'[h] = "fetch" => evSt[h] = "fetch"
    BY <1>1, <1>2 DEF TypeCore
  <2>3. QED
    BY <1>1, <2>1, <2>2, Zenon DEF TypeInv, Fresh
<1>8. QED
  BY <1>4, <1>5, <1>6, <1>7, TypeSplitPrime DEF TypeInv

LEMMA RpcFailureStep == TypeInv /\ RpcFailure => TypeInv'
<1> SUFFICES ASSUME TypeInv, RpcFailure PROVE TypeInv'
  OBVIOUS
<1>1. /\ crashes < MaxCrashes /\ crashes' = crashes + 1 /\ phase' = "down"
      /\ chainIdx' = chainIdx /\ gen' = gen
      /\ wfl' = wfl /\ logs' = logs /\ subErr' = subErr /\ gsC' = gsC
      /\ evSt' = evSt /\ evIdx' = evIdx /\ setQ' = setQ /\ procGs' = procGs
  BY Zenon DEF RpcFailure, subVars, evVars
<1>2. TypeCore /\ subErr \in [Gens -> BOOLEAN]
  BY TypeSplit DEF TypeInv
<1>4. TypeCore'
  <2>1. phase' \in Phases /\ crashes' \in 0..MaxCrashes
    BY <1>1, <1>2 DEF TypeCore, Phases
  <2>2. QED
    BY <1>1, <1>2, <2>1, Zenon DEF TypeCore
<1>5. subErr' \in [Gens -> BOOLEAN]
  BY <1>1, <1>2, Zenon
<1>6. RunBound'
  BY <1>1, <1>4, RunBoundCrash, Zenon
<1>7. QED
  BY <1>1, <1>4, <1>5, <1>6, FreshKept, TypeSplitPrime, Zenon DEF TypeInv

LEMMA RestartStep == TypeInv /\ Restart => TypeInv'
<1> SUFFICES ASSUME TypeInv, Restart PROVE TypeInv'
  OBVIOUS
<1>1. /\ phase = "down" /\ phase' = "fetch" /\ gen' = gen + 1
      /\ chainIdx' = chainIdx /\ crashes' = crashes
      /\ wfl' = wfl /\ logs' = logs /\ subErr' = subErr /\ gsC' = gsC
      /\ evSt' = evSt /\ evIdx' = evIdx /\ setQ' = setQ /\ procGs' = procGs
  BY Zenon DEF Restart, subVars, evVars
<1>2. TypeCore /\ subErr \in [Gens -> BOOLEAN] /\ RunBound
  BY TypeSplit DEF TypeInv
<1>3. gen \in Int /\ crashes \in Int /\ chainIdx \in Int
  BY <1>2 DEF TypeCore, Gens, Indices
<1>4. Ind(phase = "down" \/ Doomed) = 1
  BY <1>1 DEF Ind
<1>5. gen + 1 <= crashes + chainIdx
  BY <1>2, <1>3, <1>4 DEF RunBound
<1>6. gen + 1 \in Gens
  BY <1>2, <1>5 DEF TypeCore, Gens, Indices
<1>7. /\ wfl[gen + 1] = None
      /\ logs[gen + 1] = << >>
      /\ subErr[gen + 1] = FALSE
      /\ evSt[gen + 1] = "none"
  <2>1. gen + 1 > gen
    BY <1>3
  <2>2. QED
    BY <1>6, <2>1, Zenon DEF TypeInv, Fresh
<1>8. TypeCore'
  BY <1>1, <1>2, <1>6 DEF TypeCore, Phases
<1>9. subErr' \in [Gens -> BOOLEAN]
  BY <1>1, <1>2, Zenon
<1>10. ~Doomed'
  <2>1. logs'[gen'] = << >> /\ subErr'[gen'] = FALSE
    BY <1>1, <1>7, Zenon
  <2>2. ~Has(logs'[gen'], Malformed)
    BY <2>1, EmptySeq DEF Has
  <2>3. QED
    BY <2>1, <2>2, Zenon DEF Doomed
<1>11. RunBound'
  <2>1. \A g \in Gens : wfl'[g] # None => wfl'[g] <= chainIdx'
    BY <1>1, <1>2 DEF RunBound
  <2>2. Ind(phase' = "down" \/ Doomed') = 0
    BY <1>1, <1>10 DEF Ind
  <2>3. gen' + Ind(phase' = "down" \/ Doomed') <= crashes' + chainIdx'
    BY <1>1, <1>3, <1>5, <2>2
  <2>4. wfl'[gen'] = None
    BY <1>1, <1>7
  <2>5. QED
    BY <2>1, <2>3, <2>4 DEF RunBound
<1>12. Fresh'
  <2>1. \A g \in Gens : g > gen' => g > gen
    BY <1>1, <1>3 DEF Gens
  <2>2. \A i \in 1..Len(setQ) : setQ[i].gen <= gen
    BY DEF TypeInv, Fresh
  <2>3. \A i \in 1..Len(setQ') : setQ'[i].gen <= gen'
    <3> SUFFICES ASSUME NEW i \in 1..Len(setQ) PROVE setQ[i].gen <= gen + 1
      BY <1>1
    <3>1. setQ[i] \in Entry
      BY <1>2, ElementOfSeq DEF TypeCore
    <3>2. QED
      BY <1>3, <2>2, <3>1 DEF Entry, Gens
  <2>4. QED
    BY <1>1, <2>1, <2>3, Zenon DEF TypeInv, Fresh
<1>13. QED
  BY <1>8, <1>9, <1>11, <1>12, TypeSplitPrime DEF TypeInv

LEMMA ReceiveStep == TypeInv /\ ReceiveGuardianSet => TypeInv'
<1> SUFFICES ASSUME TypeInv, ReceiveGuardianSet PROVE TypeInv'
  OBVIOUS
<1> DEFINE s == Head(setQ)
<1>1. /\ setQ # << >>
      /\ procGs' = s.idx
      /\ phase' = IF evSt[s.gen] = "none" THEN "running" ELSE phase
      /\ evSt' = [evSt EXCEPT ![s.gen] = "idle"]
      /\ setQ' = Tail(setQ)
      /\ chainIdx' = chainIdx /\ gen' = gen /\ crashes' = crashes
      /\ wfl' = wfl /\ logs' = logs /\ subErr' = subErr /\ gsC' = gsC
      /\ evIdx' = evIdx
  BY Zenon DEF ReceiveGuardianSet, subVars
<1>2. TypeCore /\ subErr \in [Gens -> BOOLEAN]
  BY TypeSplit DEF TypeInv
<1>3. /\ setQ \in Seq(Entry)
      /\ s \in Entry /\ s = setQ[1]
      /\ Tail(setQ) \in Seq(Entry)
      /\ Len(Tail(setQ)) = Len(setQ) - 1
      /\ \A i \in 1..Len(Tail(setQ)) : Tail(setQ)[i] = setQ[i + 1]
      /\ Len(setQ) \in Nat \ {0}
  <2>1. setQ \in Seq(Entry)
    BY <1>2 DEF TypeCore, Entry
  <2>2. QED
    BY <1>1, <2>1, HeadTailProperties, EmptySeq, LenProperties
<1>4. s.gen \in Gens /\ s.gen <= gen
  <2>1. 1 \in 1..Len(setQ)
    BY <1>3
  <2>2. QED
    BY <1>3, <2>1 DEF TypeInv, Fresh, Entry
<1>5. TypeCore'
  <2>3. procGs' \in Indices \cup {None}
    BY <1>1, <1>3 DEF Entry
  <2>4. phase' \in Phases
    BY <1>1, <1>2 DEF TypeCore, Phases
  <2>5. evSt' \in [Gens -> EvStates]
    BY <1>1, <1>2, <1>4 DEF TypeCore, EvStates
  <2>6. setQ' \in Seq(Entry)
    BY <1>1, <1>3
  <2>1. /\ procGs' \in Indices \cup {None}
        /\ phase' \in Phases
        /\ evSt' \in [Gens -> EvStates]
        /\ setQ' \in Seq(Entry)
    BY <2>3, <2>4, <2>5, <2>6
  <2>2. QED
    BY <1>1, <1>2, <2>1, Zenon DEF TypeCore
<1>6. subErr' \in [Gens -> BOOLEAN]
  BY <1>1, <1>2, Zenon
<1>7. RunBound'
  <2>1. chainIdx' >= chainIdx
    BY <1>1, <1>2 DEF TypeCore, Indices
  <2>2. phase' = "down" => phase = "down" \/ Doomed
    BY <1>1
  <2>3. QED
    BY <1>1, <1>5, <2>1, <2>2, RunBoundKept, Zenon
<1>8. Fresh'
  <2>1. \A h \in Gens : h > gen => evSt'[h] = evSt[h]
    BY <1>1, <1>2, <1>4 DEF TypeCore, Gens
  <2>2. \A h \in Gens : evSt'[h] = "fetch" => evSt[h] = "fetch"
    BY <1>1, <1>2 DEF TypeCore
  <2>3. \A i \in 1..Len(setQ') : setQ'[i].gen <= gen'
    <3> SUFFICES ASSUME NEW i \in 1..Len(Tail(setQ))
                 PROVE  Tail(setQ)[i].gen <= gen
      BY <1>1
    <3>1. i + 1 \in 1..Len(setQ) /\ Tail(setQ)[i] = setQ[i + 1]
      BY <1>3
    <3>2. QED
      BY <3>1 DEF TypeInv, Fresh
  <2>4. QED
    BY <1>1, <2>1, <2>2, <2>3, Zenon DEF TypeInv, Fresh
<1>9. QED
  BY <1>5, <1>6, <1>7, <1>8, TypeSplitPrime DEF TypeInv

LEMMA CallStep ==
    ASSUME TypeInv, NEW g \in Gens, WaitForLogsCall(g)
    PROVE  TypeInv'
<1>1. /\ g <= gen /\ ~subErr[g] /\ wfl[g] = None
      /\ wfl' = [wfl EXCEPT ![g] = chainIdx]
      /\ chainIdx' = chainIdx /\ phase' = phase /\ gen' = gen /\ crashes' = crashes
      /\ logs' = logs /\ subErr' = subErr /\ gsC' = gsC
      /\ evSt' = evSt /\ evIdx' = evIdx /\ setQ' = setQ /\ procGs' = procGs
  BY Zenon DEF WaitForLogsCall, evVars
<1>2. TypeCore /\ subErr \in [Gens -> BOOLEAN] /\ RunBound
  BY TypeSplit DEF TypeInv
<1>3. TypeCore'
  <2>1. wfl' \in [Gens -> Indices \cup {None}]
    BY <1>1, <1>2 DEF TypeCore
  <2>2. QED
    BY <1>1, <1>2, <2>1, Zenon DEF TypeCore
<1>4. subErr' \in [Gens -> BOOLEAN]
  BY <1>1, <1>2, Zenon
<1>5. Doomed' = Doomed
  BY <1>1, Zenon DEF Doomed
<1>6. \A h \in Gens : wfl'[h] # None => wfl'[h] <= chainIdx'
  BY <1>1, <1>2 DEF TypeCore, RunBound, Indices
<1>7. RunBound'
  <2>1. CASE g # gen
    <3>1. wfl'[gen] = wfl[gen]
      BY <1>1, <1>2, <2>1 DEF TypeCore
    <3>2. chainIdx' >= chainIdx
      BY <1>1, <1>2 DEF TypeCore, Indices
    <3>3. phase' = "down" => phase = "down" \/ Doomed
      BY <1>1
    <3>4. QED
      BY <1>1, <1>3, <1>5, <1>6, <3>1, <3>2, <3>3, RunBoundGen, Zenon
  <2>2. CASE g = gen
    <3>1. gen \in Int /\ chainIdx \in Int /\ crashes \in Int
      BY <1>2 DEF TypeCore, Gens, Indices
    <3>2. wfl'[gen] = chainIdx
      BY <1>1, <1>2, <2>2 DEF TypeCore
    <3>3. /\ Ind(phase = "down") \in {0, 1}
          /\ Ind(phase = "down" \/ Doomed) \in {0, 1}
          /\ Ind(phase = "down") <= Ind(phase = "down" \/ Doomed)
      BY DEF Ind
    <3> HIDE DEF Ind
    <3>4. gen + Ind(phase = "down") <= crashes + chainIdx
      <4>1. gen + Ind(phase = "down" \/ Doomed) <= crashes + chainIdx
        BY <1>2 DEF RunBound
      <4>2. QED
        BY <3>1, <3>3, <4>1
    <3>5. gen' + Ind(phase' = "down" \/ Doomed') <= crashes' + chainIdx'
      BY <1>1, <1>2, <1>5 DEF RunBound
    <3>6. wfl'[gen'] # None /\ ~Doomed' =>
             gen' + Ind(phase' = "down") <= crashes' + wfl'[gen']
      BY <1>1, <3>2, <3>4
    <3>7. QED
      BY <1>6, <3>5, <3>6 DEF RunBound
  <2>3. QED
    BY <2>1, <2>2
<1>8. Fresh'
  <2>1. \A h \in Gens : h > gen => wfl'[h] = wfl[h]
    BY <1>1, <1>2 DEF TypeCore, Gens
  <2>2. QED
    BY <1>1, <2>1, Zenon DEF TypeInv, Fresh
<1>9. QED
  BY <1>3, <1>4, <1>7, <1>8, TypeSplitPrime DEF TypeInv

LEMMA ReturnStep ==
    ASSUME TypeInv, NEW g \in Gens, WaitForLogsReturn(g)
    PROVE  TypeInv'
<1> DEFINE b == Batch(wfl[g], chainIdx)
<1>1. /\ ~subErr[g] /\ wfl[g] # None /\ chainIdx > wfl[g]
      /\ logs' = [logs EXCEPT ![g] = logs[g] \o b]
      /\ wfl' = [wfl EXCEPT ![g] = None]
      /\ chainIdx' = chainIdx /\ phase' = phase /\ gen' = gen /\ crashes' = crashes
      /\ subErr' = subErr /\ gsC' = gsC
      /\ evSt' = evSt /\ evIdx' = evIdx /\ setQ' = setQ /\ procGs' = procGs
  BY Zenon DEF WaitForLogsReturn, evVars
<1>2. TypeCore /\ subErr \in [Gens -> BOOLEAN] /\ RunBound
  BY TypeSplit DEF TypeInv
<1>3. g <= gen
  BY <1>1, Started
<1>4. wfl[g] \in Indices /\ chainIdx \in Indices /\ logs[g] \in LogSeq
  BY <1>1, <1>2 DEF TypeCore
<1>5. /\ b \in LogSeq /\ b # << >>
      /\ Has(b, Malformed) <=> chainIdx - wfl[g] > 1
  BY <1>1, <1>4, BatchProps
<1>6. logs[g] \o b \in LogSeq
  BY <1>4, <1>5 DEF LogSeq
<1>7. TypeCore'
  <2>1. /\ logs' \in [Gens -> LogSeq]
        /\ wfl' \in [Gens -> Indices \cup {None}]
    BY <1>1, <1>2, <1>6 DEF TypeCore
  <2>2. QED
    BY <1>1, <1>2, <2>1, Zenon DEF TypeCore
<1>8. subErr' \in [Gens -> BOOLEAN]
  BY <1>1, <1>2, Zenon
<1>9. \A h \in Gens : wfl'[h] # None => wfl'[h] <= chainIdx'
  BY <1>1, <1>2 DEF TypeCore, RunBound
<1>10. RunBound'
  <2>1. CASE g # gen
    <3>1. logs'[gen] = logs[gen] /\ wfl'[gen] = wfl[gen]
      BY <1>1, <1>2, <2>1 DEF TypeCore
    <3>2. Doomed' = Doomed
      BY <1>1, <3>1, Zenon DEF Doomed
    <3>3. chainIdx' >= chainIdx
      BY <1>1, <1>4 DEF Indices
    <3>4. phase' = "down" => phase = "down" \/ Doomed
      BY <1>1
    <3>5. QED
      BY <1>1, <1>7, <1>9, <3>1, <3>2, <3>3, <3>4, RunBoundGen, Zenon
  <2>2. CASE g = gen
    <3>1. logs'[gen] = logs[gen] \o b /\ wfl'[gen] = None
      BY <1>1, <1>2, <2>2 DEF TypeCore
    <3>2. Has(logs'[gen], Malformed) <=>
             Has(logs[gen], Malformed) \/ Has(b, Malformed)
      BY <1>4, <1>5, <2>2, <3>1, HasConcat DEF LogSeq
    <3>3. Doomed' <=> Doomed \/ chainIdx - wfl[gen] > 1
      BY <1>1, <1>5, <2>2, <3>2 DEF Doomed
    <3>4. gen \in Int /\ crashes \in Int /\ chainIdx \in Int /\ wfl[gen] \in Int
      BY <1>2, <1>4, <2>2 DEF TypeCore, Gens, Indices
    <3>5. /\ Ind(phase = "down") \in {0, 1}
          /\ Ind(phase = "down" \/ Doomed) \in {0, 1}
          /\ Ind(phase' = "down" \/ Doomed') \in {0, 1}
          /\ ~Doomed' => Ind(phase' = "down" \/ Doomed') = Ind(phase = "down" \/ Doomed)
          /\ Doomed => Ind(phase' = "down" \/ Doomed') = Ind(phase = "down" \/ Doomed)
      BY <1>1, <3>3 DEF Ind
    <3> HIDE DEF Ind
    <3>6. gen + Ind(phase = "down" \/ Doomed) <= crashes + chainIdx
      BY <1>2 DEF RunBound
    <3>7. gen' + Ind(phase' = "down" \/ Doomed') <= crashes' + chainIdx'
      <4>1. CASE Doomed' /\ ~Doomed
        <5>1. chainIdx - wfl[gen] > 1
          BY <3>3, <4>1
        <5>2. gen + Ind(phase = "down") <= crashes + wfl[gen]
          BY <1>1, <1>2, <2>2, <4>1 DEF RunBound
        <5>3. QED
          BY <1>1, <3>4, <3>5, <5>1, <5>2
      <4>2. CASE ~(Doomed' /\ ~Doomed)
        BY <1>1, <3>5, <3>6, <4>2
      <4>3. QED
        BY <4>1, <4>2
    <3>8. QED
      BY <1>1, <1>9, <3>1, <3>7 DEF RunBound
  <2>3. QED
    BY <2>1, <2>2
<1>11. Fresh'
  <2>1. \A h \in Gens : h > gen => wfl'[h] = wfl[h] /\ logs'[h] = logs[h]
    BY <1>1, <1>2, <1>3 DEF TypeCore, Gens
  <2>2. QED
    BY <1>1, <2>1, Zenon DEF TypeInv, Fresh
<1>12. QED
  BY <1>7, <1>8, <1>10, <1>11, TypeSplitPrime DEF TypeInv

LEMMA DeliverStep ==
    ASSUME TypeInv, NEW g \in Gens, DeliverLog(g)
    PROVE  TypeInv'
<1>1. /\ ~subErr[g] /\ logs[g] # << >> /\ Head(logs[g]) # Malformed
      /\ Len(gsC[g]) < GuardianSetCCap
      /\ gsC' = [gsC EXCEPT ![g] = Append(gsC[g], Head(logs[g]))]
      /\ logs' = [logs EXCEPT ![g] = Tail(logs[g])]
      /\ chainIdx' = chainIdx /\ phase' = phase /\ gen' = gen /\ crashes' = crashes
      /\ wfl' = wfl /\ subErr' = subErr
      /\ evSt' = evSt /\ evIdx' = evIdx /\ setQ' = setQ /\ procGs' = procGs
  BY Zenon DEF DeliverLog, evVars
<1>2. TypeCore /\ subErr \in [Gens -> BOOLEAN] /\ RunBound
  BY TypeSplit DEF TypeInv
<1>3. g <= gen
  BY <1>1, Started
<1>4. /\ logs[g] \in LogSeq /\ gsC[g] \in Seq(Indices)
      /\ Head(logs[g]) \in Indices
      /\ Tail(logs[g]) \in LogSeq
  <2>1. logs[g] \in LogSeq /\ gsC[g] \in Seq(Indices)
    BY <1>2 DEF TypeCore
  <2>2. Head(logs[g]) \in Indices \cup {Malformed} /\ Tail(logs[g]) \in LogSeq
    BY <1>1, <2>1, HeadTailProperties DEF LogSeq
  <2>3. QED
    BY <1>1, <2>1, <2>2
<1>5. /\ Append(gsC[g], Head(logs[g])) \in Seq(Indices)
      /\ Len(Append(gsC[g], Head(logs[g]))) <= GuardianSetCCap
  BY <1>1, <1>4, AppendProperties DEF GuardianSetCCap
<1>6. TypeCore'
  <2>1. /\ logs' \in [Gens -> LogSeq]
        /\ gsC' \in [Gens -> Seq(Indices)]
    BY <1>1, <1>2, <1>4, <1>5 DEF TypeCore
  <2>2. \A h \in Gens : Len(gsC'[h]) <= GuardianSetCCap
    BY <1>1, <1>2, <1>5 DEF TypeCore
  <2>3. QED
    BY <1>1, <1>2, <2>1, <2>2, Zenon DEF TypeCore
<1>7. subErr' \in [Gens -> BOOLEAN]
  BY <1>1, <1>2, Zenon
<1>8. Doomed' = Doomed
  <2>1. CASE g # gen
    <3>1. logs'[gen] = logs[gen]
      BY <1>1, <1>2, <2>1 DEF TypeCore
    <3>2. QED
      BY <1>1, <3>1, Zenon DEF Doomed
  <2>2. CASE g = gen
    <3>1. logs'[gen] = Tail(logs[gen])
      BY <1>1, <1>2, <2>2 DEF TypeCore
    <3>2. Has(Tail(logs[gen]), Malformed) <=> Has(logs[gen], Malformed)
      BY <1>1, <1>4, <2>2, HasTail DEF LogSeq
    <3>3. QED
      BY <1>1, <3>1, <3>2, Zenon DEF Doomed
  <2>3. QED
    BY <2>1, <2>2
<1>9. RunBound'
  <2>1. chainIdx' >= chainIdx
    BY <1>1, <1>2 DEF TypeCore, Indices
  <2>2. \A h \in Gens : wfl'[h] # None => wfl'[h] <= chainIdx'
    BY <1>1, <1>2 DEF RunBound
  <2>3. QED
    BY <1>1, <1>6, <1>8, <2>1, <2>2, RunBoundGen, Zenon
<1>10. Fresh'
  <2>1. \A h \in Gens : h > gen => logs'[h] = logs[h]
    BY <1>1, <1>2, <1>3 DEF TypeCore, Gens
  <2>2. QED
    BY <1>1, <2>1, Zenon DEF TypeInv, Fresh
<1>11. QED
  BY <1>6, <1>7, <1>9, <1>10, TypeSplitPrime DEF TypeInv

LEMMA UnpackStep ==
    ASSUME TypeInv, NEW g \in Gens, UnpackFailure(g)
    PROVE  TypeInv'
<1>1. /\ ~subErr[g] /\ logs[g] # << >> /\ Head(logs[g]) = Malformed
      /\ subErr' = [subErr EXCEPT ![g] = TRUE]
      /\ logs' = [logs EXCEPT ![g] = << >>]
      /\ wfl' = [wfl EXCEPT ![g] = None]
      /\ chainIdx' = chainIdx /\ phase' = phase /\ gen' = gen /\ crashes' = crashes
      /\ gsC' = gsC
      /\ evSt' = evSt /\ evIdx' = evIdx /\ setQ' = setQ /\ procGs' = procGs
  BY Zenon DEF UnpackFailure, evVars
<1>2. TypeCore /\ subErr \in [Gens -> BOOLEAN] /\ RunBound
  BY TypeSplit DEF TypeInv
<1>3. g <= gen
  BY <1>1, Started
<1>4. TypeCore'
  <2>3. logs' \in [Gens -> LogSeq]
    BY <1>1, <1>2 DEF TypeCore, LogSeq
  <2>4. wfl' \in [Gens -> Indices \cup {None}]
    BY <1>1, <1>2 DEF TypeCore
  <2>1. /\ logs' \in [Gens -> LogSeq]
        /\ wfl' \in [Gens -> Indices \cup {None}]
    BY <2>3, <2>4
  <2>2. QED
    BY <1>1, <1>2, <2>1, Zenon DEF TypeCore
<1>5. subErr' \in [Gens -> BOOLEAN]
  BY <1>1, <1>2
<1>6. \A h \in Gens : wfl'[h] # None => wfl'[h] <= chainIdx'
  BY <1>1, <1>2 DEF TypeCore, RunBound
<1>7. RunBound'
  <2>1. CASE g # gen
    <3>1. /\ logs'[gen] = logs[gen] /\ wfl'[gen] = wfl[gen]
          /\ subErr'[gen] = subErr[gen]
      BY <1>1, <1>2, <2>1 DEF TypeCore
    <3>2. Doomed' = Doomed
      BY <1>1, <3>1, Zenon DEF Doomed
    <3>3. chainIdx' >= chainIdx
      BY <1>1, <1>2 DEF TypeCore, Indices
    <3>4. phase' = "down" => phase = "down" \/ Doomed
      BY <1>1
    <3>5. QED
      BY <1>1, <1>4, <1>6, <3>1, <3>2, <3>3, <3>4, RunBoundGen, Zenon
  <2>2. CASE g = gen
    <3>1. Doomed
      <4>1. logs[gen] \in LogSeq
        BY <1>2 DEF TypeCore
      <4>2. logs[gen][1] = Malformed /\ 1 \in 1..Len(logs[gen])
        BY <1>1, <2>2, <4>1, HeadTailProperties, EmptySeq, LenProperties DEF LogSeq
      <4>3. QED
        BY <4>2 DEF Doomed, Has
    <3>2. subErr'[gen] = TRUE /\ wfl'[gen] = None
      BY <1>1, <1>2, <2>2 DEF TypeCore
    <3>3. Doomed'
      BY <1>1, <3>2 DEF Doomed
    <3>4. Ind(phase' = "down" \/ Doomed') = Ind(phase = "down" \/ Doomed)
      BY <3>1, <3>3 DEF Ind
    <3> HIDE DEF Ind
    <3>5. gen' + Ind(phase' = "down" \/ Doomed') <= crashes' + chainIdx'
      BY <1>1, <1>2, <3>4 DEF RunBound
    <3>6. QED
      BY <1>1, <1>6, <3>2, <3>5 DEF RunBound
  <2>3. QED
    BY <2>1, <2>2
<1>8. Fresh'
  <2>3. \A h \in Gens : h > gen => wfl'[h] = wfl[h] /\ logs'[h] = logs[h]
    BY <1>1, <1>2, <1>3 DEF TypeCore, Gens
  <2>4. \A h \in Gens : h > gen => subErr'[h] = subErr[h]
    <3> SUFFICES ASSUME NEW h \in Gens, h > gen PROVE subErr'[h] = subErr[h]
      OBVIOUS
    <3>1. h # g
      BY <1>2, <1>3 DEF TypeCore, Gens
    <3>2. QED
      BY <1>1, <1>2, <3>1, Zenon
  <2>1. \A h \in Gens : h > gen =>
           wfl'[h] = wfl[h] /\ logs'[h] = logs[h] /\ subErr'[h] = subErr[h]
    BY <2>3, <2>4
  <2>2. QED
    BY <1>1, <2>1, Zenon DEF TypeInv, Fresh
<1>9. QED
  BY <1>4, <1>5, <1>7, <1>8, TypeSplitPrime DEF TypeInv

LEMMA StutterStep == TypeInv /\ UNCHANGED vars => TypeInv'
BY Zenon DEF vars, TypeInv, TypeOK, RunBound, Fresh, Doomed, Has

LEMMA TypeStep == TypeInv /\ [Next]_vars => TypeInv'
<1> SUFFICES ASSUME TypeInv, [Next]_vars PROVE TypeInv'
  OBVIOUS
<1>1. CASE Rotate
  BY <1>1, RotateStep
<1>2. CASE FetchCurrentGuardianSet
  BY <1>2, FetchStep
<1>3. CASE \E g \in Gens : RunStep(g)
  <2>1. PICK g \in Gens : RunStep(g)
    BY <1>3
  <2>2. QED
    BY <2>1, CallStep, ReturnStep, DeliverStep, UnpackStep, SubErrorStep,
       QuitStep, TakeStep, GetGuardianSetStep, FetchFailureStep DEF RunStep
<1>4. CASE RpcFailure
  BY <1>4, RpcFailureStep
<1>5. CASE Restart
  BY <1>5, RestartStep
<1>6. CASE ReceiveGuardianSet
  BY <1>6, ReceiveStep
<1>7. CASE UNCHANGED vars
  BY <1>7, StutterStep
<1>8. QED
  BY <1>1, <1>2, <1>3, <1>4, <1>5, <1>6, <1>7 DEF Next

\* Type correctness of the per-Run model for every MaxIndex and MaxCrashes:
\* in particular no Run's guardian-set channel (watcher.go:125, capacity 2)
\* holds more than it can buffer, since the filterer's sink blocks when it
\* is full (abi.go:182-192), and every queued guardian set is tagged with a
\* Run that has started.
THEOREM SyncTypeCorrect == Spec => []TypeOK
<1>1. Init => TypeInv
  BY TypeInit
<1>2. TypeInv /\ [Next]_vars => TypeInv'
  BY TypeStep
<1>3. TypeInv => TypeOK
  BY DEF TypeInv
<1>4. QED
  BY <1>1, <1>2, <1>3, PTL DEF Spec

-----------------------------------------------------------------------------
(* One send per Run.                                                       *)

\* A queued guardian set was sent either by a Run's event goroutine, which
\* then stays blocked on setChan until the processor takes it, or by the
\* current Run's initial send, whose event goroutine has not started yet.
\* A Run still fetching or sending its initial set has no event goroutine.
QueueInv ==
    /\ OneSendPerRun
    /\ \A i \in 1..Len(setQ) :
          \/ evSt[setQ[i].gen] = "send"
          \/ evSt[setQ[i].gen] = "none" /\ setQ[i].gen = gen /\ phase = "send"
    /\ phase \in {"fetch", "send"} => evSt[gen] = "none"

DistinctGens(q) == \A i, j \in 1..Len(q) : i # j => q[i].gen # q[j].gen

\* Appending an entry of a Run that has none in the queue keeps the Runs
\* of the queue distinct.
LEMMA AppendDistinct ==
    ASSUME NEW q \in Seq(Entry), DistinctGens(q), NEW e \in Entry,
           \A i \in 1..Len(q) : q[i].gen # e.gen
    PROVE  DistinctGens(Append(q, e))
<1>1. /\ Len(Append(q, e)) = Len(q) + 1
      /\ \A i \in 1..Len(q) : Append(q, e)[i] = q[i]
      /\ Append(q, e)[Len(q) + 1] = e
      /\ Len(q) \in Nat
  BY AppendProperties
<1>2. QED
  BY <1>1 DEF DistinctGens

\* Taking the head keeps the Runs of the rest distinct, and none of them is
\* the head's Run.
LEMMA TailDistinct ==
    ASSUME NEW q \in Seq(Entry), DistinctGens(q), q # << >>
    PROVE  /\ DistinctGens(Tail(q))
           /\ \A i \in 1..Len(Tail(q)) : Tail(q)[i].gen # Head(q).gen
<1>1. /\ Len(Tail(q)) = Len(q) - 1
      /\ \A i \in 1..Len(Tail(q)) : Tail(q)[i] = q[i + 1]
      /\ Head(q) = q[1]
      /\ Len(q) \in Nat \ {0}
  BY HeadTailProperties, EmptySeq, LenProperties
<1>2. QED
  BY <1>1 DEF DistinctGens

LEMMA QueueInit == Init => QueueInv
<1> SUFFICES ASSUME Init PROVE QueueInv
  OBVIOUS
<1>1. Len(setQ) = 0 /\ phase = "fetch" /\ gen = 0
  BY EmptySeq DEF Init
<1>2. evSt[0] = "none"
  <2>1. 0 \in Gens
    BY DEF Gens
  <2>2. QED
    BY <2>1 DEF Init
<1>3. QED
  BY <1>1, <1>2 DEF QueueInv, OneSendPerRun

\* A step that moves no event goroutine, no queue entry and no Run keeps
\* QueueInv.
LEMMA QueueKept ==
    ASSUME QueueInv, evSt' = evSt, setQ' = setQ, phase' = phase, gen' = gen
    PROVE  QueueInv'
BY Zenon DEF QueueInv, OneSendPerRun

\* An event goroutine that was in its select or in GetGuardianSet, and
\* leaves it without sending, keeps QueueInv, whether or not it ends a
\* running Run.
LEMMA QueueLeave ==
    ASSUME TypeInv, QueueInv, NEW g \in Gens, evSt[g] \in {"idle", "fetch"},
           NEW x \in {"exit", "fetch"}, evSt' = [evSt EXCEPT ![g] = x],
           setQ' = setQ, gen' = gen,
           phase' = phase \/ (phase' = "down" /\ phase = "running")
    PROVE  QueueInv'
<1>1. TypeCore
  BY TypeSplit DEF TypeInv
<1>2. setQ \in Seq(Entry) /\ evSt \in [Gens -> EvStates] /\ gen \in Gens
  BY <1>1 DEF TypeCore
<1>3. \A i \in 1..Len(setQ) : setQ[i].gen # g /\ setQ[i].gen \in Gens
  <2> SUFFICES ASSUME NEW i \in 1..Len(setQ) PROVE setQ[i].gen # g /\ setQ[i].gen \in Gens
    OBVIOUS
  <2>4. setQ[i] \in Entry
    BY <1>2, ElementOfSeq
  <2>1. setQ[i].gen \in Gens
    BY <2>4 DEF Entry
  <2>2. evSt[setQ[i].gen] \in {"send", "none"}
    BY DEF QueueInv
  <2>3. QED
    BY <2>1, <2>2
<1>4. \A i \in 1..Len(setQ) : evSt'[setQ[i].gen] = evSt[setQ[i].gen]
  BY <1>2, <1>3
<1>5. OneSendPerRun'
  BY DEF QueueInv, OneSendPerRun
<1>6. \A i \in 1..Len(setQ') :
         \/ evSt'[setQ'[i].gen] = "send"
         \/ evSt'[setQ'[i].gen] = "none" /\ setQ'[i].gen = gen' /\ phase' = "send"
  <2> SUFFICES ASSUME NEW i \in 1..Len(setQ)
               PROVE  \/ evSt'[setQ[i].gen] = "send"
                      \/ evSt'[setQ[i].gen] = "none" /\ setQ[i].gen = gen /\ phase' = "send"
    OBVIOUS
  <2>1. \/ evSt[setQ[i].gen] = "send"
        \/ evSt[setQ[i].gen] = "none" /\ setQ[i].gen = gen /\ phase = "send"
    BY DEF QueueInv
  <2>2. phase = "send" => phase' = "send"
    OBVIOUS
  <2>3. QED
    BY <1>4, <2>1, <2>2
<1>7. phase' \in {"fetch", "send"} => evSt'[gen'] = "none"
  <2> SUFFICES ASSUME phase' \in {"fetch", "send"} PROVE evSt'[gen] = "none"
    OBVIOUS
  <2>1. phase' = phase /\ evSt[gen] = "none"
    BY DEF QueueInv
  <2>2. gen # g
    BY <2>1
  <2>3. QED
    BY <1>2, <2>1, <2>2
<1>8. QED
  BY <1>5, <1>6, <1>7 DEF QueueInv

\* Entries of the queue are of Runs other than g when g's event goroutine
\* is neither sending nor unstarted.
LEMMA NotQueued ==
    ASSUME TypeInv, QueueInv, NEW g \in Gens, evSt[g] \notin {"send", "none"}
    PROVE  /\ \A i \in 1..Len(setQ) : setQ[i].gen # g /\ setQ[i].gen \in Gens
           /\ setQ \in Seq(Entry)
<1>1. setQ \in Seq(Entry)
  BY TypeSplit DEF TypeInv, TypeCore
<1>2. \A i \in 1..Len(setQ) : setQ[i].gen \in Gens
  <2> SUFFICES ASSUME NEW i \in 1..Len(setQ) PROVE setQ[i].gen \in Gens
    OBVIOUS
  <2>1. setQ[i] \in Entry
    BY <1>1, ElementOfSeq
  <2>2. QED
    BY <2>1 DEF Entry
<1>3. QED
  BY <1>1, <1>2 DEF QueueInv

LEMMA QueueFetch ==
    ASSUME TypeInv, QueueInv, FetchCurrentGuardianSet
    PROVE  QueueInv'
<1> DEFINE e == [idx |-> chainIdx, gen |-> gen]
<1>1. /\ phase = "fetch" /\ phase' = "send"
      /\ setQ' = Append(setQ, e)
      /\ evSt' = evSt /\ gen' = gen
  BY Zenon DEF FetchCurrentGuardianSet, evVars
<1>2. TypeCore
  BY TypeSplit DEF TypeInv
<1>3. setQ \in Seq(Entry) /\ e \in Entry /\ evSt[gen] = "none"
  BY <1>1, <1>2 DEF TypeCore, Entry, QueueInv
<1>4. \A i \in 1..Len(setQ) : evSt[setQ[i].gen] = "send"
  BY <1>1 DEF QueueInv
<1>5. \A i \in 1..Len(setQ) : setQ[i].gen # e.gen
  BY <1>3, <1>4
<1>6. /\ Len(Append(setQ, e)) = Len(setQ) + 1
      /\ \A i \in 1..Len(setQ) : Append(setQ, e)[i] = setQ[i]
      /\ Append(setQ, e)[Len(setQ) + 1] = e
      /\ Len(setQ) \in Nat
  BY <1>3, AppendProperties
<1>7. OneSendPerRun'
  BY <1>1, <1>3, <1>5, AppendDistinct DEF QueueInv, OneSendPerRun, DistinctGens
<1>8. \A i \in 1..Len(setQ') :
         \/ evSt'[setQ'[i].gen] = "send"
         \/ evSt'[setQ'[i].gen] = "none" /\ setQ'[i].gen = gen' /\ phase' = "send"
  BY <1>1, <1>3, <1>4, <1>6
<1>9. QED
  BY <1>1, <1>3, <1>7, <1>8 DEF QueueInv

LEMMA QueueGet ==
    ASSUME TypeInv, QueueInv, NEW g \in Gens, GetGuardianSet(g)
    PROVE  QueueInv'
<1> DEFINE e == [idx |-> evIdx[g], gen |-> g]
<1>1. /\ evSt[g] = "fetch"
      /\ setQ' = Append(setQ, e)
      /\ evSt' = [evSt EXCEPT ![g] = "send"]
      /\ phase' = phase /\ gen' = gen
  BY Zenon DEF GetGuardianSet
<1>2. /\ \A i \in 1..Len(setQ) : setQ[i].gen # g /\ setQ[i].gen \in Gens
      /\ setQ \in Seq(Entry)
  BY <1>1, NotQueued
<1>3. e \in Entry
  BY <1>1 DEF TypeInv, Fresh, Entry
<1>4. /\ Len(Append(setQ, e)) = Len(setQ) + 1
      /\ \A i \in 1..Len(setQ) : Append(setQ, e)[i] = setQ[i]
      /\ Append(setQ, e)[Len(setQ) + 1] = e
      /\ Len(setQ) \in Nat
  BY <1>2, <1>3, AppendProperties
<1>5. evSt \in [Gens -> EvStates] /\ gen \in Gens
  BY TypeSplit DEF TypeInv, TypeCore
<1>6. OneSendPerRun'
  BY <1>1, <1>2, <1>3, AppendDistinct DEF QueueInv, OneSendPerRun, DistinctGens
<1>7. \A i \in 1..Len(setQ') :
         \/ evSt'[setQ'[i].gen] = "send"
         \/ evSt'[setQ'[i].gen] = "none" /\ setQ'[i].gen = gen' /\ phase' = "send"
  <2> SUFFICES ASSUME NEW i \in 1..Len(setQ) + 1
               PROVE  \/ evSt'[setQ'[i].gen] = "send"
                      \/ evSt'[setQ'[i].gen] = "none" /\ setQ'[i].gen = gen
                         /\ phase = "send"
    BY <1>1, <1>4
  <2>1. CASE i = Len(setQ) + 1
    BY <1>1, <1>4, <1>5, <2>1
  <2>2. CASE i \in 1..Len(setQ)
    <3>1. setQ'[i] = setQ[i] /\ evSt'[setQ[i].gen] = evSt[setQ[i].gen]
      BY <1>1, <1>2, <1>4, <1>5, <2>2
    <3>2. QED
      BY <2>2, <3>1 DEF QueueInv
  <2>3. QED
    BY <1>4, <2>1, <2>2
<1>8. phase' \in {"fetch", "send"} => evSt'[gen'] = "none"
  <2> SUFFICES ASSUME phase \in {"fetch", "send"} PROVE evSt'[gen] = "none"
    BY <1>1
  <2>1. evSt[gen] = "none"
    BY DEF QueueInv
  <2>2. QED
    BY <1>1, <1>5, <2>1
<1>9. QED
  BY <1>6, <1>7, <1>8 DEF QueueInv

LEMMA QueueReceive ==
    ASSUME TypeInv, QueueInv, ReceiveGuardianSet
    PROVE  QueueInv'
<1> DEFINE h == Head(setQ)
<1>1. /\ setQ # << >>
      /\ phase' = IF evSt[h.gen] = "none" THEN "running" ELSE phase
      /\ evSt' = [evSt EXCEPT ![h.gen] = "idle"]
      /\ setQ' = Tail(setQ)
      /\ gen' = gen
  BY Zenon DEF ReceiveGuardianSet, subVars
<1>2. setQ \in Seq(Entry) /\ evSt \in [Gens -> EvStates] /\ gen \in Gens
  BY TypeSplit DEF TypeInv, TypeCore
<1>3. /\ DistinctGens(Tail(setQ))
      /\ \A i \in 1..Len(Tail(setQ)) : Tail(setQ)[i].gen # h.gen
  BY <1>1, <1>2, TailDistinct DEF QueueInv, OneSendPerRun, DistinctGens
<1>4. /\ Len(Tail(setQ)) = Len(setQ) - 1
      /\ \A i \in 1..Len(Tail(setQ)) : Tail(setQ)[i] = setQ[i + 1]
      /\ h = setQ[1] /\ Len(setQ) \in Nat \ {0}
  BY <1>1, <1>2, HeadTailProperties, EmptySeq, LenProperties
<1>5. \A i \in 1..Len(setQ) : setQ[i].gen \in Gens
  <2> SUFFICES ASSUME NEW i \in 1..Len(setQ) PROVE setQ[i].gen \in Gens
    OBVIOUS
  <2>1. setQ[i] \in Entry
    BY <1>2, ElementOfSeq
  <2>2. QED
    BY <2>1 DEF Entry
<1>6. h.gen \in Gens
  BY <1>4, <1>5
<1>7. evSt[h.gen] = "none" => h.gen = gen
  BY <1>4 DEF QueueInv
<1>8. OneSendPerRun'
  BY <1>1, <1>3 DEF OneSendPerRun, DistinctGens
<1>9. \A i \in 1..Len(setQ') :
         \/ evSt'[setQ'[i].gen] = "send"
         \/ evSt'[setQ'[i].gen] = "none" /\ setQ'[i].gen = gen' /\ phase' = "send"
  <2> SUFFICES ASSUME NEW i \in 1..Len(Tail(setQ))
               PROVE  \/ evSt'[setQ[i + 1].gen] = "send"
                      \/ evSt'[setQ[i + 1].gen] = "none" /\ setQ[i + 1].gen = gen
                         /\ phase' = "send"
    BY <1>1, <1>4
  <2>1. i + 1 \in 1..Len(setQ) /\ setQ[i + 1].gen # h.gen
    BY <1>3, <1>4
  <2>2. evSt'[setQ[i + 1].gen] = evSt[setQ[i + 1].gen]
    BY <1>1, <1>2, <1>5, <2>1
  <2>3. \/ evSt[setQ[i + 1].gen] = "send"
        \/ evSt[setQ[i + 1].gen] = "none" /\ setQ[i + 1].gen = gen /\ phase = "send"
    BY <2>1 DEF QueueInv
  <2>4. setQ[i + 1].gen = gen => phase' = phase
    BY <1>1, <1>7, <2>1
  <2>5. QED
    BY <2>2, <2>3, <2>4
<1>10. phase' \in {"fetch", "send"} => evSt'[gen'] = "none"
  <2> SUFFICES ASSUME phase' \in {"fetch", "send"} PROVE evSt'[gen] = "none"
    BY <1>1
  <2>1. evSt[h.gen] # "none" /\ phase' = phase
    BY <1>1
  <2>2. evSt[gen] = "none"
    BY <2>1 DEF QueueInv
  <2>3. QED
    BY <1>1, <1>2, <1>6, <2>1, <2>2
<1>11. QED
  BY <1>8, <1>9, <1>10 DEF QueueInv

LEMMA QueueRestart ==
    ASSUME TypeInv, QueueInv, Restart
    PROVE  QueueInv'
<1>1. /\ phase = "down" /\ phase' = "fetch" /\ gen' = gen + 1
      /\ evSt' = evSt /\ setQ' = setQ
  BY Zenon DEF Restart, evVars
<1>2. gen' \in Gens /\ gen \in Gens
  BY RestartStep, TypeSplit, TypeSplitPrime DEF TypeInv, TypeCore
<1>3. evSt[gen + 1] = "none"
  <2>1. gen + 1 \in Gens /\ gen + 1 > gen
    BY <1>1, <1>2 DEF Gens
  <2>2. QED
    BY <2>1 DEF TypeInv, Fresh
<1>4. \A i \in 1..Len(setQ) : evSt[setQ[i].gen] = "send"
  BY <1>1 DEF QueueInv
<1>5. QED
  BY <1>1, <1>3, <1>4 DEF QueueInv, OneSendPerRun

LEMMA QueueRpc ==
    ASSUME QueueInv, RpcFailure
    PROVE  QueueInv'
<1>1. /\ phase \in {"fetch", "running"} /\ phase' = "down"
      /\ evSt' = evSt /\ setQ' = setQ /\ gen' = gen
  BY Zenon DEF RpcFailure, evVars
<1>2. \A i \in 1..Len(setQ) : evSt[setQ[i].gen] = "send"
  BY <1>1 DEF QueueInv
<1>3. QED
  BY <1>1, <1>2 DEF QueueInv, OneSendPerRun

LEMMA QueueRunStep ==
    ASSUME TypeInv, QueueInv, NEW g \in Gens, RunStep(g)
    PROVE  QueueInv'
<1>1. CASE WaitForLogsCall(g) \/ WaitForLogsReturn(g) \/ DeliverLog(g)
           \/ UnpackFailure(g)
  <2>1. evSt' = evSt /\ setQ' = setQ /\ phase' = phase /\ gen' = gen
    BY <1>1, Zenon DEF WaitForLogsCall, WaitForLogsReturn, DeliverLog,
                      UnpackFailure, evVars
  <2>2. QED
    BY <2>1, QueueKept
<1>2. CASE HandleSubscriptionError(g)
  <2>1. /\ evSt[g] \in {"idle", "fetch"} /\ evSt' = [evSt EXCEPT ![g] = "exit"]
        /\ setQ' = setQ /\ gen' = gen
        /\ phase' = phase \/ (phase' = "down" /\ phase = "running")
    BY <1>2, Zenon DEF HandleSubscriptionError, EndsRun, subVars
  <2>2. QED
    BY <2>1, QueueLeave
<1>3. CASE Quit(g)
  <2>1. /\ evSt[g] \in {"idle", "fetch"} /\ evSt' = [evSt EXCEPT ![g] = "exit"]
        /\ setQ' = setQ /\ gen' = gen
        /\ phase' = phase \/ (phase' = "down" /\ phase = "running")
    BY <1>3, Zenon DEF Quit, subVars
  <2>2. QED
    BY <2>1, QueueLeave
<1>4. CASE TakeGuardianSetEvent(g)
  <2>1. /\ evSt[g] \in {"idle", "fetch"} /\ evSt' = [evSt EXCEPT ![g] = "fetch"]
        /\ setQ' = setQ /\ gen' = gen
        /\ phase' = phase \/ (phase' = "down" /\ phase = "running")
    BY <1>4, Zenon DEF TakeGuardianSetEvent
  <2>2. QED
    BY <2>1, QueueLeave
<1>5. CASE GetGuardianSet(g)
  BY <1>5, QueueGet
<1>6. CASE GetGuardianSetFailure(g)
  <2>1. /\ evSt[g] \in {"idle", "fetch"} /\ evSt' = [evSt EXCEPT ![g] = "exit"]
        /\ setQ' = setQ /\ gen' = gen
        /\ phase' = phase \/ (phase' = "down" /\ phase = "running")
    BY <1>6, Zenon DEF GetGuardianSetFailure, EndsRun, subVars
  <2>2. QED
    BY <2>1, QueueLeave
<1>7. QED
  BY <1>1, <1>2, <1>3, <1>4, <1>5, <1>6 DEF RunStep

LEMMA QueueStep == TypeInv /\ QueueInv /\ [Next]_vars => QueueInv'
<1> SUFFICES ASSUME TypeInv, QueueInv, [Next]_vars PROVE QueueInv'
  OBVIOUS
<1>1. CASE Rotate
  <2>1. evSt' = evSt /\ setQ' = setQ /\ phase' = phase /\ gen' = gen
    BY <1>1, Zenon DEF Rotate, evVars
  <2>2. QED
    BY <2>1, QueueKept
<1>2. CASE FetchCurrentGuardianSet
  BY <1>2, QueueFetch
<1>3. CASE \E g \in Gens : RunStep(g)
  BY <1>3, QueueRunStep
<1>4. CASE RpcFailure
  BY <1>4, QueueRpc
<1>5. CASE Restart
  BY <1>5, QueueRestart
<1>6. CASE ReceiveGuardianSet
  BY <1>6, QueueReceive
<1>7. CASE UNCHANGED vars
  <2>1. evSt' = evSt /\ setQ' = setQ /\ phase' = phase /\ gen' = gen
    BY <1>7 DEF vars
  <2>2. QED
    BY <2>1, QueueKept
<1>8. QED
  BY <1>1, <1>2, <1>3, <1>4, <1>5, <1>6, <1>7 DEF Next

\* Every Run puts at most one guardian set on setChan at a time, for every
\* MaxIndex and MaxCrashes: the initial send of Run (watcher.go:141-151) is
\* taken by the processor before that Run's event goroutine starts, and an
\* event goroutine of a Run, current or ended, blocks on its own send
\* (watcher.go:224-227) until the processor takes it. What it does not rule
\* out, SetQOrderedByRun shows: the sends of two Runs in either order.
THEOREM OneSendPerRunCorrect == Spec => []OneSendPerRun
<1>1. Init => TypeInv /\ QueueInv
  BY TypeInit, QueueInit
<1>2. TypeInv /\ QueueInv /\ [Next]_vars => TypeInv' /\ QueueInv'
  BY TypeStep, QueueStep
<1>3. QueueInv => OneSendPerRun
  BY DEF QueueInv
<1>4. QED
  BY <1>1, <1>2, <1>3, PTL DEF Spec

=============================================================================
