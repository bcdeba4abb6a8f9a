--------------------------- MODULE DevnetBootstrap ---------------------------
(***************************************************************************)
(* The devnet guardian set bootstrap of the processor and the Qtum         *)
(* submission it starts.                                                   *)
(*                                                                         *)
(* The processor's Run loop (processor.go:159-186) takes a guardian set    *)
(* from setC, which the watchers of every chain feed, and calls            *)
(* checkDevModeGuardianSetUpdate (processor.go:188-254).  In devnet mode,  *)
(* a set whose key count is not devnetNumGuardians makes it submit the     *)
(* devnet guardian set VAA (index 1) to Ethereum; if that fails Run        *)
(* returns the error and the supervisor starts it again.  After a success  *)
(* it starts a goroutine that calls qtum.SubmitVAA until one call returns  *)
(* no error, and blocks sending the VAA on vaaC.                           *)
(*                                                                         *)
(* One call of qtum.SubmitVAA (sender.go:15-31, abi.go:67-94) lists the    *)
(* fee payer's unspent outputs with at least 10 confirmations (GatherUTXOs,*)
(* utxo.go:15-43), estimates the gas with callcontract, which fails when   *)
(* the contract reverts (EstimateGas, base.go:148-172), selects inputs and *)
(* builds and signs the transaction (base.go:51-98, module FeeSelection    *)
(* checks the amounts), and sends it (SendRawTx, base.go:41-49).  It takes *)
(* a context and uses it only for logging, and the loop never looks at     *)
(* ctx: the goroutine outlives the Run that started it.                    *)
(*                                                                         *)
(* Amounts are abstracted away: every output covers the fee.  The Qtum     *)
(* contract applies the VAA once and reverts every later submitVAA of it.  *)
(* Ethereum's contract and devnet.SubmitVAA are the environment.           *)
(***************************************************************************)
EXTENDS Integers, FiniteSets

CONSTANTS
    DevnetNumGuardians, \* devnetNumGuardians: keys of the devnet guardian set
    MaxOutputs,         \* bound: outputs the fee payer ever holds
    MaxRpcFailures,     \* bound: Qtum RPC calls that return an error
    MaxLostReplies      \* bound: sendrawtransaction replies lost after the node accepted

ASSUME DevnetAssumption ==
    /\ DevnetNumGuardians \in Nat \ {0, 1}
    /\ MaxOutputs \in Nat \ {0}
    /\ MaxRpcFailures \in Nat
    /\ MaxLostReplies \in Nat

None == 0
Outputs == 1..MaxOutputs
\* Guardian set indices: 0 the genesis set of one key, 1 the devnet set.
Indices == {0, 1}
Keys(i) == IF i = 0 THEN 1 ELSE DevnetNumGuardians

\* The state of an output of the fee payer.
OutputStates == {"absent", "immature", "mature", "mempool", "spent"}
\* Where the Qtum submission goroutine is in its loop.
SubStates == {"none", "list", "estimate", "send", "done"}

VARIABLES
    ethIdx,         \* Ethereum: guardian set index of the contract
    qtumIdx,        \* Qtum: guardian set index of the contract
    proc,           \* processor Run: "running", blocked on vaaC ("sending"), or returned ("down")
    procGs,         \* processor: index of p.gs, or -1 before the first set
    sub,            \* the Qtum submission goroutine
    listed,         \* its current attempt: the outputs ListUnspent returned
    picked,         \* its current attempt: the output spent by the transaction, or None
    utxo,           \* the fee payer's outputs
    rpcFails,       \* Qtum RPC errors so far
    lostReplies     \* lost sendrawtransaction replies so far

vars == <<ethIdx, qtumIdx, proc, procGs, sub, listed, picked, utxo, rpcFails,
          lostReplies>>
procVars == <<proc, procGs>>
subVars == <<sub, listed, picked>>

-----------------------------------------------------------------------------
(* The processor (processor.go:159-254).                                   *)

\* Mutant: the Qtum goroutine is started before the Ethereum submission,
\* whatever its outcome.
ReceiveGuardianSetNoBail ==
    /\ proc = "running"
    /\ \E i \in {ethIdx, qtumIdx} :
          /\ procGs' = i
          /\ \/ /\ Keys(i) = DevnetNumGuardians
                /\ UNCHANGED <<ethIdx, proc, subVars>>
             \/ /\ Keys(i) # DevnetNumGuardians
                /\ sub = "none"
                /\ sub' = "list"
                /\ proc' = "down"
                /\ UNCHANGED <<ethIdx, listed, picked>>
             \/ /\ Keys(i) # DevnetNumGuardians
                /\ ethIdx = 0
                /\ ethIdx' = 1
                /\ sub' = "list"
                /\ proc' = "sending"
                /\ UNCHANGED <<listed, picked>>
    /\ UNCHANGED <<qtumIdx, utxo, rpcFails, lostReplies>>

\* go func() { for { ... qtum.SubmitVAA ... } }() (processor.go:229-246).
StartQtumSubmitter ==
    /\ sub' = "list"
    /\ UNCHANGED <<listed, picked>>

\* case p.gs = <-p.setC, then checkDevModeGuardianSetUpdate.  The set is the
\* current one of the chain whose watcher sent it.  With the expected key
\* count nothing more happens.  Otherwise the VAA goes to Ethereum: it
\* fails when Ethereum is down or already holds index 1, and Run returns
\* the error; it succeeds at most once, and then the Qtum goroutine starts
\* (qtumEnabled) and Run blocks sending the VAA on vaaC.
ReceiveGuardianSet ==
    /\ proc = "running"
    /\ \E i \in {ethIdx, qtumIdx} :
          /\ procGs' = i
          /\ \/ /\ Keys(i) = DevnetNumGuardians
                /\ UNCHANGED <<ethIdx, proc, subVars>>
             \/ /\ Keys(i) # DevnetNumGuardians
                /\ proc' = "down"
                /\ UNCHANGED <<ethIdx, subVars>>
             \/ /\ Keys(i) # DevnetNumGuardians
                /\ ethIdx = 0
                /\ ethIdx' = 1
                /\ StartQtumSubmitter
                /\ proc' = "sending"
    /\ UNCHANGED <<qtumIdx, utxo, rpcFails, lostReplies>>

\* p.vaaC <- v (processor.go:249) completes.
SendVaa ==
    /\ proc = "sending"
    /\ proc' = "running"
    /\ UNCHANGED <<ethIdx, qtumIdx, procGs, subVars, utxo, rpcFails, lostReplies>>

\* The supervisor calls Run again; the goroutine started before goes on.
RestartProcessor ==
    /\ proc = "down"
    /\ proc' = "running"
    /\ UNCHANGED <<ethIdx, qtumIdx, procGs, subVars, utxo, rpcFails, lostReplies>>

-----------------------------------------------------------------------------
(* The Qtum submission goroutine (processor.go:231-245).                   *)

\* Mutant: the goroutine stops after an error, as with break.
RpcErrorGiveUp ==
    /\ rpcFails < MaxRpcFailures
    /\ rpcFails' = rpcFails + 1
    /\ sub' = "done"
    /\ UNCHANGED <<listed, picked>>

\* An RPC of the attempt returns an error: the goroutine sleeps and retries.
RpcError ==
    /\ rpcFails < MaxRpcFailures
    /\ rpcFails' = rpcFails + 1
    /\ sub' = "list"
    /\ UNCHANGED <<listed, picked>>

\* A failed attempt: the goroutine logs, sleeps a second and starts again.
Retry ==
    /\ sub' = "list"
    /\ UNCHANGED <<listed, picked, rpcFails>>

\* NewAbiQtum, then GatherUTXOs: listunspent with minconf 10 returns the
\* outputs that are mature and not spent, in the mempool or on chain.
ListUnspent ==
    /\ sub = "list"
    /\ \/ RpcError
       \/ /\ listed' = {o \in Outputs : utxo[o] = "mature"}
          /\ sub' = "estimate"
          /\ UNCHANGED <<picked, rpcFails>>
    /\ UNCHANGED <<ethIdx, qtumIdx, procVars, utxo, lostReplies>>

\* callcontract reports Revert (base.go:163-165): the contract already
\* holds the set, so submitVAA of the same VAA fails.
Reverts == qtumIdx = 1

\* Mutant: getRequiredUtxos returns an empty selection without its error
\* (utxo.go:60 dropped), and the transaction is built with no input.
EstimateGasNoCover ==
    /\ sub = "estimate"
    /\ \/ RpcError
       \/ /\ Reverts
          /\ Retry
       \/ /\ ~Reverts
          /\ listed = {}
          /\ picked' = None
          /\ sub' = "send"
          /\ UNCHANGED <<listed, rpcFails>>
       \/ /\ ~Reverts
          /\ \E o \in listed : picked' = o
          /\ sub' = "send"
          /\ UNCHANGED <<listed, rpcFails>>
    /\ UNCHANGED <<ethIdx, qtumIdx, procVars, utxo, lostReplies>>

\* The rest of SentContractCallFromAddress and SignTx: callcontract (an
\* error, or a revert once the contract holds the set), getRequiredUtxos
\* (an error on an empty list), then createrawtransaction.
EstimateGas ==
    /\ sub = "estimate"
    /\ \/ RpcError
       \/ /\ Reverts
          /\ Retry
       \/ /\ ~Reverts
          /\ listed = {}
          /\ Retry
       \/ /\ ~Reverts
          /\ \E o \in listed : picked' = o
          /\ sub' = "send"
          /\ UNCHANGED <<listed, rpcFails>>
    /\ UNCHANGED <<ethIdx, qtumIdx, procVars, utxo, lostReplies>>

\* sendrawtransaction.  The node accepts the transaction into its mempool;
\* the reply reaches the goroutine, which stops, or is lost, and the
\* goroutine sees an error and retries.  Or the call fails outright.
SendRawTx ==
    /\ sub = "send"
    /\ \/ /\ RpcError
          /\ UNCHANGED <<utxo, lostReplies>>
       \/ /\ utxo' = [utxo EXCEPT ![picked] = "mempool"]
          /\ \/ /\ sub' = "done"
                /\ UNCHANGED <<listed, picked, rpcFails, lostReplies>>
             \/ /\ lostReplies < MaxLostReplies
                /\ lostReplies' = lostReplies + 1
                /\ Retry
    /\ UNCHANGED <<ethIdx, qtumIdx, procVars>>

\* One step of a call of qtum.SubmitVAA (sender.go:15-31): after Marshal
\* and NewAbiQtum, AbiQtum.SubmitVAA runs the three RPC steps above.
SubmitVAA == ListUnspent \/ EstimateGas \/ SendRawTx

-----------------------------------------------------------------------------
(* The Qtum chain.                                                         *)

\* A block includes a mempool transaction of the fee payer: its input is
\* spent, its change output is created, and the contract applies the VAA
\* if it does not hold the set yet (a later one reverts, fee spent).
Mine ==
    \E o \in Outputs :
       /\ utxo[o] = "mempool"
       /\ LET fresh == {c \in Outputs : utxo[c] = "absent"}
          IN  utxo' = [c \in Outputs |->
                         IF c = o THEN "spent"
                         ELSE IF c \in fresh /\ \A f \in fresh : c <= f THEN "immature"
                         ELSE utxo[c]]
       /\ qtumIdx' = 1
       /\ UNCHANGED <<ethIdx, procVars, subVars, rpcFails, lostReplies>>

\* A change output reaches 10 confirmations.
Mature ==
    \E o \in Outputs :
       /\ utxo[o] = "immature"
       /\ utxo' = [utxo EXCEPT ![o] = "mature"]
       /\ UNCHANGED <<ethIdx, qtumIdx, procVars, subVars, rpcFails, lostReplies>>

-----------------------------------------------------------------------------

Init ==
    /\ ethIdx = 0
    /\ qtumIdx = 0
    /\ proc = "running"
    /\ procGs = -1
    /\ sub = "none"
    /\ listed = {}
    /\ picked = None
    /\ utxo = [o \in Outputs |-> IF o = 1 THEN "mature" ELSE "absent"]
    /\ rpcFails = 0
    /\ lostReplies = 0

Next ==
    \/ ReceiveGuardianSet
    \/ SendVaa
    \/ RestartProcessor
    \/ SubmitVAA
    \/ Mine
    \/ Mature

Spec == Init /\ [][Next]_vars

\* The goroutine and the vaaC reader are scheduled, the supervisor restarts
\* Run, and the devnet chain keeps producing blocks.  Which sets the
\* watchers deliver is the environment.
Fairness ==
    /\ WF_vars(ListUnspent)
    /\ WF_vars(EstimateGas)
    /\ WF_vars(SendRawTx)
    /\ WF_vars(SendVaa)
    /\ WF_vars(RestartProcessor)
    /\ WF_vars(Mine)
    /\ WF_vars(Mature)

FairSpec == Spec /\ Fairness

-----------------------------------------------------------------------------
(* Properties.                                                             *)

\* Every variable holds a value of its type, and the goroutine sends a
\* transaction only with an input picked from the listed outputs: the
\* empty-list error of getRequiredUtxos (utxo.go:60) sends it back to
\* ListUnspent while its only output waits in the mempool.
TypeOK ==
    /\ ethIdx \in Indices
    /\ qtumIdx \in Indices
    /\ proc \in {"running", "sending", "down"}
    /\ procGs \in Indices \cup {-1}
    /\ sub \in SubStates
    /\ listed \in SUBSET Outputs
    /\ picked \in Outputs \cup {None}
    /\ utxo \in [Outputs -> OutputStates]
    /\ rpcFails \in 0..MaxRpcFailures
    /\ lostReplies \in 0..MaxLostReplies
    /\ sub = "send" => picked \in Outputs

\* The Qtum contract never holds the devnet set before Ethereum does: the
\* Qtum goroutine starts only after the Ethereum submission succeeded
\* (processor.go:200-206, 229), which "sequences devnet creation".
QtumFollowsEth ==
    qtumIdx = 1 => ethIdx = 1

\* Once Ethereum holds the devnet set, Qtum eventually holds it too: the
\* goroutine retries every failed attempt (processor.go:235-240), and a
\* transaction whose reply was lost is still mined.
QtumEventuallyUpdated ==
    (ethIdx = 1) ~> (qtumIdx = 1)

\* The Qtum submission goroutine eventually ends (spec 9: a detached
\* retrying task with its own cancellation scope).
SubmitterTerminates ==
    (sub = "list") ~> (sub = "done")

=============================================================================
