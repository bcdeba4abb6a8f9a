------------------------ MODULE DevnetBootstrapProofs ------------------------
(***************************************************************************)
(* Proofs about the devnet guardian-set bootstrap (DevnetBootstrap), for   *)
(* every number of devnet guardians and every bound: the state stays well  *)
(* typed, and the Qtum contract never gets the devnet set ahead of         *)
(* Ethereum.                                                               *)
(***************************************************************************)
EXTENDS DevnetBootstrap, TLAPS

\* TypeOK is inductive as it stands: its last conjunct, an output picked
\* whenever the goroutine sends, is what the other steps need.
TypeInv == TypeOK

\* Before the Ethereum submission has succeeded nothing has happened on the
\* Qtum side: the goroutine is not started (processor.go:200-206 return
\* before line 229), no transaction of the fee payer is in the mempool, and
\* the contract holds the genesis set.
EthGate ==
    ethIdx = 0 =>
       /\ sub = "none"
       /\ qtumIdx = 0
       /\ \A o \in Outputs : utxo[o] # "mempool"

SeqInv == TypeOK /\ EthGate

USE DevnetAssumption

-----------------------------------------------------------------------------
(* Type correctness.                                                       *)

LEMMA TypeInit == Init => TypeInv
BY DEF Init, TypeInv, TypeOK, Indices, SubStates, OutputStates,
       Outputs, None

LEMMA TypeStep == TypeInv /\ [Next]_vars => TypeInv'
<1> SUFFICES ASSUME TypeInv, [Next]_vars PROVE TypeInv'
  OBVIOUS
<1> USE DEF TypeInv, TypeOK, Indices, SubStates, OutputStates,
            None, Outputs
<1>1. CASE ReceiveGuardianSet
  BY <1>1 DEF ReceiveGuardianSet, StartQtumSubmitter, subVars
<1>2. CASE SendVaa
  BY <1>2 DEF SendVaa, subVars
<1>3. CASE RestartProcessor
  BY <1>3 DEF RestartProcessor, subVars
\* The error branch shared by the three RPC steps.
<1>0. ASSUME RpcError,
             UNCHANGED <<ethIdx, qtumIdx, procVars, utxo, lostReplies>>
      PROVE  TypeInv'
  <2>1. rpcFails' \in 0..MaxRpcFailures
    BY <1>0 DEF RpcError
  <2>2. sub' = "list" /\ UNCHANGED <<listed, picked>>
    BY <1>0 DEF RpcError
  <2>3. QED
    BY <1>0, <2>1, <2>2 DEF procVars
<1>4. CASE ListUnspent
  <2>1. CASE RpcError
    BY <1>4, <2>1, <1>0 DEF ListUnspent
  <2>2. CASE /\ listed' = {o \in Outputs : utxo[o] = "mature"}
             /\ sub' = "estimate"
             /\ UNCHANGED <<picked, rpcFails>>
    BY <1>4, <2>2 DEF ListUnspent, procVars
  <2>3. QED
    BY <1>4, <2>1, <2>2 DEF ListUnspent
<1>5. CASE EstimateGas
  <2>1. CASE RpcError
    BY <1>5, <2>1, <1>0 DEF EstimateGas
  <2>2. CASE Retry
    BY <1>5, <2>2 DEF EstimateGas, Retry, procVars
  <2>3. CASE /\ \E o \in listed : picked' = o
             /\ sub' = "send"
             /\ UNCHANGED <<listed, rpcFails>>
    BY <1>5, <2>3 DEF EstimateGas, procVars
  <2>4. QED
    BY <1>5, <2>1, <2>2, <2>3 DEF EstimateGas
<1>6. CASE SendRawTx
  <2>1. CASE RpcError /\ UNCHANGED <<utxo, lostReplies>>
    BY <1>6, <2>1, <1>0 DEF SendRawTx
  <2>2. CASE /\ utxo' = [utxo EXCEPT ![picked] = "mempool"]
             /\ \/ /\ sub' = "done"
                   /\ UNCHANGED <<listed, picked, rpcFails, lostReplies>>
                \/ /\ lostReplies < MaxLostReplies
                   /\ lostReplies' = lostReplies + 1
                   /\ Retry
    <3>1. utxo' \in [Outputs -> OutputStates]
      BY <1>6, <2>2 DEF SendRawTx
    <3>2. UNCHANGED <<ethIdx, qtumIdx, proc, procGs>>
      BY <1>6 DEF SendRawTx, procVars
    <3>3. CASE sub' = "done" /\ UNCHANGED <<listed, picked, rpcFails, lostReplies>>
      BY <3>1, <3>2, <3>3
    <3>4. CASE /\ lostReplies < MaxLostReplies
               /\ lostReplies' = lostReplies + 1
               /\ Retry
      <4>1. lostReplies' \in 0..MaxLostReplies
        BY <3>4
      <4>2. QED
        BY <3>1, <3>2, <3>4, <4>1 DEF Retry
    <3>5. QED
      BY <2>2, <3>3, <3>4
  <2>3. QED
    BY <1>6, <2>1, <2>2 DEF SendRawTx
<1>7. CASE Mine
  BY <1>7 DEF Mine, procVars, subVars
<1>8. CASE Mature
  BY <1>8 DEF Mature, procVars, subVars
<1>9. CASE UNCHANGED vars
  BY <1>9 DEF vars
<1>10. QED
  BY <1>1, <1>2, <1>3, <1>4, <1>5, <1>6, <1>7, <1>8, <1>9 DEF Next, SubmitVAA

\* Every reachable state of the bootstrap is well typed; in particular the
\* goroutine's RPC errors and lost replies stay within their bounds, and it
\* sends a transaction only with an input picked (utxo.go:60).
THEOREM DevnetTypeCorrect == Spec => []TypeOK
<1>1. Spec => []TypeInv
  BY TypeInit, TypeStep, PTL DEF Spec
<1>2. QED
  BY <1>1, PTL DEF TypeInv

-----------------------------------------------------------------------------
(* The Qtum contract follows Ethereum.                                     *)

LEMMA GateInit == Init => SeqInv
BY TypeInit DEF Init, SeqInv, EthGate, TypeInv

LEMMA GateStep == SeqInv /\ TypeInv /\ [Next]_vars => EthGate'
<1> SUFFICES ASSUME SeqInv, TypeInv, [Next]_vars, ethIdx' = 0
             PROVE  /\ sub' = "none"
                    /\ qtumIdx' = 0
                    /\ \A o \in Outputs : utxo'[o] # "mempool"
  BY DEF EthGate
<1> USE DEF SeqInv, TypeInv, TypeOK, Indices
\* The Ethereum index only grows, so the pre-state is gated too.
<1>0. /\ ethIdx = 0
      /\ sub = "none"
      /\ qtumIdx = 0
      /\ \A o \in Outputs : utxo[o] # "mempool"
  <2>1. ethIdx = 0
    BY DEF Next, ReceiveGuardianSet, SendVaa, RestartProcessor, SubmitVAA,
           ListUnspent, EstimateGas, SendRawTx, Mine, Mature, vars
  <2>2. QED
    BY <2>1 DEF EthGate
<1>1. CASE ReceiveGuardianSet
  BY <1>0, <1>1 DEF ReceiveGuardianSet, StartQtumSubmitter, subVars
<1>2. CASE SendVaa
  BY <1>0, <1>2 DEF SendVaa, subVars
<1>3. CASE RestartProcessor
  BY <1>0, <1>3 DEF RestartProcessor, subVars
<1>4. CASE SubmitVAA
  BY <1>0, <1>4 DEF SubmitVAA, ListUnspent, EstimateGas, SendRawTx
<1>5. CASE Mine
  BY <1>0, <1>5 DEF Mine
<1>6. CASE Mature
  <2>1. PICK o \in Outputs : /\ utxo[o] = "immature"
                             /\ utxo' = [utxo EXCEPT ![o] = "mature"]
                             /\ UNCHANGED <<ethIdx, qtumIdx, procVars,
                                            subVars, rpcFails, lostReplies>>
    BY <1>6 DEF Mature
  <2>2. QED
    BY <1>0, <2>1 DEF subVars
<1>7. CASE UNCHANGED vars
  BY <1>0, <1>7 DEF vars
<1>8. QED
  BY <1>1, <1>2, <1>3, <1>4, <1>5, <1>6, <1>7 DEF Next

\* The Qtum contract never holds the devnet set before Ethereum does
\* (processor.go:200-206 bail before the Qtum goroutine starts at 229), for
\* every number of devnet guardians and every bound.
THEOREM QtumFollowsEthCorrect == Spec => []QtumFollowsEth
<1>1. Init => SeqInv /\ TypeInv
  BY GateInit, TypeInit
<1>2. SeqInv /\ TypeInv /\ [Next]_vars => (SeqInv /\ TypeInv)'
  BY GateStep, TypeStep DEF SeqInv, TypeInv
<1>3. SeqInv => QtumFollowsEth
  BY DEF SeqInv, EthGate, QtumFollowsEth, TypeOK, Indices
<1>4. QED
  BY <1>1, <1>2, <1>3, PTL DEF Spec

=============================================================================
