---------------------------- MODULE FeeSelection ----------------------------
(***************************************************************************)
(* How the Qtum fee payer funds a contract call (SentContractCallFromAddress, *)
(* src/bridge/pkg/qtum/base/base.go:51-98): it lists the payer's unspent  *)
(* outputs with at least 10 confirmations (GatherUTXOs, utxo.go:15-43),    *)
(* estimates the gas (EstimateGas, base.go:148-172), takes unspent outputs *)
(* in list order until their value covers gasLimit * gasPrice              *)
(* (getRequiredUtxos, utxo.go:45-61) and returns the rest as change        *)
(* (calculateChange, base.go:203-208).  Every call of SubmitVAA            *)
(* (sender.go:15-31, abi.go:67-94) goes through it.                        *)
(*                                                                         *)
(* Amounts are whole satoshis (the code multiplies QTUM amounts by         *)
(* qtumPrecision = 1e8 before it compares them), scaled down to small      *)
(* numbers; the gas price and the safety margin added to the estimate are  *)
(* constants.                                                              *)
(***************************************************************************)
EXTENDS Integers, Sequences

CONSTANTS
    Amounts,        \* values an unspent output may hold
    MaxUtxos,       \* bound: length of the list ListUnspent returns
    GasUsed,        \* gas amounts callcontract may report
    GasMargin,      \* the 5000 added to the estimate (base.go:169)
    GasPrice        \* defaultGasPrice (base.go:21)

ASSUME FeeAssumption ==
    /\ Amounts \subseteq Nat
    /\ MaxUtxos \in Nat
    /\ GasUsed \subseteq Nat
    /\ GasMargin \in Nat \ {0}
    /\ GasPrice \in Nat \ {0}

\* What ListUnspent may return: any list of outputs of the given values.
UnspentLists == UNION {[1..n -> Amounts] : n \in 0..MaxUtxos}

\* Outcomes of a call.
Outcomes == {"idle", "ok", "rpcError", "revert", "insufficientUtxos",
             "insufficientFunds"}

VARIABLES
    unspent,        \* the list GatherUTXOs returned to the last call
    needed,         \* neededBalance of the last call
    inputs,         \* number of outputs the last call spends (a prefix of unspent)
    usedBalance,    \* their total value
    change,         \* the change returned to the payer
    outcome         \* how the last call ended

vars == <<unspent, needed, inputs, usedBalance, change, outcome>>

-----------------------------------------------------------------------------

\* Total value of the first k outputs of list s.
PrefixSum(s, k) ==
    LET sum[i \in 0..k] == IF i = 0 THEN 0 ELSE sum[i - 1] + s[i]
    IN  sum[k]

\* calculateNeededAmount (base.go:199-201) with amount 0.
calculateNeededAmount(gasLimit) == gasLimit * GasPrice

\* Mutant: the loop stops only once the balance exceeds the amount.
getRequiredUtxosStrict(list, amount) ==
    LET loop[i \in 1..Len(list) + 1] ==
            IF i > Len(list) THEN [err |-> TRUE, n |-> 0, balance |-> 0]
            ELSE IF PrefixSum(list, i) > amount
                 THEN [err |-> FALSE, n |-> i, balance |-> PrefixSum(list, i)]
                 ELSE loop[i + 1]
    IN  loop[1]

\* getRequiredUtxos (utxo.go:45-61): add outputs in list order and return
\* as soon as the balance reaches the amount; an error if the list runs out.
getRequiredUtxos(list, amount) ==
    LET loop[i \in 1..Len(list) + 1] ==
            IF i > Len(list) THEN [err |-> TRUE, n |-> 0, balance |-> 0]
            ELSE IF PrefixSum(list, i) >= amount
                 THEN [err |-> FALSE, n |-> i, balance |-> PrefixSum(list, i)]
                 ELSE loop[i + 1]
    IN  loop[1]

\* Mutant: the subtraction the wrong way round.
calculateChangeSwapped(balance, amount) ==
    IF balance < amount THEN [err |-> TRUE, value |-> 0]
                        ELSE [err |-> FALSE, value |-> amount - balance]

\* calculateChange (base.go:203-208).
calculateChange(balance, amount) ==
    IF balance < amount THEN [err |-> TRUE, value |-> 0]
                        ELSE [err |-> FALSE, value |-> balance - amount]

\* One call of SentContractCallFromAddress, from its first RPC to the raw
\* transaction, with every early return: ListUnspent fails; callcontract
\* fails or reverts; the outputs do not cover the fee; the change would be
\* negative.
SentContractCallFromAddress ==
    \/ /\ outcome' = "rpcError"
       /\ UNCHANGED <<unspent, needed, inputs, usedBalance, change>>
    \/ \E list \in UnspentLists :
          /\ unspent' = list
          /\ \/ /\ outcome' = "revert"
                /\ UNCHANGED <<needed, inputs, usedBalance, change>>
             \/ \E g \in GasUsed :
                   LET amount == calculateNeededAmount(g + GasMargin)
                       sel    == getRequiredUtxos(list, amount)
                       chg    == calculateChange(sel.balance, amount)
                   IN  /\ needed' = amount
                       /\ IF sel.err
                            THEN /\ outcome' = "insufficientUtxos"
                                 /\ UNCHANGED <<inputs, usedBalance, change>>
                          ELSE IF chg.err
                            THEN /\ outcome' = "insufficientFunds"
                                 /\ UNCHANGED <<inputs, usedBalance, change>>
                          ELSE /\ outcome' = "ok"
                               /\ inputs' = sel.n
                               /\ usedBalance' = sel.balance
                               /\ change' = chg.value

Init ==
    /\ unspent = << >>
    /\ needed = 0
    /\ inputs = 0
    /\ usedBalance = 0
    /\ change = 0
    /\ outcome = "idle"

\* The qtum submission goroutine of checkDevModeGuardianSetUpdate retries
\* SubmitVAA until it succeeds (processor.go:230-243): calls repeat.
Next == SentContractCallFromAddress

Spec == Init /\ [][Next]_vars

-----------------------------------------------------------------------------
(* Properties.                                                             *)

\* Every variable holds a value of its type; the change is never negative.
TypeOK ==
    /\ unspent \in UnspentLists
    /\ needed \in Nat
    /\ inputs \in 0..MaxUtxos
    /\ usedBalance \in Nat
    /\ change \in Nat
    /\ outcome \in Outcomes

\* The reference: a call that succeeds spends the shortest prefix of the
\* unspent list whose value covers the fee, and a call fails for want of
\* outputs exactly when the whole list does not cover it (getRequiredUtxos,
\* utxo.go:50-60).
SelectionIsShortestCover ==
    /\ outcome = "ok" =>
          /\ inputs \in 1..Len(unspent)
          /\ usedBalance = PrefixSum(unspent, inputs)
          /\ usedBalance >= needed
          /\ PrefixSum(unspent, inputs - 1) < needed
    /\ outcome = "insufficientUtxos" =>
          PrefixSum(unspent, Len(unspent)) < needed

=============================================================================
