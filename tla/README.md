# TLA+ models of the Qtum adapter of the wormhole guardian

This directory holds TLA+ specifications of the Qtum chain adapter of the
guardian (`src/bridge/pkg/qtum`) and of the parts of the processor it feeds
(`src/bridge/pkg/processor/processor.go`). It has TLC configurations that
model-check them on small instances, and TLAPS proofs of their main safety
properties for every value of the constants.

## 1. The system

The guardian watches chains for lock-up events, signs observations and
aggregates them into VAAs. This repository's `src/` holds the Qtum adapter
and the processor's main loop. The aggregation handlers (`handleLockup`,
`handleObservation`, `handleCleanup`, `handleInjection`) are not under
`src/`.

Parts, and how they interact:

| Part | Code | State | Operations |
|---|---|---|---|
| Lock-up tracker | `watcher.go:94-293` (`QtumBridgeWatcher.Run`) | `pendingLocks` (tx hash -> lock, height) under `pendingLocksGuard`; channels `tokensLockedC` (cap 2), `headSink` (cap 2), `errC`; output `lockChan` | event goroutine: store a lock-up after `BlockByNumber`; header goroutine: per header, drop timed-out locks (`H+4m <= B`) and send confirmed ones (`H+m <= B`) while holding the mutex; Run returns on the first error |
| Header poller | `utils.go:49-126` (`SubscribeNewHead`) | `blocksCache`, `prevBlocksLen` (never assigned) | every second: read the tip, maybe repair a reorganisation (dead branch), cache the tip hash, evict, send the header |
| Log subscription | `abi/filterer.go:83-177`, `abi/abi.go:32-61,166-260` | the pending `waitforlogs` call, `logTopics` | call `waitforlogs` with `fromBlock` null and `minconf` 0 (NewAbiQtum replaces the filterer), forward each entry, fail on the second entry of a batch (accumulated topics) |
| Guardian set sync | `watcher.go:123-151,206-229,296-314`, `processor.go:159-186` | bootstrap index, the guardian-set events, blocked senders on the unbuffered `setC`, the processor's `p.gs` | bootstrap fetch and blocking send, per event `GetGuardianSet` and a blocking send, the processor's `setC` case |
| Fee payer | `base/base.go:51-98,199-208`, `base/utxo.go:15-61` | none across calls | list unspent outputs, estimate gas, pick the shortest covering prefix, compute the change |
| Devnet guardian-set bootstrap | `processor.go:188-254`, `qtum/sender.go:15-31`, `abi/abi.go:67-94`, `base/base.go:41-98,148-172` | the contracts' guardian set index, the detached Qtum retry goroutine, the fee payer's outputs | on a set with the wrong key count: submit the devnet set to Ethereum (Run returns if that fails), start the Qtum goroutine (listunspent, callcontract, sendrawtransaction, retried every second until one call succeeds), block sending on `vaaC` |

The supervisor calls `Run` again after it fails, on the same watcher
object. So `pendingLocks` survives a restart, while channels, subscriptions
and the poller cache are rebuilt. Cancelling an ended Run's `ctx` does not
stop everything it started:
- The subscriptions use `context.Background` and are never unsubscribed.
  Their filterer goroutines keep calling `waitforlogs`.
- The event goroutine returns on `ctx.Done` only when its `select` picks
  that case. It may first pick a buffered event, or it may already be
  inside `BlockByNumber` or `GetGuardianSet`, which take no `ctx`. It then
  stores a lock in `pendingLocks` or sends a set on `setChan` after Run has
  returned.
- The sends on `setChan` and `lockChan` have no `ctx` case.

`GuardianSetSync` models all of this for guardian sets. `QtumWatcher`
lets the ended Run's goroutine store a lock only before `Run` returns (see
`Discard`).

## 2. Modules

| Module | Models | Composes |
|---|---|---|
| `QtumWatcher` | lock-up tracker, header stream, lock-up log subscription, failures and restart, against a chain that grows and reorganises | the three goroutines, the filterer and the chain |
| `MCQtumWatcher` | model values for transactions, symmetry | instantiates `QtumWatcher` |
| `HeadPoller` | `SubscribeNewHead` with its cache | poller and chain |
| `GuardianSetSync` | guardian-set bootstrap, change events, the `setC` sender queue, the processor's `setC` case | watcher, filterer and processor |
| `FeeSelection` | one `SentContractCallFromAddress` per step, with every early return | pure algorithm checked against a reference |
| `LockTracker` | the abstract promise of the confirmation tracker (spec 4.2): a lock is sent once, when MinConf deep, and dropped only when 4*MinConf deep | none; `QtumWatcher` refines it |
| `DevnetBootstrap` | `checkDevModeGuardianSetUpdate`, the Qtum retry goroutine and `qtum.SubmitVAA` as RPC steps, the fee payer's outputs and the Qtum chain | processor, goroutine and chain |
| `QtumWatcherProofs`, `QtumRefinementProofs`, `QtumDuplicateProofs`, `HeadPollerProofs`, `DevnetBootstrapProofs`, `GuardianSetSyncProofs` | TLAPS proofs | extend the modules above (`QtumRefinementProofs` extends `QtumWatcherProofs`, `QtumDuplicateProofs` extends `QtumRefinementProofs`) |

Correspondence:

- **Chain.** A block is named by a height and a version. A reorganisation
  of depth d gives the top d heights a new version and returns their
  transactions to the mempool, so `<<h, ver[h]>>` stands for a block hash.
  `incl[t]` is the block transaction t was last mined in; `Canonical(t)`
  says that block is on the best chain.
- **QtumWatcher.** The actions follow the code:
  - `WaitForLogsCall` and `WaitForLogsReturn` are the waitforlogs loop. A
    batch puts its lowest log in `tokensLockedC` and sets `subErr` when
    the batch has more than one entry.
  - `HandleLockup` is the event goroutine's store.
  - `PollHead` sends the tip header; the cache is left to `HeadPoller`.
    In `HeadPoller`, `PollHead` writes the cache and sends the header in
    one step, taken only when `headSink` has room. The code writes
    `blocksCache` (utils.go:114) before the send blocks (utils.go:116).
    `blocksCache` is local to the poller goroutine, and nothing reads it
    while that goroutine is blocked, so the one-step model loses no
    behaviour. The goroutine has no `ctx` case around the send, so a
    poller blocked when its Run ends stays blocked, and its write is
    never seen.
  - The header goroutine's loop is `BeginHead` (take a header and lock),
    then one of `ScanTimeout`, `ScanConfirm` or `ScanKeep` per map entry,
    then `EndHead` (unlock). Go's map order is arbitrary, and so is the
    model's.
  - `RpcFailure` and `SubscriptionFailure` end Run (`Discard`), and
    `Restart` starts it again.
- **GuardianSetSync.** The state of each Run is a function of the Run
  number `gen`, because nothing of an ended Run is stopped but its `ctx`.
  Each Run has:
  - the pending `waitforlogs` call (`wfl`: the chain index at the call);
  - the 128-entry logs buffer of `bind.WatchLogs` (`logs`);
  - the subscription error (`subErr`);
  - `guardianSetC` (`gsC`, capacity 2);
  - the event goroutine (`evSt`, `evIdx`).

  `WaitForLogsReturn` appends one log per rotation since the call. A
  second entry is `Malformed`, because the filterer accumulates topics
  (filterer.go:138-157). `DeliverLog` is the wrapper's unpack-and-send,
  which blocks while `guardianSetC` is full. `UnpackFailure` makes the
  subscription fail.

  The event goroutine of Run g does the following:
  - `TakeGuardianSetEvent`, then `GetGuardianSet` (a send on `setChan`) or
    `GetGuardianSetFailure`;
  - `HandleSubscriptionError`;
  - `Quit` on `ctx.Done`, once its Run has ended.

  An error sent on `errC` ends the current Run only if it comes from that
  Run (`EndsRun`): an ended Run's goroutine blocks on `errC` forever.
  `setQ` is the FIFO of goroutines blocked on `setC`, each tagged with
  its Run. `setC` is created outside this repository, and the model takes
  it to be unbuffered. A buffered `setC` would let an event goroutine
  take its next event before the processor has received its last set;
  `OneSendPerRun` relies on the send blocking. `ReceiveGuardianSet` is the processor's `setC`
  case. Its first receive from a Run starts that Run's event goroutine.
- **Refinement.** `QtumWatcher` maps to `LockTracker` with `pending <-
  pendingLocks` and `emitted <- lockChan`; `tip` and the constants keep
  their names. `HandleLockup` is `Ingest`, a confirming `ScanConfirm` is
  `Promote`, a timing-out `ScanTimeout` is `Abandon`, `Mine` is `Grow`,
  and every other step (RPC calls, header queue, scan bookkeeping,
  failures, restart) leaves the three variables alone.
- **DevnetBootstrap.** `ReceiveGuardianSet` is the processor's `setC`
  case followed by `checkDevModeGuardianSetUpdate`. The set it receives is
  the current one of Ethereum or of Qtum. With the wrong key count the
  Ethereum submission either fails (`proc` becomes `"down"`, the
  supervisor restarts Run with `RestartProcessor`) or succeeds once
  (`ethIdx` becomes 1, the goroutine starts, Run blocks on `vaaC` until
  `SendVaa`). The goroutine's loop is `ListUnspent`, `EstimateGas` and
  `SendRawTx`, the steps of one `qtum.SubmitVAA`. Each RPC can fail
  (`RpcError`, bounded by `MaxRpcFailures`), `EstimateGas` reverts once
  the contract holds the set (`Reverts`, `base.go:163`), and a
  `sendrawtransaction` reply can be lost after the node accepted the
  transaction (bounded by `MaxLostReplies`). Every failure goes back to
  the start (`Retry`). The chain mines mempool transactions (`Mine`: the
  input is spent, the change output is immature, the contract takes the
  set) and matures outputs (`Mature`). `listunspent` returns mature
  outputs only.
- **FeeSelection.** Amounts are integer satoshis, scaled down.
  `getRequiredUtxos` and `PrefixSum` are recursive functions, so a proof
  module can use them later.

## 3. Runs

Each run is listed in `PROJECT.json`, with a mutant for every property of
a passing run.

| Run | Cfg | Expect | Shows |
|---|---|---|---|
| watcher_safety | `QtumWatcherSafety.cfg` | pass (4.4M states) | `TypeOK`; `NoDuplicateChainLock`: the same lock (transaction and block) is never sent twice, across reorganisations, restarts and repeated headers (a transaction re-mined in a new block may be sent again: that is the orphan defect of `watcher_orphan`, whose first copy was not canonical); `EmitOnlyConfirmed`: a lock is sent only when MinConf deep below the tip, even when the head waited in `headSink` |
| watcher_no_reorg | `QtumWatcherNoReorg.cfg` | pass (about 300K states) | `ImplementsLockTracker`: without reorganisations, across a failure and a restart, the watcher refines `LockTracker`, so every lock is sent at most once, only when MinConf deep, and dropped only when 4*MinConf deep; `PendingDrains`: a MinConf-deep pending lock eventually leaves the map |
| watcher_orphan | `QtumWatcherOrphan.cfg` | violation | a lock orphaned by a reorganisation is still sent |
| poller_branch_dead | `HeadPollerBranchDead.cfg` | pass | `TypeOK`; `ReorgBranchDead` |
| poller_cache_growth | `HeadPollerCacheGrowth.cfg` | violation | the cache outgrows its window |
| fee_selection | `FeeSelection.cfg` | pass | `TypeOK`; `SelectionIsShortestCover` against the reference |
| gs_sync | `GuardianSetSync.cfg` | pass (566K states) | `TypeOK`, including that no `guardianSetC` overflows; `OneSendPerRun`: each Run, ended ones included, has at most one set waiting on `setChan` |
| gs_reorder | `GuardianSetSyncReorder.cfg` | violation | `SetQOrderedByRun` fails: an ended Run's event goroutine sends a set it fetched after the next Run's initial send |
| gs_regress | `GuardianSetSyncRegress.cfg` | violation | the processor's guardian set goes back to an older index |
| gs_stale | `GuardianSetSyncStale.cfg` | violation | a rotation is never delivered; the processor keeps the old set |
| devnet_bootstrap | `DevnetBootstrap.cfg` | pass | `TypeOK`; `QtumFollowsEth`: Qtum never gets the devnet set before Ethereum; `QtumEventuallyUpdated`: once Ethereum has it, Qtum eventually does |
| devnet_retry_forever | `DevnetBootstrapLoop.cfg` | violation | `SubmitterTerminates` fails: after a lost `sendrawtransaction` reply every retry reverts, and the goroutine loops forever |

Bounds, and why they are enough:

- **Watcher.** 2 transactions, heights up to 6, one reorganisation of
  depth 1 and one failure. This reaches:
  - a lock confirmed (`H+1 <= B`) and a lock timed out (`H+4 <= B`);
  - a reorganisation before and after the confirmation;
  - a restart with a pending lock;
  - a two-log batch.

  The refinement and liveness run uses heights up to 5, no
  reorganisation and one failure, with no symmetry (symmetry is unsound
  for liveness): this reaches a promotion, an abandonment (`0 + 4 <= 5`)
  and a restart with a pending lock in about two minutes. The violation
  runs use the same scale.
- **Poller.** Heights up to 6, two reorganisations of depth 2 and a
  window of 2. This is enough to fill the window and to reorganise inside
  it.
- **GuardianSetSync.** Three rotations and one RPC failure in the passing
  run. Three rotations fill a Run's `guardianSetC` while its event
  goroutine is busy. A batch of two rotations makes a subscription fail,
  so the run reaches three Runs and queues sends of an ended Run. The
  violations need two rotations and one failure (reordering), two
  rotations (regression) or one (staleness).
  `CHECK_DEADLOCK FALSE` is set in these runs: with the rotations used
  up, every goroutine waits in `waitforlogs`, which is where the real
  system rests.
- **DevnetBootstrap.** Two devnet guardians, three outputs, one RPC
  error and one lost reply. One error is enough to show the retry; one
  lost reply is enough for the endless loop, and three outputs let a
  change output be created and mature.
- **FeeSelection.** Every list of up to three outputs of value 0..3, and
  two gas estimates. This covers exact covers, zero-value outputs, empty
  lists and insufficient funds.

Fairness:
- **Watcher.** Weak fairness on the goroutine actions (waitforlogs, store,
  poll, scan, end of scan), on `SubscriptionFailure` (the event goroutine
  selects on `Err()`) and on `Restart` (the supervisor). Mining, reorgs
  and RPC failures are the environment and get no fairness. The poller's
  `time.Tick` fires every second, which justifies fairness on `PollHead`.
- **GuardianSetSync.** Weak fairness on each Run's filterer, wrapper and
  event goroutine steps (goroutines that are scheduled), on the initial
  fetch, on `Restart` (the supervisor) and on the processor's `setC` case
  (its loop selects on `setC`). Rotations, RPC failures and `Quit` (a
  `select` may never pick `ctx.Done` while another case is ready) get
  none.
- **DevnetBootstrap.** Weak fairness on the goroutine's three RPC steps
  (it sleeps a second and loops), on `SendVaa` (the Solana submitter
  reads `vaaC`), on `RestartProcessor` (the supervisor) and on `Mine` and
  `Mature` (devnet blocks keep coming). Which guardian set a watcher
  delivers, RPC errors and lost replies are the environment and get none.

## 4. Findings

Each finding has a violation run, and the details are in
`PROJECT.json` "findings":
- With `minconf` 0 and no canonicality check, orphaned lock-ups are sent
  (`abi.go:52`, `watcher.go:272`).
  The same defect also sends a transaction twice: once with the block a
  reorganisation orphaned, once with the block it is re-mined in.
- `prevBlocksLen` is never assigned, so the reorganisation repair is dead
  (`utils.go:62`; run `poller_branch_dead` and a theorem) and the cache is
  never evicted (`utils.go:115`).
- The guardian-set subscription starts before the bootstrap fetch, so the
  guardian set can regress (`watcher.go:127`).
- An ended Run's event goroutine can still send a guardian set it fetched.
  That set then reaches the processor after the set the next Run fetched
  at its start (`watcher.go:224`). This contradicts the comment at
  `watcher.go:217-218`: it is not guaranteed that crashing the runnable
  makes the re-fetched set the last one the processor receives.
- `waitforlogs` from `fromBlock` null loses rotations, so the processor
  can keep a stale guardian set (`filterer.go:116`).
- The Qtum devnet retry loop never ends after a lost `sendrawtransaction`
  reply: the transaction is mined, every retry reverts in `callcontract`,
  and neither the loop nor `qtum.SubmitVAA` looks at `ctx`
  (`processor.go:232`, `base.go:163`). The spec asks for idempotent sinks
  and a cancellation scope for detached tasks.

## 5. Proofs

These are checked by `tlapm`:

- `QtumWatcherProofs.TypeCorrect`: `Spec => []TypeOK`. `TypeOK` is not
  inductive by itself: `ScanConfirm` needs the visited entry to hold a
  height. The inductive invariant `TypeInv` adds `ScanInv`: every entry in
  `toScan` is present, and `toScan` is empty when no scan is running.
- `QtumWatcherProofs.EmitOnlyConfirmedCorrect`: `Spec => EmitOnlyConfirmed`.
  It rests on `Inv == TypeInv /\ HeadsBelowTip`: every queued header and
  the header being scanned are at most the tip, because the tip never
  decreases and `PollHead` sends the tip. The tip never decreasing is a
  modelling choice: `Reorg` replaces the top blocks at the same heights
  and never shortens the chain. A reorganisation to a shorter chain with
  more work is left out, so `HeadsBelowTip` holds partly by construction,
  and so does the part of `EmitOnlyConfirmed` that rests on it. The step
  lemma
  `StepEmitsConfirmed` shows that a `ScanConfirm` step sends a lock with
  `H + MinConf <= scanHead <= tip`.
- `HeadPollerProofs.ReorgBranchDeadCorrect`: `Spec => []ReorgBranchDead`,
  from the inductive `TypeOK /\ blocksCache[0] = None`. `PollHead` writes
  only at `tip # 0`, and a resubscription clears the cache.
- `HeadPollerProofs.PollerTypeCorrect`: `Spec => []TypeOK`.
- `DevnetBootstrapProofs.DevnetTypeCorrect`: `Spec => []TypeOK`, from
  `TypeOK` plus "the goroutine has picked an output when it sends".
- `DevnetBootstrapProofs.QtumFollowsEthCorrect`: `Spec => []QtumFollowsEth`.
  `QtumFollowsEth` is not inductive: a `Mine` step sets `qtumIdx` from any
  state with a mempool transaction. The inductive `EthGate` says that
  while `ethIdx = 0` the goroutine has not started, nothing of the fee
  payer is in the mempool and `qtumIdx = 0`. No Qtum step is enabled
  before the goroutine starts, and only the successful Ethereum
  submission starts it.

- `GuardianSetSyncProofs.SyncTypeCorrect`: `Spec => []TypeOK`, for
  every number of rotations and RPC failures. Two parts of `TypeOK` are
  not inductive, so `TypeInv` adds two strengthenings.

  The first part is that no `guardianSetC` exceeds its capacity. This
  holds step by step, because `DeliverLog` blocks while the channel is
  full.

  The second part is that the Run number `gen` stays in
  `0..MaxCrashes + MaxIndex`. A Run ends on an RPC failure, which counts
  in `crashes`, or on a failed subscription. A subscription fails only on
  a batch of two change events, so it costs two rotations after the call
  that returned them. The strengthening `RunBound` says:
  - `gen`, plus 1 if the Run has ended or its subscription is doomed, is
    at most `crashes + chainIdx`;
  - while the current Run's `waitforlogs` call is open and nothing is
    doomed yet, `gen`, plus 1 if the Run has ended, is at most `crashes`
    plus the chain index at the call.

  `Fresh` says that Runs not started yet have no state, and that every
  queued set is of a started Run.

  There is one lemma per action (`CallStep`, `ReturnStep`, `RestartStep`,
  ...). `RunBoundGen`, `RunBoundKept` and `RunBoundCrash` cover the steps
  that keep, or pay for, the bound. `HasConcat`, `HasTail` and
  `BatchProps` say where a malformed log can be.
- `GuardianSetSyncProofs.OneSendPerRunCorrect`: `Spec => []OneSendPerRun`,
  ended Runs included. Its inductive invariant is
  `TypeInv /\ QueueInv`. `QueueInv` says every queued set is one of two
  kinds:
  - the send of an event goroutine that stays in `"send"` until the
    processor takes it;
  - the current Run's initial send, while its event goroutine has not
    started.

  It also says that a Run that is fetching or sending its initial set has
  no event goroutine. So `FetchCurrentGuardianSet` and `GetGuardianSet`
  append a set of a Run with none queued (`AppendDistinct`), and the
  processor's receive keeps the rest distinct (`TailDistinct`).
  `QueueInv` was model-checked on the `gs_sync` bounds before it was
  proved.

  The theorem does not say the sends are in Run order. The `gs_reorder`
  run shows they are not.
- `QtumRefinementProofs.RefinesWithoutReorgs`:
  `MaxReorgs = 0 => (Spec => ImplementsLockTracker)`. This is the
  refinement of `LockTracker`, proved step by step:
  - `InitRefines`: the initial state maps to the tracker's;
  - `StepRefines`: `Mine` is `Grow`, and `HandleLockup` is `Ingest` of the
    oldest queued log;
  - `ScanTimeout` is `Abandon`, and `ScanConfirm` is `Promote`. These
    use `ScanInv` and `HeadsBelowTip` from `QtumWatcherProofs`;
  - every other step leaves `tip`, `pendingLocks` and `lockChan` alone.

  `Ingest` needs the log to be fresh. That rests on the inductive
  invariant `RInv == Inv /\ NoReorgChain /\ LogInv`:
  - every block has version 0, and a transaction is in no block or in one
    at most the tip;
  - each queued log is of a mined transaction that is neither pending nor
    sent nor queued twice, and it lies below the open waitforlogs call;
  - that call returns only transactions the watcher does not hold;
  - pending and sent transactions are mined, and none is sent twice.

  The key fact is that waitforlogs is always called from the block after
  the tip (filterer.go:116-126). `LogInv` was model-checked on the
  `watcher_no_reorg` bounds (295,249 states) before it was proved.
- `QtumRefinementProofs.NoDoubleEmissionWithoutReorgs`:
  `MaxReorgs = 0 => (Spec => []NoDoubleEmission)`, from the same
  invariant. With a reorganisation, a transaction whose first lock was
  sent with a block that is then orphaned can be sent again with the
  block it is re-mined in. `MaxReorgs = 0` is therefore needed, not a
  convenience. `NoDuplicateChainLockCorrect` covers reorganisations.
- `QtumDuplicateProofs.NoDuplicateChainLockCorrect`:
  `Spec => []NoDuplicateChainLock`, with reorganisations and for every
  value of the constants. A reorganisation can make the watcher send a
  transaction twice, but only with two different blocks. The inductive
  invariant `DInv == Inv /\ DupInv` says:
  - every lock the watcher holds (queued in `tokensLockedC`, pending or
    sent) is of a block at most the tip. It is also below the
    `fromBlock` of an open waitforlogs call (`RecsBelow`);
  - a queued log is not sent, not pending and not queued twice;
  - a pending lock is not sent.

  A returned log lies at or above `fromBlock`, so it is new to the
  watcher (`ReturnStep`). `HandleLockup` moves a fresh log into
  `pendingLocks` (`HandleStep`). `ScanConfirm` sends a pending lock and
  deletes it in the same step (`ConfirmStep`, using `ScanInv`). The other
  steps only remove locks or raise the tip (`DropStep`, `CallStep`,
  `FailStep`, `DupFrame`). `DupInv` was model-checked on the
  `watcher_safety` bounds (4.4M states) before it was proved.

Assumptions: `MinConf \in Nat \ {0}`, `DevnetNumGuardians \in Nat \ {0, 1}`,
and the bounds are naturals. The two refinement theorems also take
`MaxReorgs = 0` as a hypothesis.

These are only model-checked:
- the liveness properties (`PendingDrains`, `GuardianSetEventuallyCurrent`,
  `QtumEventuallyUpdated`): liveness and ENABLED are out of the prover's
  reach;
- the FeeSelection properties (`TypeOK`, `SelectionIsShortestCover`). `PrefixSum` and the loop of `getRequiredUtxos` are
  recursive functions. Their defining equations can be unfolded only
  through the library's recursion theorems, and those take an operator
  parameter the provers cannot instantiate. Even the type of
  `usedBalance` would need that unfolding and induction over the list.

## 6. Not modelled

- The aggregation core (quorum, signatures, submission, retry, settlement).
  Its code is not under `src/`.
- The Terra retry goroutine of the devnet bootstrap (`processor.go:210-227`):
  it has the Qtum goroutine's shape, and the Terra client is not under
  `src/`.
- Transaction building, signing and the float conversions of the fee
  payer. `LockAssets` and the contract bindings the guardian never calls.
- Metrics, logging, readiness and heartbeats.
- The e2e test helpers.

## 7. Open work

1. A lock-completeness liveness property for `QtumWatcher`: a canonical
   lock-up MinConf deep is eventually sent. It is expected to fail
   through the `fromBlock` null gap and the batch failure.
2. The aggregation core from the spec: a per-digest record, quorum
   against a pinned guardian set, submit-once, retries and settlement.
3. A refinement that covers reorganisations. The refinement of
   `LockTracker` fails there, because a re-mined transaction is sent
   again. A weaker tracker that keys locks by transaction and block would
   fit: `NoDuplicateChainLock` and its invariant `DupInv` are the core of
   that proof.
4. Per-Run lock-up goroutines in `QtumWatcher`, as in `GuardianSetSync`.
   An ended Run's event goroutine can store a lock in `pendingLocks`
   after the next Run has started (`watcher.go:155-204`). The model
   stores such a lock only before `Run` returns.
