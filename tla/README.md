# A formal model of payd

`payd` is a single-process payment processor for TRON: it assigns deposit
addresses to orders, follows the chain, credits what it sees, tells shops about
it, and pays out withdrawals. This directory holds TLA+ modules that model its
parts, TLC configurations that check them on small instances, and theorems that
TLAPS checks for every value of the constants. `PROJECT.json` lists the
components, the runs, the lines each definition models, the hazards and the
theorems in a form a program can read. Source paths below are relative to
`src/backend/internal/` unless they start with `src/`.

- [1. The system](#1-the-system)
- [2. The modules](#2-the-modules)
- [3. Withdrawal](#3-withdrawal)
- [4. Outbox](#4-outbox)
- [5. Ledger and Follower](#5-ledger-and-follower)
- [6. Deposits](#6-deposits)
- [7. Sourcing](#7-sourcing)
- [8. Runs](#8-runs)
- [9. What the code does not keep](#9-what-the-code-does-not-keep)
- [10. Proofs](#10-proofs)
- [11. Not modelled](#11-not-modelled)
- [12. Running the checks](#12-running-the-checks)

## 1. The system

One Go process, one SQLite database in WAL mode, ten goroutines started by
`src/backend/cmd/payd/main.go`, and an HTTP server on the loopback interface.
The goroutines do not call each other. They meet in the database, through two
handles on the same file: `normal` (`synchronous = NORMAL`, a commit is synced
some time later) and `full` (`synchronous = FULL`, a commit is on disk when the
call returns). Each handle has one connection, and transactions start
`IMMEDIATE`, so **one store call is one atomic step** everywhere in these
models, and everything between two store calls of a goroutine may be
interleaved with everything else.

| component | state it keeps | operations | meets others through |
|---|---|---|---|
| Withdrawal engine (`withdraw/engine.go`, `store/withdrawals.go`) | `withdrawals` rows: status, txid, raw transaction, expiration, lookup failures | request, claim, acquire resources, sign, broadcast once, look up, confirm, fail; operator resolution; recovery at start and per tick | balances and drift (follower, reconciler), API requests while it runs, the chain |
| Resource grants, energy purchases (`withdraw/engine.go`, `store/resources.go`, `store/energy.go`, `energy/`) | `resource_grants`, `energy_purchases`: each a broadcast or purchase made at most once | delegate, top up, rent; manual grants | the withdrawal that waits for them; manual delegation from the API beside the engine |
| Outbox and dispatcher (`store/outbox.go`, `ipn/dispatcher.go`) | `ipn_outbox` rows; per goroutine the row in hand | insert with the state change, claim, post, settle, retry, replay, recover at start | every component that emits events; the reload; consumers |
| Chain follower (`follower/follower.go`, `store/follower.go`) | cursor, recent block hashes, reorg suspicion; in memory: halted, candidate under suspicion | tick, commit block, confirm a mismatch, rewind | payments, balances, orders, outbox |
| Payment decoder (`decode/decode.go`) | none | logs and transfers of a block to payment records | follower, reconciler |
| Matching and attribution (`matcher/`, `store/orders.go`) | `payments.order_id`, `orders.received_raw`, status | match, attribute by hand, cancel, extend, resolve | follower, lifecycle, API |
| Confirmation tracker (`confirm/`, `store/confirm.go`) | `payments.status`, `confirmed_at`, solidified height, `confirmed_raw` | promote by depth and by solidity, mismatch | follower (rewinds), withdrawals (balance) |
| Lifecycle and address pool (`lifecycle/`, `store/lifecycle.go`, `wallet/pool.go`) | `orders.status`, `addresses.state` | expire, cool, release, top up, prune | API, follower |
| Balance ledger and drift (`store/wallet.go`, `wallet/reconciler.go`) | `balances.chain_raw`, `drift_detected` | compare with the chain, search missed payments, clear drift | follower, withdrawals |
| Resource monitor (`wallet/monitor.go`), price service (`price/`), chain parameters (`chain/params.go`) | last readings with their time | poll, keep the last good value | engine, API |
| Chain client (`chain/client.go`) | endpoint in use, rate limit | calls with failover | every goroutine that asks the chain |
| REST API, authentication (`api/`, `store/api.go`) | idempotency keys, used TOTP codes, audit | one store operation per handler | everything |
| Configuration and reload (`config/`, main.go) | file, active configuration of each worker | load, validate, reload on SIGHUP section by section | every worker's `UpdateConfig`, outbox |
| Store core, migrations (`store/store.go`) | the two handles | transactions, `ApplyConfigReload` | everything |
| Keys (`seed/`), operations (`ops/`), tools, dashboard (`src/web`) | seed in memory; none | sign; metrics; one-shot commands; a REST client | |

### What makes it hard, and what must hold

- **A withdrawal is signed and broadcast once.** The process may die between
  persisting the txid and the answer of the node; the answer may be lost; the
  block may be orphaned; the row may be looked up months later. Whatever
  happens, no second transaction may be signed for a row, no row may be closed
  as unpaid while its transaction can still pay, none reported as paid that did
  not. Two withdrawals of one address must not compete for its energy and
  bandwidth. What a power loss takes back must not include the record of the
  attempt.
- **Events of one order reach a consumer in order**, each at least once, by
  several goroutines, through lost and late answers, restarts and reloads.
- **The ledger follows the chain.** A rewind orphans payments that may already
  be confirmed, and takes back balances and order states; the tracker and the
  follower work on the same rows; the reconciler inserts payments on its own.
- **An address serves one order at a time**, although orders expire while a
  payment is between detection and commit, and addresses cool and come back.
- **Grants and purchases are made once**, by two goroutines.
- **Drift is real drift**, although ledger and chain are read at different times.

`PROJECT.json` lists these as hazards, each at the line where it bites, with
the properties that would catch it.

## 2. The modules

| module | models | promise, or what it is composed with | proofs |
|---|---|---|---|
| `Withdrawal` | the engine over the table of withdrawals, with chain, clocks, crashes and power losses | implements `SinglePayout` | `WithdrawalProofs`, `WithdrawalClaimProofs` |
| `Outbox` | outbox, dispatcher, reload of consumers | implements `OrderedDelivery` | `OutboxProofs` |
| `Ledger` | what the store's transactions do to payments, orders, addresses and balances; matching | operators, without state | `LedgerProofs` |
| `Follower` | the follower's tick, suspicion, rewind, halt, with the confirmation tracker beside it | runs `Ledger` on a tree of blocks | `FollowerProofs` |
| `Deposits` | address pool, orders, lifecycle, the operator, the payment safety net | runs `Ledger` on a chain without forks | `DepositsProofs` |
| `Sourcing` | energy and bandwidth of a claimed withdrawal; manual delegations beside it | stands in the place of `Withdrawal`'s open `Acquire` actions | `SourcingProofs`, `SourcingBurnProofs` |

Withdrawals came first because they move money and cannot be undone; the outbox
second because every other component writes to it. The follower, the tracker,
the orders and the safety net all change the same four tables, so what a
transaction does to them is written once, in `Ledger`, as operators from a
database to a database; `Follower` and `Deposits` are two machines that take
such steps. The follower's module is about which chain it believes, the deposit
module about who holds an address when a payment comes: one has forks and no
lifecycle, the other a lifecycle and no forks. `Sourcing` ends where
`Withdrawal` goes on, at signing; the statuses that meet there are
`awaiting_resources`, `awaiting_energy`, `signing`, `failed`, `needs_operator`.

Parameters are CONSTANTS with named assumptions, each operation of the code is
one action, invariants are conjunctions of named parts, and no module uses a
RECURSIVE operator, so each module that is checked can be proved about.

What could come next, in this order: the comparison of ledger and chain balance
(`store/wallet.go`, the drift flag that `Withdrawal` takes as an input); the
rental tier across two withdrawals that share the market's circuit breaker;
idempotency keys and single-use codes; staleness of prices. Every safety property
of the runs is a theorem. Theorems left: that an event of the ledger (`told`) is told
once for each change, and what a lookup's counter implies at `needs_operator`.

## 3. Withdrawal

`Withdrawal.tla` models `withdraw/engine.go` (`Run`, `Tick`, `recover`,
`acquireAndSend`, `signAndBroadcast`, `resolve`) and `store/withdrawals.go`.

**State.** `db` is the `withdrawals` table as every transaction sees it, a
function of rows numbered by creation order; of the columns it keeps what the
code branches on: status, whether a txid is stored, failed lookups,
`resolved_by`, whether the fee is ledgered, whether the follower has ledgered
the payout. `durable` is the prefix of its commits that is on disk. `phase`,
`todo`, `step` and `cur` are the engine goroutine: which loop of `Tick` it is
in, the rows that loop has read and not handled, the statement it is at, the row
in hand; `code`, `expired` and `found` are the local variables of `resolve`.
`boot` says that `Run` has not finished `recover(force = true)`. `tx` is what
became of each row's transaction on the chain, `sent` counts requests issued,
`chainExpired` and `hostExpired` say whose expiration is past on which clock.

**Steps.** Every store call is one action and every RPC is one action, so that
the API, operators, the chain and crashes come between reading an answer and
writing it down. In particular `resolve` is four steps: `ReadClock`, `Lookup`,
`ApplyAbsent`/`ApplyFound`, `ReceiptSolid`/`ReceiptMissing`. The loops of `Tick`
work on the list they read first (`todo`), not on the current table, as the
code does.

**Environment.** A broadcast answer is `accepted` (the network has the
transaction), `ambiguous` (it may or may not) or a `deterministic` rejection.
A transaction lands, is orphaned, solidifies or expires. A crash resets the
engine; a power loss also takes `db` back to `durable`. An operator decides
rows in `needs_operator`. Drift flags change at any time.

**Abstractions.**
- Amounts are small numbers at price 1, so that one amount serves as raw and
  as USD; all rows fall on one UTC day; an address holds one asset.
- Where energy and bandwidth come from is left open: `acquireAndSend` finds
  them ready, waits, fails the row or hands it to the operator. `Sourcing` is
  the inside of that choice.
- The throttles of periodic recovery (15 s and 60 s since the last attempt) are
  a choice, `RecoverSkip`; the age at which waiting rows join is one too.
- The lookup counter is saturated at `LookupLimit`: the code only compares it.
- `HostClockAhead` also stands for a full node that lags behind the clock it
  set expirations by.
- A deterministic rejection is taken to mean that the network never holds the
  transaction. An endpoint that cannot be chosen is an ambiguous request that
  never left.
- A `full` commit syncs the log and so every earlier commit. Drift flags are
  not subject to a power loss: nothing in the properties depends on it.
- Disabled addresses, `withdrawal.enabled = false` and the balance check of the
  energy provider are guards of the request alone and are left out: they only
  take behaviours away.

`SinglePayout.tla` is the promise in a page: a request is opened, then closed
for good or spent once; only a spent one can pay; a payment that is not final
may vanish with its block; a closed request never pays. The refinement maps a
row to `spent` when its request is issued and otherwise reads its stage from
**disk**, so that a power loss can never take back a decision.

## 4. Outbox

`Outbox.tla` models `store/outbox.go`, `ipn/dispatcher.go` (`Run`, `runWorker`,
`DispatchOne`, `fail`, `UpdateConfig`) and the order in which main.go applies a
reload: `ApplyConfigReload` in the store, then `UpdateEvents` of every producer,
then `UpdateConfig` of the dispatcher.

**State.** `outbox` is the table; the status `failed` is the one a row has while
a worker holds it. `worker` is, for each goroutine, where in `DispatchOne` it is,
the consumers that were enabled in the snapshot it took, the row in hand and the
verdict. `wire` holds events of requests that timed out and may yet arrive,
`got` what consumers have received, `posts` how often a row was sent since its
last reset. `file`, `loaded`, `producers` and `dispatcher` are four copies of
the configuration, which a reload brings together in steps.

**Steps.** `Snapshot`, `Claim`/`NoneClaimed`/`ClaimErrs`,
`PrepareFails`/`PostAnswered`/`PostLost`, `Settle`/`SettleErrs` are
`DispatchOne`; `Insert` is `insertOutbox` with the choice its two callers make;
`Retry` is `RetryIPN` and `ReplayDeadIPN`; `ReloadApply`, `ReloadProducers`,
`ReloadDispatcher` are the reload, and `ReloadRefused` one that is turned down after
`ApplyConfigReload` has committed; `Start` begins with `RecoverIPNClaims`.

**Abstractions.**
- `next_attempt_at` is a flag `due` that time sets (`Elapse`). Which of several
  claimable rows is claimed first is therefore left open.
- `created_at` is a stamp, and a row may be given any: the code reads its clock before
  the inserting transaction begins. What can be promised is about pairs that rowid and
  stamp do not contradict (`Precedes`: inserted earlier and not stamped later);
  section 9 says what happens to the others.
- One configuration stands for that of all producers; `max_attempts` does not
  change. Orders that may refuse a reload (CFG-006) are not modelled.
- The branch of `DispatchOne` for a consumer missing from its own snapshot
  cannot be reached and is left out.
- Payloads, signatures and URLs are left out. The filters of `ReplayDeadIPN`
  are any set of dead rows.
- The commit of a state change and its events is one transaction of the normal
  handle; a power loss that takes both back is not modelled here.

`OrderedDelivery.tla` is the promise of IPN-011: of the events accepted for one
pair of sequence key and consumer, each is first received after every one that was
accepted earlier and is not stamped later. Duplicates are allowed, consumers drop them
by event id (IPN-022).

## 5. Ledger and Follower

`Ledger.tla` models `matcher/matcher.go`, `store/confirm.go` and the parts of
`store/follower.go` that write payments, orders, addresses and balances. It has
no variables: `Match` and `UpsertPayment` (a payment is ingested),
`RewindLedger`, and `ApplySolidifiedLedger` (mismatches, promotion, promotion
of orders, cooling) take a database and return it as the transaction leaves
it, with every recalculation that the transaction makes at its end.
`Recalculated`, `Reverted`, `BalanceOf`, `Canonical`, `Promotable` and `Cool` are
the helpers the code has under similar names.

`Follower.tla` models `follower/follower.go`, `confirm/worker.go` and
`store/follower.go`.

**State.** `db` is the ledger. `blocks`, `cursor`, `solid` and `suspected` are
the tables `blocks` and `crawler_state`. `suspicion`, `known` and `halted` are
what the follower keeps in memory, and a restart forgets. `tick` is where
the follower's tick is, with the tip, block, height and decoded transfer it has in
hand. `produced` are the blocks that exist, `now` the clock.

**Steps.** Each RPC and each transaction is a step, so that the tracker, other
nodes, failures and restarts come in between. `Poll`, `Fetch`, `ClearLinked`,
`Prepare`, `CommitBlock` follow a chain; `ConfirmMismatch` and `ConfirmReorg`
are `confirmMismatch`; `WalkOn`, `RewindChain`, `Rewound` are `recoverReorg`;
`ApplySolidifiedHeight` is the tracker's tick.

**Environment.** The chain is a tree of blocks, some of them `Main`, which is what
stays. Until the nodes agree (`Agree`), any request is answered from any branch
that exists, behind or ahead, or fails; the solidity node answers from `Main`
alone. A branch that never becomes final may be followed, stored and left again.

**Abstractions.** A block carries one transfer at most. Hashes are the blocks
themselves. A transfer between two addresses of the service has one row, as in
the code. The poll interval that must pass between two sightings of one
divergence is a choice of `ConfirmMismatch`. Parsing of blocks, logs and
contract data is left out; what remains of the decoder is which transfers it
takes (`Decoded`: one of the two ends is a derived address) and, under
`ReceiptsLag`, a node that has the block and not the receipt. Events are the
column `told`, whose delivery is the outbox.

## 6. Deposits

`Deposits.tla` models `wallet/pool.go`, `store/orders.go`, `store/lifecycle.go`
and the payment safety net of `wallet/reconciler.go`.

**State.** `db` is the ledger, `tip` and `cursor` two heights of one chain, `now` the
clock; `scan` is the pass of the safety net: the addresses left, from
when on it asks for each, the query it is at and what is left of its pages, what it
has seen, the payment it has in hand.

**Steps.** Each transaction is a step. Of the follower and the tracker there are
the transactions alone (`CommitBlock`, `ApplySolidifiedHeight`). Pool:
`CreateOrder` (the lowest free address, or the next derived one), `TopUpPool`,
`ReleaseCooled`, `DisableAddress`. Orders: `ExpireOrders`, `ExtendOrder`,
`CancelOrder`, `ResolveFundedOrder`, `AttributePayment`. Safety net: `SafetyNet`
(a pass begins), `GetAccountHistory` (the pages of the next query: tokens before the
native coin, in both directions), `HistoryItem` (a transaction of theirs is taken),
`ApplyReconciledPayments` (it is written), `NextTarget`, `EndPass`. What lands after the
pages were read is left to the next pass. A payment in hand is written after any number of
other transactions, so its address may have been cooled, released and assigned again.

**Abstractions.** Order ids are references (`external_ref`): a second request with
one that has a row changes nothing. Block times are heights. `Hidden` are token
transfers that the follower may miss. The service that answers for the history
of an address is taken to be up to date when it is asked, and the pages of a query are one
set, read in one step. Pruning of old rows touches nothing here.

## 7. Sourcing

`Sourcing.tla` models `acquireAndSend` of `withdraw/engine.go` up to signing, with
`sourceEnergy`, `tryRental`, `pollRental`, `ensureDelegation`, `sourceBandwidth`
and `reconcileResourceGrant`, over `store/resources.go` and `store/energy.go`, and
the manual delegations of the API.

**State.** `db` and `durable` are the rows and the prefix of their commits that is on
disk, as in `Withdrawal`. Two workers, the engine and an API request, have a
step (`at`) and a grant (`hand`); the rest are the engine's local variables:
the rows its loops have read, the withdrawal in hand, what it has read of the
account (`seen`), the energy source so far. `net` is what became of a grant's
transaction, `sent` and `calls` count requests issued. `lapsed` and `late` say
which deadlines are past.

**Steps.** A tick walks the manual grants (`TakeManual`) and then the waiting
withdrawals (`TakeRow`). For each it reads the account (`Read`), finishes or polls a
rental (`FinishRental`, `PollRental`), buys one (`Quote`, `MarkPurchase`, `Purchase`,
`FailRental`, `Blame`), delegates (`Ensure`, `Persist`, `SendGrant`, `RecordSent`) or
burns, does the same for bandwidth, and signs. A grant that was attempted is
reconciled (`Lookup` ... `Outcome`). An API request runs `Persist`, `SendGrant` and
`RecordSent` of a manual grant beside all of this.

**Environment.** Every answer is open: the account has energy or not, the market
quotes, sells, delivers or does not, a broadcast is taken or rejected and its answer
lost or not, the transaction lands, reverts or expires. A crash, a power loss or
an error that ends a tick may come anywhere.

**Abstractions.** Amounts are whether there is enough. The circuit breaker of the
market is a flag. An old grant and an expired transaction are one deadline, `late`.
A grant's transaction that has landed stays. The configured asset of a withdrawal is
there, and chain parameters are loaded. Which strategy is in use (`Rental`,
`FallbackToBurn`, `Topup`) are CONSTANTS; the proofs hold for each.

## 8. Runs

`MCWithdrawal`, `MCOutbox`, `MCFollower`, `MCDeposits` and `MCSourcing` define
the values of the constants. All passing runs exhaust their state space.

| run | question | instance | distinct states |
|---|---|---|---|
| `withdrawal_restart` | types; one broadcast; refused rows untouched; absence and confirmation are right; one row acquires; WDR-007 until the first restart; nothing is claimed before startup recovery is over | two rows of one address, one crash, one aborted tick | 1,640,000 |
| `withdrawal_power_loss` | the attempt is on disk; a spent attempt stays spent; `KeepsPromise`; the inductive invariant; every attempt is decided (fair) | one row, two power losses or crashes, one error, two failed lookups | 294,000 |
| `outbox_two_workers` | types; no event in hand beside one that precedes it, none in two hands; bounded requests; claims are held; the inductive invariant; `OrderedDelivery` | two rows with stamps in any order, two pairs of one consumer, two workers, crash, failed store call, retry | 1,490,000 |
| `outbox_settled` | an event of an enabled consumer is settled (fair); a disabled consumer's rows wait | two rows of one pair, two workers, crash, two edits of the configuration, reloads that may be refused | 277,000 |
| `follower_forks` | types; stored blocks are one chain; payments, balances, orders agree with it; what is confirmed is on `Main`, for good; a halt is a lost cause | nine blocks, two forks of one and two blocks, three transfers, `ReorgDepth` 3, two confirmations | 125,000 |
| `follower_settles` | once the nodes agree the follower reaches their tip and confirms, or has halted (fair) | seven blocks, a fork of two, one transfer, one confirmation | 26,000 |
| `deposits_pool` | types and the size of the pool; no address is stranded; payments go to the holder; ended orders stay ended; paid orders do not expire; an open order keeps its address | three blocks at two times, a payment that the follower may miss and a dust payment, three addresses of which two may be in the pool, two orders of different amounts, every operation of the operator | 1,823,000 |
| `sourcing_restart` | types; nothing is broadcast or bought twice; burning comes last | one withdrawal, one manual grant, one of which has a row; one crash, power loss or error | 7,070,000 |
| `sourcing_decided` | a withdrawal does not wait for resources for ever (fair) | one withdrawal, one grant, one fault | 277,937 |

Three more runs expect a counterexample: section 9.

**Why the bounds are enough.** The invariants relate two rows at most (two of an
address, two of a pair), so two rows meet every case that any number would. The engine
is one goroutine; two workers are the fewest that can race. One crash
reaches every step of the engine, and the second one in `withdrawal_power_loss`
interrupts the recovery from the first.
`LookupLimit`, `MaxAttempts` and `FailureLimit` of one and two reach both sides of the
comparison; the code's 10 and 5 add only longer counts. The tree of
`follower_forks` has a fork of two blocks that can be left by a rewind and by a
chain that rejoins, and a late one at the edge of promotion; of its transfers one
changes its block, one is lost with its branch, one moves between two addresses.
A table of four blocks fills up and is pruned, so a halt can occur. In `deposits_pool`
time reaches the end of both orders, and an address can be released and assigned again
while a payment is in the safety net's hand, and under an order that is confirmed and
reopens later. A withdrawal's
grants and a manual grant touch no common row, so one row of grants at a time reaches
every interleaving of two workers on it; a run lets a withdrawal have its energy grant
or its bandwidth grant, not both, and the proof of `PaidOnce` has any number. The proofs of section 10 hold
for any number of rows, addresses, workers, blocks, orders, grants, crashes and
errors.

Deadlock is checked in the withdrawal, follower and sourcing runs. The outbox
and deposits runs say `CHECK_DEADLOCK FALSE`: their bounds on rows, edits,
retries, orders and time are spent at some point, and the properties do not depend on
the empty polls that a running process then has left.

The liveness runs use no symmetry. The safety runs of the outbox permute
workers, and `deposits_pool` permutes orders, which the modules treat alike.

**Fairness of the engine** (`Withdrawal!Fairness`). The engine goroutine loops on
a ticker of two seconds, so some engine step is taken whenever one can be
(`WF(Engine)`). The throttles that make `recover` skip a row are finite, so a
row with an attempt is taken up again and again (`SF(RecoverResolve(w))`).
The solidity node, polled again and again about a solid transaction, gives its
receipt at some time (`SF(cur = w /\ ReceiptSolid)`). Blocks solidify and both
clocks go on. Nothing is assumed of operators, of the network taking a
transaction, or of resources becoming available.

**Fairness of the dispatcher** (`Outbox!Fairness`). Each worker goroutine loops on
a ticker of one second, time reaches `next_attempt_at`, a supervisor restarts the
process, and a reload that has begun runs to its end. Nothing is assumed of
consumers or of the network. `EventSettled` asks only about events whose
consumer stays enabled, and accepts a dead row, or a dead one before it, as an
outcome: that is what IPN-012 says. `outbox_settled` has no failed store calls,
because one does break it (section 9).

**Fairness of the follower** (`Follower!FairSpec`). Both goroutines loop on
tickers (`WF(Follow)`, `WF(ApplySolidifiedHeight)`). A divergence that is seen on
every tick is, on some tick, seen a poll interval after its first sighting
(`SF(ConfirmReorg)`). Nothing says that the nodes ever agree: `CatchesUp` is
about behaviours in which they do.

**Fairness of the sourcing** (`Sourcing!FairSpec`). The engine loops
(`WF(EngineStep)`); reading the account succeeds at some time, and so does
asking for the receipt of a solid block (`SF`); deadlines pass. Nothing is assumed
of the market, of the resource wallet or of what the account reads.

Each property of a passing run has a mutant: a changed definition of the model,
in the module itself and marked as a mutant, under which TLC finds the property
violated. They are the bugs the property is there for, for instance a recovery that
broadcasts again before it looks, a clock read after the chain instead of
before, a rewind one block too short, a payment matched without the beginning of
the window, a purchase made before its row says so.

## 9. What the code does not keep

Three runs check one statement of a document and expect a counterexample.

| run | statement | what the code does |
|---|---|---|
| `withdrawal_forced_recovery` | WDR-007: one row per address in flight | recovery at boot also looks up `failed` and `needs_operator` rows and sets a found one to `broadcast` without a condition on its status, next to a younger row already claimed |
| `deposits_reassigned` | POOL-006: an address is not assigned to two orders | a payment ingested again takes a confirmed order back to `paid` (`store/follower.go:565`); the next promotion confirms it again and cools its former address without asking whose it is now (`store/confirm.go:230`), so the address leaves its open order and is given to a third |
| `sourcing_left_behind` | WDR-000a: reconciliation runs on every engine tick | each tick tries the rental tier before the delegation it started earlier (`withdraw/engine.go:596`); a withdrawal signed as `rented` leaves that delegation in flight, and nobody looks it up again |

Others were met while modelling, and have no run of their own. Of withdrawals
and events:

- WDR-006 and R-004 call the daily limit an actual cap. `needs_operator` rows
  are not counted (`store/withdrawals.go:176`), and count again once resolved as
  confirmed.
- BAL-002 blocks the drifting address. Only the oldest request is tried
  (`store/withdrawals.go:297`), so while its address drifts no other is served.
- WDR-000b says that an operator's decision is terminal. The update behind
  `withdrawal_forced_recovery` also takes a row that an operator resolved as
  failed back to `broadcast`.
- WDR-022 lets a row fail only past its expiration. The expiration comes from a
  block and is compared with the host's clock: with `HostClockAhead = TRUE`,
  `FailedIsAbsent` is violated, and a row that was failed pays.
- WDR-023a wants the fee ledgered by the transaction that confirms.
  `ResolveWithdrawal` confirms and ledgers none, and no later step does.
- IPN-011 forbids N+1 before N is resolved. `created_at` is read before the
  inserting transaction begins (`store/follower.go:361`), so a later row can sort
  before one that is already claimed, and a second worker takes it beside that one.
  `OnePerPair` and `InOrder` therefore speak of pairs that rowid and stamp agree on.
- IPN-008 retries anything but success. A settling store call that fails
  (`ipn/dispatcher.go:177`) leaves the row claimed until the next start.
- CFG-010 buries the rows of a removed consumer. An event inserted between the
  burial and the producers' update, or a row in hand that fails, stays pending
  and is sent if the consumer returns (`store/store.go:423`). A reload that is refused
  after `ApplyConfigReload` (`src/backend/cmd/payd/main.go:244`) leaves the rows of a
  consumer buried that producers and dispatcher still have.

Of payments and orders:

- An operator may cancel a confirmed order, whose address has long gone to another
  order. The UPDATE that cools the address (`store/orders.go:417`) asks that it be
  `assigned` and not to whom: the same breach of POOL-006 as `deposits_reassigned`,
  and the other case that `HolderKeepsAddress` has to allow.
- DET-010b says that a pass that fails part-way must not create a permanent gap. The next
  pass asks from ten minutes before the newest payment recorded for the address
  (`store/follower.go:166`), whoever recorded it. If a pass records a recent payment and
  then fails, an older one of that address which it had not come to (a native transfer,
  asked for after the tokens, or one on a later page) is not asked for again.
- A transfer that lands after its query was read is not found by that pass; the next one
  finds it while the address is assigned, or cooling and the pass a full one.
- ORD-005b lists funded orders that have ended. `AttributePayment` gives an
  expired order money without moving it to `expired_funded`, so the list never
  shows it.
- An order that dust pays at expiry, or that an attribution pays, becomes `paid`
  and no `order.paid` event is enqueued.
- A payment without an order that is orphaned and included again becomes `seen`
  with no order.
- The follower halts on a divergence of one block when it has just started and
  stores one block. `HaltMeansLost` is therefore about a full table.
- `recoverReorg` does not check that the blocks it is given link to each other, and a
  rewound payment keeps its `confirmed_at`. Neither leads to a violation here.
- A node that has a block and not its receipts makes the follower skip a payment
  (`ReceiptsLag`); the safety net finds it while its address is assigned or cooling.

Of energy and bandwidth:

- WDR-009a and the ceiling of ENR-008: energy that was rented may be gone when
  bandwidth has arrived, and the withdrawal is signed without it.
- The loser of the race between API and engine for one manual grant marks it
  failed although the other has broadcast it; reconciliation then never looks.
- `reconcileResourceGrant` reads the clock after the lookup, where `resolve`
  reads it before.
- A lookup that succeeds resets the counter, so a receipt that keeps failing
  never reaches the limit; `AcquisitionEnds` needs the receipt to be got.
- What `sourcing_left_behind` shows needs no market: a delegation or a top-up whose tick
  was aborted is also left behind when the account has enough at the next tick.
- A grant left `requested` by a crash is confirmed when the account happens to have
  the resource, although nothing was sent.

What does hold in the face of the forced recovery is stated as properties of
its own: `OneAcquiring` (two rows of an address never acquire or sign together,
through restarts), `ExclusiveUntilRestart`, and `AtMostOneBroadcast` and
`KeepsPromise` (a row taken back to `broadcast` is only looked up). In the face of
the two others: `CreditedToHolder` and `TerminalStays` (no payment is credited to the
wrong order, no order reopens), and `PaidOnce` and `BurnIsLast`.

## 10. Proofs

Eight modules prove, for every value of the constants allowed by the named
assumptions of the modules, with no bound on rows, addresses, blocks, orders,
workers, crashes or errors:

| theorem | property |
|---|---|
| `Withdrawal`: `StepKeeps` and `InvariantHolds`, `TypeCorrect` | `IInv`, `TypeOK` |
| `OneBroadcast`, `DurableAttempt`, `SpentStays` | `AtMostOneBroadcast`, `AttemptDurable`, `SpentStaysSpent` |
| `Untouched`, `ConfirmedPaid`, `OneAcquires` | `RefusedUntouched`, `ConfirmedIsPaid`, `OneAcquiring` |
| `AbsenceIsFinal` | `FailedIsAbsent`, assuming `HostClockAhead = FALSE` |
| `PromiseKept` | `KeepsPromise`: the refinement of `SinglePayout` |
| `ClaimInvariant`, `ExclusiveWhileUp`, `RecoveryBeforeClaims` | `ExclusiveUntilRestart`, `ClaimAfterRecovery` |
| `Outbox`: `InvariantHolds`, `TypeCorrect` | `IInv`, `TypeOK` |
| `OneOfAPair`, `DeliversInOrder` | `OnePerPair`, `InOrder` (the refinement of `OrderedDelivery`), for stamps in any order |
| `BoundedPosts`, `ClaimsHeld`, `QueuedWhileKnown` | `PostsBounded`, `ClaimHeld`, `QueuedThroughDisable` |
| `Follower`: `ChainInvariant`, `LedgerInvariant` | the two inductive invariants |
| `ChainLinked`, `FollowerTypes` | `StoredChainLinked`, `TypeOK` |
| `BalancesStayCurrent` | `BalancesCurrent` |
| `PaymentsAreTheChains` | `PaymentsMatchChain`, assuming `Certain`: no node lags and the addresses are derived |
| `PaymentsAreRooted` | a payment that counts is on the branch of every retained block above it; no run states it |
| `ConfirmedInWhatStays`, `ConfirmedIsForGood` | `ConfirmedStays`, `ConfirmedForGood`, assuming `ConfirmationsSettle` |
| `HaltsWithoutTableOnly` | `HaltMeansLost`, assuming `ForksAreShort` |
| `ReceivedIsCurrent` | a live order's `received` is the sum of its payments, assuming `TimesGrow` and `OrdersStart` |
| `OrdersStayCurrent` | `OrdersCurrent`, assuming `TimesGrow`, `OrdersStart` and no dust |
| `Deposits`: `DepositsInvariant` | the inductive invariant |
| `NothingStranded`, `PaymentsReachTheirHolder` | `NoAddressStranded`, `CreditedToHolder` |
| `OverIsOver`, `PaidOrdersSurvive` | `TerminalStays`, `PaidNotExpired` |
| `PoolStaysInSize` | `TypeOK`, assuming `PoolFits` |
| `HoldersKeepTheirs` | `HolderKeepsAddress`, what holds of POOL-006 |
| `Sourcing`: `SourcingInvariant`, `EachIsPaidOnce` | the inductive invariant, `PaidOnce` |
| `BurnInvariant`, `TheBurnIsLast` | the invariant of the tiers, `BurnIsLast` |
| `SourcingTypes` | `TypeOK` |
| `SourcesAreNoted` | `SignedOnSource`: a withdrawal is signed with its source of energy noted, and `rented` only on a rental recorded as delivered; no run states it |

**The argument for Withdrawal.** None of the safety properties is inductive.
`IInv` adds what each relies on. `EngineOK` ties the program counter to the row in
hand: at `send` the row is in `signing`, on disk too, with no request issued; at
`apply` with a verdict of absence the transaction can no longer land, because
the clock was read **before** the chain and an expired transaction leaves the
pending pool for good. `WorldOK` ties requests to transactions. `TableOK` says
what the columns of a row imply about each other and about the chain, of `db`
and, separately, of `durable`, since a power loss installs the latter. `SyncOK` says
that what is on disk lags behind what is visible, but never in a txid: this is
where the `full` handle is needed, and it is what makes a power loss map to a
stutter of the promise. The proof has one lemma per UPDATE statement (it keeps
`TableOK` and closes nothing it should not), one step per action, and the
refinement follows from the shape of each step (`StepShape`) and from
`SyncDecides`.

Claims rest on three more facts, `ClaimInv`. Each recovery has every row in `signing`
without a txid on its list, so none is left when the same tick comes to claiming
(`RecoveryFirst`). Before the first restart recovery looks up only rows that are in
flight already, because the forced one found none at startup; so a row comes into
flight only by a claim, which finds its address free (`UpToRestart`). And no row
is further on disk than in sight (`Fresh`), so a power loss claims nothing.

**The argument for Outbox.** `OnePerPair` is not inductive because nothing in it
forbids two claims. `WorkerOK` ties a worker to the row it holds, which is
`failed` and held by nobody else. `OrderOK` says that a row which is claimed,
delivered, on the wire or received has only delivered rows among those that precede
it. A claim takes a row before which the table sorts only delivered ones, and what
precedes a row is sorted before it (`PrecedesIsEarlier`), so claiming keeps
`OrderOK`. A new row has the highest rowid, so it precedes none, whatever its stamp
(`InsertEffect`, `LedStays`). Of two rows in hand, one preceding the other, the
first would be delivered and claimed at once. `AttemptsOK` counts: a crash
leaves at most one attempt without a verdict, so requests stay within
`MaxAttempts + crashes`.

**The argument for Ledger and Follower.** `LedgerProofs` has a lemma for each
transaction, which says what it leaves alone, which statuses it moves between and
that it keeps the balances; `LedgerOK` (the columns keep to their types, and both
balances of every address are those that its payments give) follows.
The work is in the rewind and the promotion, which rewrite the balances of the
touched addresses only: every address whose payments changed must be among
them. `ChainInv` ties the tick to the tables: a candidate that was `prepared` is
linked to the block at the cursor, a walk is within the stored blocks, and
the stored blocks have no gap (`Unbroken`), so that a commit extends a chain and a
rewind cuts one. `PaymentsInv` adds that a payment that counts is in the stored
block of its height, and that a block no branch repeats brings a payment no
stored block has (`CarriedOnce`).

`ConfirmedStays` compares the tables with what stays, of which the follower knows
nothing. `RootedInv` says it without `Main`: a payment that counts has a retained
block at every height from its own to the cursor, and each of these is a descendant
of the block that carries it. A promotion asks for `Required` blocks on top, so
`ConfirmationsSettle` gives that the payment's block stays. Nor can a rewind pass it
later: a walk goes down only where it is answered a block other than the stored one,
and one height of those `Required + 1` has a single block (`SettledInv`). That height is
needed as a hypothesis: each height of a walk may be answered by another node from
another branch, so blocks the nodes have abandoned can carry a walk through
heights that no single fork disputes. `HaltMeansLost` is the same argument with
`ReorgDepth` (`HaltInv`): a walk that has come so far has passed an undisputed height,
unless the table ended first.

`OrdersCurrent` is not inductive because `received` counts the payments inside the
window of the order's address, which a promotion closes. `Bound` says that a payment
belongs to the order its address has, and that an assigned address has an open window;
`TimedInv` that a payment is older than the blocks above it, and a confirmed one than the
clock. So the window that a promotion closes at the present time loses no payment that was
summed (`WorthInv`). The status follows only without dust: a payment below the minimum is
summed and moves no status.

**The argument for Deposits.** `DepositsInv` says that rows keep to their types
(`RowsOK`), that an address which is assigned serves an order that is open (`Serves`), and that the
order an address points to is the newest it had (`KnowsNewest`). `NoAddressStranded` follows from `Serves`: every transaction that
ends an order cools its address, and every ingestion or promotion that changes
an order leaves ended ones alone. `CreditedToHolder` follows from the window of the
address, read in the transaction that credits. `PaidNotExpired` is where the second
look at dust is needed.

For the bound of the pool the addresses that are derived next are ranked by how many
underived ones have a lower index, which maps them one to one into `0..n - 1`
(`FewIndexes`); each derivation asks for no more than are missing to `PoolMaxSize`.

`HoldersKeepTheirs` is the other side of the counterexample `deposits_reassigned`, and is
about all behaviours, the counterexample included. POOL-006 holds while every open order of
an address has it (`HoldersAreAlone`), so the property says which steps can be the first to
leave one without. `HoldsAddress` says of one address that every open order on it is the one
it points to, in state `assigned` or `disabled`. Each transaction is shown to free an address
only with the order that holds it (`FreedAt`), and to assign only one that is free. There is
no fork in `Deposits`, so no rewind and no mismatch changes an order
(`NothingMismatched`). What is left are the two ways in which a *confirmed* order of the
address, which may have given it away, changes again: a payment that is ingested or
attributed late reopens it, or it is cancelled by force. The property allows these two, and
`deposits_reassigned` shows what the first one leads to.

**The argument for Sourcing.** A grant's attempt and a purchase are written through
the `full` handle before the request leaves, so a power loss cannot forget them
(`AttemptsSynced`, `CallsBought`). A worker about to send holds a grant whose
attempt is recorded and unsent, and no two workers hold the same one there
(`SendsAttempted`): the UPDATE that records the attempt succeeds once.

`BurnIsLast` speaks of two columns written many ticks apart, so `BurnInv` says what
the engine knows at each step between them. A row whose source is `burned` has
no open rental and no delegation of energy in flight, in sight and on disk
(`BurnsLast`, for both images, since a power loss installs the second). The
engine is at the steps that rent or delegate only for a row that is not burned,
and at the burn only when nothing is open or the row is no longer its to write
(`CurOK`); the delegation it has in hand is that of the row in hand (`HandOK`), which the
walk leaves behind when it goes on (`WalkOK`). Every other statement is `Quiet`: only the
two steps that open a tier open anything.

The types are not inductive by themselves: a step writes the row in hand, so there must be
one. `SourcingTypes` adds that a withdrawal is in hand at every step between its reading and
its signing, and a grant at each step of a grant.

`SourcesAreNoted` relates two tables written by different commits, perhaps in different
ticks: the row's `energy_source` and the order's status. `SourceOK` says what the engine's
`energySource` promises at each step, and which status the order has where the engine is
about to write it, so that no statement takes a delivered order back; `Settles` says what
a statement may do to both columns, and holds for each.

**Only model-checked.** Liveness (`AttemptDecided`, `EventSettled`, `CatchesUp`,
`AcquisitionEnds`), which rests on fairness and is beyond the prover, and the
counterexamples of section 9. Every other property of a run is the statement of a theorem.

**Taken as given.** The assumptions of the modules: that a store call is atomic
(one SQLite transaction on a single-connection handle), that a `full` commit is
on disk when it returns, and what the environment actions say of the chain: a
transaction that has expired can no longer enter a block, a solid block stays, no
branch carries a transfer twice (`CarriedOnce`), and what stays was built on what
stays (`TreeAssumption`). `StartAssumption` says that a database starts without
payments and with the balances that gives, and `PoolAssumption` that addresses are finitely
many.

Some theorems name a hypothesis of their own, defined in the component's module. Those of
the first five rows hold in the instance of the passing run, where TLC evaluates them
(`InstanceAssumption` of `MCFollower` and `MCDeposits`).

| hypothesis | what it asks, and where the code leaves it open |
|---|---|
| `Certain` | a node that has a block has its receipts; the follower reads both and does not compare |
| `ConfirmationsSettle` | `tron.confirmations_required` is long enough for the chain; the code takes any positive number |
| `ForksAreShort` | the same of `tron.reorg_depth`, and the chain's first block is undisputed |
| `TimesGrow`, `OrdersStart` | a child is later than its parent, and orders start with nothing received |
| `PoolFits` | the start finds no more than `pool.max_size` addresses; it may have been lowered since they were derived |
| `HostClockAhead = FALSE` | the host's clock is not ahead of the chain's |
| `Dust = {}` | no payment is below the minimum |

## 11. Not modelled

`PROJECT.json` gives the reason for each component.

- **Drift.** `Withdrawal` takes the drift flag as changing at any time, so nothing it
  checks relies on the comparison, whose outcome depends on when two services were read.
- **Resource monitor, price service, chain client.** They poll and keep the last good
  value, or try the next endpoint. The components that are modelled see them as
  answers that may be old, missing or from another node. Exact decimal
  arithmetic of prices is out of reach of a finite model.
- **REST API.** A handler calls one store operation, which is an action of the module it
  belongs to; manual delegations, which start work, are in `Sourcing`. Idempotency
  keys and single-use codes are one INSERT each, whose uniqueness SQLite enforces.
- **Configuration.** The reload of consumers is in `Outbox`. Validation is a
  sequential check of one file; other sections change parameters that the
  modules take as CONSTANTS.
- **Keys, metrics, tools, dashboard, migrations.** Cryptography, read-only views,
  one-shot programs and a client.

Within the components: an order or a withdrawal in a currency that is no longer
configured, the hold on withdrawals while chain parameters are missing
(RES-022), the provider's balance check, forks beneath a grant's transaction, and
interleavings of withdrawals of two addresses, which meet only in the engine's
single goroutine.

## 12. Running the checks

    tlc -config withdrawal_restart.cfg MCWithdrawal.tla
    tlc -config withdrawal_power_loss.cfg MCWithdrawal.tla
    tlc -config withdrawal_forced_recovery.cfg MCWithdrawal.tla
    tlc -config outbox_two_workers.cfg MCOutbox.tla
    tlc -config outbox_settled.cfg MCOutbox.tla
    tlc -config follower_forks.cfg MCFollower.tla
    tlc -config follower_settles.cfg MCFollower.tla
    tlc -config deposits_pool.cfg MCDeposits.tla
    tlc -config deposits_reassigned.cfg MCDeposits.tla
    tlc -config sourcing_restart.cfg MCSourcing.tla
    tlc -config sourcing_decided.cfg MCSourcing.tla
    tlc -config sourcing_left_behind.cfg MCSourcing.tla

    tlapm WithdrawalProofs.tla
    tlapm WithdrawalClaimProofs.tla
    tlapm OutboxProofs.tla
    tlapm LedgerProofs.tla
    tlapm FollowerProofs.tla
    tlapm DepositsProofs.tla
    tlapm SourcingProofs.tla
    tlapm SourcingBurnProofs.tla

The runs, their modules and what each is expected to say are in `PROJECT.json`.
