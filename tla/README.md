# AlanSwap, modelled and checked

AlanSwap is the back end of a DEX: a *listener* process follows a contract on
each configured chain and stores its stake, liquidity-pool and airdrop events in
PostgreSQL, an hourly *score job* turns stakes into points, and an *API* process
serves these tables, logs wallets in and sends stake transactions for them.

This directory holds TLA+ models of that code, TLC configurations that check
them, and TLAPS proofs about them. `PROJECT.json` ties every definition to the
lines it models (`map`), every property to the run that checks it, and lists the
hazards the properties are aimed at.

    tlc -workers 2 -config IndexerSafety.cfg MCIndexer
    tlapm IndexerProofs.tla    # and EventStoreProofs, ScoreProofs, AirdropProofs,
                               # StakeProofs, LoginProofs, LiquidityProofs, SumsAndPages

## The system

| Part | State | Operations | Talks to |
|---|---|---|---|
| Chain event listener, `app/sync/sync.go` | `lastBlockNum` in the goroutine of each chain; `chain.last_block_num` | tick every 12 s: head, range, `eth_getLogs`, classify, handlers, advance | RPC node; the three handler families; table `chain` |
| Stake handler, `updateDbUserAmount` | `user_operation_record`, `users.total_amount` | one transaction per pass | tables shared with the score job and the API |
| Pool handler, `liquidity_pool_sync.go` | `liquidity_pool_events`, `liquidity_pools` | one transaction per pass, RPC calls inside it | RPC node, pool tables |
| Airdrop handlers, `airdrop_sync.go` | `reward_claimed_events`, `airdrop_whitelist`, `airdrop_campaigns` | up to three transactions per pass | airdrop API |
| Score job, `integral.go` | `users.jf_amount`, `jf`, `jf_time` | cron, one pass per hour | ledger tables |
| Start-up, `core/app.go` | which part of the process runs | `Start(config, 1 or 2)` | everything |
| Stake service | platform account's nonce, records, user rows | stake, withdraw, records, overview | RPC node, ledger tables |
| Login | nonce per spelling of an address in Redis, JWTs, task rows | nonce, verify | Redis, database |
| Airdrop service | none | overview, available, ranking, proof, tasks | airdrop and task tables |
| Liquidity service | none | statistics, lists, growth, events | pool tables, RPC |

The parts share nothing but the database, Redis and the chain: the hard
behaviour is what happens between two statements. The listener is a retry loop
whose position exists twice (in memory and in a row); its handlers commit
separately; a failed call is sometimes an error and sometimes an empty result;
the process may die anywhere; the chain may reorganise. The score job reads rows
long before it writes them back. What each part has to get right:

* listener: no event lost, none counted twice, none from a dropped block, the
  stored position never ahead of the stored events, always catching up;
* ledger: totals equal to the records they sum up;
* score job: each record scored once, a stake no longer than until its withdrawal,
  none left out;
* start-up: every part of a process is started;
* stake service: a record for each transaction sent and no other, an allowance
  for each deposit, a stake withdrawn once;
* login: a nonce that serves the address it was issued to while it lives, and
  nobody once it was deleted; a caller finds his tasks however he is spelled;
* pool tables: counts, reserves and owners that agree with the events, and sums
  and pages over them that agree with each other;
* airdrop: tables that agree with the chain however often they are written, and
  answers that never promise more than is pending.

## Modules

| Module | Contents |
|---|---|
| `EventStore` | what the listener promises: final events reach the tables, at least once, more often only at the price of a fault |
| `EventStoreProofs` | TLAPS proof that the promises follow |
| `Indexer` | the listener of one chain with its handlers, the chain, the faults; its properties |
| `IndexerInv` | inductive invariants, checkable by TLC |
| `IndexerProofs` | TLAPS proofs that the properties follow, and that `Indexer` implements `EventStore` |
| `IndexerStore` | the refinement mapping from `Indexer` to `EventStore`, and the invariant it needs |
| `MCIndexer` | the events TLC uses |
| `Score` | start-up of the listener process, ledger, score job; its properties |
| `ScoreProofs` | TLAPS proofs of its safety properties |
| `MCScore` | rows and slots TLC uses, symmetry |
| `Airdrop` | the airdrop contract's events, the listener's three airdrop transactions, the queries of the airdrop API; its properties |
| `AirdropProofs` | TLAPS proofs of its safety properties |
| `MCAirdrop` | airdrops and users TLC uses |
| `Stake` | the stake service, the platform account at the node, user rows next to the listener; its properties |
| `StakeProofs` | TLAPS proofs of its safety properties |
| `MCStake` | requests, wallets and tokens TLC uses, symmetry |
| `Login` | nonces, concurrent verifications, tokens, task rows, and what a logged in caller is shown; its properties |
| `LoginProofs` | TLAPS proofs of its properties |
| `MCLogin` | requests and spellings TLC uses, symmetry |
| `Liquidity` | the rows of pools and their events, the calls made to fill them, and the requests that list and add them up; its properties |
| `LiquidityProofs` | TLAPS proofs of its properties |
| `MCLiquidity` | pools and users TLC uses, symmetry |
| `SumsAndPages` | lemmas about sums over finite sets and about pages of lists, for `AirdropProofs`, `LoginProofs` and `LiquidityProofs` |

Definitions called *mutant* are plausible bugs. Each replaces one definition and
makes TLC find one property violated; nothing else refers to them.

### EventStore

The readers of the tables do not care for passes, handlers and transactions.
They rely on two things: every final event between the block the process started
from and its position counts (`AtLeastOnce`), and no event counts more often than
there were faults to repeat it (`AtMostOncePerFault`). `EventStore` is the
smallest system that keeps both: `Settle` makes a block final, `Deliver` counts
any final events the position has not passed, `Advance` moves the position over
delivered events and never more than one block past `committed`, `Start` and
`Stop` fall back to `committed`, and `Outage` is a read of the chain that failed,
after which nothing is promised to be complete.

`IndexerStore` maps the listener to it:

| `EventStore` | `Indexer` |
|---|---|
| `frontier`, `final` | `head - Confirmations`, the events behind it |
| `delivered` | `stored` |
| `committed` | `dbLastBlock` |
| `up`, `start`, `position` | `pc # "down"`, `bootBlock`, `lastBlockNum` |
| `faults`, `outages` | `FaultCount`, `rpcFaults` |

A pass is a series of deliveries, one for each handler that commits, whether or
not its acknowledgement arrives; an empty or finished pass is an `Advance`; a new
block, with or without a reorganisation behind the confirmations, is a `Settle`.

### Indexer

An event is a log of the contract. The model keeps what the properties need:
`Kind[e]`, the handler that takes it; `blockOf[e]`, its block on the canonical
chain (0 when on none); `stored[e]`, how many times its effect is in the
database. `stored` is a count because the stake and pool tables have no key on
the event and the aggregates are increments, while claims are inserted `ON
CONFLICT DO NOTHING` and the other airdrop rows are upserts (`StoredBy`).

| Action | Code |
|---|---|
| `Boot` | `StartSync` reads the chain row, the goroutine starts |
| `Tick` | `sync.go:87-112`; ticks that do nothing are stuttering |
| `FetchLogs`, `FetchFails` | `sync.go:116-124`, with and without an error |
| `EmptyPass` | `sync.go:126-135` |
| `SkipStage` | a handler without events is not called |
| `StakeCommit`, `StakeCommitUnacknowledged` | the one transaction of `updateDbUserAmount` |
| `HeightWrite`, then `RowsCommit`, `RowsCommitUnacknowledged` or `RowsRollback` | the other handlers: the block number goes through `ctx.Ctx.DB`, not `tx`, and is visible before the rows are |
| `HandlerFails` | a statement fails, rollback |
| `FinishPass`, `RetryPass`, `HeightWriteFails` | `sync.go:217-233` and errors of `updateBlockNumber` |
| `Mine`, `Reorg`, `Crash` | environment |

A failed airdrop transaction ends the airdrop handlers of the pass
(`SaveAirdropEvents` returns), a failed stake or pool handler does not
(`StageError`). Block numbers are `uint64`; `Sub64` wraps.

Not in this module: what the rows say (amounts, reserves, whitelist totals),
parsing, and RPC nodes that answer inconsistently with each other.

### Score

Time is counted in hours. A sum of amounts is represented by the bag of
operation records it is made of, so `total`, `jfAmount` and `jf` of a row are
functions from record numbers to counts; `jf[i]` is the number of hours credited
for record `i`. This keeps the arithmetic of rates and decimals out and makes
"scored twice" and "never scored" visible.

`core.Start` calls `StartSync` and then `InitComputeIntegral` on one thread, and
both block. A started process therefore either listens (`BootIndexing`) or, when
`StartSync` returns because it has no chain to listen to or the query of table
`chain` failed, runs the job (`BootScoring`). `UpdateDbUserAmount` is the stake
transaction with its records and upserts; its `late` field is a history variable
that remembers whether the operation's time was already behind `jf_time`.
`Advance` moves the listener's position, or leaves it when another handler of the
pass fails or the acknowledgement is lost (`retries` counts these); a restart may
step back. So the records of one operation, which its transaction hash tells apart
from others, can be several.
`JobBegin`, `JobRead`, `JobQuery`, `JobWrite` and `JobFails` are the steps of
`computeIntegral` between two database calls. Cron starts a pass whether or not
the previous one is over: there are two `Slots`, and the history variable
`overlapped` tells when both were in use.

An operation is a stake or a withdrawal; the points computed for the part of an
hour since then are dropped by the code (`newJf.Add` and `newJf.Sub` return their
result). `CountedPerReading` bounds how often an operation counts: each record
once, and as many records as it was read. `NeverOvercredited` bounds the hours: of
each record, and of a stake less its withdrawal. A withdrawal that was stored late
never joins `jf_amount`, its stake earns on, and the property excepts it: this is
the flaw `ScoreFirstStake` shows. All properties of the job assume `~overlapped`, a
pass that is over within the hour.

Not in this module: `updateUserScore`, with which the API process writes the
same rows (see `Stake`), and rounding.

### Airdrop

`log` is the contract's history, one event to a block. The tables are kept as
references into it: `claims` is the set of stored `RewardClaimed` events
(`reward_claimed_events` has a key on transaction and log index), `source[a, u]`
is the event a whitelist row was last set from, `campaigns` is `is_active`. So
"which total is newer" and "which claims belong to it" can be asked without
storing a history.

| Action | Code |
|---|---|
| `Create`, `Activate`, `SetTotal`, `Claim`, `OtherBlock` | the contract: totals never below what was claimed, claims never above the total |
| `BeginPass`, `PassUnread` | `sync.go:87-207`; the stake and pool handlers of the pass come first and may fail or write the block number |
| `SkipStage`; `WriteHeight`, then `CommitStage`, `CommitUnacknowledged` or `StageFails` | `saveAirdropEvents`, `applyTotalRewardUpdates`, `saveAirdropAdminEvents`, in this order; an error ends the three (`Return`) |
| `FinishPass`, `RetryPass`, `FinishFails`, `Boot`, `Crash` | as in `Indexer` |
| `Request`, `RequestFails` | the query of the totals in `Overview` and in each item of `Available` |
| `Reply`, `ReplyFails` | the query of the claims; `Pending` is what the answer says if it succeeds now |

`passedOver` is a history variable: the events that the listener moved past
without storing them, because `eth_getLogs` failed (what `IndexerHeight` shows) or
because the process died after `updateBlockNumber` had written the block number
through the global connection and before the commit. Nothing in the code makes up for
them. `ClaimsBeforeTotals` says that whatever else fails, only claims in `passedOver`
can be missing behind a total. `TablesCurrent` and `PendingNeverOverstated` are
stated for listeners that passed over nothing (`~gap`).
The reader of the API sees the transactions at any point, so `ClaimsBeforeTotals`
together with the order of the two queries (totals first) is what keeps a pending
reward from being overstated: `PendingNeverOverstated` fails if either order is
turned round.

`Overview` adds up over all whitelist rows of a user; `Available` asks for each
row of `airdrop_campaigns` (`Items`), so a total without a campaign is in one and
not in the other. The ranking takes one airdrop or all of them (`RankingScopes`).

Not in this module: reorganisations (`Indexer` shows that confirmed blocks only
are read), two chains with the same airdrop id, the ranking by time. Proofs and
tasks are in `Login`.

### Stake

The stake service signs every transaction with one platform account. `slot[n]` is
the transaction the node knows for nonce `n`, `mined` how many are in blocks; a
pending one is replaced by a transaction with a higher gas price. A request is a
handler goroutine: `BeginStake` or `BeginWithdraw`, `GetNonce`
(`PendingNonceAt`, `SuggestGasPrice`), `Send` once for a withdrawal and twice for
a stake (approve with the nonce, deposit with nonce + 1), `Record`, and for a
stake `go updateUserScore`: `ScoreRead` and, later, `ScoreWrite`. A call may be
refused (`SendRefused`), fail with or without having reached the node
(`SendFails`), the insertion of the record may fail (`RecordFails`), and the
process may die (`Crash`).

A user row's `total_amount` is the set of stakes added to it. `ScoreRead` finds
the wallet's row with the lowest id whatever its token, as `First` does.
`ListenerStake` and `ListenerWithdrawal` are the listener process's upserts of
the same rows for stakes the wallets make on the chain. `raced` remembers wallets
for which an update came between another one's read and write: there the code
loses an amount, and `TotalsMatchRecords` says that nothing else does.

A wallet is its spelling: the listener stores checksummed addresses and the API
compares what the client sent. What the listener stores for the platform
account's own deposits is a row of that account and concerns no wallet here.

Not in this module: requests that fail before they send anything (parameters,
balance, lock period), points, transactions dropped by the node's pool, reverts
in the contract.

### Login

An address is a wallet and a form: lower-case, with other digits or `0X`, or
without `0x`. `IsHexAddress` accepts all three. Redis keys and tokens keep the
form the client sent; task rows and proofs are written and read in lower case
(`Lower`), and the `CHECK` of `user_task_status` refuses an address without `0x`,
so such a login gets its token and no tasks (`Bind`).

| Action | Code |
|---|---|
| `GetNonce` | `GenerateNonceForUser`; the result of `Set` is ignored, the client gets the nonce anyway |
| `CheckNonce` | `Verify` up to the signature: one read of Redis; what is refused changes nothing |
| `DeleteNonce` | `Del`, whose result is ignored, and `GenerateJWT` |
| `Grant` | the insertion of the task rows, whose error is ignored, and the reply |
| `AddTask`, `Complete`, `Tick`, `Crash` | rows of `tasks`, completed tasks, expiry, death of the process |

Two requests may read a nonce before either deletes it, and both get tokens; a
deletion may hit a nonce that was issued since. Both are in the model.
`SessionsBacked`, `SpentNonceRefused` and `NonceServes` say what holds
nevertheless. `CallerServed` follows a token to what it shows: every page size of
`UserTaskList`, the tasks of an airdrop, the proof of `ClaimReward`, with the
address taken from the body, the token or the query.

Not in this module: cryptography (a signature is the wallet that made it), the
refresh token (signed like the other and with the same lifetime; nothing tells
them apart). `Logout` does nothing, and `AuthorMiddleware` guards a group to which
no route belongs.

### Liquidity

`log` is the history of the chain: a swap of token0 for token1 or the other way
round, of a pool, by a user. The tables refer to it: a row of `events` has the
event's index, the stored sender, whether its tokens are known, and `created`; a
row of `pools` has `tx_count`, the last event and the version of the reserves (0
when the call failed). `made` is the order of the pool rows.

| Action | Code |
|---|---|
| `Boot` | `StartSync`; the table has one contract per chain, any one by then |
| `Parse` | `GetUserAddress` for each log, `getPoolTokenAddresses`; failed calls leave zero addresses |
| `Save`, `SaveUnacknowledged` | `saveLiquidityPoolEvents` with `updateLiquidityPoolInfo`: rows, count, last block, reserves from the head |
| `SaveFails` | rollback; the block number, written through the global connection, may stay |
| `EmptyPass` | no events in the range, or a failed `eth_getLogs`: `sync.go:116-135` |
| `Crash`, `Tick` | death of the process, the clock |
| `RequestBegin`, `RequestNext`, `RequestReply` | one query each of `GetLiquidityStats`, `GetLiquidityPoolEvents`, `ListActivePools`, and of `GetRewardDistribution` for one pool |

`created` is set when the rows are inserted, in the transaction that commits later, so
rows may appear with a time that has passed.

A request is the sequence of its queries (`Queries`), and `reader.got` what they have
found so far; between two of them the listener commits and the clock goes on.
`GetLiquidityStats` reads the total fees, those of today, the active pools and the pools,
in this order. `GetRewardDistribution` looks at the clock (`asked`), then asks for the day
(which looks at the clock again and has no end), for the last week and for the week
before, which both end where `asked` says. `Query` adds to some results how many rows
there were, for the properties.

Reading the code for these operators shows three things no document contradicts. The
listener stores no symbols, so every volume and rate in USD is 0; the model keeps the rows
a volume is made of instead. It stores price 0 with each event, so the change over a
period is always 0. And the total of the fees is read before those of the day, so an
answer may show more fees today than in all: `StatsConsistent` bounds the difference by
the fees of the swaps stored between the two queries. Likewise an answer may have a swap
in the day and not in the last week; `WeeksAddUp` says that it was created since the
request looked at the clock.

`UserPools` compares addresses as they are, as the query does, and the users of the model
ask in the spelling that is stored (`from.Hex()`).

Not in this module: the value of a user's pools, floating point, APY, two chains, and the functions no route
reaches.

## Runs

| Run | Result | Shows |
|---|---|---|
| `IndexerSafety` | passes, 393 999 states | `TypeOK`, `NoLossSinceBoot`, `NoPhantom`, `TargetConfirmed`, `DuplicatesBounded`, `CursorBacked`, `HeightMonotone`; `ImplementsEventStore`; `EventuallyStored`, `CatchesUp` |
| `IndexerRestart` | violates `ProcessedOnce` | a restart reads block `last_block_num` again |
| `IndexerHeight` | violates `HeightMeansStored` | a failed `eth_getLogs` is an empty range: the block number moves past events that are never read |
| `ScoreSafety` | passes, 5 502 901 states up to symmetry | `TypeOK`, `TotalsMatchRecords`, `CountedPerReading`, `NeverOvercredited`, `OnlyLateSkipped`, `ScoreMonotone` |
| `ScoreFirstStake` | violates `AmountIsTotal` | operations stored after their row's `jf_time` are never scored, the first of each row among them |
| `ScoreNeverStarts` | violates `ListenerScores` | a listening process never starts the score job |
| `AirdropSafety` | passes, 1 728 647 states | `TypeOK`, `ClaimsBeforeTotals`, `TablesCurrent`, `PendingNeverOverstated`, `WhitelistNeverGoesBack` |
| `AirdropRanking` | violates `RankingBySum` | sums are ordered as text: 9 before 10 |
| `StakeSafety` | passes, 2 488 108 states up to symmetry | `TypeOK`, `DepositsBacked`, `NoNonceGap`, `TotalsMatchRecords` |
| `LoginSafety` | passes, 433 410 states up to symmetry | `TypeOK`, `SessionsBacked`, `SpentNonceRefused`, `NonceServes`, `CallerServed`, `StatusKept` |
| `LiquiditySafety` | passes, 3 809 936 states up to symmetry | `TypeOK`, `TxCountMatchesRows`, `ReservesFollowEvents`, `FailuresStayLocal`, `MyPoolsFound`, `WeeksAddUp`, `StatsConsistent`, `PagesReachTotal` |
| `StakeStatus` | violates `ActiveMeansNotWithdrawn` | one withdrawal marks every stake of the same amount as withdrawn |

The violated properties quote a document or comment of the repository (see
`findings` in `PROJECT.json`).

**Bounds of the Indexer runs.** `IndexerSafety` has 1 confirmation for 6, batches
of 2 blocks for 1000, 4 blocks, words of 64 for 2^64: passes of full and partial
length, ranges that meet at their ends, and a second and third pass after a fault
all occur. One event of each kind that differs: a stake, in a transaction with its
block number; a pool event, whose block number is visible before its rows; a claim,
which is not stored twice; and one nobody handles. One reorganisation as deep as
the confirmations, one crash, one failed or unacknowledged database call and one
failed `eth_getLogs`, which may all meet in one behaviour. The runs that expect a
violation have 2 confirmations and 6 blocks. `MaxHead` bounds the chain, so
behaviours end and the runs do not check for deadlock. The proofs have no such
bounds.

**Bounds of the Score runs.** `ScoreSafety` has two rows, three operations (a stake, its
withdrawal and one more) and four records, four hours, three crashes, one failed call of
the job or batch that is read again, two passes at a time. A process that indexes and one
that scores alternate through crashes: index, score, index, score takes three. States in
which two passes overlap are checked but not continued (`CONSTRAINT UpToOverlap`), since
but for `TotalsMatchRecords`, which is proved for them too, the properties claim nothing
there. The two runs that expect a violation have one row, two operations and one crash.
The clock is bounded, so behaviours end.

**Bounds of the Airdrop runs.** Two airdrops, one of them created and activated
before the first block so that totals and claims occur early, one user, amounts 1
and 2, four blocks in batches of two after the first, one crash and one fault. Four blocks are enough for
total, claim, new total and a claim in two passes, and for a campaign created and
activated in one batch. The ranking needs two users and amounts of different
length; it has no faults.

**Bounds of the Stake runs.** Three requests: two stakes that share nonces and a
third that meets what they left behind, or stakes and a withdrawal. One stake
made on the chain, one wallet (rows of different wallets do not meet) and one token (a
second one makes the instance too large for a run; the theorems hold for any number),
two gas prices (equal ones are refused, a higher one replaces), one crash, one
fault. Requests are not reused, so behaviours end.

**Bounds of the Login run.** Two verifications, two nonces and two steps of the
clock, one wallet spelled in two ways and another in lower case; nonces live two
steps and tokens one, so a nonce can expire before, between and after the steps of
a verification, and a token before the nonces. Two tasks and pages of one and two
rows, one failed call, one crash. Two nonces are needed for a deletion that hits a
later one, two requests for a nonce that is shared.

**Bounds of the Liquidity run.** Every history of two swaps of two pools by two
users, three steps of the clock with a day of one step and a week of two, pages of one and
two rows, two crashes and one failed call. Mints and burns are left to
the module: they are stored and counted like swaps and belong to no sum. Two
swaps are enough for a pool stored, stored again with another event, and stored next to
another pool; read again after crashes, they make more rows than that. Four times
put a swap into either week, at the end they share, and into the day after the request
looked at the clock. A failure and a crash may meet, and a restart may watch
another pool. One reader: its requests do not write.

**Fairness.** `Indexer`: blocks keep arriving, and the goroutine takes its next
step when it can (`WF_vars(Progress)`): the ticker fires every 12 seconds, and a
call that can succeed is made. Nothing forces a fault or excludes it; the fault
counters are bounded, so a database that refuses a row for ever is not covered
by the liveness result. `WF_vars(Boot)` is an assumption on the environment: somebody
starts the process again, and the start succeeds. `Score`: the clock runs, a process that is down is
started, and its goroutines are scheduled.

## Proofs

Every safety property and every action property of the passing runs is proved for
all values of the constants. The constants satisfy what their module assumes of them (`ConstantsOK` and its like: bounds are
natural numbers, there is a batch, pages have a size), so the proofs hold for any
number of blocks, events, users, concurrent requests, crashes and faults (requests of
`Stake` and airdrops are finitely many). The properties follow from inductive
invariants, `Inv` or the layers listed below; TLC checked each of them on the module's
run before it was proved.

### Indexer and EventStore

`IndexerProofs` proves for any events, kinds, bounds and confirmations:

| Theorem | Statement | Extra assumption |
|---|---|---|
| `TypeCorrect` | `Spec => []TypeOK` | |
| `DuplicatesAreBounded` | `Spec => []DuplicatesBounded` | |
| `CursorIsBacked` | `Spec => []CursorBacked` | |
| `TargetIsConfirmed` | `Spec => []TargetConfirmed` | `InitHead >= Confirmations` |
| `HeightIsMonotone` | `Spec => HeightMonotone` | same |
| `NothingPhantom` | `Spec => []NoPhantom` | same, and `MaxReorgDepth <= Confirmations` |
| `NothingLost` | `Spec => []NoLossSinceBoot` | both |
| `IndexerImplements` | `Spec => ImplementsEventStore` | both |

`EventStoreProofs` proves `PromisesKept`: every behaviour of `EventStore` keeps
`AtLeastOnce` and `AtMostOncePerFault`, from `Base \in Nat` alone.

The assumptions are the two things the code relies on without checking: the
chain is older than the confirmations when the listener starts (otherwise
`currentBlock - 6` wraps), and no reorganisation is deeper than the
confirmations.

The argument runs in layers, each inductive given the ones before it:

1. `TypeInv`: types, and that no batch or failure mark survives a pass.
2. `RangeInv`: the range of a pass is not empty. `CountInv`: an event's count,
   plus one if its handler has yet to run in this pass, is at most the number of
   faults, plus one once the event lies below `Upper` (the first block that
   would be read again if nothing else fails). Repetition needs either a fault,
   which pays for it, or a block the listener has not passed.
3. `HeightInv`: as soon as a handler of a successful pass has run, the stored
   block number is the target, which is why `FinishPass` need not write it.
4. `TargetInv`: the target is behind the confirmations and the stored block
   number never exceeds the target of the pass being retried; a retried pass may
   use a larger target, never a smaller one.
5. `SettledInv`: what is read or stored is behind the confirmations, out of
   reach of a reorganisation.
6. `LossInv`: the batch is exactly what the chain shows in the range (stable by
   5), the events of the handlers that ran are stored, and the position only
   moves over ranges that were read.

The refinement needs one more layer, `StoreInv`: the position is never behind the
block the process started from, and a batch lies within its range also after a
failed `eth_getLogs`, so that nothing below the position is ever delivered. Then
each action is a step of `EventStore`: `ChainSettles` for the chain,
`DeliverStep` for everything a pass does before its end, `AdvanceStep` for the
end (here `NoLossSinceBoot` of the next state gives the guard of `Advance`), and
`SilentStep` for what the tables do not show.

`PromisesKept` rests on an inductive invariant that keeps the position at most one
block past the frontier, so that what becomes final later lies beyond it.

### Login

`LoginProofs` proves, for any wallets, spellings, lifetimes, nonces and number of
concurrent requests, with `LoginConstantsOK` as the only assumption:

| Theorem | Statement |
|---|---|
| `LoginTypeCorrect` | `Spec => []TypeOK` |
| `SessionsAreBacked` | `Spec => []SessionsBacked` |
| `SpentNoncesAreRefused` | `Spec => SpentNonceRefused` |
| `NoncesServe` | `Spec => []NonceServes` |
| `StatusIsKept` | `Spec => StatusKept` |
| `CallersAreServed` | `Spec => []CallerServed` |

`KeysInv` carries them: a key in Redis holds a nonce that was stored for that very
address, that no verification has deleted, and that has time left. It says at the
moment of the check what `SessionsBacked` remembers for ever (`NoncesKept`), and
since a deletion marks exactly the nonces of its address, also that a marked
nonce is in no key.

`CallerServed` rests on `BoundInv`: a granted login remembers how many tasks there were,
and unless its insertion failed or its address was refused, its wallet has had a row for
each of them ever since. Tasks are only added and a status only rises (`StatusKeptStep`,
which also gives `StatusKept`), so this outlives any later login of the wallet, and crashes.
What is shown follows from the operators: every spelling with `0x` reads the rows of its
wallet (`SpellingFacts`), and the pages of any size joined are the list
(`TaskPagesJoin`).

### Score

| Theorem | Statement |
|---|---|
| `TypeCorrect` | `Spec => []TypeOK` |
| `TotalsAreRecords` | `Spec => []TotalsMatchRecords` |
| `OperationsCountedPerReading` | `Spec => []CountedPerReading` |
| `HoursNotOvercredited` | `Spec => []NeverOvercredited` |
| `OnlyLateLeftOut` | `Spec => []OnlyLateSkipped` |
| `ScoresOnlyGrow` | `Spec => ScoreMonotone` |

Totals equal their records whatever the job does (`TotalsStep`). `CopiesInv` counts the
records of an operation: one if the listener is past it, and one for every crash and every
pass that stored a batch and did not advance; each of them either steps back over the
operation or pays for the next record. The rest holds `~overlapped`, as the properties
say, and rests on three facts. `OnePass`: without an overlap one pass is
running at most, at the hour cron fired last, and each row it has read and not yet
written is still what the table holds, with the window of records that belongs to it.
`Scores`: a row's `jf_amount` holds records of the row not after `jf_time`, all of them
but the late ones, each once, and no more hours are credited than lie between a record
and `jf_time`. The window of a pass begins where the one before ended, which is why
no record is scored twice. `Ends`: a withdrawal that is not late joins `jf_amount` no later
than the first pass after it, and from then on every hour that is added for the stake is
taken back for the withdrawal, so the difference stays what it was.
That the process which scores does not listen, so that nobody
else writes the rows, is part of the argument: it is what `ListenerScores` complains of.

### Airdrop

| Theorem | Statement |
|---|---|
| `TypeCorrect` | `Spec => []TypeOK` |
| `ClaimsPrecedeTotals` | `Spec => []ClaimsBeforeTotals` |
| `TablesAreCurrent` | `Spec => []TablesCurrent` |
| `WhitelistOnlyAdvances` | `Spec => WhitelistNeverGoesBack` |
| `PendingIsOwed` | `Spec => []PendingNeverOverstated` |

`RangeInv` fixes how the range of a pass lies to the stored block number: a range that
is read again ends no earlier than the one before. With it, a whitelist row never goes
back although ranges are stored again (`SourceInv`: a row stems from a block not above
the stored number). `SavedInv` says which events of the range are in the tables once a
stage is over, in the order claims, totals, campaigns; `BehindInv`, that every claim below
the position is stored or was passed over, and that everything is stored as long as nothing
was passed over. A row of the whitelist set from a total in the range therefore finds the
claims of the range stored, and those before the range behind the position.

`PendingNeverOverstated` compares sums, over the airdrops asked for. `BooksInv` is the
contract's promise, proved from its actions: what was claimed by a block is covered by
the total that holds there. `ReaderInv` remembers that the totals of a request are of
its user and not newer than the rows. Let T be the totals read, K what the chain shows
as claimed before each of them, C the claims the second query finds. The answer says
max(ΣT − C, 0), the contract owes ΣT − ΣK, and ΣK ≤ C because the claims before each
total are stored (`ClaimsBeforeTotals`, unless the listener passed over an event) and
those of different airdrops are disjoint.

### Stake

| Theorem | Statement |
|---|---|
| `TypeCorrect` | `Spec => []TypeOK` |
| `NoncesHaveNoGap` | `Spec => []NoNonceGap` |
| `DepositsAreBacked` | `Spec => []DepositsBacked` |
| `TotalsAreRecords` | `Spec => []TotalsMatchRecords` |

`SentOnce`: a request has each kind of transaction in at most one nonce, and none it has
still to send; so requests and slots can be counted against each other, and there is
always a nonce left (a pigeonhole argument over `Nonces`). `NoncesFilled`: all nonces
below the one a request is about to use are in use, also for the second transaction of a
stake, which asks nobody. `Backed`: unless a transaction was replaced, a deposit comes
directly after the approval of its request. `TotalsInv` concerns wallets without a race
and without a lost update: their rows hold exactly the stakes whose update is over, and
an update under way has read what its row still says. `raced` is set as soon as another
update comes in between, so the property says that this race is the only way to lose an
amount.

### Liquidity

| Theorem | Statement |
|---|---|
| `TypeCorrect` | `Spec => []TypeOK` |
| `CountsAreRows` | `Spec => []TxCountMatchesRows` |
| `ReservesAreCurrent` | `Spec => []ReservesFollowEvents` |
| `FailuresAreLocal` | `Spec => []FailuresStayLocal` |
| `WeeksAdd` | `Spec => []WeeksAddUp` |
| `StatsAgree` | `Spec => []StatsConsistent` |
| `PagesReachTotals` | `Spec => []PagesReachTotal` |
| `MyPoolsAreFound` | `Spec => []MyPoolsFound` |

`NewRows` shows that a batch turns the parsed events one to one into rows behind the
old ones; `AddedCount` then counts the rows with any property before and after.
`TxCountMatchesRows` and `FailuresInv` follow: zero addresses and empty reserves in the
tables, and those still in the parsed events of the pass, never outnumber the failed
calls. Reserves are asked of a node that has the range, and the chain only grows, so they
are not older than the events stored with them or before. For the requests, what was
counted first is never more than there is now (`ReaderInv`): rows are only added, so
lists only grow.

`StatsInv` says what a request for the statistics has found: the fees of the first n rows
(`SumTo`), where n is the number of rows by then, and fees of today that are part of the
first m rows, m not less than n. So today exceeds the total by no more than the rows from n to m
(`FeesAdded`). `GrowthInv` does it for a growth rate: rows keep their number and their time
(`SwapsStay`), the clock does not go back, and all of the day that was created before
`asked` is in the last week. `WeeksJoined` draws the conclusion when the last query is made.

`MyPoolsFound` needs that a stored sender is the user of its event or unknown
(`SendersInv`), so that nobody's failed call puts a pool on another's list. The list of
a scope holds each pool in it once (`ListFacts`; `NewestFirst` picks the decreasing order of
the rows' numbers, which exists for every finite set of them), and its pages joined are
the list (`PoolPagesJoin`).

### SumsAndPages

The specifications add up with `MapThenSumSet`, which the community modules define by a
recursive function chosen with `CHOOSE`. `SumsAndPages` shows that this function exists for every
finite set and is unique, and derives the laws of a sum: empty set, one element more in
any order, equal and smaller summands, differences, unions of disjoint sets, subsets.
Each is proved by a smallest counterexample: of the finite sets that violate it one has
the fewest elements, and removing one element gives a smaller one. The induction theorems
of the library, which take a predicate as parameter, are not needed.

Pages are slices of a list, and the properties join them with `FlattenSeq`, which is a
recursive function chosen with `CHOOSE` as well. It has at most one solution
(`JoinsUnique`, again by a smallest counterexample), and for pages that cut a list without
gaps one is known: up to page p, the list up to the p-th cut (`SlicesJoin`). `PagesJoin`
applies this to `OFFSET (page - 1) * size LIMIT size`: as many pages as the list has
elements, of any size, are the list.

### Model-checked only

The liveness properties (`EventuallyStored`, `CatchesUp`): liveness under fairness is out
of the prover's reach. And the violations, which are counterexamples.

## Plan

Done: `Indexer`, `EventStore` and the refinement, `Score`, `Airdrop`, `Stake`, `Login`
and `Liquidity`, in this order, since everything else depends on what the listener
stores; and the proofs of all their safety and action properties. Left open are the parts
listed next and the hazards without a property.

## Not modelled

ABI loading, configuration, logging, routing and generated bindings: they are set
up once and change no state afterwards. The token service, which nothing calls.
Parsing of logs and the arithmetic of amounts, rates and prices, except where a
property is about it (the ranking by text, the wrap of `currentBlock - 6`). RPC
nodes that disagree with each other. Rows of two chains with one airdrop id. The
order PostgreSQL gives rows with equal sort keys. `components` in `PROJECT.json`
has the reasons part by part, and `hazards` what is left without a property.
