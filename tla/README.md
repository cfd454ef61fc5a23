# Nova points: a verification project

This directory specifies the points service of zkLink Nova (`src/`, a NestJS
program) in TLA+, model-checks it with TLC and proves part of it with TLAPS.
The service reads what the block explorer stores (blocks, balances, transfers)
and what the adapters of other protocols produce (CSV files), and turns both
into points: rows of a ledger per block, and running totals per address.

One question runs through the whole project: **does every holding and every
transaction enter the ledger once, and the total exactly once, whatever fails,
overlaps or is repeated?** Points have no other safeguard: totals are written
as absolute values, almost no step is guarded by a constraint of the database,
and a wrong total is noticed by nothing.

All paths below are relative to `src/src/` of the repository.

## 1. Inventory

Everything runs in one Node process. `app.service.ts` starts the workers, each
an endless asynchronous loop that polls the database (`common/worker.ts`,
`utils/waitFor.ts`); `@Cron` methods run beside them. They share no memory to
speak of: they interact through tables. Between two `await`s a worker is
atomic, between two queries anything may happen. An unhandled rejection
becomes an uncaught exception and ends the process (`main.ts:7`), which the
container restarts.

| component | state | operations | interacts through | hard part | correct when |
|---|---|---|---|---|---|
| Direct hold (`points/directPoint.service.ts`) | `directHoldProcessingStatus`, `blockAddressPoint`, `points`, cache `holdingTvlUsd` | cron `saveBlockNumber`; worker: poll, price map, page, write | balances (explorer), `project`, `blockTokenPrice` | two writes without a transaction, swallowed errors, re-opened blocks, crashes | a total never exceeds the ledger; a processed block paid everybody |
| LP points by balance (`calTvlPoint.service.ts`) | `blockAddressPointOfLp`, `pointsOfLp`, `tvlProcessingStatus` | poll, read ledger, read totals, transaction | `balancesOfLp`, `project`; shares both tables with the next and with the bridge worker | reads outside the transaction; free before COMMIT; a failed read ends the worker | totals equal the ledger's sums |
| LP points by transaction (`calTxPoint.service.ts`) | the same two tables, `txProcessingStatus` | poll, read transactions, read totals, transaction; un-awaited mark | `transactionDataOfPoints` | no look at the ledger; writes back every pair of its users; a failed read ends the worker | no range is paid twice |
| Status cron (`updatePointStatus.service.ts`) | both status tables | opens a snapshot and the next range per project, at 02:00, 10:00, 18:00 UTC | blocks (explorer) | read and write are two steps; moves on over unfinished ranges | ranges are disjoint, and what they leave out has a known cause |
| Adapter data (`genAdapterData.service.ts`) | data tables, `project`, status | poll, child process, CSV to table, mark | file system, child processes | hours between read and write of a status row; missing files; a failure that ends the loop | data is stored before it is counted |
| Unit of work (`unitOfWork/`) | the transaction of an async context | begin, run, commit, rollback | every repository | the caller does not await it, some reads run beside it | all of a transaction or nothing |
| Bridge points (`bridgePoint.service.ts`) | pointer and daily counters in `cache`, LP ledger and totals | poll, one transaction per transfer, pointer at the end | transfers (explorer) | a crash or a caught error inside a batch, which repeats it; counters kept in memory; totals shared with the LP workers | each transfer paid once, at its place in the day |
| Bridge activity (`bridgeActive.service.ts`) | pointer and flags in `cache` | poll, flag, store pointer | transfers; the flags of the former | a pointer of its own over the same blocks | the flagged are exactly the receivers |
| Base data (`baseData.service.ts`) | pointer, `addressFirstDeposit`, `blockTokenPrice` | per block: prices (not awaited), first deposits | transfers, price provider | pointer ahead of the prices, null blocks, restarts | a block behind the pointer has its deposits, the earliest ones |
| Season totals (`seasonTotalPoint.service.ts`) | `seasonTotalPoint` | rebuild by delete and insert; upsert of other points each second | both ledgers, seasons, referral points | transaction not awaited; two writers of one table | the table is what the ledgers say, and loses nothing on the way |
| Referral points (`referralPoints.service.ts`) | `referralPoints` | rebuild by delete and insert | season totals, of which they are a part | a computation that could feed on itself | referrers get a tenth, in all |
| Redistribution (`redistributePoint.service.ts`, `redistributeBalance.service.ts`) | running sums, their history, `user_staked`, `user_holding`, `user_withdraw` | hourly: run adapters, accumulate; each 20 minutes: copy and divide | adapters, an indexer | overlapping hours, reads beside the transaction, OFFSET paging, division | each balance counts once; shares add up |
| Boosters and configuration (`booster/`, `config/`, `constants/`, `tokens.ts`) | none | season of a block, multipliers of a time, jobs of a project | every formula | boundaries of periods, lists that must agree | right at every boundary |
| Worker lifecycle (`app.service.ts`, `common/worker.ts`) | a promise per worker | start, stop, revert event | all workers | overlapping events, loops that never see the stop | the service never stays stopped |
| Prices (`token/`) | a cache of charts | fetch with retries, choose a price | CoinGecko | rate limits, charts that end early | no stale price |
| Statistics (`statistic.service.ts`, `projectTvl.service.ts`) | report tables | nightly and half-hourly reports | both ledgers, balances | late rows, a snapshot block shared by all names | the reports agree with each other |
| Adapters, programs (`adapters/*/execution`) | none | page through an index, retry, print | subgraphs | an index that moves, pages given up | what is printed is all there is |
| Adapters, subgraphs (`adapters/*/subgraph`) | entities | a handler per event | contracts | ids that collide; contract reads at the end of the block | the entities say what the chain says |
| Linkswap back-fill, token data saver, health, metrics, logging | | | | | not modelled, see 8 |

## 2. Modules

| module | what it is |
|---|---|
| `PointLedger` | the abstract promise: a ledger that records rows once, a total that settles each row once, and after it is recorded |
| `DirectPoint` | the direct-hold pipeline in full; it implements `PointLedger` |
| `PointProofs` | its theorems, and those of `Formulas` |
| `LpPoints` | the three workers that share the LP ledger and its totals, with transactions |
| `LpPointsProofs` | its theorems |
| `TxRange` | the one status row a project's transactions are paid by, and its three writers |
| `AdapterProofs` | its theorems, and of the adapters those of the feeds, of what becomes of an event, and what the indexes of zkDX, AGX and the multipool know |
| `BridgePoint` | the bridge worker's pass (two queries, a payment per transfer, counters, pointer), and the activity worker beside it |
| `SeasonTotal` | the three jobs that derive the season tables from the ledgers and from each other |
| `SeasonTotalProofs` | its theorems |
| `BaseData` | block pointer and first deposits, under start, stop and revert events |
| `BaseDataProofs` | its theorems |
| `Redistribution` | hourly running sums in un-awaited transactions, and the loop that copies them |
| `ServiceProofs` | the theorems of `BridgePoint` and of `Redistribution`, two modules that share no table |
| `Sums`, `DataTheorems` | the sum of a table over a set of its keys, which the models of totals, sums and subgraphs use; what the proofs need of sums, places and finite sets |
| `Prices`, `Configuration`, `Shares`, `Statistics` | computations as operators: prices and what balances are worth; seasons, multipliers and the other tables; the division of a token's points; the reports |
| `Formulas` | the four together, over all inputs of a small size |
| `AdapterFeeds` | the loop by which a program reads an index, in the variants the adapters have |
| `Subgraph` | what the handlers of all subgraphs share |
| `Sumer`, `Pools`, `Wagmi`, `Ledgers` | the subgraphs: a market; two lending pools; concentrated liquidity and a multipool; those that know their contracts by events alone |
| `Subgraphs` | one of them at work: transactions, blocks, handlers |
| `Adapters` | `Subgraphs` and `AdapterFeeds` in one specification |
| `SubgraphProofs` | what the indexes of Wagmi, the lending pools and Sumer know, and with `AdapterProofs` that every index says what its chain says |
| `MC*` | the instances TLC checks |

The modules meet where the code's components do. `LpPoints` has the three
writers of the LP totals together; `BridgePoint` and `TxRange` look at two of
them from another side. In `LpPoints` a range or a transfer is a job that is
handed out once, and the question is what the workers do to each other's
totals. In `TxRange` there is one project and one row, and the question is
whether its ranges are handed out once, given that each writer replaces the row
by what it read some time ago; in `BridgePoint`, whether the pointer hands out
each transfer once. `SeasonTotal` takes rows of the ledgers as they come.
`BaseData` has `DirectPoint`'s loop as the second worker, since the two notice
a stop differently. `DirectPoint` takes prices that are stored at any time, or
never, from `Prices`, and an amount of points is data in all state machines:
the amounts are in the computations.

**Totals as what they are made of.** The code keeps `stakePoint` as a number.
Here a total is the number of times each source (a block, or a type and a
block) is inside it. The code's `read + new` becomes `read` with one entry
increased, and its absolute write replaces all entries. Double credit, lost
credit and a lost update are then three different values, where a sum of small
integers would confuse them. Only the amount of a single row is abstracted.

### DirectPoint

`CronRead`, `CronPrice`, `CronSave` are `saveBlockNumber` between its awaits;
`CronSave` is an upsert, so it can re-open a block that was processed.
`Poll`, `StartBlock`, `EndOfQueue` are `runProcess`: one query for all
unprocessed blocks, then the blocks in ascending order, an unpriced one left
behind by the exception of `getTokenPriceMap`. `ReadPage` and `EndOfPages` are
the loop of `handleHoldPoint` with `getAddressTvlMap`. `WriteLedger` and
`WriteTotals` are the two writes of `updateHoldPoint`, one action per SQL
statement of at most `BatchSize` records. `CacheTvl` and `MarkProcessed` end a
block. `WriteFails` is the `catch` of `updateHoldPoint`, which swallows;
`BlockFails` is the one of `runProcess`, which leaves the block pending;
`Crash` keeps the tables and nothing else. The outside of the component is
`IndexBalances` (explorer), `RegisterPair` (adapter data) and `StorePrices`
(base data).

The reads of one page (ledger keys, pair addresses, first deposits, totals) are one
step: the ledger keys and the totals have no other writer, and a pair
registered between two of these queries is the same as one registered after
them. The history variables `lost` and `swallowed` name the rows cut off between
the two writes and the blocks with a swallowed error, and guard nothing.

### LpPoints

Per LP worker: `Poll`, then for each job `ReadLedger` or `ReadTxs`, `ReadTotals`,
`RunTransaction`, and independently `Commit`. What is faithful to the code and
matters:

- the TVL worker leaves out keys the ledger has (`calTvlPoint:180`), the
  transaction worker looks at nothing (`calTxPoint:92`);
- both read totals of *users*, in every pair; the first writes only accounts it
  has points for, the second all it read (`calTxPoint:174`);
- the handler resolves its promise inside the transaction (`calTvlPoint:151`,
  `calTxPoint:180`), so the worker may be reading again while COMMIT is on its
  way. `PromptCommit = TRUE` removes that one race, to study the other alone;
- transactions that write a common row wait for each other (`Conflict`); a row
  of the ledger that exists is kept (`ON CONFLICT DO NOTHING`), on the primary
  key without the type;
- a failed read ends the TVL and the transaction worker (`WorkerFails`: the
  `catch` is around the loop); a failed transaction of theirs ends the process
  (`Crash`);

- the bridge worker reads one account's total before its transaction and waits
  for COMMIT (`ReadTotal`, `RunTransaction`); its job is done when the pointer
  has moved (`PassTransfer`), a statement of its own;
- its `catch` is around one pass, in the loop (`PassFails`,
  `bridgePoint.service.ts:94-98`): an error in the transaction or behind it
  ends the pass and not the worker, and the next pass starts from the stored
  pointer in the same process. `cuts` counts the passes that ended with their
  transfer paid (`PaidNotPassed`), by such an error or by a crash.

Simplifications, each on the side of fewer defects: the two types of the
transaction worker, `txNum` and `txVol`, are one, since a configured project
has one of them (`TablesAgree` checks that); the un-awaited status write of an
empty range is immediate (its lateness is a subject of `TxRange`); the
un-awaited status write at `calTxPoint:179` is part of its transaction, because
it is sent on the same connection ahead of COMMIT. A `Poll` waits for the
worker's own open transaction, because ten seconds pass before it. A transfer
is one pass here; passes over several, and two transfers of one key, are in
`BridgePoint`.

### TxRange

`CronRead` and `CronWrite` are the two queries of `updateTxProcessStatus`;
`JobPoll`, `JobLoad`, `JobMark` are `pipeTxData` and `processTxData`, with
`JobNoFile` for a run that leaves no CSV file and `JobFails` for one whose
program or mark fails; `CalcPoll`, `CalcRead`, `CalcCommit` are the transaction
worker, whose un-awaited status write is `LateMark`. Every write is the whole
row as read, one flag changed. A failure the loops do not catch ends them until
a restart: `CalcDies` for any failed read of the transaction worker
(`calTxPoint.service.ts:42-55`), `JobDies` for the list of adapters. `paid[b]`
counts how often block `b` went into the totals.

### BridgePoint

A pass is `FetchDefault` and `FetchSymbiosis` (the two queries of
`fetchTransferList`, between which the explorer may store a block), then
`Announce` and `Pay` for each transfer in the order of their numbers,
`StoreCount` for each daily counter, `SavePointer`. `Interrupt` is a failing
query, which `runProcess` catches, or the end of the process: the next pass
begins alike from what is stored. The points of a transfer are a function of
its place in the day (`calculatePoint`), so the place stands for them. A
counter absent from the cache is read as the empty string, which the code
compares and increments like 0.

The activity worker (`FetchBtc`, `FlagReceivers`, `StoreBtcPointer`) writes the
same flags from a query of its own.

### SeasonTotal

Three jobs. `ReadDirectHold`, `ReadLp`, `ReadReferral` and `CommitTotals` are
`seasonTotalPoint.handlePoint`; `ReadReferrers`, `ReadStake` and
`CommitReferral` are the referral points; `ReadPoints`, `ReadSupplement` and
`UpsertOther` the loop that runs each second. A rebuild is over for its job
when the transaction is handed over (`open`), and commits later. A ledger row
is worth a hundred units, so that a tenth of a tenth still shows.

### BaseData

A pass is `ReadLatest`, `ReadPointer`, per block `Sync` and `Insert`, then
`StorePointer`; `PassFails` is a failing query, and so is the null block of an
empty explorer in `Sync`. `StartWorkers`, `StopWorkers` and `Restart` are
`AppService` and `Worker`: a stop clears the promises and waits for what it
found in them, a start makes a loop where there is no promise. `PayPending` and
`Schedule` are what `DirectPoint`'s loop amounts to here: it looks at the
promise only after it had a block. `overlapped` remembers that two events were
handled at once.

### Redistribution

`Hour`, `Adapter`, `AdapterFails` are the hourly run through the pools;
`InsertHistory`, `ReadTable`, `Commit` its transaction, whose reads are outside
of it; `ReadPage`, `InsertUsers`, `UpsertStaked` the loop that copies. `raced`
names the pools two of whose transactions were open at the same time. A
percentage is kept as the total it was divided by.

### Prices, Configuration, Shares, Statistics

Operators that take what the code reads and give what it writes: the price of
a block from the cached chart or a new one, requests and their retries, worth
at stored prices by either worker; season, early-bird, loyalty, withdrawal
window, multipliers, bridge places, job tables, with the entries of the
repository's own tables; the rows of a token's shares; active users and TVL of
a day. Times are numbers, amounts fractions or integers, tokens model values.
`Formulas` chooses an input and nothing else.

### The adapters

`AdapterFeeds` is one loop with five parameters, named in its header (pinned to
a block or not, kind of paging, retries, what becomes of a page given up, rows
that may be dropped after they were read), and the list `Feeds` says which
adapter has which. The index moves on while it is read, and a request fails in
three ways.

`Subgraphs` is a chain and an index. A transaction changes the contract (external,
modelled as far as its events and the reads of the handlers need it) and emits
events; a sealed block's events are handled in their order by the handlers in
`Sumer`, `Pools`, `Wagmi` or `Ledgers`, and a handler that calls the contract
gets the block's end. Entities are records by id; an id carries the log's index
or only the transaction, as the code builds it.

## 3. Runs

| run | instance | bounds | checks | result |
|---|---|---|---|---|
| `direct_point` | 4 addresses: the vault, a pool, two holders of which one only from block 2; 2 blocks; pages of 3, statements of 1 | 1 crash, 1 error | 4 invariants, 1 action property, refinement of `PointLedger`, 1 liveness property | passes, 139,740 states |
| `lp_both` | 1 user, 3 pairs, 2 blocks; 2 snapshots, 1 range over both blocks, 1 empty range, 1 transfer; late COMMIT | 1 crash, 1 failure: a read, or a statement of the bridge pass | 4 invariants, 1 liveness property | passes, 270,702 states |
| `lp_race` | the two LP workers, projects with pairs of their own, prompt COMMIT | none | `TotalsMatchLedger` | **violated** |
| `lp_types` | the two LP workers, one pair and block in common | none | `TypesCoexist` | **violated** |
| `tx_range` | 4 blocks, first range of at most 2 | 4 cron runs, 1 crash, 2 of: an adapter that fails or leaves no file, a loop that ends | 4 invariants, 1 liveness property | passes, 708,908 states |
| `bridge` | 5 transfers in 3 blocks: one user twice in a block, both queries in one block, two days; receivers of BTC | 2 passes that end early | 5 invariants, 1 liveness property | passes, 291,231 states |
| `bridge_replay` | no two transfers of a user in a block | 1 pass that ends early | `TotalsMatchLedger` | **violated** |
| `season` | 3 users, one of them the vault, 1 pair, 2 blocks of which 1 in the season | 1 row per place, 2 invitations, 1 fault | 2 invariants, 1 action property, 1 liveness property | passes, 215,208 states |
| `base_data` | 2 users, 2 blocks, 2 events | 2 faults | 2 invariants, 1 liveness property | passes, 122,844 states |
| `redistribution` | 2 users, 2 pools, 2 blocks, 2 runs at once; pages of 1 | 3 hours, 1 fault | 2 invariants, 1 liveness property | passes, 432,077 states |
| `formulas` | every input of a small size: charts of times up to 9, three tokens, all boundaries of the tables and the seconds around them, two users, three blocks | none | 4 invariants | passes, 215,084 states |
| `adapters` | 2 users (symmetric), each subgraph; 4 rows in pages of 2, each kind of feed | 4 transactions, 2 a block, 3 retries | 3 invariants | passes, 1,510,460 states |

Why the bounds are enough. `direct_point`: two pages of different size, a page
that is all skipped and an empty last page occur; a page takes two statements
per table, so a crash can fall inside and between both batched writes; two
blocks are needed for a total that already holds something and for a queue.
`lp_both` has the smallest set of jobs in which each worker can overwrite each
other and itself; one crash repeats any job, at any point of it and of the
others, and one failure beside it repeats the transfer again. `tx_range`: a
range, its successor, a cron run that overlaps both and one more; the chain of
four blocks gives each a range, or an empty one; two failures end both loops,
or one loop beside a range without a file. `bridge`: a pass of several blocks
or one block each, cut anywhere, and cut again while it is repeated. `season`:
two invitations make a circle, or a change of inviter; the user without a
referrer and the vault are the two special cases of the code. Its one row per
place is the thinnest bound of all: that a place holds several rows only
changes the amounts, and the theorems of `SeasonTotalProofs` hold for any
number. `base_data`: two events overlap, and as many loops as `start()` can
make of them; a loop needs no third block to be behind or ahead of another.
`redistribution`: two hours in flight, and a third to catch up; pages of one
row make every order of pages and rewrites occur. `formulas` checks both sides
of every boundary in the tables; a chart of more than three prices has no new
case. `adapters`: two transactions of one block and one before it are what
collisions of ids and reads at the block's end need, and the fourth undoes one;
a page that is full, one that is not and one that is empty occur in every kind
of paging.

Deadlock is checked in `direct_point`, `bridge` and `formulas`. In the others it
is not: all jobs may be done, the chain has stopped growing, events and hours
are used up, or a program has printed and ended.

What the properties say that a test would hardly reach:

- `StakePointWithinLedger`, `MissingCreditExplained`: the two unguarded writes
  fail on one side only, and only by a cut between them. Nobody is ever paid
  twice; who is cut off is not paid later either, since the ledger row makes
  every later pass skip the address.
- `StakePointNeverShrinks`: no absolute write takes points of an earlier block
  out again.
- `ProcessedMeansPaid`: with paging, skipping, resumption and re-opening, a
  processed block has left nobody out but for a swallowed error.
- `PromiseSpec`: the pipeline implements `PointLedger`.
- `PricedBlockIsProcessed`: unpriced blocks do not hold up priced ones.
- `CreditedAtMostOnce`: in spite of lost updates nothing is credited twice but
  a transfer, once more for each pass that ended between its payment and the
  pointer, be it by an error that is caught or by a crash.
- `TotalsExplained`, `DoneMeansPaid`: a total and the ledger differ by an
  absolute overwrite (`clobbered`), by a row that another type's row kept out,
  by a transfer that was paid again after such a pass, and in no other way;
  points of a finished job are lost by an overwrite and by nothing else. The
  overwrite has three causes: the transaction worker writes back totals of
  every pair of its users, the TVL worker reads again before its own COMMIT is
  answered, and each does it to the bridge's totals or has it done by the
  bridge worker.
- `LoadedJobIsPaid`: a loaded job is paid, or its worker has ended.
- `PaidOnce`, `PendingRangeIsUnpaid`, `FinishedRangeIsPaid`: stale whole-row
  writes do not hand out a paid range again and do not mark an unpaid one.
  They exclude one history, `overtaken`: the cron has read the row, and before
  its write the row has gone through a whole further range (which takes another cron run at
  the same time). TLC pays a block twice in that history; with crons
  eight hours apart it needs a run of the cron that takes that long.
- `UnpaidIsSkipped`: there are three ways for a block never to be paid, and
  no fourth: older than the first range, passed by the cron while unfinished,
  or an adapter run without a file. `PendingRangeFinishes`: a pending range is
  finished or replaced, unless a failure has ended one of the two workers
  and no restart comes.
- `PaidOncePerCut`: a transfer is paid twice only by a pass that ended early,
  and once more for each such pass, never otherwise.
- `PassedMeansPaid`: the pointer leaves an unpaid transfer behind in one case
  only, a block stored between the two queries of a fetch: the second query sees it, the first
  did not, and the pointer moves past both. (No document promises the contrary, so this is
  an exception in the property and not a finding.)
- `PlacesDiffer`: repetition never gives two settled transfers of a day the same place, since
  the counters are stored ahead of the pointer.
- `FlaggedMeansBridged`: the two workers' flags together are complete up to
  their pointers, and nobody is flagged for nothing. `TransferIsPassed`: both
  go on after passes that ended early.
- `ReferralIsATenth`: referral points are a tenth of the ledger's points at any
  time, although they are computed from a table that they are part of and
  inviters may form a circle.
- `OtherRowsSurvive`: the rebuild's delete, which commits at any time, never
  takes a row of the one-second loop. `SeasonSettles`: the tables end up as
  what the ledgers say.
- `FirstDepositIsEarliest`: repeated and restarted passes do not move a first
  deposit, and none behind the pointer is missing; unless two revert events
  were handled at once, in which case two loops of one worker live on side by
  side (TLC finds a depositor missing then).
- `EveryBlockIsPassed`: no sequence of events leaves the service stopped: every
  block gets behind the pointer of first deposits (it says nothing of what
  `DirectPoint` pays, which is the subject of `direct_point`), although
  `DirectPoint` without blocks does not see the stop and `stop()` waits for it.
  It rests on the cron, which gives that loop a block in the end.
- `SumIsHistory`: a balance enters the running sum once; unless two
  transactions on one pool overlap (`raced`), where a sum is lost.
  `StakedCatchesUp`: a page may miss or repeat a row, the copy is right later.
- `PricesAreRight`: no stored price is an hour older than its block, a request
  is given up only after its attempts; both workers count the same worth,
  unless a price is missing, which the pools' worker counts as one dollar (the
  exception in `WorthAgrees`).
- `TablesAgree`: seasons, boosters, multipliers, places and job tables have no
  gap, overlap or step in the wrong direction with two exceptions. Block
  5727189 is in no season. The last two lines of `withdrawTime` both begin at
  1714147200 and so share a day; the comment beside the last (line 43) names
  2024-04-28, a day later. The code takes the first line that fits, and both
  have the same period, so nothing comes of it as the table is; the property
  says that too. The five projects with both kinds of jobs are named.
- `SharesAddUp`: rows and total weight of a token agree, up to what users
  without a balance have withdrawn; balances divided out of a pool are no more
  than the pool's.
- `StatisticsAgree`: active users of a day and up to a day fit together even
  if rows arrive late; a name's TVL is of its own last snapshot, unless an
  earlier name had its last one in another block; reporting a contract as a
  project changes no report.
- `IndexMatchesChain`: after each block the entities agree with the contract.
  Exceptions named in the modules: WLP staked in Wagmi's dispatcher is counted
  twice until the balance is read again, its pool's collected protocol fees are
  not indexed, the sample's pool is stale after a borrow or repayment. The
  reports are part of it. The sample's asks for the users' balances at a block
  and for the newest pool: of the newest block it never shares more than the
  pool had; of an older one it may, but only by as much as the supply has
  fallen since. Of Sumer, what is supplied and redeemed is entered in the
  underlying token at the rate of that moment, and an account's interest at the
  market's rate (its balance at that rate, less what was supplied and more what
  was redeemed) is never below zero.
- `EventsAreKept`: an event has its own entity if the id carries the log's
  index. Repayments of Sumer, swaps of Wagmi and AGX and the events of zkDX have
  ids of the transaction alone, and the last of a transaction replaces the others.
- `FeedIsComplete`: a program prints all rows its index had, each once, with
  the exceptions its comment lists: a page given up (Shoebill, Layerbank,
  Aqua, Skyrangers, Rubic, the queries of redistribution) or a row (Wagmi, ZNS,
  Interport, Steer), the server's
  default page (Steer, Eddy, Rubic, the pools of redistribution), pages counted before the range grew
  (Rubic), a range behind which the index was.

## 4. Findings

- `lp_race` (`calTxPoint.service.ts:109`, `:177`). The transaction worker reads the totals
  of its users in all pairs, and writes all of them back. A snapshot
  committed in between disappears from `pointsOfLp` while its row stays in
  the ledger. The migration `CalculateAndUpdateTotalPoints` recomputes exactly
  the sums that the code fails to keep.
- `lp_types`. The type was added to the unique index of
  `blockAddressPointOfLp` and not to its primary key, so the second type of a
  (block, address, pair) loses its row, silently, and keeps its points. Five
  configured projects have both kinds (`logx`, `agx`, `wagmi`, `zkdx`, `interport`;
  `ProjectAgrees` derives them from the tables).
- `bridge_replay` (`bridgePoint.service.ts:178`). A pass that ends before its
  pointer is stored, by a crash or by an error that `runProcess` catches and
  logs (`:94-98`), is repeated, and what it had paid is paid again.

Two more ways to the first disagreement need no run of their own: the TVL worker
alone, when its next job reads before COMMIT has been answered
(`calTvlPoint.service.ts:151`), and two transfers of a user in one block from
one bridge address, where the row is replaced and the total has both
(`blockAddressPointOfLp.repository.ts:43`). `lp_both` names the first in its
properties; the second happens in `bridge`, whose properties count payments and
not rows, and is kept out of `bridge_replay` so that the trace shows one cause.

## 5. Fairness

Every worker is a loop of queries and timers that nothing disables, so each has
weak fairness on its own steps; the database answers every COMMIT; an issued
status write arrives. Jobs that a cron starts have weak fairness on their steps
in `SeasonTotal`, where the cron starts them again and again, and an hourly run
that has begun goes on in `Redistribution`. `BaseData` assumes that the cron of
`DirectPoint` schedules a block when none is pending, as a cron does that runs
three times a day. No fairness is assumed of hours, the explorer, events, invitations,
ledger rows, prices or adapters failing or succeeding, except that in `TxRange`
an adapter that has been started ends, and a cron run that has read also
writes. A worker whose loop has ended takes no steps in `LpPoints` and `TxRange`
until a crash restarts the process, fairness does not ask for any, and their
liveness properties except it. Faults are bounded in every run: with failures
for ever nothing could be promised.

## 6. Proofs

Every safety invariant and every action property that a passing run checks is
proved, for every value of the constants that meets the named assumptions of its
module, and so is the refinement of `PointLedger`. `Spec` is the one TLC checks;
where fairness is in it no proof uses it.

| module | theorem | statement |
|---|---|---|
| `PointProofs` | `TypeCorrect` | `Spec => []TypeOK` |
| | `LedgerBoundsTotals` | `Spec => []StakePointWithinLedger` |
| | `OnlyACutLosesPoints` | `Spec => []MissingCreditExplained` |
| | `ProcessedBlocksArePaid` | `Spec => []ProcessedMeansPaid` |
| | `TotalsOnlyGrow` | `Spec => StakePointNeverShrinks` |
| | `KeepsItsPromise` | `Spec => PromiseSpec` |
| | `PricesAreRightForAll` | `FormulaSpec => []PricesAreRight` |
| | `TablesAgreeForAll` | `FormulaSpec => []TablesAgree` |
| | `SharesAddUpForAll` | `FormulaSpec => []SharesAddUp` |
| | `StatisticsAgreeForAll` | `FormulaSpec => []StatisticsAgree` |
| `LpPointsProofs` | `LpTypeCorrect` | `Spec => []TypeOK` |
| | `LpCreditedAtMostOnce` | `Spec => []CreditedAtMostOnce` |
| | `LpDoneMeansPaid` | `Spec => []DoneMeansPaid` |
| | `LpTotalsExplained` | `Spec => []TotalsExplained` |
| `AdapterProofs` | `BlocksArePaidOnce` | `Spec => []PaidOnce` |
| | `PendingRangesAreUnpaid` | `Spec => []PendingRangeIsUnpaid` |
| | `FinishedRangesArePaid` | `Spec => []FinishedRangeIsPaid` |
| | `UnpaidBlocksAreSkipped` | `Spec => []UnpaidIsSkipped` |
| | `FeedsStayTyped` | `AdapterSpec => [](part = "feed" => FeedTypeOK)` |
| | `FeedsAreComplete` | `AdapterSpec => []FeedIsComplete` |
| | `EntitiesLieUnderTheirIds` | `AdapterSpec => [](part = "index" /\ Recording => EntitiesAreFiled)` |
| | `EventEntitiesAreKept` | `AdapterSpec => []EventsAreKept` |
| `SubgraphProofs` | `IndexAlwaysMatchesChain` | `AdapterSpec => []IndexMatchesChain` |
| `ServiceProofs` | `TypeCorrect` | `Spec => []TypeOK` |
| | `TransfersArePaidOncePerCut` | `Spec => []PaidOncePerCut` |
| | `PassedTransfersArePaid` | `Spec => []PassedMeansPaid` |
| | `PlacesAreDifferent` | `Spec => []PlacesDiffer` |
| | `FlaggedUsersBridged` | `Spec => []FlaggedMeansBridged` |
| | `ShareTypeCorrect` | `ShareSpec => []ShareTypeOK` |
| | `SumsAreHistory` | `ShareSpec => []SumIsHistory` |
| `SeasonTotalProofs` | `TypeCorrect` | `Spec => []TypeOK` |
| | `ReferralStaysATenth` | `Spec => []ReferralIsATenth` |
| | `OtherRowsStay` | `Spec => OtherRowsSurvive` |
| `BaseDataProofs` | `TypeCorrect` | `Spec => []TypeOK` |
| | `FirstDepositsAreEarliest` | `Spec => []FirstDepositIsEarliest` |

Hardly any of these invariants is inductive. Each module has an `IInv` that is
(`Redistribution`, whose names begin with `Share`, has `ShareInv`; the parts of
`Adapters` have `FeedInv`, `IndexInv` and an invariant per protocol),
made of named parts, which TLC checked on the instance of the run first. What
they have in common is the shape of this program: a worker copies, waits, and
writes absolute values, so what a table will hold is decided by the copies, and
`IInv` says of the copies, and of what is on its way to the database, what the
property says of the table.

**DirectPoint.** Whether `WriteTotals` pays twice depends on what is in memory.
`PageInFlight`: while a page is being written, its copy of the totals still
agrees with the table for every address not written yet, the addresses written
are in the ledger, and those not in the ledger have no credit of this block. It
holds because a page starts from addresses without a ledger row (hence without
credit, by `StakePointWithinLedger`), and because no other action writes either
table. Three families of steps are separated first: those that leave tables and
page alone (`QuietStep`), those that leave the tables and drop the page
(`MoveStep`) and those that drop it in the middle (`CutStep`); only `ReadPage`,
`WriteLedger` and `WriteTotals` then need an argument of their own.
`WriteTotalsPays` is the key lemma, that the absolute write equals an increment
of what is in the table; the action property and the refinement follow from it.
`ProcessedMeansPaid` needs `Covered` besides: the pages before the present one
are entered, of this page all but what is left to write. A page is what lies
between two multiples of the limit in the order of the addresses
(`PlacesHaveNoGaps`), so the first empty page is behind the last holder.

**LpPoints** (assumed: the kinds of jobs are disjoint; two jobs of a type, or a
transfer and any job, have no row in common). `Jobs`: a job is in one place, so
its transaction can commit once. `Limited`: tables, copies and open
transactions contain a source at most as often as its job is done (plus, for a
transfer, the passes cut so far); only an open transaction is one ahead, for
its own job. Nothing lowers that limit, so a copy that was within it when it
was read stays within it however old it is when it is written: this is why
absolute writes of old copies cannot pay twice, though they can take points
out. That a transfer counts as done from its COMMIT on and not only from the
move of the pointer (`Done`) is what a cut pass takes back (`CutsGrow`).
`PaidWhenDone`: a job is marked by a step that has its points stored, or has no
rows; afterwards only an absolute write can remove them, and `clobbered`
records it. `HasRow`: whatever is in a table or a copy has its row, or is
written together with it. `KindsOfSteps` reduces the actions to three, those
that only copy, `RunTransaction` and `Commit`. Two transfers of one account in
one block are excluded by the assumptions: `BridgePoint` has them.

**TxRange.** Three writers replace one row by a copy of it. `Truthful`: what
the row or any copy says is true of the blocks, those behind it are in the
ledger or given up, its own are if it is finished, and they are loaded if it is
adapted. What a copy says stays true however old it is, since the sets of
blocks only grow; this is the whole proof of `UnpaidIsSkipped`, which has no
exception. `Ordered` holds as long as the cron is not overtaken: what is paid
lies behind every copy that may still be paid, what the adapter works on and
what the row has come to lie beyond what the transaction worker works on.
`PaidOnce` alone would not survive the write of an old copy, which re-opens a
row; `Ordered` says that it re-opens nothing that was paid.

**BridgePoint.** `Passes` says what a pass has in hand: what it has paid and
has still to pay is what the two queries have found, and in the order of the
numbers. `Credited`: what is in a total and not settled was found by the first
query or paid in this pass; with it a transfer is counted at most once for each
pass. `Places`: the places given in this pass are below the counter in memory
and above those stored, and memory is ahead of the cache where it is not equal;
so a repeated pass takes new places, because counters are stored ahead of the
pointer. `Flags` carries the receivers from the query to the pointer.

**SeasonTotal.** Two inequalities that move against each other. `OthersGrow`:
the rebuild deletes only the types it has read, and what the one-second loop is
about to write is at least what is in the table, because points only grow.
`Tenth`: in the tables and in every copy and open transaction, the points of a
ledger's type never exceed what was paid, and ten times the referral points
neither. The second rests on the first, as referral points are computed from
the ledgers' rows of the table alone; that the sum over all referrers is still
a tenth is `SumByClass` (each user has one inviter). Rows of a transaction that
commits late were within what was paid when they were read, and that only grows.

**BaseData.** `Alone`: unless two events are handled at once, a worker has at
most one loop alive, that of its promise or the one the handler waits for.
`Recorded`: then the one pass has recorded every depositor of the blocks it has
left behind, each with the earliest block. `Born` counts the loops against the
events, so `start()` always finds the next one.

**Redistribution.** `Apart`: two transactions that have inserted their history
and not yet committed share no row, have none that is committed, and are of one
pool only if it is counted in `raced`. `Current`: what a transaction has read
is still so when it commits, or its pool was raced. Then a commit adds the same
to a sum and to its history (`TableAfter`, `HistoryAfter`), and raises total and
pool by the block times the users printed (`SumRaised`), so that a share stays
at most one. Rows not in the batch keep a percentage of an older total, which
the pool's history has outgrown.

**Formulas.** The specification chooses an input and never changes it, so a
property is a statement about numbers, and the theorem needs no more than
`FormulaInit => property`. What carries it are lemmas of `PointProofs` about
each operator for every block, time, count and balance: the price that a chart
gives, what a retry can still return, the boundaries of the configuration's
tables, the shares of a token against its total, the users and the TVL of a day.

**AdapterFeeds.** `FeedInv` says of the loop's locals what `FeedIsComplete` says
of its end. `StillThere`: the rows that the first answer could have had, and
those read since, are in the index. `NothingYet`: before that answer nothing was
read. `BlockReached`: an index that is asked for the block has it, so the first
answer knew every row wanted. `NothingPassed`: such a row was read or lies where
the pages to come will find it, since a page takes the first rows there are
(`PlacesHaveNoGaps` again) and a cursor moves to the last of them.
`NothingTwice`: while the rows stay the same, and always with a cursor, what was
read lies before the next page. The index moves between two pages, and what that
does to a loop without a block is what the property excepts.

**Subgraphs, what becomes of an event.** `IndexInv`: `EventsInOrder`, the events
that wait are numbered as they come and later than all that were handled;
`RedeemsAlone`, the exceptions of zkDX; `EntitiesAreFiled`, an entity lies under
the id its handler makes; then a handler that saves under an id can only replace
an event of the same transaction, and `EventsAreKept` follows step by step.

**Subgraphs, what the index says.** `IndexMatchesChain` speaks of the end of a
block, when nothing waits. In between, the index is behind by what waits in the
queue, and the invariant says just that. A *fact* is a piece of the contract
that its events tell (what an address has staked, holds, owes; whether it
entered; an NFT's owner and liquidity; a pool's tick and reserve). `Makes(k, v,
e, w)` says what event `e` makes of the value `v` of fact `k`, and
`Faithful(k)`: the events of the queue, one after the other, make of what the
index has what the chain has. A transaction keeps it if its events tell what it
changes, a handler keeps it if it does what its event says, and at the end of
the queue it is equality (`KnownAtEnd`). So each protocol is read twice, its
contract once and its handlers once, and neither reading mentions the other:

- zkDX, AGX (`ZkdxInv`, `AgxInv`): stakes, exchanges, balances are facts. AGX's
  supply is no fact but is read from the contract, so it is right *or an event
  that will read it waits*, and the contract's supply is the sum of the balances.
- the multipool (`MultiInv`): a balance is read at the block's end, and may drift
  from what events tell; `ReadInBlock` says until when.
- Wagmi (`WagmiInv`): the pool is one fact, every NFT another, unless it is
  `Unindexed`, burned before its events were handled, of which `getPosition`
  finds nothing. What is active at a tick is a sum over the NFTs around it, and
  a transaction of several events is taken apart into steps of one.
- Shoebill and the sample (`PoolInv`): position, supply and cash are equal to
  the contract's or an event waits that will read them. That the users' shares
  never add up to more than the pool's balance, nor fall short by more than one
  for each, is `DividedAddsUp`, about floors of a division for any finite set.
  Of the sample every version of the index is kept in the model; each has of
  the users no more than was supplied then (`VersionRight`), or its transfers
  wait still, and `SharesOfMore` bounds what the newest pool gives of it.
- Sumer (`SumerInv`): tokens, debts, membership and close factor are facts;
  nobody's interest is negative (`Interested`): an event adds to both sides of
  the account what its cTokens are worth at the market's rate, truncated as in
  the code, and a rate that has risen adds to the balance's worth alone
  (`InterestMore`); each counter of an account is the number of entities of its
  kind, for which it is needed that an event's entity replaces none of those
  kinds (`FiledCounts`, which leans on `EventsInOrder`); and the market equals
  the contract's unless an `AccrueInterest` waits (`MarketRight`), because
  `updateMarket` reads at most once in a block and reads the contract of the
  block's end. Of the contract it is assumed that its rate never falls, that
  interest accrues in the first transaction of its block that accrues, and that
  a transfer is of one cToken.

One property of the tools shows in the model. `tlapm` 1.4.5 takes `@` of a second
EXCEPT clause for the value of the original function, which differs from TLA+ when
both clauses name one place, as in a transfer to oneself. Balances therefore move by
`Transferred`, two nested EXCEPTs, in all contracts; and `HandlePoolMint` writes
its record out.

**Sums and induction.** The library's induction theorems cannot be instantiated
here, but its least element of a non-empty set of numbers can. `DataTheorems` derives from it
that a property of sets which holds of the empty set, and of a set whenever it
holds of the set without any one element, holds of every finite set
(`SetInduction`), and with it what sums need: a sum does not depend on the
order in which `MapThenSumSet` takes the elements (`SumRemove`), it is monotone,
additive, may be taken class by class, scaled, or raised on a part. `Upsert` of
`Redistribution` counts its places with `Nth` for that reason: `SelectSeq` is a
recursion that the provers do not unfold.

Only model-checked: liveness and the fairness it rests on, which are outside the
prover (`PricedBlockIsProcessed`, `LoadedJobIsPaid`, `PendingRangeFinishes`,
`TransferIsPassed`, `SeasonSettles`, `EveryBlockIsPassed`, `StakedCatchesUp`).
The three runs that expect a violation have no theorem, of course.

## 7. Plan

The core (`DirectPoint`) was modelled first, then the workers that share tables
with it, what points are computed from, and the adapters; each with its run, and
then its proof. Modelled is every component that
writes points, what points are computed from, and the adapters whose subgraphs
are in the repository; proved is every safety property of them. What a later
version of the code would ask for:

1. a new adapter: its contract and handlers beside those of `Ledgers`, its facts
   for `IndexMatchesChain`, its loop as one more variant in `AdapterFeeds`;
2. the TVL rows of the status table, one per block, which have no history here;
3. liveness for any number of blocks, where a prover for it is at hand.

Runs stay small (one user, two blocks, one crash more than the property needs);
no module uses RECURSIVE operators, so that any of them can be proved about.

## 8. Not modelled, and why

- What only moves data: CSV parsing, child processes, `npm install`, SQL text,
  names of users and tokens, decimals, logging, metrics and health checks.
- `tvlPointLinkswap.service.ts`, whose loop returns at once, and
  `tokenOffChainDataSaver.service.ts`, which nothing starts and whose body is
  commented out; the list of coins and platforms of the price provider, which
  only that saver would read; `retryDelay.provider.ts`, which nothing calls.
- A bridge's registration as a project in the constructor of
  `BridgePointService`; the status rows of snapshots, which have no history.
- Of the statistics, that a night whose report fails is never reported again;
  and the functions over history that nothing calls.
- Adapters whose subgraph is elsewhere: only their programs' loops. Generated
  classes of the subgraphs, and prices in Sumer's market. One thing met there is
  in no property: Wagmi's program passes `{ blockTag }` to `map` instead of the
  call (`wagmi/execution/src/sdk/lib.ts:90`), so the pools' prices are those of
  the newest block and not of the block asked for.

## 9. Running it

    tlc -config MCDirectPoint.cfg MCDirectPoint
    tlc -config MCLpBoth.cfg MCLpPoints           (also MCLpRace, MCLpTypes)
    tlc -config MCTxRange.cfg MCTxRange
    tlc -config MCBridgePoint.cfg MCBridgePoint   (also MCBridgeReplay)
    tlc -config MCSeasonTotal.cfg MCSeasonTotal
    tlc -config MCBaseData.cfg MCBaseData
    tlc -config MCRedistribution.cfg MCRedistribution
    tlc -config MCFormulas.cfg MCFormulas
    tlc -config MCAdapters.cfg MCAdapters
    tlapm DataTheorems.tla
    tlapm PointProofs.tla
    tlapm LpPointsProofs.tla
    tlapm AdapterProofs.tla
    tlapm SubgraphProofs.tla
    tlapm ServiceProofs.tla
    tlapm SeasonTotalProofs.tla
    tlapm BaseDataProofs.tla

A run takes between one second and two minutes with two workers. From nothing
`SubgraphProofs` takes a quarter of an hour, `AdapterProofs` eleven minutes,
`PointProofs` seven, and every other proof module up to three.

Definitions marked `Mutant of` are plausible bugs of the definition they name.
`PROJECT.json` pairs each with the property that catches it; no run uses them.
