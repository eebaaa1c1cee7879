# Verification of chain-indexer

TLA+ models of chain-indexer (`gateway-fm/ops-indexer`), an EVM chain indexer: it follows a node, writes every block into
Postgres, keeps derived tables (balances, counters, day aggregates) beside the blocks, prunes old history, and
serves a gRPC read API. The models are checked with TLC on small instances and, where said, proved with TLAPS for
every value of their constants. `PROJECT.json` maps every definition to the lines it models and lists the runs, the
hazards and the theorems.

## The system

### Parts, their state and their operations

| part | state | operations | what makes it correct |
|---|---|---|---|
| Head loop, standard mode (`indexer.go`, `prefetch.go`, `receipt_skip.go`, `standard_missing_retry.go`) | `lastIndexed`, the read-ahead slots, the open block transactions, `receiptSkip`, pauses | tick: compare, revert, read ahead, commit; retry recorded blocks | the stored chain is linked, follows the node, forgets no block |
| Head loop, realtime (`realtime.go`) | `lastProcessedBlock`, `failedRevertFrom`, `revertPending` | the same tick one confirmation behind; jump to the head | the same, beside catch-up |
| Start check (`checkStoredHead`, `revertStaleHead`) | none kept | compare the stored head before any loop, revert, wait, refuse | no loop starts over a stale fork |
| Gap filling (`missing_range_collector.go`, `catchup.go`, `db/missing_ranges.go`) | `missing_block_ranges`, `indexer_progress`, the scanners' bounds, the work channel | startup, backward and forward scans; poll, push, check, write, requeue, delete the row | every gap is filled, every row goes |
| Balances (`balance_worker.go`, `balance_rereads.go`, `db/balances_revert.go`, `db/batch.go`) | current and history rows, the reorg epoch, `balance_rereads`, queue, batch | stamp, fold, read, flush, revert, claim, re-read | no balance of a left fork stays |
| Block writes (`db/batch.go`, `db/queries.go`) | blocks and per-block rows, tokens, owners, `address_stats`, `chain_counters` | begin, finish, delete a block | one lock order, exact inverse on revert |
| Ledger (`db/ledger.go`, migrations) | spans `[lo, hi)`, per-span sums | close in order once final and complete; compact; rebase addresses | running counters = closed spans + open blocks |
| Retention (`db/retention.go`, `db/archive.go`) | partitions attached, detaching, detached, dropped; the watermark | cut, keep ahead, prune, detach, archive, drop | nothing still needed is dropped; ingest always has a partition |
| Verification (`db/verify.go`, `node_recount.go`, `chain_checks.go`) | repairs, quarantine, check times | recount, compare, repair, quarantine | a repair never makes a right counter wrong |
| Day statistics (`db/daily_fold.go`, the throttle in `indexer.go`, refill) | watermark, aggregates, late days, dirty days | fold, recount, invalidate, refill | each stored block counts once; a dirty day is folded |
| Stats backfill (`stats_backfill.go`, `db/backfill.go`) | its span, its batches | count from the node below the start block, resume | every block counted once |
| Node lookups (`nodelookup`) | an LRU of blocks, slots, shared fetches | fetch, serve, forget | bounded; never a block of another hash |
| Contracts backfill (`contracts_backfill.go`, `internal_creations.go`) | none kept | scan stored frames, trace listed transactions, insert | a rerun ends what a stop left |
| gRPC API (`grpcserver`) | the cached watermark | paged reads, reads by number and by hash | pages neither skip nor repeat; a pruned block is said to be pruned |
| Event bus, gas tracker, chain info | subscribers' channels; cached answers | publish, subscribe; refresh | no send blocks ingest |
| Node client (`rpc`, `limited_rpc.go`), configuration, metrics, logs | connections, limits | calls with retries | - |

### How they interact

- `main` starts the head loop, the ledger closer, retention, verification and the API as goroutines over one
  Postgres pool; each is stopped at any point by a signal or a failing sibling. There is no other shared memory than
  the pool of balance workers, the day throttle, the caches and the event bus.
- In collector mode three writers store blocks: realtime at the head, catch-up's workers below it, and realtime's
  revert, which deletes. They meet only in the database. `missing_block_ranges` is the hand-over: realtime records
  what it jumps over or skips, the scanners what they find, catch-up empties it.
- In standard mode the head loop is the only writer, and empties `missing_block_ranges` itself (`retryMissing`).
- A block's commit decides which balances to read; the pool reads them at the node's latest state, later, and
  writes them later still. A revert fences these reads with an epoch and asks for the touched keys again.
- The ledger closes what no reorg can reach, and only then may retention prune it.

### What is hard

A node that reorganises between two reads of one check; blocks read ahead of a reorg and consumed after it; calls
that take effect and report an error; a process that stops with work only in memory; three writers of one table
whose rows one of them deletes; reads of "latest" that are written down long after; waits for a node that is behind.
`PROJECT.json` lists each under `hazards`, at the line where it bites, with the properties that would catch it.

## Modules

| module | models | checked by | proved in |
|---|---|---|---|
| `Catchup` | collector, producer, workers, realtime's effect on `missing_block_ranges` | `MCCatchup`, `MCServices` | `CatchupProofs` |
| `BalanceEpoch` | the balance pool, the epoch fence, reverts, re-reads | `MCBalanceEpoch` | `BalanceProofs` |
| `HeadIngest` | the start check and the head loop in both modes, with catch-up's writes beside it | `MCHeadIngest` | `HeadProofs` |
| `LedgerRetention` | history ranges, the cut, pruning, the ledger closer, the start's recount, the wipe | `MCLedger` | `RetentionProofs` |
| `AddressRebase` | address rows against their truth: writes, reverts, rebases, repairs, settlement, the running check | `MCLedger` | `AddressProofs` |
| `ExactOrOwed` | what `AddressRebase` promises: a counter is right, or recorded as owed | as a refinement, `MCLedger` | as a refinement, `AddressProofs` |
| `SharedRows` | block writes, balance flushes and reverts, statement by statement with their locks | `MCServices` | - |
| `DailyStats` | the throttle, the fold, late days, invalidation, refill | `MCStatistics` | - |
| `StatsBackfill` | the blocks below the start block, counted from the node | `MCStatistics` | `BackfillProofs` |
| `NodeRecount` | pruned spans counted again from the node | `MCStatistics` | - |
| `ContractsBackfill` | the `backfill-contracts` command | `MCServices` | - |
| `ReadApi` | lists, pages and targets of the gRPC API, over history that moves | `MCServices` | `ServicesProofs` |
| `NodeLookup` | pruned blocks served from the node | `MCServices` | `ServicesProofs` |
| `NaturalFacts` | the least and the greatest element of a set of naturals, used by the proofs | - | `NaturalFacts` |

`MCServices`, `MCLedger` and `MCStatistics` each check several modules in one run: the variable `part` selects, at the
start, the module that moves, and the others stay at a fixed first state. The parts do not interact there; what the
modules have in common is modelled inside each of them (a revert, a prune, catch-up's writes).

### Catchup

`stored` is the blocks table as a set of numbers, `ranges` is `missing_block_ranges`, `progress` is
`indexer_progress`. `mode` is the process: down, in `initialScan`, or up with its goroutines. The backward and the
forward scanner each read the gaps of a batch in one step and save them in another (`bwd`, `fwd`), as the code's two
statements do; failed startup batches are in `unscanned`. The producer polls rows into `polled` and pushes their
blocks into the channel `queue`; a worker takes a block through check, process, requeue and mark, each a database
call of its own. `MarkBlockProcessed` deletes every row that holds the block, as the `WHERE` does. A call may fail,
with or without its effect (`faults`), and the process may stop anywhere (`crashes`): memory goes, tables stay.
`RealtimeIndex`, `RealtimeSkip`, `RealtimeJump` and `RealtimeRevert` are realtime as catch-up sees it; how it gets
there is `HeadIngest`.

*NoBlockLost*: a block at or below realtime's cursor is stored, or something in this process still leads to it: a
row, a poll, the channel, a worker, a batch to scan again, or a region a scan has yet to reach.

The code keeps this except in three situations, all through the same statement: `DeleteMissingRangeByBlock` deletes
every row holding the finished block, also a row saved after that block was polled, and with it the only trace of
the row's other blocks. `Calm` excludes exactly those three kinds of step: a rescan that saves a range over a block in
flight, a poll that takes one of two overlapping rows, and realtime recording a block above its cursor that is in
flight. `catchup_rescan` drops `Calm` and shows that the first is real. *EventuallyFilled*: once faults, stops and
reorgs cease, every block up to the cursor is stored for good and no row is left.

### BalanceEpoch

Balances are not amounts here but provenance: a row is the block it was read for and the fork the node was on when
it was read. A current row is good when its fork is not older than the last revert that touched its key
(`revertFork`, a history variable). `epoch` is the database sequence, `poolEpoch` the pool's stamp; `decided`,
`queue`, `batch` and `claimed` are the work of a key from its block's commit to its flush. A revert runs in the
code's order: gate the pool, lock, take the epoch, restore rows and record requests, commit, release
(`HoldEpoch`, `LockBalances`, `TakeEpoch`, `CommitRevert` or `AbortRevert`, `ReleaseEpoch`). `InsertBalancesBatch` is the flush: drop reads older than the key's
epoch and re-open its request, apply the highest-block guard, close the request. With `Gap` > 0 the lowest blocks
are missing at first and catch-up stores them beside realtime.

*NoForkBalance*: a current balance read before the last revert of its key has an open request, has used up its
attempts, or is of a key in a transfer that catch-up stored (`CaughtUp`). *RowsWithinHead*: no balance row is above the
stored head. *EventuallyAnswered*: every request is answered or given up, with the same exception. *SettledBalance* is
NoForkBalance without it, when nothing is being reverted, and does not hold (`balances_catchup`).

### HeadIngest

A block is its hash, and a hash determines its chain below it. The node (`fork`, `head`) is on any of `Chains` at
any height and may switch to another, or go back, at any moment; that is a reorg, a restart of the node, or a failover to one
that is behind. `stored` is the blocks table, `missing` the recorded blocks, `cursor` is `lastIndexed` or
`lastProcessedBlock`, `pc` says where the loop stands. `walk` is a comparison under way, one stored block and one
node hash per step (`detectReorg` per tick and before a jump, `revertStaleHead` at the start); `revert` is
`handleReorg`, one block per step from the highest down; `tick` holds the read-ahead slots, filled by their own
goroutines in any order, and the queue of open block transactions, opened and finished in block order. `Depth` = 1 is
`indexPrefetched`; above 1, `indexPipelined`. `receipts` is `receiptSkip`, `failed` is realtime's memory of a failed
revert, `filling` a catch-up worker between its read and its write.

Two details of the correspondence. A block transaction's begin is evaluated when the loop takes its result
(`FinishOldest`): nothing else writes that row in between that would make a difference. An empty block drains the
pipeline first and is then written at once; `FinishOldest` may run whenever the queue is not empty, so this order is
among the ones explored. A failing read of the node's head, at a tick or while the start waits, changes nothing and is a
stutter. The height a subscription announces is taken as the node's at that moment.

*Linked*: in standard mode a stored block extends the stored block below it. In collector mode this is not promised:
catch-up has no parent check. *NoHole*: below the cursor, a block is stored, recorded as missing, or still to be put
right by the loop: a revert under way, a failed revert that realtime remembers, or, in standard mode, a block above
the highest stored one, to which `anchor` goes back. *Converges*: once the node settles, the stored chain becomes
the node's and stays so, unless the stored fork is deeper than any reorg, which the code refuses until an operator
decides (`ChainReset`). *FollowsTheNode* is Converges for the behaviours whose troubles allow it (`Comparable`): no
write of catch-up, which nothing compares again (`catchup.go:416`), and no failing call beside a restart, which may be
the read of the stored head.

What may go wrong is a budget, chosen at the start from `Scenarios`: failing calls, calls that take effect and
report an error, answers without receipts, catch-up writes, switches of the node, stops. The scenarios keep the
state space within reach and name the combinations under which a property is claimed: those of the run `head` all satisfy
`SkipsApart` and `WritersApart`, the hypotheses of the theorems.

### LedgerRetention

Two loops share the history tables with ingest: retention (`retention.go`, `archive.go`) and the ledger closer
(`ledger.go`), both mostly calls of the SQL functions in the migrations. `parts` is `history_partitions`, with how
many of each range's tables are detached, pending or dropped; `spans` are the closed spans and what they counted;
`pruned` is the watermark, `archives` what is archived, `total` the running counter that writes and reverts move.

Retention's pass is a sequence of steps that everything else may run between: drop a stale cut's checks
(`DropCutChecks`), begin, constrain, validate and finish the cut (`CutStart` to `CutFinish`), ensure ranges
(`PassEnsure`), take away what is past the watermark (`DetachRange`, `ArchiveRange`, `DropRange`, one table at a
time), then check the oldest range (`PruneOldest`) and move the watermark in one transaction (`PruneAdvance`). `ens` is the
holder of `ensureMu`, which the keeper, the pass, the start and the wipe take: the gaps are read in one snapshot and
filled one range at a time. The closer takes the next span (`LedgerNextSpan`), waits for the history-DDL gate, and closes
the span or gives up. `StartReseed` is the start's recount; the `Wipe` actions are `FORCE_REINDEX`, which a stop may
cut short and the next start finishes. Ingest, late writes, reverts and the day watermark are there as far as ranges
and ledger see them.

*RecountExact*: at every moment the start's recount of every table equals the running total it replaces.
*RunningExact*: closed spans plus the rows above them equal the running total. *ReorgDayKept*: a revert within the
reorg depth is never refused because its day is partly pruned. *RangesCovered*: from the first retained block up, every
block has exactly one range, and a range below is not attached. *SpansWhole*: no range bound above the watermark
lies inside a closed span. *ArchivedBeforeDrop*: a table goes only when its rows, of this chain, are archived.
*PrunedStaysPruned*: no late write stores a block at or below the watermark.

### AddressRebase and ExactOrOwed

An address row has one counter and its first and last block; the truth is the closed span's ledger row plus the open
blocks that touch the address. Writers take rows one by one in address order and commit at once (`IngestTake`,
`IngestCommit`, `RevertTake`, `RevertCommit`). A rebase, of a batch or of a span that was closed, holds the rebase lock: it reads
rows, truth and the record's row versions in one snapshot (`ReadRow`), later locks the rows, finds those a revert recorded since
(`RevertedSince`), which it counts again, and writes the corrections, `addresses_total` and the days to recount (`RebaseCommit`). `Settle`
is a span's settlement, which may move the truth and then records it (`TruthMoved`); `CheckRead` and `CheckRepair`
are the running check, which repairs a drift once and quarantines it the second time; `WalkRead` to `WalkDone` are
the reconciliation and the repair command, which may time out and be halved, stop and go on.

*ExactUntilRecorded*: the module implements `ExactOrOwed`, whose whole state is which addresses are right, which are
recorded and which have no row: a counter that is right and not recorded stays right until a step that records it, and
a record is taken off only a counter that is right or has no row. A counter recorded while a batch ran may go wrong when
the batch commits, as long as it stays recorded: the next rebase sets it. *RebaseSetsTruth*: a batch leaves each row it took at its truth, whatever
ran since its read. *RowsAccounted*: `addresses_total` is the number of rows, and a moved `first_seen` leaves a day
recount pending. *NothingQuarantined*: no counter is quarantined, but for an address whose row a revert removed
between a check's read, which found it wrong, and its rebase (`past.lost`), which logs a repair of nothing.

Chain counters stand for token counters too. A span's rebase creates rows only for the span's addresses; a revert that finds no row does
not lock it, which is the exception in *RebaseSetsTruth* (`past.passed`). A revert's read, decision and write of one
address are one step. The lookup indexes are built, stopped, found invalid and built again (`IndexBuilt`,
`IndexBuildStops`); what reads through them waits.

### SharedRows

Block writes, balance flushes and a revert are transactions at READ COMMITTED, each a sequence of statements in
the code's order (`BeginBlockData`, `WriteSharedRows`, `FlushBalances`, `DeleteBlock`). A statement that locks waits for
the holder; writes are seen, and locks freed, at commit. The pipelined head has two block transactions open and
finishes them in block order (`WritesBefore`), which is a wait the database does not see. A connection may be lost
and its transaction rolled back.

*NoWaitCycle*: no set of writers wait for each other, in the database or through the pipeline. *TokensCounted*: a
tokens row counts the stored transfers and the positive holders at every commit, however the row's late creation and
seed cross other writers. *OwnerOfLatest*: an NFT's owner is that of its newest stored transfer. A block moves a
token and an NFT at most once and the supply moves with the count; `checkLogConflicts`, which only reports, is left
out. `shared_revert` shows the one case where TokensCounted does not hold; the passing run's scenarios leave it out.

### DailyStats

A block is its number of transactions. `throttle` is the day throttle: the interval, the run in flight, the dirty days, the
armed timer. `run` is a fold: take the late days, search once per start for days nobody noted, count in a snapshot
(`FoldCount`), and apply under the lock if nothing changed (`Unchanged`), else count again, and after `FoldStalls`
refused folds count under the lock. Block writers note their day after their commit, which may be after any step of a fold
(`writing`). A revert and a prune invalidate; a refill counts days from the node and writes them with the days after
them.

*CountedOrNoted*: a day at or below the watermark is counted exactly or something still leads to its recount.
*CarriedExactly*: with nothing to recount, every day's running sum includes all earlier blocks.
*DaysEventuallyCounted*: with an interval set, every stored block ends up counted.

Assumed of the operator: a refill is of days whose blocks ingest stored, and is written when no recount is pending
(`Quiet`), every retained block up to the mark is stored, and the newest row is the watermark's day; a refill written
while a day waits for its recount, or after an invalidation, leaves the cumulative columns off. `recountDays` leaves the
first retained day alone as a whole. A fold whose counts were all refused marks no day dirty again and waits for a
next block, as does the search after a restart; DaysEventuallyCounted says so. A day that retention reaches with
blocks uncounted is out of the fold's reach (`cutShort`). The columns of new addresses, `reportDailyStatsGap` and the retries
inside a refill's reads are left out.

### StatsBackfill

`copies` says how often each block below the start block counts: in the running counters, the open span's stage, the
ledger and its day. A batch keeps what it fetched and built for its retry; its commit may fail, or be made and report an error
(`CommitUnknown`); a block the node refuses is counted without its traces after `StrictTries` answers. Balance keys
are read in order, a failed one last. *BackfilledOnce*: every block up to the progress counts exactly once in each
place. *BackfillEventuallyCompletes*: it ends, and every key that can ever be read is, although others fail on every pass.

### NodeRecount

The queue of pruned spans (never checked first, then by `checked_at`), the count from the node block by block with
its tries, deferrals, the settlement under compaction's lock, beside compaction, pruning, the retained recount and
drift. *RepairsTrue*: a repair leaves the span with the blocks it covers, whatever was merged meanwhile.
*SpansEventuallyReached*: every pruned span is recounted again and again though others fail every time. A span from
block 0 whose `blocks_total` drifted is taken not to have counted block 0, so RepairsTrue leaves block 0 out. The
retained recount is one step: the gate it holds against detaching is that of `LedgerRetention`.

### ContractsBackfill

Frames are a transaction's trace; a creation counts when it and every frame around it succeeded and its code can be
read, from the frame or from the node. The command reads the stored frames and inserts in two steps, then takes the
list's transactions one by one (`ExistingContracts`, `TraceTransaction`, `InsertContract`); a trace or a code may not be
had, and it may stop anywhere and be rerun. Ingest stores and reverts blocks meanwhile (`IngestBlock`, `RevertBlock`),
and stores a block also when some of its traces or codes failed, without their rows. Ingest and the scan see the frames
without the root call (`FetchedFrames`), the command's own trace has it.

*ContractsResumed*: a run that ends has a row for every listed contract of a transaction it did not report as failed,
or has reported that it was not created; of a transaction it traced the unlisted contracts too have rows, but for
those whose code it did not get. Missing without a word may be what ingest left out when it stored a block again after
the run had passed it (`dropped`, made good by a rerun) and the unlisted contracts of a transaction the run skipped
(disagreement 7 below). A row names a block of the chain, unless the block was reverted between the command's read and
its insert (disagreement 8). *NoneUndone*: no row, whoever wrote it, is of a creation that failed or stood under a frame
that did; a transaction that failed as a whole has such rows only through its stored frames (disagreement 9).

### ReadApi

Clients walk lists page by page and ask for targets by number or hash, while ingest stores and reverts the head,
catch-up fills a gap, and retention moves the watermark and detaches the tables one by one. Every query is a step of
its own. `cache` is the server's watermark with its refreshes in flight (`BeginRefresh`, `QueryPruned`,
`ApplyPruned`: the last started wins). Transfers stand for logs and internal transactions where the
queries have the same form. *PagedOnce*: a list walked to its end returned every row that was there throughout, and
none twice; a list resumed by block number misses only rows of a block in which a page ended; a numbered list
misses a row only if rows went away. *PrunedSaidSo*: a target pruned before its rows were read as missing is answered as
pruned. Single-snapshot reads (statistics, search, addresses, token details) are left out.

### NodeLookup

The LRU (`order`) with its hash and transaction indexes and byte count, one shared fetch per height, the slots, and a
node some of whose backends answer from an orphaned chain until they agree. *IndexBacked*: an index entry names a
cached block that has it, a height is cached once, and the bound of blocks holds. *BytesBounded* (in
ServicesTypeOK): the byte count is that of the cached blocks, within its bound. *AskedAgain*: once the backends agree, a hash of the chain is answered as missing at most until the
wrong block in its place has been met once.

## Runs

| run | expects | shows |
|---|---|---|
| `catchup_live` | pass | EventuallyFilled: one fault, one stop, one reorg, one worker (1.2 million states) |
| `catchup_rescan` | violation | what `Calm` excludes is real |
| `balances` | pass | TypeOK, NoForkBalance, RowsWithinHead, EventuallyAnswered: a gap of one block, one reorg, one fault, one stop (1.9 million states) |
| `balances_catchup` | violation | a read below the current row closes its request |
| `head` | pass | TypeOK, Linked, NoHole, FollowsTheNode in both modes (0.5 million states) |
| `head_retry` | violation | a retry hides the blocks a half-failed revert deleted |
| `head_start` | violation | a start that cannot read its stored head skips the check |
| `ledger` | pass | `LedgerRetention`, `AddressRebase` with its refinement (0.8 million states) |
| `statistics` | pass | `DailyStats`, `StatsBackfill`, `NodeRecount`, safety and liveness (0.4 million states; a fork also above blocks not stored yet) |
| `services` | pass | TypeOK and NoBlockLost of `Catchup`; `SharedRows`, `ContractsBackfill`, `ReadApi`, `NodeLookup` (1.4 million states) |
| `shared_revert` | violation | a token found while its block is reverted keeps a transfer too many |
| `feed` | violation | a page of the main feed that ends inside a block skips the rest of it |

**Bounds.** `Catchup`: three blocks and batches of two give a gap of several blocks, a batch bound inside it and a
channel smaller than a poll; two workers are what a delete racing another worker's block needs. One fault and one stop
are enough because each property is about what one interruption leaves behind, and the theorem has no bound.
`BalanceEpoch`: one key, since keys interact only through the common epoch and lock, which are in the model; a
block of the gap, two above it and one reorg give reads before, during and after a revert, and catch-up's below it. `HeadIngest`: five blocks, three chains (the main one, a
fork of its last three blocks, a fork of all), windows and depths of two: a fork can be inside the window, at its
edge, below it, and deeper than any reorg. The last two blocks are reached only on the last chain, so that the loop runs at
least one tick after every switch. Two switches let the node change within one check and come back.
`LedgerRetention`: ranges of two blocks, spans of three and days of two, so that a range bound cuts a span; reorg
floor, window and reorg depth of two. The first range is pruned from block 6 on, which every scenario but the deepest reorg reaches; the
calm one goes to block 8 and prunes a second. Two tables are what a range half detached, archived or dropped needs.
`AddressRebase`: two addresses and two open blocks on two forks, so that a reorg changes who a block touches; each scenario
starts with one kind of drift. `SharedRows`: four transactions, two tokens, one NFT, and the orders in which a row is found, written,
flushed and reverted. `DailyStats`: five blocks on three days, folds of limited length, one kind of trouble per scenario.
`StatsBackfill`: five blocks in batches and spans that do not coincide. `NodeRecount`: spans of two blocks, two of which may merge.
`ContractsBackfill`: four transactions on three blocks, one of them pruned; a contract listed twice, unlisted ones, and codes in the
frame and at the node; two lapses of ingest, two reverts.
`ReadApi`: pages smaller than a transaction's transfers and than a block's rows; one client walks, another asks. `NodeLookup`:
a cache smaller than the blocks asked for, one slot, a transaction that is on both chains at different heights.
`GateBlocks` < `PruneFloorGap` + `PartitionBlocks` stands for a wait of one minute against 12800 blocks; without it a span
read before a cut could close across the cut's bound. The node's head is the stored head (`NodeAhead` = 0).

**Fairness.** `Catchup`: every goroutine that runs in the code takes its enabled step (weak fairness per goroutine);
nothing is assumed of the node, of stops or of reverts. `BalanceEpoch`: the revert, the claim loop and the pool's
stages go on, per key since the channel and the flush take every key in turn. `HeadIngest`: the loop and each read it
waits for go on, the node's chain grows, and a recorded block whose retry is possible again and again is retried
(strong fairness: its pause doubles up to 64 intervals and always runs out). Stops, faults, switches and catch-up's
writes are never assumed. `DailyStats`: ingest goes on, the timer fires, a writer notes its day, and a fold that has
begun moves; the last is written as "infinitely often no fold, or infinitely often a fold's step", because a fold in
flight always has an enabled step. `StatsBackfill`: its loop, catch-up, and reads that can recover do. `NodeRecount`:
its loop. In `statistics` the fairness is that of the part that runs.

**Deadlock** is checked in `HeadIngest` alone, which ticks for ever. Elsewhere, with the bounded chain stored and every
budget used, all is done and nothing moves; waiting in a ring is what NoWaitCycle excludes.

## Disagreements with the code's own words

1. `catchup_rescan`: a failed startup batch that is scanned again while one of its blocks is in flight loses its
   other blocks until a restart (`missing_ranges.go:130`; `missing_range_collector.go:55` says its gaps are queued).
2. `balances_catchup`: a read below the current row closes the request and leaves the fork's balance (`batch.go:949`;
   `balances_revert.go:36`).
3. `head_retry`: after a revert that committed and reported an error, the same tick's retry can write a recorded block
   above the deleted ones; `anchor` then never goes back to them (`prefetch.go:89`; `prefetch.go:68`).
4. `head_start`: a failing read of the stored head counts as an empty database, so the stale fork is never compared
   (`indexer.go:433`; `indexer.go:520`).
5. `shared_revert`: a revert takes the advisory keys only of tokens whose holders it changes, so a worker can seed a
   new tokens row with the transfers being reverted (`queries.go:295`; `batch.go:665`).
6. `feed`: the main transaction feed, and the deposits, resume by block number alone (`handlers_transactions.go:144`;
   `cursor.go:13`).

Three more are exceptions written into ContractsResumed and NoneUndone. 7. A contract nobody listed is never written if its transaction
is skipped because the listed ones exist: after a run that stopped among its inserts or did not get the code, and when
the scan of the stored frames wrote the listed ones and the other's code is only at the node
(`contracts_backfill.go:97` "so a rerun resumes", and line 89 of unlisted ones "they are written too"). 8. A row can
name a reverted block when the revert falls between the command's read and its insert, though the command "is safe to
run next to the live indexer" (`backfill_contracts.go:19`). 9. `fetchTraces` leaves the root call out of a block's frames
(`trace.go:351` and 393), so nothing in the frames ingest reads or stores says that the transaction itself failed: the
tests for it (`internal_creations.go:26`, `db/contracts_backfill.go:29`) never match, and a contract created inside a
transaction that failed at its end gets a row from ingest and from the scan. `internal_creations.go:12` says "whose every
enclosing frame succeeded too"; `internal_creations_test.go:71` expects no row because "E's transaction failed", but its
mock returns the root frame. Without the exception TLC refutes NoneUndone in three steps.

Two more in `HeadIngest` come up as soon as the scenarios of `MCHeadIngestRetry.cfg` are changed, in seconds. 10. With
`CatchupAndLoss` NoHole is violated in realtime as `head_retry` shows it for standard mode: a catch-up worker writes a
recorded block after a half-failed revert deleted those around it, and `resumeAfterFailedRevert` takes it for the place where
the revert stopped (`realtime.go:276`; `realtime.go:268` "a block the revert deleted is indexed again"). With eight blocks a
delete that fails without its effect, after others that took theirs, is enough. 11. With `SkipAndLoss` Linked is
violated: a commit that took effect and reported an error leaves its block stored above the cursor; after a reorg the
chain's block there is skipped for its receipts, and the next one is written on a block it does not extend
(`prefetch.go:339`; `receipt_skip.go:30` of the skipped block "which is not stored", `prefetch.go:248`).

TLC also reaches these, which have no run of their own; the scenarios leave their combinations out. Overlapping rows
and a poll at its limit: the delete of a block takes the unread row with it (`missing_ranges.go:130`), which `Calm`
excludes. Catch-up writing a block it read before a reorg, below realtime's window, keeps it for good. A lost
acknowledgement of `RequeueMissingBlock` leaves a row with `recorded` unset, which no retry reads until a restart.

Smaller ones met while modelling. With `CONFIRMATION_BLOCKS` above the node's head `safeBlock` wraps around
(`realtime.go:208`). The lists of transactions by a block's hash read the rows with no check afterwards that they were not
pruned meanwhile. With pruned lookups on, a target pruned within the cached watermark's lifetime is answered as out of range
or not found instead of from the node. Lists of logs and internal transactions return their first page only.
`Transaction` of the node lookup does not drop a cached block that lacks the transaction, as `BlockByHash` does, and evicting a
block deletes a transaction's index entry that another cached block may own, which costs a node call. A revert deletes
the block's deposits (`queries.go:403`), and a fetcher would resume above them. A contract listed twice is always reported
as not created, and its transaction is traced on every rerun (`contracts_backfill.go:138` and 168-173).

One more concerns block 0 alone. After a wipe of a chain longer than the run's, the first range that fills the gap
can hold only block 0; pruning it leaves `pruned_through` at 0, which reads as "never pruned", and the next ensure
creates the range again. `RangesCovered` leaves block 0 out.

## Proofs

`CatchupProofs`, from `CatchupAssumption` (at least one block, one slot in the channel and one row per poll), for any number of
blocks, workers, faults, stops and reorgs:

- `TypeCorrect`: `Spec => []TypeOK`, through `TInv`, which adds that no worker or scanner has work while the process
  is not up, that the bounds are set once it is, and that a rescan's batch is still listed.
- `NothingLost`: `CalmSpec => []NoBlockLost`. NoBlockLost is not inductive: a block counted as recorded can lose
  its row to a worker that holds another block of the same row. `IInv` therefore counts a row only when none of its
  blocks is in flight (`Covered`), and adds that a rescan's gaps cover what its batch lacks (`RescanCovers`) and that a
  worker marks only blocks that are stored or above the cursor (`MarkStored`). The lemmas follow the set of blocks in flight through poll, push,
  dequeue and completion, and then show one step per goroutine.

`BalanceProofs`, from `BalanceAssumption`, for any set of keys and any number of blocks, reorgs, faults and stops:

- `TypeCorrect`: `Spec => []TypeOK`.
- `NoForkBalanceStays`: `Spec => []NoForkBalance`, whatever the gap. The invariant says that work stamped with a key's
  latest epoch was, or will be, read on the fork the last revert led to, and that a lower stamp is dropped by the
  fence; the pool's gate is what makes it hold while a revert runs. `GapReads` adds that the reads catch-up decides
  are of keys it touched, so that only those may be below a fork-era row.
- `RowsStayWithinHead`: `Spec => []RowsWithinHead`: work and reads not older than the latest epoch are
  for blocks at or below the head, and the fence drops the others.

`HeadProofs`, from `HeadAssumption`, for any set of chains (a hash determines its chain below it), any windows, depths,
read-ahead, attempts and `MaxBehind`, and any budget of switches, stops and troubles:

- `HeadTyped`: `Spec => []TypeOK`, from `HeadShape`: what each place of the loop keeps and what it has let go. A comparison goes down from the
  cursor, a revert begins at or below it but for that of a block stored above it, the open transactions are those of
  the blocks after the cursor in order, which is what makes `Depth` a bound, and a failed revert is resumed before
  anything else is done.
- `HeadLinked`: `SkipsApart` implies `Spec => []Linked`. Linked is not inductive: a commit must know that its block
  extends what is stored under it and that nothing unlinked is stored over it. `Chained` carries the check from the slot
  to the commit through the queue; `TopDown` says that a revert has deleted everything above the block it is at. For
  what is above there are two arguments, and a scenario needs one of them. `Unskipped`: no block is ever passed
  without its receipts, so the stored blocks have no gap (`Contiguous`), and a block stored above the cursor is found by
  `StoredBlockDiffers`. `Acknowledged`: every commit's answer arrives and no start goes on without the stored head, so
  nothing is stored above the cursor. `SkipsApart` is exactly that one of them holds at the start. Beside it the code
  does not keep Linked (disagreement 11).
- `HeadNoHole`: `WritersApart` implies `Spec => []NoHole`, from `HoleInv` beside the two above. NoHole alone says nothing of a block
  that a revert has deleted until it fails, nor of what lies under a block stored above the cursor. `CursorCovered`
  follows every block below the cursor: stored, recorded, deleted by the revert under way (`Owed`), or, after a revert
  that failed in realtime, with nothing stored from it up to the cursor (`Undone`): that is why the highest stored block is
  below all that was deleted (`ResumeBelow`), and what a catch-up write breaks (disagreement 10). In standard mode either no block is
  ever skipped, and then the stored blocks have no gap, or every answer arrives, and then everything below any stored
  block is covered (`BelowStored`), which a restart needs; `head_retry` is the case that has neither.

`RetentionProofs`, from `LedgerRetentionAssumption`, for any number of tables, any size of range, span and day, any window
at least as long as the reorg floor, any reorg depth within that floor, and any schedule of ingest, catch-up, the
keeper, the pass, the closer, stops and wipes:

- `RetentionInvariant`: `RetentionSpec => []RetentionInv`, the inductive invariant. `RangesInv`: ranges lie apart,
  the highest one is attached, an attached one starts at or above the first retained block, and a table is off its
  parent only past the watermark. `ProcessInv`: who may hold `ensureMu` at which step of the process, and that a cut
  is under way only while the history is not cut. `WipeInv` and `WipeFills`: what a wipe's finished steps have
  left behind, and the gaps it still has to fill, which is what makes the ranges whole again when the mark goes.
  `CoverInv`: no block without a range from the first retained one to the highest bound. `RowsInv`: a range past
  the watermark keeps all its rows until its first table is off, and some block of a later day than the watermark's is already
  out of a reorg's reach. `ArchivesInv`: the pass that drops has a record for each table of its range, and the
  ranges it has listed are past the watermark still.
- `RetainedCovered`: `[]RangesCovered`. The step that needs care is `fillHistoryGaps`: it reads the gaps in one
  snapshot and creates ranges later, when a prune may have moved the watermark past them; `ChunksCut` shows that the ranges of a
  gap are the gap, cut into pieces. `HistoryCut` is kept by each of them.
- `TablesArchivedFirst`: `[]ArchivedBeforeDrop`. `ReorgDaysKept`: `[]ReorgDayKept`, from the later day of `RowsInv`
  and the monotony of days; the branch of `prune_day_floor` that falls back on the watermark is never the one that lets
  a range go.
- `PrunedNeverStored`: the action property PrunedStaysPruned. A late write finds a partition only above the
  watermark, or in a range past it whose rows are all there, where it changes nothing.

The proofs need `PruneFloorGap` > 0 (12800 in `retention.go`): with a floor of 0 the head's own range could be pruned.
They also show that the branch of `pruneOldest` for an attached range at or below the watermark is not reached.

`AddressProofs`, from `RebaseAssumption` (finitely many addresses, any closed and open blocks on two forks, any touches), for any
first drift and any schedule of block writes, reverts, rebases, settlements, checks and walks:

- `RebaseTyped`, `AddressesAccounted`: `[]RebaseTypeOK` and `[]RowsAccounted`, from `RebaseInv`. Neither is inductive: a
  row is counted when it is written, by what was decided when it was locked. `WritersInv` says whose rows a block write or a revert holds;
  `RevertInv`, that of each address a revert has passed it holds the row it will write, or found none (`Decided`);
  `BatchInv`, that the rows a rebase will create (`made`) are those it holds that have no row, which is why it takes the
  revert lock before the first of them; `DaysInv`, that a move of `first_seen` since a day recount's read outlives its clear.
- `RebaseTrue`: RebaseSetsTruth. A rebase computes what to add to a row from a snapshot and applies it to what the row is
  by then. `MovedInv` is the reason this is right: while no revert recorded the address since the read, what block
  writes added to the row they added to its truth, counter and edges alike (`LowerMoved`, `UpperMoved`), so the
  difference read is the difference still. `KeptInv` says that such a row is there still and locked when the batch holds it; a revert that came since is
  seen in the record's version (`Late`), and then the row is counted again under its lock.
- `CountersExactOrOwed`: `RebaseSpec => ExactUntilRecorded`, the refinement, each step to one of `Write`, `Record` and
  `Rebase`. The proof showed that an earlier form of `ExactOrOwed!Rebase` was too strong: a revert in progress that found no
  row holds no lock on it, a block write may create the row, a batch may read, lock and check it, and the revert commit just before
  the batch, whose difference is then out of date. TLC confirms it with two reverts in a scenario; the address stays recorded, and
  `Rebase` now allows it to go wrong as long as it does.

`BackfillProofs`, from `BackfillAssumption`, for any start block, batch and span size and any troubles:

- `BackfillTyped` and `BackfillCountsOnce`: `[]BackfillTypeOK` and `[]BackfilledOnce`, from `BackfillInv`, which adds that a
  span is closed only when all of it is counted (a batch that ends inside a span leaves it in the stage), that the completion is tried only with
  every block counted, and that the refusals in a row are among those there were.

`ServicesProofs`, of `ReadApi` from `ApiAssumption` (finite sets of rows, pages of at least one row), for any number of clients:

- `ApiTyped`, `ApiSaysPruned`, `ApiPagesOnce`: `[]ApiTypeOK`, `[]PrunedSaidSo`, `[]PagedOnce`, from `ApiInv`.
  `TicketsDiffer` and `PrunedHeard` are for the cache of the watermark: a recheck of a pruned target hears so from its own
  read, or from any refresh that started later and is kept instead. `WalksOwe` is for the lists: what a walk still
  owes lies below the place where it resumes, and for a numbered list at least as many rows lie before it as the pages taken
  held. Numbered lists are where counting is needed: a row that is missed must have had rows before it go away.

`ServicesProofs`, of `NodeLookup` from `LookupAssumption` (finitely many requests and heights; bounds above zero, as `withDefaults` makes
them), for any number of requests, heights and blocks, any transactions and any bounds:

- `LookupTyped`, `LookupIndexBacked`, `LookupAskedAgain`: `[]LookTypeOK`, `[]IndexBacked`, `[]AskedAgain`, from `LookInv`.
  `SlotsCounted` counts the calls under way; `FetchesOwned` says who waits for a shared fetch, and that what it has read since the
  backends agree is of the chain. AskedAgain needs `LateMet`: from the moment the backends agree and no fetch
  goes on with what it read before, no orphan enters the cache, so the orphan a request meets is the only one of its
  height and dropping that very block leaves none. The cache's lemmas follow the sequence through a move to
  the front, an eviction and a drop. BytesBounded is a sum over the sequence and stays with TLC.

Only model-checked, and why. Every liveness property: fairness is out of the prover's reach. RecountExact,
RunningExact, TokensCounted, CarriedExactly and `total \in Nat` in RetentionTypeOK are about sums over sets or ranges of
days, and a sum over a set is defined by recursion, which these provers cannot unfold for every set; so the whole type invariant of
`LedgerRetention` is not a theorem, though `RetentionInv` includes the types of everything but `total`, `spans` and the closer. SpansWhole depends on
the closer's wait against the cut (`GateBlocks`) and is not proved. NothingQuarantined of `AddressRebase` compares drift with the repairs
logged before it, a history its invariant does not keep. The programs of `SharedRows` are keys
sorted into sequences that change as a transaction reads, and that a sorted sequence of every finite set exists is an induction; Exact
in CountedOrNoted of `DailyStats` compares sums of transactions. `NodeRecount` and `ContractsBackfill` have no proof module. `ContractsResumed` rests on what `SelectSeq` leaves of a
trace, which is an induction over sequences. Of `HeadIngest` only FollowsTheNode, a liveness property, is left to TLC.

## Limits

- A balance is read at the node's latest state, which may be a block not stored yet; such a read, if that block is
  replaced before it is stored, is not asked for again and is not counted as fork-era by the model.
- Blocks of a gap are assumed not to be reorganised in `BalanceEpoch`; amounts and holder counts are left out.
- `HeadIngest` leaves out blocks requested on demand (nothing calls `IndexBlock`), `startWithCatchup` (no caller) and
  the wipe of `FORCE_REINDEX`; its retry does not keep each block's pause, only that it runs out.
- `LedgerRetention` has one total in place of the counters of blocks, transactions, transfers and tokens. It folds the
  day aggregates right after every write, starts at block 0 (no stats backfill), always archives, and truncates a
  wipe's tables in two groups. The address rows a close rebases are in `AddressRebase`, recounts that repair spans in `NodeRecount`.
- A catch-up worker's `yieldToRealtime` only delays it and is left out.
- `StatsBackfill` reads the progress when it commits, as the one writer of that table does; the statement's own guard
  against another writer (`backfill.go:171`) therefore never refuses, and the run says nothing of it.
- `NodeLookup` frees a fetch's slot and stores its block in one step (the code frees the slot first), and leaves out heights
  above the watermark, for which no block is fetched.
- Postgres is taken at its word: transactions are atomic, `READ COMMITTED` statements see what is committed.

## Not modelled

- **OP deposits fetcher**: nothing under `cmd/` starts it. The table's insert, list and revert are in `ReadApi`.
- **Chain checks**: they compare stored rows with the node and alert; they change nothing.
- **Event bus, token cache, gas tracker, chain info**: sends that drop when full and cached reads; they promise nothing
  that an order of steps could break.
- **Node client**: its answers are free in every module (a block, none, a late one, an error), which is more than its
  retries let through.
- **Pool, migrations, wiring, configuration, metrics**: start-up DDL and process plumbing; a stop at any point is an
  action of every module with state to lose.
- **Generated protobuf code** and message layout.
- **Read API calls of one snapshot** (statistics, search, addresses, token details): nothing can come between.

## Further work

Proofs: SpansWhole of `LedgerRetention`, with an invariant on what the closer has read (its bounds may have to exclude a
head that crosses a whole range between the cut's last validation and its end); NoWaitCycle of `SharedRows` from a rank
on locks; NothingQuarantined of `AddressRebase`, with an invariant that relates each logged repair to the drift it removed. Models that could still grow: liveness of retention (what may be pruned is pruned), a run
with the node ahead of the stored head, the token counters beside the chain counters in `AddressRebase`, the retained
recount's gate in several steps, and the collector's forward scan in `HeadIngest`, which would bound how long a block
that disagreement 10 loses stays lost.
