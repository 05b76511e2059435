# ff-eth-logs: a TLA+ model of the log warehouse

`ff-eth-logs` keeps the NFT-related event logs of Ethereum mainnet in PostgreSQL and answers
`eth_getLogs` from them. A tail-ingestion process follows the head of the chain through one node
connection and writes confirmed blocks with their logs; a backfill loads history from an export; a
JSON-RPC API reads. This directory holds TLA+ modules of its core, the TLC runs that check them and
the TLAPS proofs about them.

## 1. Inventory

| Component (src/) | State | Operations | What makes it correct |
| --- | --- | --- | --- |
| **Head subscriber** `internal/ingestion/subscriber.go`, `runner.go` | `streamState` (next, lowerBound, tip, heads); lost when the process ends | resolve the start block, verify the resume point, receive and drain heads, record, reconcile, plan a range, read a batch (headers, logs, second read), write, advance, recover from a deep reorg, watchdog | the stored blocks are one chain; each has all its logs; blocks are confirmed when written; a rewind cuts off what has been replaced and little else; the service catches up |
| **Log fetcher** `internal/ingestion/fetcher.go` | none | a range as windows; a dense block from its receipts | every log of the range, once |
| **Log store, write side** `internal/logstore/store.go` | tables `eth_blocks`, `eth_logs`, `ingest_cursor`, maintenance mark; advisory locks | `WriteRange`, `Rewind`, `SetCoverage`, `SetMaintenance`, `AcquireWriterLock`, `AcquireBackfillLocks` | the cursor is never ahead of the rows, the coverage has no hole, log rows sit under their block |
| **Log store, read side** `internal/logstore/reader.go` | none (a read transaction) | `Read` (coverage, block lookup, `FilterLogs`), `StoredBlockHash` | an answer is complete for one version of the coverage, or an error |
| **Backfill** `internal/backfill` | load progress rows, file fingerprints | `Lock`, `Prepare`, `Blocks`, `Logs` (parts), `Finish` | coverage is published only over a complete, verified load; a rerun loads every part once |
| **Node client** `internal/chain` | learned window cap, budget of a call | `Paginator.FilterLogs` (halving), `executeWithRetry`, subscription | windows tile the range; a fetch ends, whatever the provider does |
| **JSON-RPC API** `internal/rpcapi` | none | `eth_getLogs`, `eth_blockNumber`, `/health`; range resolution, topic scope | an answer is what a node would answer on one chain, minus the documented shapes, or it is a refusal |
| **Event set** `internal/eventset` | constant tables | `Topics`, `Keep`, `OmittedShapes`, `IsWarehouseSignature` | what is asked of the node, kept, taken on in a filter and documented as omitted agree |
| **Commands** `cmd/ff-eth-logs` | locks held | `serve`, `backfill`, `rewind` | one writer at a time |

Interaction. The subscriber calls the node (one answer at a time, the chain moving in between) and the
store (transactions). `rewind` and the backfill stages write the same tables under the writer lock, so
they find the service down. The API reads the tables only, concurrently with all of them.

Hard behaviours. The node's answers belong to whatever branch is canonical at that moment; heads
arrive late, twice, out of order or not at all; the process may die between any two steps and keeps
nothing but the tables; a batch can be found inconsistent and is read again a bounded number of times;
a reorg may be deeper than the confirmation lag, or happen while the process is down. `PROJECT.json`
lists each hazard at its line, with the properties that watch it.

## 2. Modules

| Module | What it is |
| --- | --- |
| `Chain` | Blocks as paths from genesis. A block hash commits to the ancestry, so equal paths stand for equal hashes; the last label says whether the block has a log that the node's filter matches, and one that `eventset.Keep` keeps. The logs of a block are one unit: they are all there or not. |
| `LogStore` | The three tables; `WriteRange` and `Rewind` as the transactions they are, with their refusals as `...Allowed` predicates. `StoreSpec` lets anyone call them with anything of the right types. |
| `Subscriber` | Tail ingestion over `LogStore`. Extends it, so a write is the store's own `WriteRange`. |
| `CoveredChain` | The abstract promise to readers: a run of blocks forming one chain with the logs of those very blocks, which is published, extended at its top, cut back to one of its blocks, and never altered. |
| `Backfill` | The backfill process transaction by transaction, the exclusion of writers and readers by the two locks and the maintenance flag, and one read snapshot, over `LogStore`. |
| `Paginator` | `FetchIngestionLogs` and the two loops of the paginator below it, in fixed-width integers, against any provider with a cap on spans and on results. |
| `RetryClient` | One call of the node client: attempts with deadlines, backoff, budget. `Paginator` extends it, so every call of a fetch is one of these. |
| `Writers` | Two processes on one warehouse, with the transactions of `LogStore` statement by statement and a writer lock whose session may end. |
| `EventSet` | The tables of `internal/eventset` over logs as records. |
| `LogFilter` | The filter of a request: decoding of its topics, scope, and which stored logs the SQL selects; beside it what a node selects. |
| `Serving` | The API's reads in their snapshot, over `LogStore`, `LogFilter` and `EventSet`, while the tables change. |
| `MCSubscriber`, `MCBackfill`, `MCPaginator`, `MCWriters`, `MCServing` | Values of the constants for TLC. |
| `LogStoreProofs`, `SubscriberProofs`, `SubscriberPromises`, `LogsProofs`, `BackfillProofs`, `PaginatorProofs`, `WritersProofs`, `ServingProofs` | The TLAPS proofs (section 4). |

### Subscriber

The process is sequential, so its control state is one record, `job`: `op` names the place and the
other fields are the local variables that are live there. A step is one read of the node and everything
the process does before the next read; the tables are read in the same step as the node, because only
this process writes them while it runs. The node's chain may move between any two steps.

| `job.op` | Place in the code | Actions that leave it |
| --- | --- | --- |
| `down` | no process | `Start`, `OperatorRewind` |
| `resume` | `verifyResumePoint` | `VerifyResumePoint` |
| `wait` | the `select` of `Run` | `Receive`, `HeadTimeout` |
| `record` | `record`, one head of the batch | `RecordIgnored`, `RecordWrittenHeight`, `RecordUnwrittenHeight`, `RecordFarHead` |
| `reconcile` | the loop of `reconcile` at height `k` | `ReconcileEnds`, `ReconcileFetch` |
| `fork` | the loop of `findForkPoint`; `after` is where its caller goes on | `ForkWalkFails`, `ForkWalkStep`, `RecoverDeepReorg` |
| `plan` | second half of `planRange` | `PlanRange` |
| `metadata` | `blockMetadata` at height `k` | `BlockMetadata` |
| `reanchor` | end of `boundaryMoved` | `Reanchor` |
| `fetch` | `FetchIngestionLogs`, window from `k` | `FetchWindow` |
| `recheck` | `recheckLoglessBlocks`, then the write | `RecheckBlock`, `RecheckFindsMove`, `WriteBatch` |

Every error of the code is fatal by design, so all of them are `Exit`: memory and subscription gone,
tables kept. `Crash` is `Exit` at any moment, for whatever reason: a signal, a lost connection, a node
or database call whose retries are used up. Errors that come from the state (a header the node does not
have, an exhausted attempt, no common ancestor, a gap that is too large) are branches of the action that
finds them. That `WriteRange` never refuses is not assumed but checked and proved (`WriteNeverRefused`).

The node (external) has one canonical chain, named by its tip. It grows by a block or moves to another
branch. Three constants bound how bad it may be: `TipMayDrop` (a reorg may lower the tip), `ReturnsToBranch`
(it may come back to a branch it left), `OmitsBlockHash` (a log may lack its block hash). A subscription
announces any block that has been the tip, in any order and any number of times, up to `MaxQueuedHeads`
in one receive.

### Backfill

One warehouse, the processes that may change it, and one reader. The chain is settled here (reorganizations are
`Subscriber`'s), and the question is from which load each served row comes.

`run` is the backfill process: `op` is `idle`, `lock` (the writer lock is held, the maintenance lock waited for),
`stage` (between two stages; `stages` are those to come), `part`, `load` (`loadPart` before and in its transaction),
`blocks`, `load blocks`, `verify`, `publish`, `unflag` (the three steps of `Finish`). Every committed transaction is
an action of its own, so `BackfillDies` falls between any two. Both locks are advisory locks of a session: they are
the variables `writer`, and `run` and `reader` for the maintenance lock, and a process that dies lets go of them.

An export is a set of heights with logs per partition, a set of block heights, and a checksum per partition
and for the blocks; `manifest` and `files` are separate, because the operator copies them separately
(`OperatorCopies`, only between runs). All logs of a block are one row. `PartIsLoaded` is the test that the code
makes: the row count and the recorded fingerprint, not the rows. The fingerprint is a checksum, so equal
fingerprints mean equal files (`ExportsAssumption`).

The reader's snapshot is taken by the statement that tries the lock, and the flag is read in it. Instead of
a copy of the tables `reader` keeps the flag and whether what the snapshot shows is `Sound`: every
covered height has its block row, and its log rows are those of one load that `finish` has verified, or of the tail.
`source` is a history variable for that: which load the rows of a height come from. It guards nothing.

`TailWrites` and `Rewinds` stand for `Subscriber`'s writes; they need the writer lock (or, for `Rewinds` by the command,
that nobody has it).

### Paginator

The recursion of `FetchIngestionLogs` and `fetchAroundDenseBlock` is the work list `todo`: a range to be walked or a dense
block to be read from its receipts, in ascending order. `walk` holds the locals of `FilterLogs` (`at`, `step`) and of
`walkWindow` (`end`, `pos`, `cur`, `max`). Heights and steps are `uint64`, here integers modulo `Width`. The `provider`
is fixed for a fetch: a largest span it accepts, and how many logs each block has. It refuses a window
with the error of one of the two kinds, either one when both apply. `result` counts how often the logs of a block were
appended; the final sort puts them in order. `walk.refused` is a history variable.

`call` is the call in progress (`RetryClient`): an attempt succeeds, fails and is tried again after a wait, or fails for good. An
error is a refusal, another fault, or the attempt's own deadline, which is retried like a transport timeout (`WorthRetry`).
Whether the text of an error looks transient is not decided by what the error means: the needles 502, 503 and 504 also
match inside the numbers of a refusal, so a refusal too may be retried until the budget is used up, and only then
halves the window. Time is in units; an attempt takes any time up to its deadline, a wait half to one and a half of its interval.

### Writers

A process is started as `serve`, `rewind` or `backfill` if the lock is free, and holds it until it ends or its session does
(`LosesSession`), of which it learns nothing. A call opens a transaction, a record `txn`: `at` is the statement that
comes next, the rest is what it has deleted, copied and decided but not committed. A statement sees the committed tables,
and waits for rows that another open transaction has changed or locked, which is PostgreSQL's READ COMMITTED. The cursor row is
read `FOR UPDATE` first (`ReadsCursor`), and a row that does not exist yet cannot be locked. The stages of a
backfill before `Finish` are one step here (`LoadsRows`); `Backfill` has them apart.

`TransactionsAreAtomic` ties it to `LogStore`: what a transaction commits is what `WriteRange`, `Rewind` or the merge of
`SetCoverage` does in one step on the tables of that moment. So the other modules may use the one-step versions.

### Serving, LogFilter, EventSet

A log is a record of its index, address, signature, further topics and first data word. A row of the table `logs` stands for the logs
of its block that `Keep` lets through. `reader` is one request: its `view` is the snapshot, taken before anything else is read.
`GetLogs` checks the filter before the database; `ResolveRange` and `ResolveHash` are the two halves of `resolveRange`, tags being
geth's negative numbers; `FilterLogs` selects, with one row past the limit. The answer is compared with `NodeAnswer`, which is written
from what a node does and not from the SQL: `NodeSelects` on all logs of a chain's blocks, without the shapes of `OmittedShapes`.

`client` is the head that `eth_blockNumber` answered last. The tail, rewinds and backfills are reduced to what `Subscriber` and `Backfill`
show of them: one chain is extended or cut back, a reload keeps readers out by the flag, and an interrupted first backfill
leaves block rows that no coverage vouches for.

## 3. Runs

All runs but `paginator`, where a fetch stops when it is done, check for deadlock. Constants of the subscriber's runs: two branches that part at height 2; where one has a block with
stored logs the other has one with logs that are filtered out, or with none. `ConfirmationBlocks` = 1,
`CatchupBatchBlocks` = 2 (so that a range has several batches and a batch several blocks),
`MaxBridgeWalk` = 2, so that far heads occur. `MaxForkWalk` is 2 in `subscriber`, where a fork walk from height 3
reaches the fork and one from height 4 gives up just above it; it is 3 in the other runs, where no walk is too long.

| Run | Shows | States |
| --- | --- | --- |
| `subscriber` | `LogsComplete`, `StreamMatchesStore`, `RewindsToTheFork` with a node that may drop its tip but never returns to a branch; 6 blocks per branch | 259,282 |
| `any_node` | `TypeOK`, `StoreIsOneChain`, `WriteNeverRefused` and the refinement `ImplementsCoveredChain` with the worst node; 5 blocks per branch | 806,368 |
| `catch_up` | `WrittenOnceConfirmed` and `CatchupIsBounded` (bound 3) when the tip never drops; a configured start block above the chain; two heads in one receive | 245,092 |
| `liveness` | `EventuallyCaughtUp` | 225,000 |
| `backfill` | `TypeOK`, `ServedIsVerified`, `CoverageOnlyRewound`, `LocksReleased`; four blocks in partitions of two, three exports of the same interval | 1,311,493 |
| `paginator` | `TypeOK`, `EachBlockOnce`, `NoRefusedSpan`, `ReceiptsOnlyIfDense`, `FetchTerminates`; seven blocks, four span caps, distributions of 0, 2 or 3 logs a block with a result cap of 2 and at most four blocks that have any; calls with a budget of 3 units | 558,439 |
| `serving` | `TypeOK`, `AnswersOneChain`, `SplitPointHolds`; four heights, two branches, eight filters, a limit of 3 | 74,966 |
| `writers` | `TypeOK`, `CoverageComplete`, `LogsPaired`, `TransactionsAreAtomic`; two processes, three heights, two branches, lock sessions that end | 1,041,434 |
| `dropped_tip`, `logless_return`, `other_export`, `lost_session` | statements of the repository that do not hold of the code, below | - |

Bounds. The chains are short because a path is a state of the node and the subscriber remembers at most
a batch, the retained heads and the store. Five or six heights leave room for the coverage start, a
fork inside and below the coverage, two batches above it, and a confirmation lag. Two branches suffice
for the properties about pairs (a header and its log, a block and its parent); a third would only
repeat the disagreement. There are no counters except the attempts at a batch, which the code bounds.

In `backfill` the interval of the exports spans two partitions, the second of them cut by its end, and leaves a block
above for the tail in that same partition. The exports are the one loaded first, which lacks a log; the
corrected one, with the same row count but other bytes in one partition and `blocks/` running ahead of the
interval; and one that can never be finished, with a log outside the interval and a block missing. Two situations
are kept out of this run, because `ServedIsVerified` fails there: exports of different intervals, which have a run of their own,
and an export that lacks a log below another one of the same partition, described below.

In `paginator` seven blocks and a first step of four (the configured cap of 3, below the default of 6) give two outer
windows, so that a learned cap is carried over; a span cap of 5 is never met, 0 forces single blocks; a
block with 2 logs fits alone but not with another, one with 3 is dense; several dense blocks nest the recursion. `Width` = 16
leaves room above the range: with `SpanCap` = `Width` - 1 the first step would be 0 and the walk would not advance, which
in the code takes a cap of 2^64 - 1 (`pagination.go:131`). A budget of 3 with a first interval of 1, doubled once, and a deadline of 2 lets a
call be tried up to four times, and lets an attempt that hangs be retried or be the last.

In `writers` two processes suffice, because a lock that is lost lets one more writer in, and because transactions meet in pairs at the
cursor row; they are interchangeable, hence the symmetry. Three heights hold a batch of two, one that replaces part of it, and
a block that stays. `Faults` names what may go wrong. `"session lost"` is on: the old holder goes on beside a new one. Two more are off: `"lost before first
write"`, where `TransactionsAreAtomic` and `LogsPaired` fail, though `CoverageComplete` holds: two first writers find no cursor row to
lock, so the later upsert replaces the coverage of the earlier one instead of merging with it, and the later writer, which cleared the log rows of
its range before the earlier one committed and the block rows after, leaves log rows under blocks they do not belong to. And
`"backfill not alone"`, which is the run `lost_session`. With it off an operator starts nothing beside a backfill, as the runbook says.

In `serving` a block has up to six logs, so that answers lie below, at and above the limit of 3; between them the blocks have a kept and an omitted log
for the kinds that `Keep` tells apart. The filters have a null inside a list, positions without
values beyond the topics of a log, a token id, a foreign signature, an address, no topic0 and too many positions. Every bound from -6 (a
negative number that is no tag) to one past the chain is asked for.

Fairness of the other components. `LocksReleased` needs only that a backfill goes on (`WF(BackfillStep)`): it ends
whatever readers and the operator do, because it gives up after five seconds of waiting for readers (`ReadersDoNotDrain`). It
may be started again and again. `FetchTerminates` needs that the walk goes on (`WF(Step)`); that the caller gives up (`FetchFails`) is not needed. It holds though a provider may
fail or hang in every attempt, because the budget of a call counts what attempts and waits have taken.

Fairness of `liveness`. The process keeps running its own code (`WF(Step)`), a supervisor restarts it
(`WF(Start(0))`), the watchdog fires when the subscription is silent (`WF`), the chain grows (`WF`), and a
subscription that works delivers the newest head whenever the service keeps coming back to receive
(`SF(ReceiveTheTip)`: strong, because the service is not always waiting). Faults (crashes, silence, operator
rewinds) end once the chain has settled, and so do heads of abandoned branches (`StaleHeadsEnd`, a premise
of the property): with such heads for ever, each could start one more fruitless recovery.
`EventuallyCaughtUp` excepts a fork below the coverage, which the code leaves to an operator.

### Where the code and its documentation disagree

1. `dropped_tip` (`WrittenOnceConfirmed`). The depth of a block is judged when the range is planned, by the
   tip of the branch known then. Headers that are not retained are read later, by number. If the node has
   meanwhile moved to a branch with a lower tip, its blocks are written with fewer than
   `confirmation_blocks` on top. `docs/schema.md:26` promises that only confirmed blocks are present. The
   run `catch_up` shows that nothing else breaks the promise.
2. `logless_return` (`LogsComplete`). `subscriber.go:680-683` says that a block whose logs exist only on the
   other branch cannot slip through. It can, if the node answers the log query from one branch and is back
   on the other for the second read of the header: that read proves that the block is canonical again, not
   that it was during the log fetch.
3. `other_export` (`ServedIsVerified`). The maintenance flag is one bit, and `Finish` clears it after verifying the units of its
   own manifest (`loader.go:160`). If a reload of a published interval was interrupted, the finish of an
   adjacent export clears the flag, and the half-reloaded interval is served again. `docs/operations.md:136` and
   `docs/constraints.md:9` promise that it stays until the reloaded units are verified.
4. `lost_session` (`CoverageComplete`). The writer lock is a session's, and `Finish` verifies the rows and publishes their interval in
   statements over other connections. If the session ends between the two, `rewind` gets the lock, deletes verified rows
   and lowers the head, and the merge of `SetCoverage` raises it over them again: a gap is served as empty blocks.
   `main.go:195-197` says that the lock keeps a rewind from deleting rows a running finish just verified; `store.go:341-342` adds that a
   runbook line is not a guard.

Weaker disagreements, seen in earlier versions of these runs or read off the model, that have no run:

- `boundaryMoved` takes a parent mismatch at the first block of a batch for a replaced block below it
  (`subscriber.go:717-718`). The retained head above may be the stale one: the batch below was just written from the
  new branch, is canonical, and is rewound. The service recovers, unless the rewound block is the coverage start, where the
  rewind is refused and fatal. `RewindsToTheFork` bounds the harm: of the canonical blocks at most the last written one is withdrawn.
- `pagination.go:44-47` says that a span cap, once found, is "never re-probed". A refused window that the end of the range has cut short of the
  step is asked for again unchanged, until the halved step is shorter than it: a range of two blocks with a step of 6, or a batch of ten with the
  default step of 1,000,000. `NoRefusedSpan` says that this is the only case.
- `eventset.go:11-12` can be read as saying that a one-topic `MetadataUpdate` and a two-topic `URI` are never stored. Those are the counts of topics that
  `topicCount` requires of them, `OmittedShapes`, `TestKeep` and `docs/business_requirements.md` agree with it, and so does `EventSet`; the comment gives the right counts if it is
  read as listing what the parsers accept.
- `WriteRange` and `Rewind` leave `backfill_units` alone. After a rewind into a loaded partition and some tail writing the fingerprint is
  still that of the load; if the row counts happen to agree, which takes an export that lacks a log of the chain, the partition is
  skipped, verified and published with that log missing.
- `fromBlock` above an explicit `toBlock` of 0 is answered `[]`, as by geth (`api.go:226` asks for both to be positive);
  `docs/api_design.md:51` announces an error. A `fromBlock` above the head with `toBlock` latest is `[]` as well, before the scope check.

## 4. Proofs

TLC checks small instances; these theorems hold for every chain, node, export, provider, set of processes,
log and filter, and every configuration, that satisfy the assumptions below. Every safety invariant and every action
property of a passing run is stated by one of them.

| Module | Theorems |
| --- | --- |
| `LogStoreProofs` | `StoreCorrect`; first the lemmas about blocks as paths that all the others use |
| `SubscriberProofs` | `TypeCorrect`, `OneChain`, `StreamInStep`, `NeverRefused`, `TablesSafe` |
| `SubscriberPromises` | `SubscriberRefines`, `CatchupBounded`, `OnlyConfirmed` |
| `LogsProofs` | `LogsAreComplete`, `CutsAtTheFork` |
| `BackfillProofs` | `BackfillTypeCorrect`, `CoverageKept`, `ServedVerified` |
| `PaginatorProofs` | `PaginatorTypeCorrect`, `FetchedOnce`, `NeverReprobed`, `OnlyDense` |
| `WritersProofs` | `WritersTypeCorrect`, `WritersSafe`, `WritersAtomic` |
| `ServingProofs` | `ServingTypeCorrect`, `AnswersFromOneChain`, `SplitPointKept` |

### Assumptions and hypotheses

Assumptions on constants, which TLC evaluates in every run: labels are nested and branches are non-empty paths (`Chain`); the limits
are positive, and the confirmation lag and the catch-up bound are as `Validate` wants them (`Subscriber`); the units of an export lie on
the chain and equal fingerprints mean equal files (`Backfill`). Five serve the proofs: the fingerprints, SHA-256 in hex, are neither of the two
marks for "no load" and "the tail" (`PrintsAssumption`); heights and steps are so far from the largest integer that neither the end of a
window nor a doubled step nor `SpanCap` + 1 wraps (`RoomAssumption`: without it the walk need not advance, see the bounds of `paginator`); "no process" is not
a process (`NoProcessAssumption`); a block has finitely many logs of at most four topics (`LogsAssumption`); the topics of a filter are a list of sets
(`FiltersAssumption`).

Some theorems have a hypothesis in their statement, because the property is false of the code without it:

| Theorem | Hypothesis | Without it |
| --- | --- | --- |
| `LogsAreComplete` | the node never returns to a branch it left | run `logless_return` |
| `CutsAtTheFork` | the node never returns to a branch it left | blocks that the walk has passed may be canonical again when it ends |
| `OnlyConfirmed` | a reorganization never lowers the tip | run `dropped_tip` |
| `WritersSafe`, `WritersAtomic` | `Faults` is at most `"session lost"`: a session ends after the first write, and nothing else is started beside a backfill | run `lost_session`, and the other fault of section 3 |
| `ServedVerified` | `OneInterval`: all exports are of one interval | run `other_export` |
| | `NoLogMissedBelow`: an export that has a log of a partition has the logs of every lower block there | the second of the weaker disagreements of section 3: the counts agree over different rows |

The exports of run `backfill` satisfy both hypotheses of `ServedVerified`, one of them though it lacks the logs of a block.

### Arguments

- `LogStoreProofs`: types, `CoverageComplete` and `LogsPaired` for any caller of the one-step transactions (`StoreSpec`). The invariant
  `StoreInv` adds that the interval of a cursor is not empty.
- `SubscriberProofs`: one inductive invariant, `SubInv`, gives all five theorems. No other than the last is inductive alone. `OneChain` needs to know, when
  a batch is written, that its headers are linked (`Held`), that the head retained for the block below is the stored one (`GoodHeads`,
  `Anchored`), and that no row lies outside the coverage; those in turn need what each point of the process
  knows of its locals (`JobInv`): that a fork walk stands below a written height, that a batch lies inside
  its range, that a re-anchored block is not stored. Most actions leave the tables alone, and `StreamStep`
  reduces them to their effect on the heads and the locals.
- `SubscriberPromises`: the refinement of `CoveredChain` (each write is an `Extend`, each rewind a `CutBack`, everything else a
  stutter); `CatchupBounded`, where a range that is under way is only shortened (`BatchGoesOn`); and `OnlyConfirmed`. Its
  invariant, `ConfirmedInv`, says that the tip known to the process is never above the node's chain (`TipInv`), and that each block of a batch that an answer
  has shown canonical since the range was planned, by a log that names it or by the second read of its header, was then the lag below that tip (`ReadConfirmed`). A
  block that was confirmed once counts as confirmed (`ConfirmedStays`).
- `LogsProofs`: `LogsInv`. If a block of the batch has logs and none was returned, the block was off the chain when they were asked for (`LogsRead`), so it is gone for good, and
  the second read of its header finds another block or none. `ForkInv`: the covered blocks above the place of a fork walk are gone
  (`ForkWalked`). A walk starts at a block that is not the node's, and what is above it descends from it (`CanonicalBelow`), so it is not the node's either; each turn adds one more such
  block, and gone is gone for good. Only `boundaryMoved` starts a walk at a block that it has not compared with the node, the last one. Where the walk ends the
  block is the node's, and so is all that is covered below it.
- `BackfillProofs`: `TypeInv` gives the types and, as the cursor moves only up where it is merged, `CoverageKept`. `ServedInv` says of every height where
  its row comes from: from nowhere, and then it is not covered and has no row; from the tail, and then it is covered and has the chain's logs; or
  from the last load of its partition, whose rows it has. A loaded height from nowhere lies above the head (`FromNowhere`): a rewind has cut it off. While the flag is
  down, all that is covered is stored and verified (`FlagFine`); a load is under way only under the flag (`StageInv`). The heart is `NoRowMissing`: when the row counts of a
  partition agree, no row of the manifest is missing. Every row that is there is one of the manifest, those of the tail
  because they are below the missing one and the export misses no log there; so one missing row makes the counts differ.
- `PaginatorProofs`: `FetchInv`. The tasks and the result partition the range (`TasksInv`), the blocks before a walk's position are in what it has got
  (`WalkInv`), so a walk that is given up for a dense block leaves the same partition. `SpanInv` keeps the step, and the cap that is
  handed to the next outer window, below the refused span, except in the last outer window of a walk: the end of the range may cut its first window to just the refused span, and what is asked after that is
  narrower.
- `WritersProofs`: `WritersInv`. At most one transaction is past the locked cursor row (`ExclusionInv`; before there is a row, the writer lock sees to it), and
  what it has read and deleted is still what is there (`TxnCurrent`). So its commit is the one step, and the store's invariants follow as in `LogStoreProofs`.
- `ServingProofs`: `ServingInv`. The tables, and every view taken with the flag down, are one chain with all its stored logs (`TablesFine`); the lemmas before it show
  that on the logs that ingestion keeps, for a filter that has passed the topic scope, the SQL selects what the node does minus the omitted shapes.

Only model-checked: the liveness properties `EventuallyCaughtUp`, `LocksReleased` and `FetchTerminates`; liveness under fairness is out of the prover's
reach. `EventSet` and `RetryClient` have no theorems of their own: they are used in the proofs about `Serving` and `Paginator`.

## 5. Abstractions and what is left out

- All logs of a block are one unit, but for what `Serving` selects from them. Timestamps, transaction indexes and the order
  of an answer's rows are not modelled: the SQL orders by the primary key.
- `FetchWindow` of `Subscriber` lets the paginator choose any windows that tile the range, each one answer of the node; that
  the real ones do tile it is `EachBlockOnce` of `Paginator`, where the chain in turn does not move.
- In `Backfill` the files do not change while a backfill runs, an unreadable file is one that does not match, and
  index creation and `ANALYZE` are left out: they change nothing that a read depends on.
- The text of a provider's error is abstracted to the kind of refusal that the code takes it for.
- Retries of single calls: in `Subscriber` a call answers, or fails for good (`Crash`); `RetryClient` has what lies between, for the calls of a fetch.
- Two writers at once: in `Subscriber` and `Backfill` the writer lock is taken for granted; `Writers` has what happens when its session ends.
- `Serving` takes the writers as well-behaved: what it shows of an answer rests on what the other runs and proofs show of the tables, and in
  particular not on situations 3 and 4 above.
- The maintenance flag and lock are one variable in `Serving`; the order in which a snapshot, the lock and the flag are
  read is `Backfill`'s (`BeginRead`, `NotAdmitted`, `Admitted`).

Not modelled, because no state or ordering of the system depends on it: parsing (configuration, hex, Parquet, JSON), logging and the redaction of URLs, generated mocks, the test
database, `eth_chainId`, the HTTP server's limits and shutdown, index and partition DDL. The connection pool is not modelled either: every operation takes one connection besides the
one a lock holds, so the two that `Validate` asks for cannot be waited for in a circle.

## 6. Plan

1. Done: all modules of section 2; the runs above; all safety invariants and action properties proved.
2. Worth proving next: that `Writers` implements `StoreSpec` extended by the merge of `SetCoverage` (today `WritersAtomic` says it of each step); that `Subscriber` implements
   `StoreSpec`, so that `StoreCorrect` covers it; that the retries of a call stop within the budget and one last attempt, the safety half of `FetchTerminates`.
