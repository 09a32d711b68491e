# A TLA+ model of the Sentrix indexer

This directory models the Sentrix indexer: how blocks, trades and addresses get from
a chain into Postgres and ClickHouse (`src/bin/indexer.rs` and the crates it runs)
while several tasks run at once, calls fail, and the process is killed and started
again; and what readers of its API (`src/bin/api.rs`) see meanwhile.  The modules are
checked with TLC on small instances; all their safety properties are also proved with
TLAPS for every value of the constants.

## 1. The system

One process (`src/bin/indexer.rs`) spawns these tasks over one Postgres pool:

| component | state | operations | talks to |
|---|---|---|---|
| backfill loop (`sync/backfill.rs`) | cursor read at the start of a walk, ordered fetch stream, batch buffer | tick, read cursor, read tip, take a fetched block, flush a batch, step over a 404 | REST and JSON-RPC, block writer |
| tail loop (`sync/tail.rs`) | gRPC stream, `current` tip of the walk | connect, `BlockFinalized`, walk and ingest one by one, release the gate, reconnect | gate, `ingest_one`, block writer |
| single-flight gate (`sync/single_flight.rs`) | `inflight` flag, `pending` tip | `offer`, `take_pending_and_release` | tail loop |
| block writer and cursor (`sync/block_writer.rs`, `sync/cursor.rs`, `db`) | blocks, transactions, logs, token_transfers, addresses, `_meta` | one transaction per block or batch; GREATEST cursor; analytics push after the commit | Postgres, flusher |
| reorg checker (`sync/reorg.rs`) | probe height, divergence | `check_once`, walk back, rewind | JSON-RPC, blocks, cursor |
| analytics flusher (`analytics/flusher.rs`) | unbounded channel, buffer | push, tick, recv, INSERT, drain at shutdown | ClickHouse |
| CoinBlast worker (`coinblast`) | own cursor, `known_curves`, `known_non_curves`; cb_tokens, cb_trades | chunk of two passes, handlers, adoption of direct-deployed curves, retry | JSON-RPC, Postgres |
| address registry and contract detector (`db/addresses.rs`, `sync/contract_detect.rs`) | `addresses` rows, the detector's batch | upsert within the block commit, one-time history seed, sweep and classify | JSON-RPC, Postgres |
| stats refresh (`db/stats.rs`) | `populated` | refresh of a materialized view on every tick | Postgres |
| main (`src/bin/indexer.rs`) | the handles of the tasks, the cancellation token | spawn, wait for a signal, cancel, join one task after the other | all tasks |
| chain clients (`chain/rest.rs`, `provider.rs`, `retry.rs`, `error.rs`) | round-robin cursor of each client | calls, timeouts, `is_transient`, `retry_with_backoff` | the chain's endpoints |
| conversions (`sync/convert.rs`, `token_decode.rs`) | none | bodies and logs to rows, orphan-log filter, `decode_transfer` | fetches, block writer |
| cached reads (`api/cached.rs`, `cache`) | Redis entry, breaker's failure count and latch | `get_or_load`, `get`, `set`, `invalidate`, `is_open`, `record_success`, `record_failure` | Postgres, Redis |
| API (`api`, `src/bin/api.rs`) | none of its own | paged block list, detail routes, GraphQL, other routes | Postgres, cached reads |

What is hard here, and what the properties are for: two loops that commit
overlapping heights from cursors they read earlier; errors that leave a function
through `?` in the middle of a protocol; commits whose answer is lost; kills
between a commit and what follows it; a chain that rolls back under a check; rows
in a channel, a buffer and an INSERT at once; a chunk of many transactions that is
run again; tasks that end on an error while the process goes on; a shutdown that meets
them all in the middle of something; callers that share a round-robin cursor; body and
logs of a block from different endpoints; replies and page walks put together from
queries of different moments.  `PROJECT.json`
lists them one by one under `hazards`, each at its line.

What makes each part correct:

* **sync core**: the database is the chain's prefix up to the cursor, less what
  the chain lost; it stays `safe_lag` behind the tip; nothing committed disappears;
  the index catches up; a loop does not send the same row to analytics twice;
* **gate**: one worker at a time, the freshest tip is not lost;
* **reorg**: only stale blocks start a rewind, stale blocks are found, what was
  removed is ingested again;
* **flusher**: every accepted row once, in each producer's order; it ends when told to;
* **CoinBlast**: aggregates equal the stored trades; the cursor covers only what is
  stored; trades arrive;
* **cached reads**: the breaker trips, costs a bounded number of calls and recovers;
  no stale entry survives;
* **registry**: first and last block of each address, and every address is classified;
* **chain clients**: requests are spread evenly, a live endpoint is found by the
  retries, calls end;
* **rows of a block**: exactly those of the chain, whatever was replayed, left out or
  rewound; transfers are real ones; a detail reply is whole;
* **block list**: a walk misses and repeats nothing, and ends;
* **process**: a signal ends it, after every commit has been followed up.

## 2. Modules

Names follow the source.  Every `await` of the code is a boundary between two
actions; what happens between two awaits is one action.  The data is abstracted to
what the properties tell apart: a block is a height (or, where hashes matter, the
branch it is on), a trade is the position of its log, an address or curve a model value.

| module | models | state and actions |
|---|---|---|
| `IndexedChain` | what the sync core promises | `tip`, `indexed`, `cursor`; the chain grows, or the index appends the next heights |
| `BlockSync` | backfill, tail, gate, block writer, cursor, boot and shutdown, on one database | `bpc`, `bnext`, `bcap`, `buf` are the locals of `run_backfill`; `tpc`, `tcur`, `th`, `tcap` those of `run_tail` and `handle_finalized`; `inflight`, `pending` the gate; `blocks`, `cursor` the database, which alone survives `Crash` and `Restart` |
| `BlockSyncProofs` | – | the theorems about `BlockSync` |
| `SingleFlight` | the gate at the grain of its atomics, for any number of callers | `offer` is the exchange (`Offer`) and then a critical section (`Claim`, `Stash`); `Release` is `take_pending_and_release` |
| `Reorg` | `check_once` beside backfill and tail on a chain that rolls back | `chain`, `block`: branch of the block at each height, on the chain and stored; `ipc`, `ih`, `icap`, `buf` are the locals of each ingester's walk; one action per step of the pass |
| `ReorgProofs` | – | the theorems about `Reorg` |
| `AnalyticsFlusher` | the ClickHouse sink | `queue`, `buf`, `batch`: where a row waits; one action per branch of the select; model-checked as a part of `Process` |
| `Coinblast` | the CoinBlast worker | `tokens`, `count`, `price`, `graduated`, `trades`, `cursor` are the tables; `known`, `nonCurves` the caches; one action per log |
| `CoinblastProofs` | – | the theorems about `Coinblast` |
| `AddressRegistry` | registry, history seed, contract detector | `first`, `last`, `code` are the columns; the seed is count, snapshot, insert; the detector is sweep and classify |
| `CacheAside` | circuit breaker, Redis client, `get_or_load` | `failures`, `latch` are the breaker's two fields, `entry` the cached version of `db`; one action per atomic access, critical section, call and load of a request |
| `GateBreakerProofs` | – | the theorems about `SingleFlight` and `CacheAside` |
| `ChainClient` | both HTTP clients, error classes, retry | `cursor` of each client, `attempt` and `at` of each caller; `Send` is `next_base`/`next` and the request, `Answer` one turn of the retry loop, `Wake` the end of its sleep; endpoints serve, fail, garble or hang |
| `ChainClientProofs` | – | the theorems about `ChainClient` |
| `BlockRows` | conversion, decoder, row inserts, rewind, detail routes, on a chain that rolls back | `chain` and `blocks` have the branch of the block at each height, `txs`, `logs`, `transfers` the keys of the rows; a writer walks up from the cursor, fetches body and logs and writes in one transaction; a reader makes one query per action; `blind`, `overlaid`, `left` are histories |
| `BlockRowsProofs` | – | the theorems about `BlockRows` |
| `BlockList` | `/blocks` and GraphQL `blocks` over an `IndexedChain` that grows | `cache` per key, `before`, `seen` of each walk; `Hit`, `Load`, `Store` are `get_or_load`, `GqlBlocks` the uncached query |
| `IndexProofs` | – | the theorems about `AddressRegistry` and `BlockList` |
| `Process` | main and the tasks' life cycles; extends `AnalyticsFlusher` | `tpc`: where each task is; `mpc`, `awaiting`: main and the handle it awaits; `commits`, `lost`: commits that took effect, and those whose answer was lost; `Flush` is the flusher's own next step |
| `ProcessProofs` | – | the theorems about `AnalyticsFlusher` and `Process` |

`BlockSync` composes the two loops with the gate in the form the deployed process
uses it (one offering task), and `SingleFlight` examines the gate alone with many
callers.  `Process` composes the flusher with its producers, the other tasks and main;
`BlockList` composes the API with the abstract indexer that `BlockSync` is shown to
implement, so that its readers see what the two loops can really produce.
The definitions `..._NoFlush`, `..._Overwrites` and so on, each marked
"Mutant" in its comment, are the planted faults the properties are tested with:
replacing the action by its mutant must make the property fail.

Abstractions worth knowing:

* The rows of one block are one height in `blocks`: they are inserted by one
  transaction, ON CONFLICT DO NOTHING.  A block stands for one analytics row.
  In `BlockSync` the flusher accepts every push; its end is the subject of
  `AnalyticsFlusher`.
* Calls to the chain answer, answer 404, or fail after their retries.  `Lagging`
  adds endpoints that are behind: both clients pick endpoints round-robin.
* A failed tick or connection attempt that changes nothing is a stuttering step.
* `max_backfill_height` is not set by the binary and is left out.
* No binary calls `check_once`; `Reorg` models it as the library offers it, at any
  moment beside both loops, with a block's rows as one and the backfill's fetches one
  after the other; `BlockRows` has the tables one by one, and lets a rewind start at any
  stored block that is not the chain's.
* A price is the trade it came from, so that "newest" can be stated; volumes
  follow the same update as `trade_count`.
* In `Coinblast` every curve has its own token; in `AddressRegistry` a contract
  has its code from its first sighting.
* `CacheAside` has one key: keys meet only in the breaker, where a request for
  another key is one more request.  Redis executes a command between the call and
  its answer; a command whose answer is lost was executed before the failure.
* In `ChainClient` a sleep has no length and an endpoint is the same for both clients;
  a call refused before it picks an endpoint is left out.
* In `BlockRows` every block has one transaction with one log, all logs of a behaviour
  having the same shape; every shape (up to four topics, selector or not, empty, one word
  or other data) is an initial state.  A conversion error is a failed ingest.  After a
  rollback a height has another block, whose transaction is another one or (`Kept`) the
  same; a transaction that comes back at another height is left out.
* In `BlockList` Redis may lose or fail to store any page at any time; the breaker is
  `CacheAside`'s subject.  GraphQL's clamp of `first` (1..100) differs from
  `clamp_limit` (not positive gives 25) but yields no limit REST cannot have.
* In `Process` a block is one row and the loops' walks are counted, not placed: which
  heights they commit is `BlockSync`'s subject.  A configured interval of zero panics
  its task when it starts; that is the panic of the model.  A refresh of the statistics
  view is one iteration of its loop; which form of REFRESH it uses is left out.

## 3. Runs

Bounds are in the `.cfg` files.  Each is the smallest with which the case in
question occurs, and every disjunct of every next-state relation is taken.

| run | checks | bounds and why |
|---|---|---|
| `BlockSync` | `TypeOK`, `IndexExact`, `SafeLagKept`, `PushedOnce`, `CursorMonotonic`, `CatchesUp`, `ImplementsIndexedChain` | heights 0..4 with height 2 damaged, lag 1, batches of 2: full and partial batches, a gap between two batches and after a buffered block, overlapping walks of both loops. One fault at any point: an error, a lost commit answer, a kill or a shutdown; the theorems remove this bound for everything but liveness. |
| `SingleFlight` | `GateTypeOK`, `MutualExclusion`, `FreshestKept` | three callers (a worker, one between exchange and stash, one that overtakes), four tips |
| `Reorg` | `RewindJustified`, `VerifiedDownToStop` | heights 0..3 with height 0 damaged, two rollbacks: one before and one during a pass; batches of two, a probe one below the cursor; walks of backfill and tail across a rollback or a rewind, late commits of stale batches, errors. Higher chains and any other constants are covered by the proofs. |
| `Coinblast` | `AggregatesMatchTrades`, `PriceIsNewest`, `ScannedIsStored`, `TradesArrive` | a factory curve, a direct-deployed curve and an impostor; every sequence of three logs over two blocks; chunks of one block; a cache of one entry, so that it evicts; two errors or kills |
| `Registry` | `FirstSeenExact`, `LastSeenWithinBatch`, `EventuallyClassified` | two addresses in any of three blocks, batches of two, sweeps of one, two faults, a database that had the table from the start |
| `CacheAside` | `TypeOK`, `TripAccounted`, `OutageCost`, `EventuallyFresh`, `BreakerRecovers` | two requests that repeat for ever, threshold two, two database writes, an entry of another release: one request between the counter and the latch while the other half-opens, a late write of an old value. The first three are proved for any number of requests. |
| `ChainClient` | `Balanced`, `FailoverUnlessOvertaken`, `RestCallsEnd` | two callers, two endpoints of any health that may change once, three attempts, three calls: a caller overtaken twice meets the dead endpoint three times; both clients in use at once |
| `BlockRows` | `RowsExact`, `TransfersExact`, `DetailWhole` | two heights, one of them with a transaction that both branches have, two writers on the same or different heights, one log answer of a lagging endpoint, one rollback, one rewind: a height stored without its logs and then with them, a body and logs of two branches, a rewind under a writer and under a reader, the new branch stored beside the transfers of the old one, a stale walk that writes the old branch onto a header of the new one |
| `BlockList` | `WalkExact`, `WalkEnds` | heights 0..3 with one damaged, two clients, limits 1 and 2, walks from the top, from inside and from above the index: pages shorter and longer than the rest, a cached page met by another walk after the index grew |
| `Process` | `CleanExit`, `EveryRowOnce`, `ProducerOrderKept`, `ShutdownEnds`, `AcceptedIsDelivered` | all six tasks; two commits, by one loop or one by each, so that a row is in the INSERT while the other is in the channel or pushed after the final drain; one commit whose answer is lost, one failing INSERT, at most one task that panicked. The safety properties are proved for any number of rows, commits, lost answers and errors. |

In the modules whose type invariant is not listed it holds too (section 4).

Two more runs state what a comment says and show a behaviour of the code in which it
does not hold:

* `ReorgHole` (`RewoundIsReingested`): `rewind_to` lowers the cursor through
  `write_cursor`, whose GREATEST keeps it, so that what was deleted stays deleted
  (`reorg.rs:6-8` "reset the cursor to `divergence_h - 1`. Backfill re-ingests on the
  next tick").  `RewoundStaysGone` is the general reason.
* `GateLeak` (`StashPickedUp`): an error of `ingest_one` or `read_cursor` leaves
  `handle_finalized` through `?` without `take_pending_and_release`
  (`tail.rs:113`, `:118`).  The flag stays set, and the tip of every later event is
  stashed and never picked up, although the stream reconnects, the tail is scheduled
  fairly and the backfill goes on (`single_flight.rs:8` "the in-flight writer picks it
  up on completion"; also `:30-31` and `tail.rs:10-11`).  `StashIsLeaked` is the general
  form: in the deployed process there is never a worker behind a stash, because the one
  task that offers tips is the one that would work.

Further differences between code and text seen while modelling, without a run of their
own.  In the sync core:

* a 404 from an endpoint that is behind moves the cursor over an existing block
  (`cursor.rs:11` "highest height the indexer has fully written"; `Lagging` in
  `BlockSync` switches such answers on, and the theorems that need it off say so), and
  logs from such an endpoint are missing until the height is written again
  (`RowsExact` says what does hold);
* behind a leaked gate the backfill alone carries the index on (`CatchesUp`), and with
  several callers the gate can be left free with a tip stashed (`FreshestKept`);
* both loops may push the same transaction to analytics (`indexer.rs:136-137`;
  `PushedOnce`);
* a walk back stops at a gap, so the height it returns need not be the lowest divergent
  one (`reorg.rs:68-69`), and a matching probe ends the pass although the new branch may
  lie on top of stale blocks (`reorg.rs:4-5`; `VerifiedDownToStop`);
* `token_transfers` rows survive a rewind (no foreign key, `0001_initial.sql:77`), so that
  the new branch's transfers are stored beside those of the branch that is gone
  (`lib.rs:12-13` "Reorg rewind clears all downstream data"; `TransfersExact` says that
  nothing else is left over, with `left`);
* nothing is compared when a block is written: a walk from before a rollback adds the
  transactions of its branch under a stored header of another (`overlaid` in `RowsExact`);
* a block that cannot be converted, for instance with a nonce beyond i64, stops both
  loops at its height.

In the other tasks:

* one failed INSERT ends the flusher (`flusher.rs:1-2` "retries on transient ClickHouse
  errors"), its channel has no bound, and what is pushed after its final drain is lost
  although the commit succeeded; a commit whose answer is lost is never pushed, and main
  returns Ok all the same (`CleanExit`);
* a transport error of a probe counts as "not a curve" and the cursor moves on
  (`coinblast/lib.rs:33-34` "highest block fully scanned"; `ScannedIsStored`); after an
  eviction in the middle of a chunk a curve misjudged earlier can get an old price; a
  second row for the same token would violate the unique index on `token_address` and
  stop the worker;
* a block committed before the seed task counts makes it skip the history for good
  (`indexer.rs:109-111`); `last_seen_block` gets a batch's earliest block
  (`addresses.rs:15`; `LastSeenWithinBatch`); two commits that upsert the same addresses
  in different orders can be a deadlock that Postgres resolves by failing one of them;
* the worker and the detector end on a transient error (`worker.rs:68` "until
  cancellation"), and a task that panicked, for instance on a zero interval, is noticed
  only at shutdown, where it makes main return before the joins behind it.

In the clients and the API:

* retries are spread by a round-robin that other callers advance, so that they need not
  reach a live endpoint (`FailoverUnlessOvertaken`); the jitter is a function of the
  attempt and the same for all callers (`retry.rs:72-74` "so concurrent retriers don't
  synchronise"); every status but 404 is retried, a caller's error included
  (`error.rs:46-47`), while a body that breaks off is not;
* JSON-RPC calls have no timeout;
* a page of blocks asked for above the indexed top is cached short, and a walk that
  reaches the same cursor within the TTL skips blocks (`WalkExact`).

### Fairness

Safety properties are checked without fairness.  The liveness properties assume:

* `BlockSync`: weak fairness of the backfill's own steps only.  Its interval keeps
  ticking (`indexer.rs:166-175`) and an await that does not fail completes.  Nothing
  is assumed of the tail or of the faults, so `CatchesUp` holds by the backfill
  alone.  For `GateLeak` the tail's steps and the arrival of events are fair too, so that
  its behaviour is not one in which the tail merely stops.
* `Coinblast`, `AddressRegistry`: weak fairness of the worker's and the detector's
  non-failing steps; the number of faults is bounded, so from some point on a retry
  meets none.
* `CacheAside`: the TTL and the breaker's window end, a request that was made goes on
  (to an answer or an error), and requests keep arriving, without which nothing
  clears the latch.  A request that goes on includes its call to Redis: the call may
  always fail, but it returns, with an answer or an error; the cache crate
  sets no timeout on it.  That the API gives up a whole request after 30 s
  (`bin/api.rs:152`) is left out.
* `ChainClient`: requests are sent, sleeps end, and a request that is answered or times
  out ends.  Nothing is assumed of the endpoints, which may all be down or hang.
* `BlockList`: a request goes on (its calls return) and a client with a next cursor
  follows it.  Nothing is assumed of the indexer or of what the cache keeps.
* `Process`: awaits complete (a JSON-RPC call that hangs would hold its task and
  `ShutdownEnds` with it), main goes on when the awaited task has ended, and a
  cancellation that is ready again and again is chosen by the unbiased selects of the
  backfill, the stats loop and the flusher (strong fairness: tokio polls the branches of
  such a select in random order).
* `Reorg` (only for `ReorgHole`): chain, both loops and checker keep going, and no walk
  fails.

`CHECK_DEADLOCK FALSE` is used where the modelled part really stops: the CoinBlast
worker, whose task ends on an error, and the process after its end; and in `ChainClient`, `BlockRows` and `BlockList`, where the
bounds on calls, rewinds and walks end a behaviour.

## 4. Proofs

`BlockSyncProofs` proves, for every height bound, lag, batch size, set of damaged
heights and number of faults:

* `TypeCorrect`, `SafeLagIsKept`, `RowsPushedOnce`, `CursorIsMonotonic`, and
  `StashIsLeaked`, the reason for what the run `GateLeak` finds;
* `IndexIsExact` and `ImplementsAbstract`, when no endpoint lags (`Lagging = FALSE`).
  The assumption is needed: with `Lagging = TRUE` TLC finds a violation of `IndexExact`.

The constants are assumed to be what `SyncAssumption` says: naturals, a positive
batch size, damaged heights among the heights.

`IndexExact` is not inductive: that the database is the prefix up to the cursor
says nothing about a batch computed from a cursor read long ago.  The invariant
that is inductive is the conjunction of `TypeOK` and
* `BackfillInv`: in a walk every height below the next one to take is in the
  buffer or at or below the persisted cursor, buffered heights are present on the
  chain, and the cap is `SafeLag` below the tip; the buffer is empty between walks
  and when the cursor steps over a gap, and such a step is at a missing height;
* `TailInv`: the tail's next height is at most one above the cursor and its cap
  `SafeLag` below the tip; while the tail is in a walk it holds the gate and
  nothing is stashed;
* `IndexInv`: stored heights are at or below the cursor and not damaged, `SafeLagKept`,
  and, when no endpoint lags, no other height below the cursor is missing;
* `PushInv`: `PushedOnce`, and what a loop has pushed lies below its walk and outside
  its buffer.

With these, a commit adds exactly the heights between the cursor and the end of the
batch, or heights that are there already; `ImplementsAbstract` maps the first to the
abstract `Append` and the second to a stutter.

`GateBreakerProofs` proves, of the gate, `GateTypeCorrect`, `GateExcludes` and
`FreshestIsKept` for any set of callers and any tips, and, of the breaker,
`CacheTypeCorrect`, `TripIsAccounted` and
`OutageCostBounded` for any finite set of requests and any positive threshold.
`OutageCost` is not inductive.  `CostInv` is: the count stays below the threshold
plus the number of requests without an uncounted call under way, because every
failure takes a request out of that state and no new call starts behind a set latch;
and while the latch is clear and the mutex free, every failure beyond the threshold
has a request about to set the latch, which is why a call may start then.

`ReorgProofs` proves `ReorgTypeCorrect`, `RewindIsJustified`, `PassIsComplete` and
`RewoundStaysGone` for any chain height, lag, batch size, probe depth, set of damaged
heights and number of rollbacks.  The properties compare stored blocks with the chain of now, and
either can change under a pass, so the invariant says which changes are impossible:

* `BranchInv`: branches are numbered, nothing is newer than the current one, and what
  is stored or buffered above the tip is older.  A chain that grows back over a stale
  block therefore cannot make it right;
* `IngestInv`, `RangeInv`: a walk keeps within its bounds and holds no damaged block; a
  pass stays at or below its probe, which the cursor has reached;
* `DivergenceInv`: from the walk's first step to the delete the block at the divergence
  is wrong, or above the tip.  A stored row is never replaced, so a loop that commits a
  stale batch there meanwhile changes nothing;
* `PassInv`: on a chain that stood still, where the pass stopped.  Below the probe a loop
  can only fill a height that had no row (`inserted`), at which the pass may then be
  said to have stopped.

`RewoundStaysGone` (`OrphansStay`) is the reason for what the run `ReorgHole` finds, for
every constant: the cursor does not come down and new walks of either loop begin above
it.  It speaks of heights that no walk under way still covers, because a batch or a walk
from before the rewind does fill what it covers; `WalkCoversNoMore` says that going on
never makes a walk cover more below the cursor.

`ChainClientProofs` proves `ClientTypeCorrect`, `LoadIsBalanced`,
`OnlyOvertakenCallsFail` and `AloneSucceeds` for any callers, endpoints, attempts and
calls.  `PicksInv` counts the rounds of the cursor by the last endpoint.  For the
failover, `MeetInv` is a budget: as long as a call has not met an endpoint that was up
all the time, the requests it has sent and the turns that are left before that endpoint
(`Ahead`) together stay within (overtakings + 1) x (N - 1).  A request of the call moves
one from the turns to the requests; one of another caller takes a turn away, or, when it
takes the endpoint's own turn, is an overtaking and adds N - 1 to both sides.
`AloneSucceeds` is the case without overtaking; its hypothesis `MaxAttempts >= N` is
what the retry policy's attempts must satisfy for the configured list of endpoints.

`BlockRowsProofs` proves `RowsTypeCorrect`, `RowsAreExact`, `TransfersAreExact` and
`DetailIsWhole` for any number of heights, writers, lagging answers, rollbacks and
rewinds.  `DecodeIsReference` is the decoder's correctness over every shape of a log.
`TablesInv` adds to `RowsExact` that a stored header has its own body's transaction, which
is also true where another branch was written onto it.  `TransfersInv` is separate
because no foreign key ties transfers to blocks: a transfer has its log, or its key is
among those a rewind left, or its height is overlaid; a rewind that removes the log moves
the key to `left`, and the block of another branch stored there later does not take it
out.  `ReaderInv` says of a reader between two queries that each part it owes has been
read or will be found by a query it has yet to make, since without a rewind rows do not
go away.  `RowsAssumption` says, besides the ranges, that the value for "no row" is
nothing else.

`ProcessProofs` proves `FlusherTypeCorrect`, `NoRowLost` and `OrderIsKept` of the flusher
alone (`Spec`) and, of the process (`ProcessSpec`), `ProcessLosesNoRow` and
`ExitIsClean`, for any number of rows, commits, lost answers and failing INSERTs.  The flusher's
invariant is about one sequence, `AllRows`: delivered, in the INSERT, buffered and
queued, in this order.  Until an INSERT fails it is, as a set, what was accepted, is as
long as that set is large (so nothing is there twice) and has every producer's rows in
order; receiving, ticking, draining and the end of an INSERT only move the borders
within it, and a push appends a row newer than all of its producer's.  For the exit,
`TaskInv` counts the commits whose push is still to come apart from those whose answer
was lost, `JoinInv` says that a handle main has gone past belongs to a task that ended,
and `EarlyInv` follows the rows pushed before the signal: the final drain comes after
the signal, so its INSERT has them.

`CoinblastProofs` proves `WorkerTypeCorrect`, `AggregatesAreExact`, `LastTradeWins` and
`NothingPassedOver` for any curves and impostors, chunk size, lag, deploy block, cache
cap and number of faults.  None of the three properties is inductive.  `RowInv` extends
the aggregates to curves without a row, whose numbers are zero, so that an adoption in
the middle is harmless; `MemoryInv` gives a known curve its row (an update would
otherwise be lost) and makes a curve among the non-curves a misjudged one.  The price
rests on order, not on counting: `OrderInv` says that the stored logs of a curve are
closed under its earlier logs from the deploy block on, so a trade that is inserted is
the newest.  That holds because of `ChunkInv`: a chunk starts at the block after the
cursor, where everything is stored (`ScannedIsStored`), and what a pass has gone by in
it is stored too.  `CoinblastAssumption` says, besides the ranges, that the factory is
none of the curves or impostors, since the worker remembers its address among the known
curves.

`IndexProofs` is about the two components that build on the indexed prefix.

Of `AddressRegistry` it proves `RegistryTypeCorrect`, `RegistryIsSound`,
`FirstSeenIsExact` and `LastSeenIsRecent` for any finite set of addresses, batch sizes,
blocks and faults.  The invariant is `RegistrySound`, which holds on every database: both
blocks of a row are indexed sightings of its address, and a sighting at or above
`OldBlocks` has a row that starts no later and ends less than a batch before it.  A
commit keeps it because a batch reaches without a gap from the indexed prefix upwards
and is shorter than `BatchSize`; the seed because its snapshot is of the past
(`SnapshotInv`) and an address still without a row has no sighting since the table
exists.  `FirstSeenExact` and `LastSeenWithinBatch` are the case `OldBlocks = 0` and have
it as a hypothesis, since on an older database they are false until the seed has run,
and stay so for an address that a commit registers before it.

Of `BlockList` it proves `ListTypeCorrect` and `WalksAreExact` for any clients, limits,
heights and gaps.  `ListBeforeIs` is the correctness of the query's order and limit
without an induction: counting from the top ranks a finite set of heights strictly, so
ranking is an injection into as many ranks as there are heights and reaches each of them
(`RanksAreDense`).  `PageOK` is what a page says for ever, whenever it was loaded: its
rows are the indexed stretch from its newest row down to its cursor and, if its bound was
within the index, from the bound down.  It survives the indexer, which only writes above
the cursor (`PageKept`); it ties each cached page to the bound of its key, and each held
page to the request.  A walk that goes on with such a page continues its stretch without
a gap (`WalkGoesOn`).

Each inductive invariant was first checked with TLC on the constants of the component's
run, or larger ones.

The prover does no liveness: `CatchesUp`, `AcceptedIsDelivered`, `TradesArrive`, `EventuallyClassified`, `EventuallyFresh`, `BreakerRecovers`,
`RestCallsEnd`, `WalkEnds` and `ShutdownEnds` are model-checked only.

## 5. Not modelled

Not modelled: API routes that make one query and keep no state (addresses, leaderboards,
stats, the Etherscan dialect, CoinBlast reads, readiness), authentication and rate
limits; the decoding of gRPC events; hex, decimal and JSON formatting, `Wei`
arithmetic, metrics and logging; the schema beyond the keys and cascades the actions
use.  The chain, Postgres, Redis and ClickHouse are external and appear through what the
code sees of them.  Code that is deployed to an address after its classification, curves
that share a token and the lock order of concurrent upserts are left out of
`AddressRegistry` and `Coinblast`.
