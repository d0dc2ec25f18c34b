# A TLA+ verification project for PerfDB

PerfDB is an embedded database for a derivatives exchange: one process that
takes price ticks and decoded chain events, keeps the state of positions,
orders, balances and statistics in memory, and survives restarts through a
write-ahead log, snapshot files and memory-mapped tick and candle files.

This directory holds TLA+ modules that model that code, TLC configurations that
check them on small instances, and TLAPS proofs. `PROJECT.json` lists every
component, run, mutant, mapped source line, finding, hazard and theorem.

## The system

| Part | State | Operations | Modelled in |
|---|---|---|---|
| Write-ahead log (`storage/wal.rs`) | segment files, one open file behind a `BufWriter`, current segment number and size, time of the last sync | `open`, `append` (write, sync by policy, rotate), `sync`, `replay`, `truncate_before` | `Wal` |
| Snapshot files (`storage/snapshot.rs`) | one file per checkpoint block | `write_snapshot`, `load_latest_snapshot`, `cleanup_snapshots` | `Recovery`; what a file holds in `Ingest`, `Feeds`, `EngineState` |
| Checkpoint (`relational/checkpoint.rs`) | last block, its hash and time | `advance_block`, `save`, `snapshot` | `Recovery`, `Ingest` |
| Engine, event path (`engine.rs`) | owns everything | `open`, `process_event`, `save_checkpoint`, `snapshot`, `replay_wal_entry`, `restore_snapshot` | `Recovery`, `EngineState`, `Ingest`, `Feeds` |
| Engine, tick path (`engine.rs`) | | `ingest_tick`, `shutdown` | `Candles`, `Ingest` |
| Candle builder (`aggregation/candle_builder.rs`) | one running candle per market and timeframe | `on_tick`, `flush_all`, `seed` | `Candles` |
| Tick and candle stores (`storage/tick_store.rs`, `candle_store.rs`) | append-only mapped files | `append`, `upsert`, `latest`, `flush` | `Candles`, `Mmap` |
| Mapped files (`storage/mmap.rs`) | header with the length, records, capacity | `open`, `append`, `write_at`, `grow`, `flush` | `Mmap`, and `Journal`, what it promises |
| Range queries (`query/time_range.rs`) | | ranges, last n, the candle at a time | `Queries`, over the files of `Mmap` |
| Positions, orders, balances (`state/`) | concurrent maps with secondary indexes, order books | `insert`, `update`, `remove`, `cancel`, `execute`, `set`, ... | `Tables` lock by lock; `EngineState` for what the events do |
| Market state (`state/market_state.rs`) | price and time in atomics, the rest behind a lock | `set_price`, `set_funding_rate`, `add_long_oi`, `set_paused`, ... | `Ingest`, `EngineState` |
| Pub/sub (`state/pubsub.rs`) | broadcast channels | `publish`, `subscribe` | `Ingest` (the price channel) |
| Users, referrals, alerts, API keys, competitions (`relational/`) | rows, a map from codes or hashes to ids, lists per user | `upsert`, `set_referral_code`, `insert`, `remove_by_user_and_id`, `join`, `referral_count`, ... | `Relational` |
| Statistics (`aggregation/stats.rs`) | counters per trader, and per trader and day | `increment_trade`, `accumulate_trade`, history, daily totals | `Feeds`, `EngineState`, `Recovery` |
| Event log (`storage/event_store.rs`) | events by market and by trader, in memory | `append`, block ranges, latest | `Feeds`, `Recovery` |
| Leaderboard (`aggregation/leaderboard.rs`) | two ranked lists | `rebuild_leaderboard`, `rank` | `Feeds` |
| Markets, configuration, errors, command line | | | not modelled, see below |

How they interact. `process_event` and `ingest_tick` append to the log under
its mutex, release it, and then call the stores one after the other; each
store locks for itself. Nothing locks the sequence: another thread that calls
`snapshot` reads the checkpoint and then store after store in between. `open`
loads the snapshot with the highest block, restores the stores, opens the log
and replays every entry of a higher block through a second, separate match over
the events, and seeds the candle builder from the candle files.

What is hard. Crashes and power loss between any two of these steps; system
calls that fail half way; a snapshot that overlaps an event; a block whose
events lie on both sides of a snapshot; the live and the replay code drifting
apart; records that a restart writes twice; several atomics that are one value
to a reader; a receiver that falls behind its channel; maps that a call
visits one after the other, with another call in between; boards ranked from
rows that change meanwhile. The hazards in `PROJECT.json` are
these, each at its line with the properties that would catch it.

What makes each part correct. *Log*: replay returns what was appended, in
order, nothing twice, and loses at most an unsynced suffix beside what was truncated. *Recovery*: an
acknowledged event is applied exactly once. *Candles*: the candle files are the
aggregation of the tick file, sorted. *Mapped files*: a crash costs no completed
write, a power loss no flushed one. *Tables*: indexes and books agree with the
rows once calls are over, and a balance is the sum of its deposits. *Words
without a lock*: what a reader pairs is never apart by more than the write under
way. *Event log, days, boards*: they tell of the same events as the log. *State*: statistics, books and open
interest agree with the tables they summarise, and a restart changes nothing.

## The modules

### `Wal`

An entry is the number of its `append()`; a segment is a sequence of entries
and `Torn` cells, a `Torn` being the partial bytes of an entry that nothing
completes. `synced` counts the cells of each file on stable storage, `flushed`
those the `BufWriter` has handed to the operating system. `pc` is the place
inside the call in progress (`&mut self`, so one at a time): `WriteEntry` is
`append()` up to the sync decision, `Flush` and `Fsync` are `sync()`,
`CheckSize` the size test, `CreateSegment` the rest of `rotate()`. Each system
call has a failing twin (`WriteEntryFails`, `FlushFails`, `FsyncFails`,
`CreateSegmentFails`) that returns the error from where the code does.
`ProcessCrash` loses the buffer, `PowerLoss` cuts every file anywhere behind its
last fsync, perhaps inside an entry, and `DropWriter` is the destructor's flush.
`truncate_before` takes any number up to `MaxAhead` past `current_segment`, with
or without a writer, as the code has no test of it. It works on names: of a file
that the writer has open it takes the name (`unlinked`), the writer goes on with
the file, and what it writes from then on is `orphaned`. That is within reach of
a caller who passes `current_segment()`: `rotate` counts that number up before it
opens the file, and stays on the old file when the open fails.

Left out: bytes and CRC collisions, directory entries lost in a power loss
(the code never fsyncs the directory), and the time, so that the outcome of
`Interval` is a free choice.

### `Recovery`

A call of `process_event` is a number, and a store holds how often each call
was applied to it: an increment is right when that is once. `stage` is the
indexer thread's place between the append, the stores in the order of the
`PositionClosed` arm, and `advance_block`; `snap` is the snapshot thread's place
between the checkpoint, the stores in the order `snapshot()` reads them, and the
two halves of `fs::write`. The log is the set of its calls, since `Wal` shows
order and suffix loss; a crash keeps any prefix. The indexer delivers in
block order and starts again at the checkpoint. Two history variables name the
trouble: a call is `late` when some snapshot had read a checkpoint not below its
block before the call was through, `overlapped` when it ran while a snapshot was
reading. Events of block 0 count as late: without a snapshot `snap_block` is 0
and replay skips them.

### `Candles`

One market, a sequence of timeframes given by their durations. A call is cut
where a crash can come between: `StoreTick`, `on_tick`, and one `AppendCandle`
per closed candle. `pending` holds, by timeframe, the candle that the call has
still to store; `AppendCandle` takes them in the order of the timeframes.
`shutdown` is a caller of its own: it comes wherever the locks of builder and
candle store let it, that is anywhere but inside the append loop (`storing`), and
keeps both for its own loop (`flushing`, `AppendFlushed`), so that `on_tick` and
the appends of a call wait for it. `overtaken` says that it came between a
call's `on_tick` and its appends. Ticks may come out of order; `ordered` and `calm`
say whether they did and whether anything else went wrong. The log append at the start of `ingest_tick` is `Wal`'s business.

### `EngineState`

`live` is the engine's stores; `rebuilt` is what `open()` would construct now.
Every event is applied to the one by the operators of `process_event` and to
the other by those of `replay_wal_entry`; `snapshot` sets `rebuilt` to
what `restore_snapshot` makes of `live`; `Restart` replaces `live` by
`rebuilt`. A position keeps the fields on which the two matches differ. `chain`
and `ledger` are the chain's own state, which is external: they make the event
stream consistent (no close beyond the size, no withdrawal beyond the balance).

### `Tables`

The position table, the order table and the balance cache are the same pattern:
rows in one concurrent map, ids in others, and for orders a book. A behaviour
is about one of them (`table`); a call is the list `pc[t]` of the lock sections
it has still to go through, and an action is one section: `InsertRow`,
`AddToIndex`, `AddToBook`, `RemoveRow`, `RemoveFromIndex`, `RemoveKey`, `EndRow`
(the status change of `cancel`, `execute` and `update`), `RemoveFromBook`. The
reader holds its index guard from `BeginRead` to `EndRead`, as `by_user` does.
The place of an order in the book (market, side, price) never changes, so `book`
is the number of copies of each order at its place: `push` adds one, `retain`
takes all.
The history variable `raced` collects the keys and ids on which a removal (or,
for one order, a cancellation or execution) overlapped another writing call:
there `remove` can erase a set that was refilled after its guard was dropped, and
`cancel` can miss a book entry that `insert` has not made yet. `replaced` collects
orders that were inserted again while in the book, until the book lets go of
them. The properties are exact
everywhere else, which is the rule callers need: inserts and updates may run
freely; a removal must be alone on its user and its market; and calls on one
order must be serial. The engine has one indexer thread and never calls
`remove`, so it keeps the rule. A collateral event is two calls of the cache, a
`get` and a `set` of the sum; `holds` is what a thread has read, `ledger` what
the balance should come to, `mixed` the balances on which two such calls
overlapped. Left out: markets out of range, which have no book, and the order of
prices, a property of `BTreeMap`.

### `Mmap`, `Journal` and `Queries`

`file` is what the operating system shows and `disk` what a power loss leaves;
both have the length in the header, the size and the records. `append` is cut
into the three system calls of `grow`, the copy of the bytes and the header;
`upsert` decides between those and one overwrite. `GrowFails` returns from any
of the three calls. `CrashInCopy` ends the process in the middle of a copy,
`WriteBack` moves the header, the size or (part of) a record to the disk in any
order. The header write and the store of the atomic are one step, as nothing
reads in between under the store's mutex. Lengths count records: that 4 MB is
no multiple of a record's size does not matter to an append-only file.

`Journal` is the promise: a sequence of records that grows at its end, whose last
record alone may be overwritten, and a prefix `safe` that no crash and no power
loss touches. Under the mapping `J` in `Mmap` (the records up to the header's
length, the flushed prefix, whether the file is open, whether the file kept its
size) every step of `Mmap` is a step of `Journal` or leaves it unchanged. What a
power loss does to the records behind `safe` is left open there, as it is in the
code.

`Queries` has the binary search and the queries over it; ticks and candles have
the same code twice in the source and once here. `RangeMatches` asks for ranges
with the start not behind the end, and of `find_candle_at` for what it does; its
comment promises more (`CandleAtContains`, with buckets `BucketWidth` wide). A
slice out of bounds is a value of its own, "panic": `read_at` yields it for a slot
below the header's length and past the mapping.

### `Ingest`

What runs without a common lock, for one market: the two atomics of a price, the
fields behind the market's lock, the three words of the checkpoint, the price
channel. Every atomic store or load and every locked stretch is a step. The
callers are those of `ARCHITECTURE.md`: one feed (`LogTick`, `StorePrice`,
`StoreStamp`, `Publish`, or `IngestFails` when a tick or candle store returns an
error), one indexer (`LogEvent`, `PauseMarket`, `AdvanceBlock`; `SaveBlock`,
`SaveStamp`, `SaveHash`), setters of the locked fields (`Set`), the snapshot
(`ReadBlock` to `WriteFile`), and a receiver (`subscribe`, `Receive`, `Lagged`).
A behaviour picks one of the `Deployments`, the pairs of callers that share
state. `Restart(n)` keeps a prefix of the log, restores the file field by field
(`RestoreInner`, on top of the defaults) and replays.
A tick is its number, so "older" is "less". History: `before` (which
tick a tick replaced), `shown` (the latest tick anybody has seen), `versions`
(values of the locked fields), `lost` (a crash cut ticks off the log), `owed`
(acknowledged ticks the receiver has not heard of).

### `Relational`

Users with referral codes, users with referrals, alerts, API keys and
competitions: a behaviour is about one `store`. As in `Tables`, a call is the
list of its steps, one per lock; a guard that the code keeps from one step to the
next locks the whole map (`shared`, `exclusive`), which is what happens when the
keys fall into one shard, so that a deadlock would show. `referral_count` visits
row by row (`BeginScan`, `ScanRow`, `EndScan`) beside the writers, and
`compute_tier` is applied to what it counted. A list (`by_user`) is
kept as the number of times it has each id: the code pushes, retains by id
and walks a list, and nothing depends on its order. History: `given` and `reused` ids,
`odd` ids on which two writing calls overlapped, `stained` codes that went to a
second row, that an `upsert` or repeated `insert` took off a row, or on which
calls overlapped (the last two are what `UpsertUpdatesIndex` and `CodesFindRows` are
about). `CodesExact` excepts `stained` codes for a reason: a code given
to a second user is lost to both once the first one changes it.

### `Feeds`

The event log, the statistics by trader and by day, and the two leaderboards.
The indexer's `Stages` are the lock sections of `process_event` from the log to
the daily statistics; `rebuild_leaderboard` reads row by row and then replaces
one board and the other. A behaviour has one of the `Mixes` of events and tasks.
Every event has a block of its own and the snapshot comes between events; the
other cases are in `Recovery`. `timestamp_to_date` is the code's arithmetic on
eras of 400 years and `DayNumber` the calendar it is compared with. History:
`stale` (traders that changed after they were read for a board) and `cut` (days
that a snapshot's limit on the history left out). `Reopen` replays the log behind
the file with `Replay`, entry by entry; `Picked`, the filter of a block range, is
the k-th of the indices it keeps, at k.

### The proof modules

`WalProofs`, `MmapProofs`, `RecoveryProofs`, `IngestProofs`, `CandlesProofs`,
`TablesProofs` and `RelationalProofs` each extend the module they are named after and
hold its inductive invariant, lemmas and theorems; `EventPathProofs` does so for both
`EngineState` and `Feeds`, which share the lemmas on sums. See below.

### The `MC` modules

`MCWal` and `MCRecovery` give constants values. The other three put modules that
belong to one part of the system side by side:

| Module | Extends |
|---|---|
| `MCEventPath` | `EngineState`, `Candles`, `Feeds`: what `engine.rs` does with events and ticks |
| `MCStores` | `Tables`, `Mmap`: what queries read |
| `MCShared` | `Ingest`, `Relational`: what request handlers share with feed and indexer |

The modules put together have no variable in common, and a step of one leaves the
variables of the others alone; a behaviour of all of them is therefore a behaviour
of each, and an invariant of one holds of the combination as soon as it holds of
the one. So the passing runs let one module at a time move: `moving` is
picked once from `Together`, the others stay in one initial state, where none of
their fairness conditions asks for a step. The state
spaces are added and not multiplied, and no interleaving is lost by that. Where
code that two modules cut out of the engine does interact, one module has both
sides: snapshot and event in `Recovery`, feed, indexer and snapshot in `Ingest`,
`ingest_tick` and `shutdown` in `Candles`. The violated runs let several
modules move, so that one behaviour shows all that goes wrong.

## The runs

| Run | Result | What it shows |
|---|---|---|
| `wal` | holds | `ReplayInAppendOrder`; `FsyncedSurvives` and `LossIsSuffix` but for what truncation deleted or cut off; `AckedIsFsynced` |
| `log_word` | violated | an acknowledged entry behind a partial one, where no replay gets to; and an entry fsynced after a truncation that is in no segment |
| `recovery` | holds | `NoLoss` but for late calls, `NoDouble` but for overlapped calls |
| `recovery_word` | violated | a snapshot between two events of a block claims the second one without having it, and a partial snapshot file keeps the database from opening |
| `event_path` | holds | of `EngineState` `OpenCountMatches`, `OpenInterestMatches`, and `ReplayAgrees` but for the fields that `event_path_word` is about; of `Candles` `MatchesTicks` while nothing goes wrong, `StoreSorted` and `LaterRecordCovers` but for an overtaking shutdown; of `Feeds` `PartitionsAgree` on the events since the restored block, `BoardFresh`, and `DailyMatches` but for days a snapshot cut |
| `event_path_word` | violated | acknowledged events of which a restart keeps neither the row, the size, the open interest, the event nor the day |
| `candles_word` | violated | a candle file out of order, with a bucket twice and another one missing, and a running candle that lacks ticks |
| `stores` | holds | of `Tables` `IndexExact`, `BookExact` and `BalanceExact` but for raced keys, replaced orders and mixed balances, `ReadComplete`, `CallsReturn`; of `Mmap` `CrashKeepsRecords`, `FlushedSurvives`, `UpsertsSorted`, `MappingCovers`, `RangeMatches`, and the refinement `ImplementsJournal` |
| `stores_word` | violated | a live row its index lost for good, a candle for a time behind its bucket, a range without a slice |
| `ingest` | holds | `PairLag`, `HashNotAhead`, `NoStepBack` while the log is whole, `RestoreExact` (a snapshot has the locked fields of one moment and a restart gives them back), and that acknowledged ticks are `Delivered` |
| `relational` | holds | `CodesExact` and `ListsExact` but for stained codes and odd ids, `OwnerOnly`, `TierBetween`, `CallsReturn` |
| `shared_word` | violated | a snapshot with the block of one `save` and the hash of another, a code that leads to a user who gave it up, a row whose code leads nowhere |

A violated run checks sentences of the repository's documents and comments that
the code does not keep; the findings in `PROJECT.json` quote them. Where a run is
about several, its property is their disjunction, each disjunct a definition
of its own beside the weaker property that does hold: TLC then has to find one
state in which all of them are false, which is more than a state for each.
`event_path_word` and `candles_word`, for instance, are about five and four sentences,
with one counterexample each.

The passing run beside it shows what a caller can rely on, and so delimits the
disagreement. `NoLoss` and `NoDouble` say that a caller who takes snapshots only
between blocks and outside `process_event` is safe; `StoreSorted`, that only a
`shutdown` beside a tick puts a candle file out of order.

### Where the code does less than it says

Every case that a passing property leaves out is here, but for three that the
repository rules out or says nothing about: two indexers on one balance (`mixed`),
against `ARCHITECTURE.md:200` ("single logical writer per engine"), ids of alerts
or keys that a caller brings a second time (`reused`), and a referral code that is
given to a second user. `PositionTable` and `UserStore` claim more than the single
writer ("concurrent reads/writes without external synchronization"), and nothing
sets the other tables apart from them, so races on tables count.

With a counterexample of a run:

| Sentence | What the code does | Shown as | What holds |
|---|---|---|---|
| `README.md:277` "an acknowledged write survives a crash" | `wal.rs:122`, `287`, `300`: new entries go behind a partial one, where replay stops | `AckedIsReplayed` | `FsyncedSurvives`, `LossIsSuffix` |
| `wal.rs:334` "Delete all segments before (not including) the given segment number." | `wal.rs:219`, `336-350`: after a failed rotation `current_segment()` names no file yet, and truncating with it takes the name of the open one | `TruncationKeepsLater` | `FsyncedSurvives` but for what truncation cuts off |
| `engine.rs:831` "(already in snapshot)" | `engine.rs:596`, `867`: the checkpoint names a block after its first event | `SkippedIsInSnapshot` | `NoLoss` |
| `ARCHITECTURE.md:43` "survives crashes without losing acknowledged writes" | `snapshot.rs:120`, `148-160`: a partial file is the newest one, and `open` takes no other | `OpensAfterCrash` | `NoLoss`, as long as `open` succeeds |
| `README.md:277`, `ARCHITECTURE.md:43` | `engine.rs:895`, `922-930`: replay opens with entry price 0 and leaves the data of a close out | `RowsSurvive` | `ReplayAgrees` |
| the same | `engine.rs:1046`: replay drops `PositionModified` | `SizesSurvive` | `ReplayAgrees` |
| the same | `engine.rs:886-930`: replay never moves the open interest | `InterestSurvives` | `OpenInterestMatches` |
| `ARCHITECTURE.md:39`, `README.md:58`, `snapshot.rs:13` "Complete serializable snapshot of all in-memory state" | `engine.rs:687-699`: a snapshot has no events | `EventsSurvive` | `PartitionsAgree` |
| `snapshot.rs:13`, `ARCHITECTURE.md:190` "(all time)" | `engine.rs:670`: a snapshot has the newest 1000 days of a trader | `DailySurvives` | `DailyMatches` |
| `candle_store.rs:22` "sorted by `timestamp_ns`" | `engine.rs:254-257`, `705-713`: `shutdown` fits between the builder's lock and the candle store's | `SortedByTime` | `StoreSorted` |
| `candle_store.rs:62` "must ensure this is a new bucket", `candle_builder.rs:79` "(finalized, immutable)" | `engine.rs:200-206`, `709`: stored candles are seeded and running ones stored, and closed again later | `OneRecordPerBucket` | `LaterRecordCovers` |
| `candle_builder.rs:80` "reconstructible from ticks after crash" | `engine.rs:846-850`: replay gives no tick to the builder | `LiveMatchesTicks` | `MatchesTicks` |
| the same, `engine.rs:238` "Persist Closed candles" | `engine.rs:199-206`, `260`: a candle live at a crash, or behind a failed append, is never stored | `ClosedAreStored` | `MatchesTicks` |
| `positions.rs:14-16` "Secondary indexes are eventually consistent" | `positions.rs:76-78`: a removal takes a set away that an insert has just filled | `IndexesCatchUp` | `IndexExact` |
| `time_range.rs:68-69` "whose bucket contains the given timestamp" | `time_range.rs:74-81`: the latest candle not later, whatever its bucket | `CandleAtContains` | `RangeMatches` |
| `time_range.rs:14` "Zero-copy slice of ticks in `[start_ns, end_ns)`." | `time_range.rs:16-18`: panics when the ends are reversed | `EveryRangeHasSlice` | `RangeMatches` |
| `checkpoint.rs:71` "Update the checkpoint atomically." | `checkpoint.rs:62-76`: three stores, and a reader's lock that keeps only the third | `SaveIsAtomic` | `HashNotAhead` |
| `users.rs:25` "Updates referral code index." | `users.rs:26-36`: the old code stays | `UpsertUpdatesIndex` | `CodesExact` |
| `users.rs:10-11` "concurrent reads/writes without external synchronization" | `users.rs:31-35`, `52-65`: row and index are two steps, and another call fits between | `CodesFindRows` | `CodesExact` |

Read off the code, as the guard or the missing step is in plain sight and a run
would only repeat it; the property named is the one that leaves the case out:

| Sentence | What the code does | Left out by |
|---|---|---|
| `wal.rs:75` "Fsync every N milliseconds." | `wal.rs:178-183`: the clock is looked at inside `append`, so the last entries of a busy period stay in the buffer until the next one | `AckedIsFsynced` (`EveryWrite` only) |
| `orders.rs:172` "set status to Cancelled, remove from orderbook" | `orders.rs:148-164`: `insert` makes the row visible before the book entry, and a `cancel` in between finds none to remove; `BookExact` has the order in `raced` | `BookExact` |
| `orders.rs:16` "set of order IDs at that price level" | `orders.rs:155-164`: a level is a `Vec`, and an order inserted again is there twice until it leaves; `BookExact` has it in `replaced` | `BookExact` |
| `mmap.rs:149` "Returns `None` if the range is out of bounds." | `mmap.rs:87-92`, `151-157`: a length from the header is not compared with the file's size, so after a power loss that takes back the size alone the slice panics | `MappingCovers` (`shrunk`), `RangeMatches` |
| `README.md:277-278` "an acknowledged write survives a crash", of the price | `engine.rs:846-850`: replay sets every price in the log, whatever the snapshot has; when the log lost its end, an older one wins | `NoStepBack` (`lost`) |
| `event_store.rs:129` "(may double-count if both market and trader indexed)" | `event_store.rs:60-61`: one count per event, so it never does | none: `PartitionsAgree` says once |

Bounds.

- `wal`: four entries of which two fill a segment, five segment numbers, two
  restarts and one fault: a segment is left behind, a rotation fails, a crash
  follows a crash, and truncation meets both; `MaxAhead` 1, so that it also takes
  every name there is.
- `recovery`: two calls over blocks 0 to 2, two snapshots, two restarts,
  one failed append or file write: two events of one block and of successive blocks, a second
  snapshot over the first one's file and beside it, a crash after recovery.
- `event_path`, `Candles`: durations 2 and 4, times 0 to 4, two prices, three ticks, and one
  each of shutdown, restart and failed append: a tick crosses none, one or both
  boundaries, and a high and a low differ.
- `event_path`, `EngineState`: one trader with two positions, one order, sizes up to 2,
  four events, two restarts, any number of snapshots; the two positions are
  symmetric. A state says what a restart would make of it, so that a difference
  shows without one.
- `stores`, `Tables`: two writers with three calls between them, one read, three rows such
  that two share a user, two share a market and two share nothing: a removal can
  meet an insert on the user only, on the market only, and on the row.
- `stores`, `Mmap`: room for one record at first, so that the second and the third write
  grow the file; two timestamps with a gap between them, two restarts, one
  fault; ranges from before the first to behind the last timestamp; buckets as
  wide as the gap between the two timestamps.
- `ingest`: a channel with room for one message, three ticks, blocks 0 to 2, one
  event, two settings, two snapshots, two restarts, one fault; feed with receiver,
  and feed, indexer and setters each with the snapshot. The receiver lags, a tick
  follows a failed one, a second snapshot meets a second `save`.
- `relational`: two callers, two users, two codes, two ids, one count of the
  referrals; four calls on alerts and on competitions, three on the others: a
  code changes hands and comes back, an id is removed by two callers.
- `event_path`, `Feeds`: three traders on boards of two, snapshots that keep one day, three
  events, two rebuilds, two snapshots, two restarts; the times lie on both sides
  of the end of 2023 and of 29 February 2024.
- The violated runs have the smallest bounds that still reach their state; what goes
  wrong in them needs no more.

`CHECK_DEADLOCK FALSE` is set in `Recovery`'s configurations, where a damaged
latest snapshot blocks `open()` for good, and in those of `MCEventPath`, `MCStores`
and `MCShared`, where the callers may just stop.

Fairness. `stores` and `relational` have weak fairness of each thread's next lock
section, of the reader and of the count; a Rust call that nothing blocks runs on,
and the locks are held for a bounded time. `CallsReturn` says that no call waits
for a guard for ever. `ingest` has weak fairness of the receiver, whose task the
channel wakes for every message; it has none of the feed, and `Delivered` is
about ticks already acknowledged. Nobody is obliged to make another call.

## The proofs

Each proof module proves `Invariance`, that an invariant `Inv` holds in every
reachable state, for all values of the constants that satisfy the assumptions of
the module it extends; there is one lemma per action, and the other theorems
follow from `Invariance`. TLC checked every `Inv` on the instance of the module's
run before it was proved (of `Relational`, all but the types of the calls, whose
set of plans is too large to test a state against). None of the properties is inductive alone; what the
invariants add, and why, is below.

**`WalProofs`** (`PoliciesAssumption`, `BoundsAssumption`). `TypeCorrect`,
`ReplayOrder` (`ReplayInAppendOrder`), `FsyncDurability` (`FsyncedSurvives`),
`SuffixLoss` (`LossIsSuffix`), `EveryWriteDurability` (`AckedIsFsynced`). `Inv`
adds: the writer's file is the newest (`HandleIsLatest`, without it an append
could come before an older segment); the cursors are ordered
(`CursorsOrdered`); every closed segment is wholly synced (`OldSegmentsSynced`:
why a power loss can only cut the newest segment, and hence the loss is a
suffix); cells hold numbers already given out (`CellsWritten`), in order also in
the file without a name (`CellsInOrder`), whose entries are all accounted for as
deleted or orphaned (`UnlinkedGone`: why nothing more is lost when the writer lets
go of it); fsynced entries lie below their file's `synced` mark
(`FsyncedInPlace`); the living process has lost nothing yet (`LifeComplete`), nor
an older process anything in front of what is left of it (`LossBehind`); and what the
call in progress has achieved by each `pc` (`InProgress`, `EveryWriteSynced`). Crash,
power loss and drop share two lemmas: without a process the unnamed file is gone
(`ForgetStep`), and cutting files at or behind their `synced` mark preserves `Inv`
(`CutStep`).

**`MmapProofs`**. `CrashSafety` (`CrashKeepsRecords`), `Durability`
(`FlushedSurvives`), `Sortedness` (`UpsertsSorted`), `Covering`
(`MappingCovers`), `RangesExact` (`RangeMatches`), and `Refinement`: `Spec =>
ImplementsJournal`. `Inv` says
where the completed writes and the flushed prefix are, in the file and on the
disk (`LogInPlace`, `FlushedInPlace`), what the call under way has done by each
step (`CallState`: the record is in its slot before the header counts it, which
is why a crash costs nothing), that the mapping and the header agree
(`HeaderAndMapping`), that a file that kept its size holds what its header
counts (`SizeCovers`) and that timestamps ascend (`Ascending`). Two lemmas carry
the rest: doubling the capacity arrives at one that suffices (`GrownSuffices`, the
loop of `grow`), and an overwrite costs at most the last of the flushed records
(`FlushedBeforeOverwrite`). The refinement has one lemma per action that
changes the journal; all other steps leave the records the header counts, and
so the journal, unchanged. `RangesExact` is the binary search: `partition_point` halves
an interval at whose ends the predicate is known, so on ascending timestamps
every query of `Queries` returns the records in its range and no index is out of
bounds, for any two ends of which the first is not behind the second
(`QueriesExact`), and of a file that lost nothing. That the search ends where it should
is by the shortest interval on which it would not.

**`RecoveryProofs`**. `TypeCorrect`, `RecoveryLosesNothing` (`NoLoss`) and
`RecoveryAppliesOnce` (`NoDouble`), for any number of calls, blocks, snapshots
and restarts. `Once` relates each store, the snapshot under way and each
file to the block it claims: what they hold of a call that did not overlap
`snapshot()` is of that block or earlier, so replay, which starts behind it, does
not apply it again. `Kept` is the other direction: what is owed and of a claimed
block is in the file. For both a call needs to know how far it is
(`Progress`), that blocks rise along the log (`BlockOrder`) and that a call whose
block is claimed while it is under way counts as late (`ClaimedIsLate`).

**`EventPathProofs`**, of `EngineState`. `TypeCorrect`, `ReplayEquivalence`
(`ReplayAgrees`), `CountsNeverDrift` (`OpenCountMatches`), `InterestAddsUp`
(`OpenInterestMatches`). The lemmas before the actions say of
each store operation which fields of the state it replaces, and by what; those
of `process_event` and `replay_wal_entry` are then compared arm by arm. `Sound`
ties the live state to the chain: a position the chain has is open, so a close or
a liquidation finds its row and decrements once; an order is in the book once
while active, so both matches agree on the book; nothing locks a balance, so a
restored balance is the same one. `Settled` is inductive beside it; what it needs is
that a sum changes by what one of its terms changes by, and that is a lemma
on finite sets, proved by the smallest set on which it would fail.

Of `Feeds`, for any finite set of traders, any events and any number of snapshots,
rebuilds and restarts: `FeedsInvariance`, `LogsAgree` (`PartitionsAgree`),
`BoardsInvariance` and `BoardsFresh` (`BoardFresh`). `Told` says that each part of
the event log holds the filtered log from `base` to where `indexer` is; appending to
the log and to the filter is the same (`AppendOfMarket`), replay does that once per
entry (`ReplayMade`), and blocks climb along the log (`Climbs`), which is why a page
boundary splits a partition in two. `Read` says that what a rebuild has copied of
a trader outside `stale` is still the trader's row, and a trader it has passed without a
copy still has no trades; `Ordered` and `Fresh` say of the boards what `RankingOf`
says of a ranking when it is made.

Then the statistics of `Feeds`: `DatesAreDays`, `DailyInvariance` and `DailyExact`
(`DailyMatches`). The calendar comes first: the leap years since 1970 and the days
of the months before one have closed forms (`LeapsBetween`, `MonthsBefore`), and the
year of an era is where a day lies between two values of `DaysBefore` (`YearFacts`),
so the nested quotients of `timestamp_to_date` give the day back (`DayOfEra`), with
a 366th day only where there is a leap day (`LeapDayOfEra`), and two closes have one
date just when they lie on one day (`DateIsDay`). `DailyInv` says of the live tables
and of those in the file which closes and liquidations they are the sums of: the
live ones of the events through `ToldDays` and `ToldStats`, the file's of those
through its block, but for the days in `FileCut`, because the days a file left out
are missing after `Reopen` and come back, without their closes, when such a day
trades again. A lifetime row is the sum of the trader's days because the days part
the closes (`SumParts`); the protocol's day is that sum over the traders. Replay is
shown right by the least entry after which it would not be (`ReplayHolds`), and what
is true of the first n events stays true in a longer log (`LongerLog`).

**`IngestProofs`**. `HashNeverAhead` (`HashNotAhead`), `FieldsOfOneMoment`
(`FileOfOneMoment`), `RestoresTheFile` (`RestoreExact`: the file has the fields of one
moment, and each restart gives back what the file has, field by field), `PairsOfNeighbours` (`PairLag`), `PriceNeverBack`
(`NoStepBack`). Three invariants on top of the types: `Checkpointed` (the hash
stays behind the block while a save is between its stores and while a snapshot
holds the read guard), `Locked` (the fields a reader copied are one version) and
`Prices` (what slot, file, channel and reader hold was logged, and the timestamp is
behind the price only between the two stores of `set_price`). The last one has a
part that holds only while the log is whole: a crash that cuts ticks off may
take the price back, as `NoStepBack` says.

**`CandlesProofs`**, for any list of timeframes with positive durations and any
sequence of ticks. `FilesSorted` (`StoreSorted`), `LaterCovers`
(`LaterRecordCovers`), `CandlesOfTicks` (`MatchesTicks`). `BucketsRise` is the
arithmetic: buckets rise with the time. `Ordered` says that the file, what
is about to be stored, by the call or by a shutdown, and the running candle follow
each other under a preorder (`Covers`: later bucket, or the same one continued)
that crashes and reseeding keep, unless a shutdown overtook the call. `Calm` says that the three together are the series of the ticks'
aggregates, bucket by bucket, up to the tick that `on_tick` has not seen yet;
`OpensBucket` and `StaysInBucket` are the two cases of the next tick.

**`TablesProofs`**, for any number of callers, rows, users and markets.
`TypeCorrect`, `IndexesExact` (`IndexExact`), `BooksExact` (`BookExact`),
`BalancesExact` (`BalanceExact`), `ReadsComplete` (`ReadComplete`). The properties
speak of moments when nobody is inside a call; the invariant speaks of all
moments, in terms of the steps that the callers have left. `Plans` lists what that
can be, and `PlanFacts` is what the proofs use of it, so that no later proof looks
at a list of steps again. `Indexed`: under a key on which no removal met another
call, an id that is missing is still to be added and one too many is still to be
inserted or found; an empty set is about to be dropped, and a set about to be
dropped is empty, because the removal is alone under the key (`Alone`, which is
what `raced` stands for). `EndsAlone`: a call that ends a row which nobody raced
for is the only one on it, so that when it has cleared the book the order is no
longer `replaced` for a reason. `Booked` and `Balanced`: an order or a balance has at most
one call on it, and what that call has left determines the book entry, or what the
balance comes to (`Outcome`, which no step of the call changes). `Reading`: a row
that a read must return is there, no call is about to take it out, and it is still
to be read or read. `BeginRead` needs `Indexed` for this.

**`RelationalProofs`**, for any number of callers, users, codes and rows, with the
shapes of the constants of `RelationalAssumption` (finitely many users, `None` apart
from the rest, tables of tiers over naturals). `OwnersOnly` (`OwnerOnly`),
`CodesAreExact` (`CodesExact`), `ListsAreExact` (`ListsExact`), `TiersBetween`
(`TierBetween`). `Plans` are again the lists of steps a call can have left, and the
invariant speaks of `Work`, the writing steps among them. `Apart` and `Single`
turn the histories into facts about callers: two calls on one code or row have
stained the code and made the id odd, so that an unstained code and an id that is
not odd have at most one call on them. `Coded`: what that call has left tells which
of the row and the map already has the code (`CodeBy`). `Listed`: the same
for the row and the owner's list (`ListBy`). `Joins` needs no exception: a caller
about to push a competition on a list holds the guard of the entries, so
nobody else can join in between. `Owned`: an id is inserted once, so the row a caller
found to be the user's is still that or gone. `Scanned`: the number counted is that of
a set of rows which has every row that had to be counted and none that could
not be; `TierIsBest` says what `compute_tier` makes of a number.

Only model-checked:

- liveness (`Delivered`, the two `CallsReturn`), which TLAPS does not handle;
- the violated properties: a run shows a counterexample.

## Not modelled

- The command line parses arguments, calls the engine and prints. The market
  table, configuration and errors have no behaviour.
- Names and parsing of timeframes, addresses and numbers.
- The channels of pub/sub other than the price channel: the same code with
  other messages, from which nothing comes back.
- Calls without a caller in the engine that are reads or plain writes of one row:
  `load_snapshot`, `TraderStatsStore::update` and `remove`, `BalanceCache::update`;
  getters that pass a call on; depth and spread of a book.
- The arms of `replay_wal_entry` for `BalanceUpdate`, `Checkpoint`, `CandleUpdate`
  and `BatchEnd`: nothing writes such entries.
- Bytes: encodings, checksums, the layout of records.

## Plan

The model is complete but for the list above, and every safety invariant and
action property of the passing runs is proved. When the code is changed so that
one of the violated properties holds, it belongs into the passing run beside it and
takes the place of the weaker one. What is left is to shorten
proofs, and to follow the code as it changes.
