------------------------------- MODULE Ingest -------------------------------
(***************************************************************************)
(* What has no lock around it while PerfDB runs: the price and timestamp   *)
(* atomics of a market slot (state/market_state.rs), the checkpoint's      *)
(* atomics (relational/checkpoint.rs) and the price channel                *)
(* (state/pubsub.rs), under ingest_tick(), process_event(),                *)
(* save_checkpoint(), snapshot() and open() of engine.rs.                  *)
(*                                                                         *)
(* ARCHITECTURE.md has one price feed, one indexer and any number of       *)
(* readers.  Every atomic store or load is a step, and so is every stretch *)
(* under a lock.  One market.  A tick is its number: the feed numbers them *)
(* in order, and the slot holds the number of the tick its price and its   *)
(* timestamp are of.  The checkpoint holds block numbers in the same way.  *)
(* Callers that share no state run in deployments of their own.            *)
(***************************************************************************)
EXTENDS Naturals, Sequences, FiniteSetsExt

CONSTANTS
    Capacity,      \* messages the channel keeps for a slow receiver
    NoValue,       \* an Option without a value
    Deployments,   \* sets of callers that may run side by side
    MaxTick,       \* bound: calls of ingest_tick()
    MaxBlock,      \* bound: highest block number
    MaxEvent,      \* bound: calls of process_event()
    MaxSetting,    \* bound: changes of the locked fields
    MaxSnapshot,   \* bound: calls of snapshot()
    MaxRestart,    \* bound: how often the process ends
    MaxFault       \* bound: calls that fail in the tick or candle store

ASSUME IngestAssumption ==
    /\ Capacity \in Nat \ {0}
    /\ NoValue \notin Nat
    /\ Deployments \subseteq SUBSET {"feed", "indexer", "market", "snapshot", "receiver"}
    /\ {MaxTick, MaxBlock, MaxEvent, MaxSetting, MaxSnapshot, MaxRestart, MaxFault} \subseteq Nat

Tick == 0..MaxTick
Block == 0..MaxBlock

VARIABLES
    callers,     \* who calls the engine
    wal,         \* the log: its ticks and events in order
    price, stamp,                       \* latest_price_bits, last_update_ns
    inner,                              \* MarketInner, behind its lock
    last_block, block_stamp, hash,      \* CheckpointStore; hash is behind a lock
    feed,        \* ingest_tick(): its next step and its tick
    indexer,     \* process_event() and save_checkpoint(): next step and block
    reader,      \* snapshot(): its next step and what it has read
    file,        \* the latest snapshot file
    channel,     \* every message of the price channel so far
    cursor,      \* the receiver's next message, 0 when there is no receiver
    ticks,       \* the number of the last tick
    before,      \* history: tick -> the tick whose price it replaced
    shown,       \* history: the latest tick anyone has read from slot or channel
    versions,    \* history: what the locked fields have been
    lost,        \* history: a crash took a tick out of the log
    owed,        \* history: acknowledged ticks the receiver has yet to hear of
    events, settings, snapshots, restarts, faults  \* counters for the bounds

slot == <<price, stamp>>
checkpoint == <<last_block, block_stamp, hash>>
pubsub == <<channel, cursor, owed>>
ingestHistory == <<before, shown, versions, lost>>
bounds == <<events, settings, snapshots, restarts, faults>>
ingestVars ==
    <<callers, wal, slot, inner, checkpoint, feed, indexer, reader, file, pubsub, ticks, ingestHistory, bounds>>

-----------------------------------------------------------------------------
(* MarketInner and its setters.                                            *)

DefaultInner ==
    [mark |-> NoValue, index |-> NoValue, rate |-> 0, rate_24h |-> 0, long |-> 0, short |-> 0,
     enabled |-> TRUE, paused |-> FALSE, leverage |-> NoValue, margin |-> NoValue, day |-> NoValue]

set_funding_rate(m, r, r24) == [m EXCEPT !.rate = r, !.rate_24h = r24]
set_open_interest(m, l, s) == [m EXCEPT !.long = l, !.short = s]
add_long_oi(m, delta) == [m EXCEPT !.long = @ + delta]
add_short_oi(m, delta) == [m EXCEPT !.short = @ + delta]

\* None leaves what is there.
set_oracle_prices(m, mark, index) ==
    [m EXCEPT !.mark = IF mark = NoValue THEN @ ELSE mark, !.index = IF index = NoValue THEN @ ELSE index]

set_enabled(m, b) == [m EXCEPT !.enabled = b]
set_paused(m, b) == [m EXCEPT !.paused = b]
set_config(m, leverage, margin) == [m EXCEPT !.leverage = leverage, !.margin = margin]

\* The four 24h fields are set and read together.
set_24h_stats(m, d) == [m EXCEPT !.day = d]

\* Mutant: the configuration of the market is not set.
MutRestoreInner(m) ==
    LET funded == set_funding_rate(DefaultInner, m.rate, m.rate_24h)
        counted == set_open_interest(funded, m.long, m.short)
        priced == set_oracle_prices(counted, m.mark, m.index)
        flagged == set_paused(set_enabled(priced, m.enabled), m.paused)
    IN  set_24h_stats(flagged, m.day)

\* What restore_snapshot() makes of the locked fields, one setter after the other.
RestoreInner(m) ==
    LET funded == set_funding_rate(DefaultInner, m.rate, m.rate_24h)
        counted == set_open_interest(funded, m.long, m.short)
        priced == set_oracle_prices(counted, m.mark, m.index)
        configured == set_config(priced, m.leverage, m.margin)
        flagged == set_paused(set_enabled(configured, m.enabled), m.paused)
    IN  set_24h_stats(flagged, m.day)

-----------------------------------------------------------------------------
NoFile == [block |-> 0, hash |-> 0, block_stamp |-> 0, price |-> 0, stamp |-> 0, inner |-> DefaultInner]
IdleReader == [pc |-> "idle", got |-> NoFile]
IdleFeed == [pc |-> "idle", tick |-> 0]
IdleIndexer == [pc |-> "idle", block |-> 0]

IngestInit ==
    /\ callers \in Deployments
    /\ wal = <<>>
    /\ price = 0 /\ stamp = 0
    /\ inner = DefaultInner
    /\ last_block = 0 /\ block_stamp = 0 /\ hash = 0
    /\ feed = IdleFeed /\ indexer = IdleIndexer /\ reader = IdleReader
    /\ file = NoFile
    /\ channel = <<>> /\ cursor = 0 /\ owed = {}
    /\ ticks = 0
    /\ before = [n \in Tick |-> 0] /\ shown = 0 /\ versions = {DefaultInner} /\ lost = FALSE
    /\ events = 0 /\ settings = 0 /\ snapshots = 0 /\ restarts = 0 /\ faults = 0

Entry(kind, n) == [kind |-> kind, n |-> n]

-----------------------------------------------------------------------------
(* The price feed: ingest_tick().                                          *)

FeedRest == <<callers, inner, checkpoint, indexer, reader, file, versions, lost, events, settings, snapshots, restarts>>

\* Mutant: the price is set before the tick is logged.
MutLogTick ==
    /\ "feed" \in callers /\ feed.pc = "idle" /\ ticks < MaxTick
    /\ ticks' = ticks + 1
    /\ price' = ticks' /\ shown' = ticks'
    /\ before' = [before EXCEPT ![ticks'] = price]
    /\ feed' = [pc |-> "log", tick |-> ticks']
    /\ UNCHANGED <<wal, stamp, pubsub, faults, FeedRest>>

\* wal.append()
LogTick ==
    /\ "feed" \in callers /\ feed.pc = "idle" /\ ticks < MaxTick
    /\ ticks' = ticks + 1
    /\ wal' = Append(wal, Entry("PriceTick", ticks'))
    /\ feed' = [pc |-> "price", tick |-> ticks']
    /\ UNCHANGED <<slot, pubsub, before, shown, faults, FeedRest>>

\* tick_store.append() went well; set_price() stores the price.
StorePrice ==
    /\ feed.pc = "price"
    /\ price' = feed.tick
    /\ before' = [before EXCEPT ![feed.tick] = price]
    /\ shown' = Max({shown, feed.tick})
    /\ feed' = [feed EXCEPT !.pc = "stamp"]
    /\ UNCHANGED <<wal, stamp, pubsub, ticks, faults, FeedRest>>

\* set_price() stores the timestamp.
StoreStamp ==
    /\ feed.pc = "stamp"
    /\ stamp' = feed.tick
    /\ feed' = [feed EXCEPT !.pc = "publish"]
    /\ UNCHANGED <<wal, price, before, shown, pubsub, ticks, faults, FeedRest>>

\* Mutant: an update is published only when the channel has room for it.
MutPublish ==
    /\ feed.pc = "publish"
    /\ channel' = IF cursor # 0 /\ Len(channel) - cursor + 1 < Capacity THEN Append(channel, feed.tick) ELSE channel
    /\ owed' = IF cursor = 0 THEN owed ELSE owed \cup {feed.tick}
    /\ feed' = IdleFeed
    /\ UNCHANGED <<wal, slot, before, shown, cursor, ticks, faults, FeedRest>>

\* The candles are stored; publish() drops the message when nobody listens.
\* ingest_tick() returns Ok.
Publish ==
    /\ feed.pc = "publish"
    /\ channel' = IF cursor = 0 THEN channel ELSE Append(channel, feed.tick)
    /\ owed' = IF cursor = 0 THEN owed ELSE owed \cup {feed.tick}
    /\ feed' = IdleFeed
    /\ UNCHANGED <<wal, slot, before, shown, cursor, ticks, faults, FeedRest>>

\* tick_store.append() or candle_store.append() fails: an error from there.
IngestFails ==
    /\ feed.pc \in {"price", "publish"}
    /\ faults < MaxFault
    /\ faults' = faults + 1
    /\ feed' = IdleFeed
    /\ UNCHANGED <<wal, slot, before, shown, pubsub, ticks, FeedRest>>

-----------------------------------------------------------------------------
(* The indexer: process_event() and save_checkpoint().                     *)

IndexerRest == <<callers, slot, feed, reader, file, pubsub, ticks, before, shown, lost, snapshots, restarts, faults>>

\* The event of block b is logged.  It pauses the market, or does nothing
\* that this module is about.
LogEvent(b, kind) ==
    /\ "indexer" \in callers /\ indexer.pc = "idle" /\ b >= last_block
    /\ events < MaxEvent
    /\ events' = events + 1
    /\ wal' = Append(wal, Entry(kind, b))
    /\ indexer' = [pc |-> IF kind = "MarketPaused" THEN "pause" ELSE "advance", block |-> b]
    /\ UNCHANGED <<inner, checkpoint, versions, settings, IndexerRest>>

\* Mutant: snapshot() takes the lock anew for every field.
MutMarketGuarded == FALSE

\* snapshot() has a read guard on the locked fields of the market, or of the
\* checkpoint.
MarketGuarded == reader.pc \in {"second", "fields"}
CheckpointGuarded == reader.pc = "hash"

\* market_state.set_paused()
PauseMarket ==
    /\ indexer.pc = "pause" /\ ~MarketGuarded
    /\ inner' = set_paused(inner, TRUE)
    /\ versions' = versions \cup {inner'}
    /\ indexer' = [indexer EXCEPT !.pc = "advance"]
    /\ UNCHANGED <<wal, checkpoint, events, settings, IndexerRest>>

\* checkpoint.advance_block() ends process_event().
AdvanceBlock ==
    /\ indexer.pc = "advance"
    /\ last_block' = indexer.block
    /\ indexer' = IdleIndexer
    /\ UNCHANGED <<wal, inner, block_stamp, hash, versions, events, settings, IndexerRest>>

\* Mutant: the hash goes before the block.
MutSaveBlock(b) ==
    /\ "indexer" \in callers /\ indexer.pc = "idle" /\ b >= last_block
    /\ ~CheckpointGuarded
    /\ hash' = b
    /\ indexer' = [pc |-> "save_stamp", block |-> b]
    /\ UNCHANGED <<wal, inner, last_block, block_stamp, versions, events, settings, IndexerRest>>

\* save(): block, timestamp, hash.
SaveBlock(b) ==
    /\ "indexer" \in callers /\ indexer.pc = "idle" /\ b >= last_block
    /\ last_block' = b
    /\ indexer' = [pc |-> "save_stamp", block |-> b]
    /\ UNCHANGED <<wal, inner, block_stamp, hash, versions, events, settings, IndexerRest>>

SaveStamp ==
    /\ indexer.pc = "save_stamp"
    /\ block_stamp' = indexer.block
    /\ indexer' = [indexer EXCEPT !.pc = "save_hash"]
    /\ UNCHANGED <<wal, inner, last_block, hash, versions, events, settings, IndexerRest>>

SaveHash ==
    /\ indexer.pc = "save_hash" /\ ~CheckpointGuarded
    /\ hash' = indexer.block
    /\ indexer' = IdleIndexer
    /\ UNCHANGED <<wal, inner, last_block, block_stamp, versions, events, settings, IndexerRest>>

\* A caller of the market table changes one of the locked fields, under its lock.
Set ==
    /\ "market" \in callers /\ settings < MaxSetting /\ ~MarketGuarded
    /\ settings' = settings + 1
    /\ inner' \in
         {set_funding_rate(inner, r, 2 * r) : r \in 1..2}
         \cup {set_open_interest(inner, 1, 2), add_long_oi(inner, 1), add_short_oi(inner, 1)}
         \cup {set_oracle_prices(inner, mark, index) : mark, index \in {NoValue, 1}}
         \cup {set_enabled(inner, b) : b \in BOOLEAN} \cup {set_paused(inner, b) : b \in BOOLEAN}
         \cup {set_config(inner, l, m) : l, m \in {NoValue, 1}} \cup {set_24h_stats(inner, d) : d \in {NoValue, 1}}
    /\ versions' = versions \cup {inner'}
    /\ UNCHANGED <<wal, checkpoint, indexer, events, IndexerRest>>

-----------------------------------------------------------------------------
(* snapshot(), in a thread of its own.                                     *)

Rest == <<callers, wal, inner, checkpoint, feed, indexer, pubsub, ticks>>

\* checkpoint.snapshot(): the read guard, then the block.
ReadBlock ==
    /\ "snapshot" \in callers /\ reader.pc = "idle" /\ snapshots < MaxSnapshot
    /\ snapshots' = snapshots + 1
    /\ reader' = [pc |-> "hash", got |-> [NoFile EXCEPT !.block = last_block]]
    /\ UNCHANGED <<Rest, slot, file, ingestHistory, events, settings, restarts, faults>>

\* The hash and the timestamp; the guard goes.
ReadHash ==
    /\ reader.pc = "hash"
    /\ reader' = [pc |-> "first", got |-> [reader.got EXCEPT !.hash = hash, !.block_stamp = block_stamp]]
    /\ UNCHANGED <<Rest, slot, file, ingestHistory, bounds>>

\* Mutant: the timestamp is loaded before the price.
MutLoads == <<"stamp", "price">>

\* market_state.snapshot(): the order in which it loads the atomics.
Loads == <<"price", "stamp">>

Load(i) == [reader.got EXCEPT ![Loads[i]] = IF Loads[i] = "price" THEN price ELSE stamp]

\* The read guard and the first atomic.
ReadFirst ==
    /\ reader.pc = "first"
    /\ reader' = [pc |-> "second", got |-> Load(1)]
    /\ UNCHANGED <<Rest, slot, file, ingestHistory, bounds>>

\* The second atomic, and the fields one by one: some, and then the others.
Early == {"mark", "index", "rate"}

ReadSecond ==
    /\ reader.pc = "second"
    /\ reader' = [pc |-> "fields", got |-> [Load(2) EXCEPT !.inner = inner]]
    /\ UNCHANGED <<Rest, slot, file, ingestHistory, bounds>>

\* The last fields; the guard goes.
ReadFields ==
    /\ reader.pc = "fields"
    /\ reader' = [pc |-> "write", got |-> [reader.got EXCEPT !.inner = [k \in DOMAIN inner |-> IF k \in Early THEN @[k] ELSE inner[k]]]]
    /\ UNCHANGED <<Rest, slot, file, ingestHistory, bounds>>

\* write_snapshot(); load_latest_snapshot() takes the file of the highest block.
WriteFile ==
    /\ reader.pc = "write"
    /\ file' = IF reader.got.block >= file.block THEN reader.got ELSE file
    /\ reader' = IdleReader
    /\ UNCHANGED <<Rest, slot, ingestHistory, bounds>>

-----------------------------------------------------------------------------
(* A receiver of the price channel.                                        *)

SubscriberRest == <<callers, wal, slot, inner, checkpoint, feed, indexer, reader, file, ticks, before, versions, lost, bounds>>

\* subscribe(): from the next message on.
subscribe ==
    /\ "receiver" \in callers /\ cursor = 0
    /\ cursor' = Len(channel) + 1
    /\ UNCHANGED <<SubscriberRest, channel, owed, shown>>

\* external: the next message of the receiver.
Receive ==
    /\ cursor # 0 /\ cursor <= Len(channel)
    /\ Len(channel) - cursor < Capacity
    /\ shown' = Max({shown, channel[cursor]})
    /\ owed' = owed \ {channel[cursor]}
    /\ cursor' = cursor + 1
    /\ UNCHANGED <<SubscriberRest, channel>>

\* external: RecvError::Lagged, and the receiver goes on with the oldest
\* message the channel still has.
Lagged ==
    /\ cursor # 0 /\ Len(channel) - cursor >= Capacity
    /\ cursor' = Len(channel) - Capacity + 1
    /\ owed' = owed \ {channel[i] : i \in cursor..(cursor' - 1)}
    /\ UNCHANGED <<SubscriberRest, channel, shown>>

-----------------------------------------------------------------------------
(* The end of the process, and open().                                     *)

TicksIn(log) == {log[i].n : i \in {j \in DOMAIN log : log[j].kind = "PriceTick"}}
EventsIn(log) == {log[i] : i \in {j \in DOMAIN log : log[j].kind # "PriceTick" /\ log[j].n > file.block}}

\* replay_wal_entry(): every tick goes to set_price(), whatever the snapshot
\* holds, so the last one stays.
ReplayedTick(log, restored) == IF TicksIn(log) = {} THEN restored ELSE Max(TicksIn(log))

\* A crash leaves a prefix of the log; open() restores the file and replays.
Restart(n) ==
    LET log == SubSeq(wal, 1, n)
        blocks == {e.n : e \in EventsIn(log)}
        paused == \E e \in EventsIn(log) : e.kind = "MarketPaused"
        restored == RestoreInner(file.inner) IN
    /\ restarts < MaxRestart
    /\ restarts' = restarts + 1
    /\ wal' = log
    /\ lost' = (lost \/ TicksIn(log) # TicksIn(wal))
    /\ price' = ReplayedTick(log, file.price)
    /\ stamp' = ReplayedTick(log, file.stamp)
    /\ shown' = IF lost' THEN shown ELSE Max({shown, price'})
    /\ inner' = IF paused THEN set_paused(restored, TRUE) ELSE restored
    /\ versions' = IF paused THEN versions \cup {set_paused(v, TRUE) : v \in versions} ELSE versions
    /\ last_block' = Max({file.block} \cup blocks)
    /\ block_stamp' = file.block_stamp /\ hash' = file.hash
    /\ feed' = IdleFeed /\ indexer' = IdleIndexer /\ reader' = IdleReader
    /\ channel' = <<>> /\ cursor' = 0 /\ owed' = {}
    /\ UNCHANGED <<callers, file, ticks, before, events, settings, snapshots, faults>>

FeedStep == StorePrice \/ StoreStamp \/ Publish \/ IngestFails
Recv == Receive \/ Lagged

IngestNext ==
    \/ LogTick \/ FeedStep
    \/ \E b \in Block : SaveBlock(b) \/ \E kind \in {"MarketPaused", "Other"} : LogEvent(b, kind)
    \/ PauseMarket \/ AdvanceBlock \/ SaveStamp \/ SaveHash
    \/ Set
    \/ ReadBlock \/ ReadHash \/ ReadFirst \/ ReadSecond \/ ReadFields \/ WriteFile
    \/ subscribe \/ Recv
    \/ \E n \in 0..Len(wal) : Restart(n)

\* A receiver's task is woken for every message and calls recv() again.
IngestFairness == WF_ingestVars(Recv)

IngestSpec == IngestInit /\ [][IngestNext]_ingestVars /\ IngestFairness

-----------------------------------------------------------------------------
(* Properties.                                                             *)

\* The two atomics of a slot are never further apart than one tick: a reader
\* that loads the price and then the timestamp, as snapshot() does, pairs the
\* price of a tick with the timestamp of the tick before it or of a later
\* one, never of an older one.  So it is with the pair a snapshot file keeps
\* and with the pair open() restores.  (Not after a crash that took a tick
\* out of the log: then a mixed pair of the file stays until the next tick.)
PairLag ==
    ~lost => /\ stamp >= before[price]
             /\ file.stamp >= before[file.price]
             /\ reader.pc = "write" => reader.got.stamp >= before[reader.got.price]

\* The hash of a checkpoint is never of a later block than its number, in
\* memory, in what snapshot() reads while save() is half done, in the file and
\* after open(): an indexer that resumes with the block and compares the hash
\* may find an old hash, and never one of a block it has yet to fetch.  That
\* there is an old hash is not the atomic update save() promises: SaveIsAtomic.
HashNotAhead ==
    /\ hash <= last_block
    /\ file.hash <= file.block
    /\ reader.pc # "idle" => reader.got.hash <= reader.got.block

\* The price never goes back for anyone: what some reader has got from the
\* slot, or a receiver from the channel, is the price of the slot or older,
\* also across restarts, as long as no crash took a tick out of the log.
NoStepBack == ~lost => price >= shown

\* A snapshot holds the locked fields of a market as they were at one moment,
\* whatever setters run beside it, never the funding rate of one update with
\* the 24h rate of another.
FileOfOneMoment ==
    /\ file.inner \in versions
    /\ reader.pc = "write" => reader.got.inner \in versions

\* open() gives every locked field the value the snapshot file has of it, a
\* None as much as a number, though it starts from the defaults and
\* set_oracle_prices() skips what is None; only an event in the log behind the
\* file's block that paused the market makes a difference, and to that field
\* alone.  The fields the engine starts with are then those of one moment.
RestoreExact ==
    /\ []FileOfOneMoment
    /\ [][restarts' # restarts =>
            inner' = IF \E e \in EventsIn(wal') : e.kind = "MarketPaused" THEN [file.inner EXCEPT !.paused = TRUE]
                     ELSE file.inner]_ingestVars

\* Every tick that ingest_tick() acknowledged reaches a receiver that was there,
\* as a message or within the count of a Lagged error, unless the process ends.
Delivered == \A n \in Tick : n \in owed ~> n \notin owed

-----------------------------------------------------------------------------
(* What the comments say, and the code does not keep.                      *)

\* save() updates the checkpoint atomically.  When nothing but save() has
\* moved it, the block, the timestamp and the hash of a snapshot are of one
\* call; but save() stores them one after the other, and snapshot() reads
\* between two of the stores.
SaveIsAtomic == events = 0 => file.hash = file.block /\ file.block_stamp = file.block

=============================================================================
