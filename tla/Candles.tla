------------------------------- MODULE Candles -------------------------------
(***************************************************************************)
(* Ticks to candles: PerfDb::ingest_tick and shutdown (engine.rs) with     *)
(* aggregation/candle_builder.rs, storage/candle_store.rs and the seeding  *)
(* of the builder in PerfDb::open.                                         *)
(*                                                                         *)
(* The model follows one market; markets share nothing here.  A timeframe  *)
(* is its duration.  Prices are integers: the code only compares them.     *)
(* The price feed is the single writer the architecture asks for;          *)
(* shutdown() may come from another thread, wherever the locks of the      *)
(* builder and of the candle store let it in, and a crash between any two  *)
(* steps.  The mapped files survive the end of the process.                *)
(***************************************************************************)
EXTENDS Naturals, Sequences

CONSTANTS
    Timeframes,  \* sequence of durations: Timeframe::ALL
    Prices,      \* the prices of the feed
    MaxTime,     \* bound: latest timestamp
    MaxTick,     \* bound: calls of ingest_tick()
    MaxShutdown, \* bound: calls of shutdown()
    MaxExit,  \* bound: ends of the process
    MaxFault     \* bound: failed appends to the candle store

ASSUME CandlesAssumption ==
    /\ Timeframes \in Seq(Nat \ {0})
    /\ Prices \subseteq Nat
    /\ MaxTime \in Nat /\ MaxTick \in Nat /\ MaxShutdown \in Nat /\ MaxExit \in Nat /\ MaxFault \in Nat

VARIABLES
    ticks,    \* TickStore: the ticks in the order of their arrival
    store,    \* CandleStore: timeframe -> its candles in file order
    buffers,  \* CandleBuilder::buffers: timeframe -> <<>> or <<candle>>
    pending,  \* what ingest_tick() still has to append: timeframe -> <<>> or <<candle>>
    flushing, \* what shutdown() still has to append; it keeps both locks until it is through
    storing,  \* ingest_tick() is in its append loop, with the lock of the candle store
    fresh,    \* the latest tick has not yet been through on_tick()
    up,       \* a process has the database open
    calm,     \* history: no tick out of order, failed append, shutdown or end so far
    ordered,  \* history: no tick out of order so far
    overtaken, \* history: some shutdown() came between a call's on_tick() and its append loop
    shutdowns, exits, faults

candlesVars == <<ticks, store, buffers, pending, flushing, storing, fresh, up, calm, ordered, overtaken,
          shutdowns, exits, faults>>

TF == DOMAIN Timeframes
Time == 0..MaxTime
Nothing == [tf \in TF |-> <<>>]

\* Timeframe::bucket_start_ns()
bucket_start(tf, t) == t - (t % Timeframes[tf])

\* CandleBuffer::new()
NewBuffer(start, price) == [start |-> start, open |-> price, high |-> price, low |-> price, close |-> price]

\* Mutant: the low is not followed.
MutUpdate(c, price) ==
    [c EXCEPT !.high = IF price > @ THEN price ELSE @, !.close = price]

\* CandleBuffer::update()
Update(c, price) ==
    [c EXCEPT !.high = IF price > @ THEN price ELSE @,
              !.low = IF price < @ THEN price ELSE @,
              !.close = price]

-----------------------------------------------------------------------------
CandlesInit ==
    /\ ticks = <<>>
    /\ store = Nothing
    /\ buffers = Nothing
    /\ pending = Nothing
    /\ flushing = Nothing
    /\ storing = FALSE
    /\ fresh = FALSE
    /\ up = FALSE
    /\ calm = TRUE
    /\ ordered = TRUE
    /\ overtaken = FALSE
    /\ shutdowns = 0
    /\ exits = 0
    /\ faults = 0

\* The price feed is between two calls of ingest_tick().
Idle == up /\ ~fresh /\ pending = Nothing

\* Mutant: the first stored candle instead of the last.
MutSeeded(tf) == IF store[tf] = <<>> THEN <<>> ELSE <<store[tf][1]>>

\* Mutant: the builder starts empty.
MutUnseeded(tf) == <<>>

\* seed() with CandleStore::latest().
Seeded(tf) == IF store[tf] = <<>> THEN <<>> ELSE <<store[tf][Len(store[tf])]>>

\* PerfDb::open(): ticks and candles are as the files have them, the builder
\* starts from the latest stored candles.
open ==
    /\ ~up
    /\ up' = TRUE
    /\ buffers' = [tf \in TF |-> Seeded(tf)]
    /\ UNCHANGED <<ticks, store, pending, flushing, storing, fresh, calm, ordered, overtaken, shutdowns,
                   exits, faults>>

\* ingest_tick() up to TickStore::append().
StoreTick(t, p) ==
    /\ Idle
    /\ Len(ticks) < MaxTick
    /\ ticks' = Append(ticks, [time |-> t, price |-> p])
    /\ fresh' = TRUE
    /\ LET late == ticks # <<>> /\ t < ticks[Len(ticks)].time IN
       /\ calm' = (calm /\ ~late)
       /\ ordered' = (ordered /\ ~late)
    /\ UNCHANGED <<store, buffers, pending, flushing, storing, up, overtaken, shutdowns, exits, faults>>

\* Timeframe tf sees the tick in another bucket than its candle's.
Crosses(tf, t) == buffers[tf] # <<>> /\ buffers[tf][1].start # bucket_start(tf, t)

\* CandleBuilder::on_tick(), under the builder's lock: the Closed candles go
\* to the store next.
on_tick ==
    /\ up /\ fresh
    /\ flushing = Nothing
    /\ LET tick == ticks[Len(ticks)] IN
       /\ buffers' = [tf \in TF |->
            IF buffers[tf] = <<>> \/ Crosses(tf, tick.time)
              THEN <<NewBuffer(bucket_start(tf, tick.time), tick.price)>>
              ELSE <<Update(buffers[tf][1], tick.price)>>]
       /\ pending' = [tf \in TF |-> IF Crosses(tf, tick.time) THEN buffers[tf] ELSE <<>>]
    /\ fresh' = FALSE
    /\ UNCHANGED <<ticks, store, flushing, storing, up, calm, ordered, overtaken, shutdowns, exits, faults>>

\* Candles are stored in the order of the timeframes; tf is the next one.
IsNext(candles, tf) == candles[tf] # <<>> /\ \A other \in TF : other < tf => candles[other] = <<>>

\* CandleStore::append() of the next candle of ingest_tick(); the first one
\* comes with the lock of the candle store, the last one gives it back.
AppendCandle(tf) ==
    /\ up /\ IsNext(pending, tf)
    /\ flushing = Nothing
    /\ store' = [store EXCEPT ![tf] = @ \o pending[tf]]
    /\ pending' = [pending EXCEPT ![tf] = <<>>]
    /\ storing' = (pending' # Nothing)
    /\ UNCHANGED <<ticks, buffers, flushing, fresh, up, calm, ordered, overtaken, shutdowns, exits, faults>>

\* The append fails: the call returns and the rest of its candles with it.
AppendCandleFails ==
    /\ up /\ pending # Nothing
    /\ flushing = Nothing
    /\ faults < MaxFault
    /\ pending' = Nothing
    /\ storing' = FALSE
    /\ calm' = FALSE
    /\ faults' = faults + 1
    /\ UNCHANGED <<ticks, store, buffers, flushing, fresh, up, ordered, overtaken, shutdowns, exits>>

\* The candles of all buffers in use; the buffers stay.
flush_all == buffers

\* shutdown() has the locks of the builder and of the candle store: no
\* ingest_tick() is in its append loop, but one may be about to enter it.
shutdown ==
    /\ up /\ flushing = Nothing /\ ~storing
    /\ shutdowns < MaxShutdown
    /\ flushing' = flush_all
    /\ calm' = FALSE
    /\ overtaken' = (overtaken \/ pending # Nothing)
    /\ shutdowns' = shutdowns + 1
    /\ UNCHANGED <<ticks, store, buffers, pending, storing, fresh, up, ordered, exits, faults>>

\* CandleStore::append() of the next candle of shutdown().
AppendFlushed(tf) ==
    /\ up /\ IsNext(flushing, tf)
    /\ store' = [store EXCEPT ![tf] = @ \o flushing[tf]]
    /\ flushing' = [flushing EXCEPT ![tf] = <<>>]
    /\ UNCHANGED <<ticks, buffers, pending, storing, fresh, up, calm, ordered, overtaken, shutdowns, exits,
                   faults>>

\* The append fails: shutdown() returns.
AppendFlushedFails ==
    /\ up /\ flushing # Nothing
    /\ faults < MaxFault
    /\ flushing' = Nothing
    /\ faults' = faults + 1
    /\ UNCHANGED <<ticks, store, buffers, pending, storing, fresh, up, calm, ordered, overtaken, shutdowns,
                   exits>>

\* The process ends, at any point.
Exit ==
    /\ up
    /\ exits < MaxExit
    /\ exits' = exits + 1
    /\ up' = FALSE
    /\ buffers' = Nothing
    /\ pending' = Nothing
    /\ flushing' = Nothing
    /\ storing' = FALSE
    /\ fresh' = FALSE
    /\ calm' = FALSE
    /\ UNCHANGED <<ticks, store, ordered, overtaken, shutdowns, faults>>

CandlesNext ==
    \/ open
    \/ \E t \in Time, p \in Prices : StoreTick(t, p)
    \/ on_tick
    \/ \E tf \in TF : AppendCandle(tf)
    \/ AppendCandleFails
    \/ shutdown
    \/ \E tf \in TF : AppendFlushed(tf)
    \/ AppendFlushedFails
    \/ Exit

CandlesSpec == CandlesInit /\ [][CandlesNext]_candlesVars

-----------------------------------------------------------------------------
(* Properties.                                                             *)

\* The ticks of a bucket, as positions in the tick store: what an external
\* SAMPLE BY would aggregate.
InBucket(tf, start) == {i \in 1..Len(ticks) : bucket_start(tf, ticks[i].time) = start}

\* c is the aggregate of the ticks of its bucket.
Aggregates(tf, c) ==
    LET I == InBucket(tf, c.start)
        price(i) == ticks[i].price
    IN  /\ I # {}
        /\ \E i \in I : price(i) = c.open /\ \A j \in I : i <= j
        /\ \E i \in I : price(i) = c.close /\ \A j \in I : j <= i
        /\ \E i \in I : price(i) = c.high /\ \A j \in I : price(j) <= c.high
        /\ \E i \in I : price(i) = c.low /\ \A j \in I : price(j) >= c.low

\* The candle files equal the aggregation of the tick file: between calls,
\* while nothing went wrong and nobody shut down, the stored candles and the
\* live one are, bucket by bucket and in order, the candles of the ticks.
MatchesTicks ==
    Idle /\ calm => \A tf \in TF :
        LET all == store[tf] \o buffers[tf] IN
        /\ \A i \in 1..Len(all) : Aggregates(tf, all[i])
        /\ \A i \in 1..Len(all), j \in 1..Len(all) : i < j => all[i].start < all[j].start
        /\ \A k \in 1..Len(ticks) : \E i \in 1..Len(all) : k \in InBucket(tf, all[i].start)

\* What CandleStore says of its files, and the range queries rely on: sorted
\* by timestamp.  Crashes, failed appends and shutdowns keep it as long as
\* the feed is in order and no shutdown() overtook an ingest_tick() that was
\* about to store its closed candles: then it is not (SortedByTime).
StoreSorted ==
    ordered /\ ~overtaken => \A tf \in TF : \A i, j \in 1..Len(store[tf]) :
        i < j => store[tf][i].start <= store[tf][j].start

\* When a bucket has several records, each continues the one before it: a
\* reader that takes the last record of a bucket takes the widest.  (That a
\* bucket has several is what append() asks its callers never to do: see
\* OneRecordPerBucket.)
LaterRecordCovers ==
    ordered /\ ~overtaken => \A tf \in TF : \A i, j \in 1..Len(store[tf]) :
        LET a == store[tf][i] b == store[tf][j] IN
        i < j /\ a.start = b.start => b.open = a.open /\ b.high >= a.high /\ b.low <= a.low

-----------------------------------------------------------------------------
(* What the comments say, and the code does not keep.                      *)

\* CandleStore says that its files are sorted by timestamp.  shutdown() can
\* take both locks after on_tick() has closed a candle and before
\* ingest_tick() stores it: the running candle is then stored in front of the
\* closed one, with every tick in order.
SortedByTime ==
    ordered => \A tf \in TF : \A i, j \in 1..Len(store[tf]) :
        i < j => store[tf][i].start <= store[tf][j].start

\* CandleStore::append() asks for a new bucket each time and the builder calls
\* a closed candle final.  A builder seeded with a stored candle closes that
\* candle again.
OneRecordPerBucket ==
    ordered => \A tf \in TF : \A i, j \in 1..Len(store[tf]) :
        i # j => store[tf][i].start # store[tf][j].start

\* The builder calls live candles reconstructible from ticks after a crash,
\* and seed() speaks of replaying ticks.  open() seeds and replays none into
\* the builder: the running candle of a bucket that was open at the crash
\* starts with the first tick after it.
LiveMatchesTicks ==
    Idle /\ ordered => \A tf \in TF : buffers[tf] # <<>> => Aggregates(tf, buffers[tf][1])

\* Closed candles are persisted, and live ones can be reconstructed from the
\* ticks: a bucket that had ticks and is over has a record.  The builder hands
\* out each closed candle once: when one append fails, that candle and the
\* ones behind it are in no file and in no buffer any more.  So it is with a
\* candle that was live at a crash, when the next tick is of a later bucket.
ClosedAreStored ==
    Idle /\ ordered => \A tf \in TF : buffers[tf] # <<>> =>
        \A k \in 1..Len(ticks) :
            bucket_start(tf, ticks[k].time) < buffers[tf][1].start =>
                \E i \in 1..Len(store[tf]) : store[tf][i].start = bucket_start(tf, ticks[k].time)

=============================================================================
