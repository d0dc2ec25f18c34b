-------------------------------- MODULE Feeds --------------------------------
(***************************************************************************)
(* What the chain's events leave for readers: the event log by market and  *)
(* by trader (storage/event_store.rs), the trader and daily statistics     *)
(* (aggregation/stats.rs) and the leaderboards made from them              *)
(* (aggregation/leaderboard.rs), as process_event(), snapshot(), open() and *)
(* rebuild_leaderboard() of engine.rs drive them.                          *)
(*                                                                         *)
(* One indexer; the background task that rebuilds the boards runs beside   *)
(* it.  Each stretch under one lock is a step.  Every event has a block of *)
(* its own, its place in the log: events that share one, log entries that  *)
(* are lost and snapshots in the middle of an event are in Recovery.       *)
(***************************************************************************)
EXTENDS Integers, Sequences, FiniteSets, SequencesExt, FiniteSetsExt

CONSTANTS
    Market, Trader,
    Mixes,         \* records of the events that may come, and of the tasks that run
    None,          \* an Option without a value
    MaxEntries,    \* max_entries of a leaderboard
    HistoryLimit,  \* days of a trader that snapshot() asks for
    MaxLogged,     \* bound: calls of process_event()
    MaxRebuild,    \* bound: calls of rebuild_leaderboard()
    MaxSnapshot,   \* bound: calls of snapshot()
    MaxReopen      \* bound: how often the process ends

\* extract_event_keys(): which events have a market, which a trader.
WithMarket == {"PositionOpened", "PositionClosed", "OrderPlaced", "Liquidation", "PriceUpdated",
               "FundingSettled", "FundingRateUpdated", "MarketCreated", "MarketPaused"}
WithTrader == {"PositionOpened", "PositionClosed", "OrderPlaced", "Liquidation", "OrderCancelled",
               "CollateralDeposited", "CollateralWithdrawn", "VaultCreated"}

MarketOf(e) == IF e.kind \in WithMarket THEN e.market ELSE None
TraderOf(e) == IF e.kind \in WithTrader THEN e.trader ELSE None

\* The chain's events, and what this module tells apart about them.
ChainEvent ==
    [kind : WithMarket \cup WithTrader \cup {"PositionModified", "OrderExecuted", "ADLExecuted", "VaultDeficit"},
     market : Market, trader : Trader, size : Nat, pnl : Int, ts : Nat]

TraderStats ==
    [trades : Nat, volume : Nat, pnl : Int, wins : Nat, losses : Nat, liquidations : Nat, best : Int, worst : Int]

ASSUME FeedsAssumption ==
    /\ IsFiniteSet(Trader)
    /\ None \notin Market \cup Trader \cup Nat \cup TraderStats
    /\ {MaxEntries, HistoryLimit} \subseteq Nat \ {0}
    /\ {MaxLogged, MaxRebuild, MaxSnapshot, MaxReopen} \subseteq Nat
    /\ \A mix \in Mixes : mix.tasks \subseteq {"rebuild", "snapshot"} /\ mix.events \subseteq ChainEvent

VARIABLES
    mix,           \* the events and tasks of this behaviour
    wal,           \* the events so far; the block of one is its place here
    base,          \* blocks that open() found in the snapshot
    by_market, by_trader, total_count,  \* EventStore
    stats,         \* trader -> TraderStats or None
    daily,         \* trader -> some dates -> DailyStats
    indexer,       \* the stage process_event() is at, or "idle"
    boards,        \* pnl_board and volume_board
    task,          \* rebuild_leaderboard() under way: what it has read
    file,          \* the latest snapshot file
    stale,         \* history: board -> traders whose statistics changed since they were
                   \* read for it, and those that changed since the task began
    cut,           \* history: trader -> dates older than the days a restored snapshot had
    rebuilds, snapshots, reopens  \* counters for the bounds

log == <<by_market, by_trader, total_count>>
bounds == <<rebuilds, snapshots, reopens>>
feedsVars == <<mix, wal, base, log, stats, daily, indexer, boards, task, file, stale, cut, bounds>>

-----------------------------------------------------------------------------
\* Unix seconds to YYYYMMDD, over eras of 400 years that begin in March: the
\* days before a year of an era, the year of a day of an era, and the date of a
\* day of a year.
DaysBefore(yoe) == 365 * yoe + yoe \div 4 - yoe \div 100
YearOfEra(doe) == (doe - doe \div 1460 + doe \div 36524 - doe \div 146096) \div 365

DateOf(year, doy) ==
    LET mp == (5 * doy + 2) \div 153
        d == doy - (153 * mp + 2) \div 5 + 1
        m == IF mp < 10 THEN mp + 3 ELSE mp - 9
        y == year + IF m <= 2 THEN 1 ELSE 0
    IN  y * 10000 + m * 100 + d

EraDate(era, doe) == DateOf(YearOfEra(doe) + era * 400, doe - DaysBefore(YearOfEra(doe)))

timestamp_to_date(ts) ==
    LET z == ts \div 86400 + 719468
        era == z \div 146097
    IN  EraDate(era, z - era * 146097)

-----------------------------------------------------------------------------
(* What an event does to each store.                                       *)

\* Mutant: an event without a market is not for the trader's partition either.
MutToTrader(parts, e) ==
    IF MarketOf(e) = None \/ TraderOf(e) = None THEN parts ELSE [parts EXCEPT ![TraderOf(e)] = Append(@, e)]

ToMarket(parts, e) == IF MarketOf(e) = None THEN parts ELSE [parts EXCEPT ![MarketOf(e)] = Append(@, e)]
ToTrader(parts, e) == IF TraderOf(e) = None THEN parts ELSE [parts EXCEPT ![TraderOf(e)] = Append(@, e)]

NewStats == [trades |-> 0, volume |-> 0, pnl |-> 0, wins |-> 0, losses |-> 0, liquidations |-> 0, best |-> 0, worst |-> 0]

Traded == {"PositionClosed", "Liquidation"}
Ensured == Traded \cup {"PositionOpened"}

\* ensure()
ensure(all, e) == IF e.kind \in Ensured /\ all[e.trader] = None THEN [all EXCEPT ![e.trader] = NewStats] ELSE all

\* A liquidation is a trade without volume that loses the penalty.
Volume(e) == IF e.kind = "Liquidation" THEN 0 ELSE e.size
Pnl(e) == IF e.kind = "Liquidation" THEN -e.size ELSE e.pnl

increment_trade(s, e) ==
    LET won == e.kind = "PositionClosed" /\ e.pnl > 0
        liquidated == e.kind = "Liquidation" IN
    [trades |-> s.trades + 1, volume |-> s.volume + Volume(e), pnl |-> s.pnl + Pnl(e),
     wins |-> s.wins + (IF won THEN 1 ELSE 0),
     losses |-> s.losses + (IF won \/ liquidated THEN 0 ELSE 1),
     liquidations |-> s.liquidations + (IF liquidated THEN 1 ELSE 0),
     best |-> Max({s.best, Pnl(e)}), worst |-> Min({s.worst, Pnl(e)})]

Trade(all, e) == IF e.kind \in Traded THEN [all EXCEPT ![e.trader] = increment_trade(@, e)] ELSE all

NewDay == [volume |-> 0, pnl |-> 0, trades |-> 0]

\* accumulate_trade(): of a close, not of a liquidation.
Accumulate(days, e) ==
    LET date == timestamp_to_date(e.ts)
        old == IF date \in DOMAIN days[e.trader] THEN days[e.trader][date] ELSE NewDay
        new == [volume |-> old.volume + e.size, pnl |-> old.pnl + e.pnl, trades |-> old.trades + 1] IN
    [days EXCEPT ![e.trader] = [d \in DOMAIN @ \cup {date} |-> IF d = date THEN new ELSE @[d]]]

Daily(days, e) == IF e.kind = "PositionClosed" THEN Accumulate(days, e) ELSE days

-----------------------------------------------------------------------------
NoRows == [x \in {} |-> None]
IdleTask == [on |-> "idle", todo |-> {}, got |-> NoRows]
Board == {"pnl", "volume"}
NoStats == [tr \in Trader |-> None]
NoDays == [tr \in Trader |-> NoRows]

FeedsInit ==
    /\ mix \in Mixes
    /\ wal = <<>> /\ base = 0
    /\ by_market = [m \in Market |-> <<>>] /\ by_trader = [tr \in Trader |-> <<>>] /\ total_count = 0
    /\ stats = NoStats /\ daily = NoDays
    /\ indexer = "idle"
    /\ boards = [b \in Board |-> <<>>]
    /\ task = IdleTask
    /\ file = [block |-> 0, stats |-> NoStats, daily |-> NoDays]
    /\ stale = [b \in Board \cup {"task"} |-> {}]
    /\ cut = [tr \in Trader |-> {}]
    /\ rebuilds = 0 /\ snapshots = 0 /\ reopens = 0

-----------------------------------------------------------------------------
(* The indexer: process_event().                                           *)

Now == wal[Len(wal)]
IndexerRest == <<mix, base, boards, task, file, cut, bounds>>

\* An event with the block it came in.
Entry(n, e) == [n |-> n, kind |-> e.kind, market |-> e.market, trader |-> e.trader, size |-> e.size, pnl |-> e.pnl, ts |-> e.ts]

\* The log entry.  Time does not run backwards along the chain.
LogEvent(e) ==
    /\ indexer = "idle" /\ Len(wal) < MaxLogged
    /\ wal # <<>> => e.ts >= Now.ts
    /\ wal' = Append(wal, Entry(Len(wal) + 1, e))
    /\ indexer' = "market"
    /\ UNCHANGED <<log, stats, daily, stale, IndexerRest>>

\* EventStore::append(): the market's partition, the trader's, the count.
AppendMarket ==
    /\ indexer = "market"
    /\ by_market' = ToMarket(by_market, Now)
    /\ indexer' = "trader"
    /\ UNCHANGED <<wal, by_trader, total_count, stats, daily, stale, IndexerRest>>

AppendTrader ==
    /\ indexer = "trader"
    /\ by_trader' = ToTrader(by_trader, Now)
    /\ indexer' = "count"
    /\ UNCHANGED <<wal, by_market, total_count, stats, daily, stale, IndexerRest>>

AppendCount ==
    /\ indexer = "count"
    /\ total_count' = total_count + 1
    /\ indexer' = IF Now.kind \in Ensured THEN "ensure" ELSE "idle"
    /\ UNCHANGED <<wal, by_market, by_trader, stats, daily, stale, IndexerRest>>

EnsureStats ==
    /\ indexer = "ensure"
    /\ stats' = ensure(stats, Now)
    /\ indexer' = IF Now.kind \in Traded THEN "trade" ELSE "idle"
    /\ UNCHANGED <<wal, log, daily, stale, IndexerRest>>

CountTrade ==
    /\ indexer = "trade"
    /\ stats' = Trade(stats, Now)
    /\ stale' = [b \in DOMAIN stale |-> stale[b] \cup {Now.trader}]
    /\ indexer' = IF Now.kind = "PositionClosed" THEN "daily" ELSE "idle"
    /\ UNCHANGED <<wal, log, daily, IndexerRest>>

CountDay ==
    /\ indexer = "daily"
    /\ daily' = Daily(daily, Now)
    /\ indexer' = "idle"
    /\ UNCHANGED <<wal, log, stats, stale, IndexerRest>>

-----------------------------------------------------------------------------
(* The background task: rebuild_leaderboard().                             *)

TaskRest == <<mix, wal, base, log, stats, daily, indexer, file, cut, snapshots, reopens>>

BeginRebuild ==
    /\ "rebuild" \in mix.tasks /\ task.on = "idle" /\ rebuilds < MaxRebuild
    /\ rebuilds' = rebuilds + 1
    /\ task' = [on |-> "all", todo |-> Trader, got |-> NoRows]
    /\ stale' = [stale EXCEPT !["task"] = {}]
    /\ UNCHANGED <<boards, TaskRest>>

\* TraderStatsStore::all() goes from row to row.
ReadStats(tr) ==
    /\ task.on = "all" /\ tr \in task.todo
    /\ task' = [task EXCEPT !.todo = @ \ {tr},
                            !.got = IF stats[tr] = None THEN @
                                      ELSE [t \in DOMAIN @ \cup {tr} |-> IF t = tr THEN stats[tr] ELSE @[t]]]
    /\ UNCHANGED <<boards, stale, rebuilds, TaskRest>>

Value(b, s) == IF b = "pnl" THEN s.pnl ELSE s.volume
Ranked(order, got, b) ==
    [i \in DOMAIN order |-> [rank |-> i, trader |-> order[i], value |-> Value(b, got[order[i]]), trades |-> got[order[i]].trades]]
Active(got) == {tr \in DOMAIN got : got[tr].trades > 0}
Sorted(order, got, b) == \A i, j \in DOMAIN order : i < j => Value(b, got[order[i]]) >= Value(b, got[order[j]])

Truncated(seq) == SubSeq(seq, 1, Min({MaxEntries, Len(seq)}))

\* Mutant: the board is cut to its length before it is sorted.
MutRankings(got, b) ==
    LET Short == UNION {{Truncated(order)} : order \in SetToSeqs(Active(got))} IN
    {Ranked(order, got, b) : order \in {o \in UNION {SetToSeqs(ToSet(s)) : s \in Short} : Sorted(o, got, b)}}

\* Those with trades, best first, and the first max_entries of them; traders
\* with the same value come in any order.
Rankings(got, b) ==
    {Truncated(Ranked(order, got, b)) : order \in {o \in SetToSeqs(Active(got)) : Sorted(o, got, b)}}

\* rebuild_pnl(), then rebuild_volume().
SetBoard(b) ==
    /\ task.on = (IF b = "pnl" THEN "all" ELSE "volume") /\ task.todo = {}
    /\ boards' \in {[boards EXCEPT ![b] = ranking] : ranking \in Rankings(task.got, b)}
    /\ stale' = [stale EXCEPT ![b] = stale["task"]]
    /\ task' = IF b = "pnl" THEN [task EXCEPT !.on = "volume"] ELSE IdleTask
    /\ UNCHANGED <<rebuilds, TaskRest>>

-----------------------------------------------------------------------------
(* snapshot() and open().                                                  *)

Dates(days, tr) == DOMAIN days[tr]
Newer(dates, d) == {x \in dates : x > d}

\* Mutant: the history is sorted by date upwards.
Mut_trader_daily_history(days, tr, limit) ==
    {d \in Dates(days, tr) : Cardinality({x \in Dates(days, tr) : x < d}) < limit}

\* trader_daily_history(): the dates it returns, the newest ones.
trader_daily_history(days, tr, limit) == {d \in Dates(days, tr) : Cardinality(Newer(Dates(days, tr), d)) < limit}

\* Traders without statistics have no days in the file.
Snapshot ==
    /\ "snapshot" \in mix.tasks /\ indexer = "idle" /\ snapshots < MaxSnapshot
    /\ snapshots' = snapshots + 1
    /\ file' = [block |-> Len(wal), stats |-> stats,
                daily |-> [tr \in Trader |-> IF stats[tr] = None THEN NoRows
                                             ELSE Restrict(daily[tr], trader_daily_history(daily, tr, HistoryLimit))]]
    /\ UNCHANGED <<mix, wal, base, log, stats, daily, indexer, boards, task, stale, cut, rebuilds, reopens>>

\* The dates of the trader's closes in this part of the log.
CloseDates(events, tr) ==
    {timestamp_to_date(events[i].ts) : i \in {j \in DOMAIN events : events[j].kind = "PositionClosed" /\ events[j].trader = tr}}

\* replay_wal_entry() and append(), for one entry behind the snapshot and for all of them.
ReplayEntry(S, e) ==
    [by_market |-> ToMarket(S.by_market, e), by_trader |-> ToTrader(S.by_trader, e),
     stats |-> Trade(ensure(S.stats, e), e), daily |-> Daily(S.daily, e)]

Replay(S, entries) ==
    LET after[i \in 0..Len(entries)] == IF i = 0 THEN S ELSE ReplayEntry(after[i - 1], entries[i])
    IN  after[Len(entries)]

\* restore_snapshot()
Restored ==
    [by_market |-> [m \in Market |-> <<>>], by_trader |-> [tr \in Trader |-> <<>>],
     stats |-> file.stats, daily |-> file.daily]

\* The process ends and opens again: the file, and the log behind its block.
\* Neither the event log nor the boards are in the file.
Reopen ==
    LET behind == SubSeq(wal, file.block + 1, Len(wal))
        S == Replay(Restored, behind) IN
    /\ "snapshot" \in mix.tasks /\ reopens < MaxReopen
    /\ reopens' = reopens + 1
    /\ base' = file.block
    /\ by_market' = S.by_market /\ by_trader' = S.by_trader /\ total_count' = Len(behind)
    /\ stats' = S.stats /\ daily' = S.daily
    /\ indexer' = "idle" /\ task' = IdleTask
    /\ boards' = [b \in Board |-> <<>>]
    /\ stale' = [b \in DOMAIN stale |-> Trader]
    /\ cut' = [tr \in Trader |->
                 LET dates == CloseDates(SubSeq(wal, 1, file.block), tr) IN
                 cut[tr] \cup {d \in dates : Cardinality(Newer(dates, d)) >= HistoryLimit}]
    /\ UNCHANGED <<mix, wal, file, rebuilds, snapshots>>

IndexerStep == AppendMarket \/ AppendTrader \/ AppendCount \/ EnsureStats \/ CountTrade \/ CountDay

FeedsNext ==
    \/ \E e \in mix.events : LogEvent(e)
    \/ IndexerStep
    \/ BeginRebuild \/ (\E tr \in Trader : ReadStats(tr)) \/ (\E b \in Board : SetBoard(b))
    \/ Snapshot \/ Reopen

FeedsSpec == FeedsInit /\ [][FeedsNext]_feedsVars

-----------------------------------------------------------------------------
(* Queries.                                                                *)

\* A filter: the elements of seq at the indices in keep, in their order.
Picked(seq, keep) ==
    [k \in 1..Cardinality(keep) |-> seq[CHOOSE i \in keep : Cardinality({j \in keep : j <= i}) = k]]

\* filter_by_block_range(): [from, to), either end may be open.
filter_by_block_range(events, from, to) ==
    Picked(events, {i \in DOMAIN events : /\ from = None \/ events[i].n >= from
                                          /\ to = None \/ events[i].n < to})

events_by_market(m, from, to) == filter_by_block_range(by_market[m], from, to)
events_by_trader(tr, from, to) == filter_by_block_range(by_trader[tr], from, to)

\* latest_by_market(), latest_by_trader(): the newest first.
latest(events, count) == Reverse(SubSeq(events, Max({1, Len(events) - count + 1}), Len(events)))

\* pnl_rank(), volume_rank(): 0 for None.
rank(b, tr) ==
    LET at == {i \in DOMAIN boards[b] : boards[b][i].trader = tr} IN
    IF at = {} THEN 0 ELSE boards[b][Min(at)].rank

protocol_trades(date) ==
    SumFunctionOnSet([tr \in Trader |-> IF date \in Dates(daily, tr) THEN daily[tr][date].trades ELSE 0], Trader)
unique_traders_on_date(date) == {tr \in Trader : date \in Dates(daily, tr) /\ daily[tr][date].trades > 0}

-----------------------------------------------------------------------------
(* Properties.                                                             *)

Stages == <<"market", "trader", "count", "ensure", "trade", "daily">>

\* The events that are through this stage of process_event().
Through(stage) ==
    LET At(s) == CHOOSE i \in DOMAIN Stages : Stages[i] = s IN
    SubSeq(wal, 1, IF indexer # "idle" /\ At(indexer) <= At(stage) THEN Len(wal) - 1 ELSE Len(wal))

Since(events) == SubSeq(events, base + 1, Len(events))

OfMarket(events, m) == Picked(events, {i \in DOMAIN events : MarketOf(events[i]) = m})
OfTrader(events, tr) == Picked(events, {i \in DOMAIN events : TraderOf(events[i]) = tr})

Paged(part, older, newer) == older \o newer = part /\ Reverse(latest(part, Len(newer))) = newer

\* The two partitions and the count tell of the same events, those the process
\* has handled or replayed, in the order of their blocks, and are apart by no
\* more than the append under way.  They are the events behind the block of the
\* snapshot that the process started from: the ones before are gone, against
\* what the documents say (EventsSurvive).  Paging through a partition by blocks, or
\* from its end, neither drops nor repeats an event.
PartitionsAgree ==
    /\ \A m \in Market : by_market[m] = OfMarket(Since(Through("market")), m)
    /\ \A tr \in Trader : by_trader[tr] = OfTrader(Since(Through("trader")), tr)
    /\ total_count = Len(Since(Through("count")))
    /\ \A b \in DOMAIN wal :
          /\ \A m \in Market : Paged(by_market[m], events_by_market(m, None, b), events_by_market(m, b, None))
          /\ \A tr \in Trader : Paged(by_trader[tr], events_by_trader(tr, None, b), events_by_trader(tr, b, None))

\* A board shows what its traders had when they were read.  For those whose
\* statistics have not changed since, the board is right: the value is theirs
\* now, and a trader with trades who is not on it has no more than anyone on
\* a full board.  Nobody is on it twice, and the ranks follow the values.
BoardFresh ==
    \A b \in Board :
        LET on == {boards[b][i].trader : i \in DOMAIN boards[b]} IN
        /\ Len(boards[b]) = Cardinality(on) /\ Len(boards[b]) <= MaxEntries
        /\ \A i \in DOMAIN boards[b] :
              LET e == boards[b][i] IN
              /\ rank(b, e.trader) = i /\ e.trades > 0
              /\ i > 1 => e.value <= boards[b][i - 1].value
              /\ e.trader \notin stale[b] => e.value = Value(b, stats[e.trader]) /\ e.trades = stats[e.trader].trades
        /\ \A tr \in Trader \ (on \cup stale[b]) :
              stats[tr] # None /\ stats[tr].trades > 0 =>
                  /\ Len(boards[b]) = MaxEntries
                  /\ Value(b, stats[tr]) <= boards[b][MaxEntries].value

\* The Gregorian calendar, counted out from 1970.
Leap(y) == y % 4 = 0 /\ (y % 100 # 0 \/ y % 400 = 0)
MonthLength(y, m) == IF m = 2 THEN (IF Leap(y) THEN 29 ELSE 28) ELSE IF m \in {4, 6, 9, 11} THEN 30 ELSE 31
LeapDays(y) == Cardinality({x \in 1970..(y - 1) : Leap(x)})
MonthDays(y, m) == SumFunctionOnSet([k \in 1..12 |-> MonthLength(y, k)], 1..(m - 1))
DayNumber(y, m, d) == 365 * (y - 1970) + LeapDays(y) + MonthDays(y, m) + d - 1

\* The closes of a trader on a date, among those through the daily statistics.
Closes(tr, date) ==
    LET events == Through("daily")
        y == date \div 10000
        m == (date \div 100) % 100 IN
    {i \in DOMAIN events : /\ events[i].kind = "PositionClosed" /\ events[i].trader = tr
                           /\ events[i].ts \div 86400 = DayNumber(y, m, date % 100)}

SizeAt == [i \in DOMAIN wal |-> wal[i].size]
PnlAt == [i \in DOMAIN wal |-> wal[i].pnl]
AllDates == UNION {Dates(daily, tr) : tr \in Trader}

\* The daily statistics hold, for every trader and day of the calendar, exactly
\* the closes of that day, also across snapshots and restarts, except for days
\* that were older than HistoryLimit days of the trader in the restored
\* snapshot, which are gone although the snapshot calls itself complete
\* (DailySurvives).  The lifetime statistics are their sum and the liquidations, and
\* the protocol's day is the sum of its traders'.
DailyMatches ==
    /\ \A tr \in Trader : \A date \in AllDates \ cut[tr] :
          LET closes == Closes(tr, date) IN
          IF date \notin Dates(daily, tr) THEN closes = {}
          ELSE daily[tr][date] = [volume |-> SumFunctionOnSet(SizeAt, closes), pnl |-> SumFunctionOnSet(PnlAt, closes),
                                  trades |-> Cardinality(closes)]
    /\ \A tr \in Trader :
          indexer = "idle" /\ cut[tr] = {} /\ stats[tr] # None =>
              LET s == stats[tr]
                  fines == SumFunctionOnSet(SizeAt, {i \in DOMAIN wal : wal[i].kind = "Liquidation" /\ wal[i].trader = tr})
                  trades == [d \in Dates(daily, tr) |-> daily[tr][d].trades]
                  pnls == [d \in Dates(daily, tr) |-> daily[tr][d].pnl] IN
              /\ s.trades = SumFunctionOnSet(trades, Dates(daily, tr)) + s.liquidations
              /\ s.pnl = SumFunctionOnSet(pnls, Dates(daily, tr)) - fines
              /\ s.wins + s.losses + s.liquidations = s.trades
    /\ \A date \in AllDates :
          (\A tr \in Trader : date \notin cut[tr]) =>
              /\ protocol_trades(date) = Cardinality(UNION {Closes(tr, date) : tr \in Trader})
              /\ unique_traders_on_date(date) = {tr \in Trader : Closes(tr, date) # {}}

-----------------------------------------------------------------------------
(* What the comments say, and the code does not keep.                      *)

\* Events are "immutable once written", and the snapshot is one "of all
\* in-memory state": after a restart too, the partitions have every event that
\* was appended.  The snapshot has no events, and open() appends those of the
\* log behind its block alone.
EventsSurvive ==
    /\ \A m \in Market : by_market[m] = OfMarket(Through("market"), m)
    /\ \A tr \in Trader : by_trader[tr] = OfTrader(Through("trader"), tr)

\* By the same sentence, a close stays in the daily statistics of its day.
\* snapshot() asks trader_daily_history() for 1000 days of a trader, and what is
\* older is gone with the next restart.
DailySurvives ==
    LET events == Through("daily") IN
    \A i \in DOMAIN events : events[i].kind = "PositionClosed" =>
        timestamp_to_date(events[i].ts) \in Dates(daily, events[i].trader)

=============================================================================
