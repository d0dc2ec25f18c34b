---------------------------- MODULE MCEventPath -----------------------------
(* Model checking of what engine.rs does with ticks and events: the stores  *)
(* of EngineState, the candles of Candles and the feeds of Feeds.  In this  *)
(* model no step of one of the three reads or writes state of another, so   *)
(* that a behaviour of all is a behaviour of each; a run says which of them *)
(* move in one behaviour.                                                   *)
EXTENDS EngineState, Candles, Feeds

CONSTANTS
    u1,
    Together  \* the sets of modules that move in one behaviour

VARIABLE moving  \* the modules that move in this one

allVars == <<moving, vars, candlesVars, feedsVars>>

\* A module that does not move has one initial state.
MCInit ==
    /\ moving \in Together
    /\ Init /\ CandlesInit /\ FeedsInit
    /\ "Feeds" \in moving \/ mix = CHOOSE m \in Mixes : TRUE

MCNext ==
    /\ UNCHANGED moving
    /\ \/ "EngineState" \in moving /\ Next /\ UNCHANGED <<candlesVars, feedsVars>>
       \/ "Candles" \in moving /\ CandlesNext /\ UNCHANGED <<vars, feedsVars>>
       \/ "Feeds" \in moving /\ FeedsNext /\ UNCHANGED <<vars, candlesVars>>

MCSpec == MCInit /\ [][MCNext]_allVars

OneByOne == {{"EngineState"}, {"Candles"}, {"Feeds"}}
Stores == {{"EngineState", "Feeds"}}

-----------------------------------------------------------------------------
(* EngineState: one trader with two positions, and an order.  Nothing tells *)
(* the two positions apart.                                                 *)

Symmetric == Permutations(Positions)

MCOwner == [p \in Positions |-> u1]

-----------------------------------------------------------------------------
(* Candles: two timeframes, the second twice the first.                    *)

MCTimeframes == <<2, 4>>
OneTimeframe == <<1>>

-----------------------------------------------------------------------------
(* Feeds: every shape of event for the log; trades and liquidations beside  *)
(* the task that ranks three traders on boards of two; and closes around    *)
(* the end of a year and of a February, with snapshots that keep one day.   *)

EventOf(kind, trader, size, pnl, ts) ==
    [kind |-> kind, market |-> "m1", trader |-> trader, size |-> size, pnl |-> pnl, ts |-> ts]

\* 2023-12-31 23:59:59 and a second later, 2024-02-29 23:59:59 and a second later
Times == {1704067199, 1704067200, 1709251199, 1709251200}
Early == 1704067199

MCMixes ==
    {[tasks |-> {"snapshot"},
      events |-> {EventOf(kind, tr, 1, 1, Early) : kind \in {"PositionOpened", "OrderCancelled"}, tr \in {"a", "b"}}
                 \cup {EventOf(kind, "a", 1, 1, Early) : kind \in {"FundingSettled", "VaultDeficit"}}],
     [tasks |-> {"rebuild"},
      events |-> {EventOf("PositionClosed", tr, 1, 1, Early) : tr \in {"a", "c"}}
                 \cup {EventOf("PositionClosed", "b", 2, -1, Early), EventOf("Liquidation", "a", 1, 0, Early),
                       EventOf("PositionOpened", "c", 1, 0, Early)}],
     [tasks |-> {"snapshot"},
      events |-> {EventOf("PositionClosed", "a", 1, 1, ts) : ts \in Times}
                 \cup {EventOf("PositionClosed", "b", 1, -1, 1709251200), EventOf("Liquidation", "a", 1, 0, 1709251200)}]}

\* Closes of one trader on two days, and an event without market and trader.
TwoDays ==
    {[tasks |-> {"snapshot"},
      events |-> {EventOf("PositionClosed", "a", 1, 1, ts) : ts \in {1704067199, 1704067200}}
                 \cup {EventOf("VaultDeficit", "a", 1, 0, Early)}]}

-----------------------------------------------------------------------------

\* What README.md and ARCHITECTURE.md say of process_event(), each disjunct
\* for one store: an acknowledged event survives a crash, in the rows, their
\* sizes, the open interest, the event log and the daily statistics.  A state
\* that refutes the disjunction refutes every part of it.
EventPathKeepsWord ==
    \/ RowsSurvive \/ SizesSurvive \/ InterestSurvives
    \/ EventsSurvive \/ DailySurvives

\* What the comments of the candle store, of the builder and of ingest_tick()
\* say of a candle file: sorted, one record per bucket, no bucket left out,
\* and a running candle made of its ticks.  Again one state refutes them all.
CandlesKeepWord == SortedByTime \/ OneRecordPerBucket \/ ClosedAreStored \/ LiveMatchesTicks

=============================================================================
