----------------------------- MODULE EngineState -----------------------------
(***************************************************************************)
(* What events do to the stores, live and on replay: the match of          *)
(* PerfDb::process_event, the match of replay_wal_entry and                *)
(* restore_snapshot (engine.rs), with the stores they call                 *)
(* (state/positions.rs, state/orders.rs, state/balances.rs,                *)
(* state/market_state.rs, relational/users.rs, aggregation/stats.rs and    *)
(* the event log).                                                         *)
(*                                                                         *)
(* The two matches are separate code.  The model runs them side by side:   *)
(* `live' is the state of the running engine, `rebuilt' the state that     *)
(* open() would construct now, from the latest snapshot and the log        *)
(* entries behind it.  A restart replaces the one by the other.  Module    *)
(* Recovery is about which entries are replayed; here all of them are, and *)
(* once.                                                                   *)
(*                                                                         *)
(* One market, one side of the open interest.  The events come from the    *)
(* chain, whose own state makes them consistent.                           *)
(***************************************************************************)
EXTENDS FiniteSetsExt

CONSTANTS
    Users, Positions, Orders,  \* addresses and identifiers
    Owner,      \* position -> the user it belongs to
    MaxSize,    \* bound: largest size of a position or deposit
    MaxEvent,   \* bound: events
    MaxRestart  \* bound: restarts

ASSUME EngineAssumption ==
    /\ IsFiniteSet(Positions)
    /\ Owner \in [Positions -> Users]
    /\ MaxSize \in Nat /\ MaxEvent \in Nat /\ MaxRestart \in Nat

VARIABLES
    live,      \* the stores of the running engine
    rebuilt,   \* the stores open() would construct from the files
    chain,     \* external: the size of every position on the chain, 0 when it has none
    ledger,    \* external: what every user has on the chain
    modified,  \* history: positions with a PositionModified event
    unsettled, \* history: an event or a restart the open interest does not follow
    events, restarts

vars == <<live, rebuilt, chain, ledger, modified, unsettled, events, restarts>>

Size == 1..MaxSize

\* The empty stores of open().  A position is its status and the fields the
\* two matches treat differently: size_usd, whether entry_price is known, and
\* whether close_tx, close_block and closed_at are set.  The event log is its
\* length.
Empty ==
    [positions |-> [p \in Positions |-> [status |-> "None", size |-> 0, priced |-> FALSE, closing |-> FALSE]],
     open_positions |-> [u \in Users |-> 0],
     total_trades |-> [u \in Users |-> 0],
     daily_trades |-> [u \in Users |-> 0],
     orders |-> [o \in Orders |-> "None"],
     book |-> [o \in Orders |-> 0],
     balances |-> [u \in Users |-> [amount |-> 0, locked |-> 0, available |-> 0]],
     users |-> [u \in Users |-> "None"],
     oi |-> 0, funding |-> 0, paused |-> FALSE,
     log |-> 0]

-----------------------------------------------------------------------------
(* The operations of the stores.                                           *)

\* trader_stats.increment_open_positions() and decrement_open_positions().
IncrementOpen(S, u) == [S EXCEPT !.open_positions[u] = @ + 1]

\* Mutant: the clamp is one off.
MutDecrementOpen(S, u) == [S EXCEPT !.open_positions[u] = IF @ > 1 THEN @ - 1 ELSE @]

DecrementOpen(S, u) == [S EXCEPT !.open_positions[u] = IF @ > 0 THEN @ - 1 ELSE 0]

\* trader_stats.increment_trade()
IncrementTrade(S, u) == [S EXCEPT !.total_trades[u] = @ + 1]

\* daily_stats.accumulate_trade()
AccumulateDaily(S, u) == [S EXCEPT !.daily_trades[u] = @ + 1]

\* positions.update(): nothing happens to an unknown position.
UpdatePosition(S, p, new) ==
    IF S.positions[p].status = "None" THEN S ELSE [S EXCEPT !.positions[p] = new]

\* orders.insert() of an active order pushes it onto its price level.
InsertOrder(S, o) == [S EXCEPT !.orders[o] = "Active", !.book[o] = @ + 1]

\* orders.cancel() and orders.execute(): an active order leaves the book.
EndOrder(S, o, status) ==
    CASE S.orders[o] = "None" -> S
      [] S.orders[o] = "Active" -> [S EXCEPT !.orders[o] = status, !.book[o] = 0]
      [] OTHER -> [S EXCEPT !.orders[o] = status]

\* balances.set_raw() as the two collateral events use it.
SetBalance(S, u, amount, available) ==
    [S EXCEPT !.balances[u] = [amount |-> amount, locked |-> @.locked, available |-> available]]

Clamp(n) == IF n > 0 THEN n ELSE 0

\* market_state.add_long_oi() or add_short_oi()
AddOI(S, delta) == [S EXCEPT !.oi = @ + delta]

\* events.append()
AppendLog(S) == [S EXCEPT !.log = @ + 1]

\* users.ensure() and users.set_vault()
Ensure(S, u) == [S EXCEPT !.users[u] = IF @ = "None" THEN "Known" ELSE @]
SetVault(S, u) == [S EXCEPT !.users[u] = IF @ = "None" THEN @ ELSE "Vault"]

-----------------------------------------------------------------------------
(* The match of process_event().                                           *)

Opened(S, p, size) ==
    LET pos == [status |-> "Open", size |-> size, priced |-> TRUE, closing |-> FALSE] IN
    AddOI(IncrementOpen(Ensure([S EXCEPT !.positions[p] = pos], Owner[p]), Owner[p]), size)

\* Mutant: a partial close does not move the open interest.
MutClosed(S, p, size, full) ==
    LET new == [S.positions[p] EXCEPT !.status = IF full THEN "Closed" ELSE @, !.size = IF full THEN @ ELSE @ - size,
                                      !.closing = TRUE]
        T == AccumulateDaily(IncrementTrade(UpdatePosition(S, p, new), Owner[p]), Owner[p])
    IN  IF full THEN AddOI(DecrementOpen(T, Owner[p]), -size) ELSE T

\* PositionClosed: the trade counts for the stats whether or not the
\* position is known; the open interest moves only when it is.
Closed(S, p, size, full) ==
    LET old == S.positions[p]
        new == [old EXCEPT !.status = IF full THEN "Closed" ELSE @, !.size = IF full THEN @ ELSE @ - size,
                           !.closing = TRUE]
        T == AccumulateDaily(IncrementTrade(UpdatePosition(S, p, new), Owner[p]), Owner[p])
        D == IF full THEN DecrementOpen(T, Owner[p]) ELSE T
    IN  IF old.status = "None" THEN D ELSE AddOI(D, -size)

Modified(S, p, size) == UpdatePosition(S, p, [S.positions[p] EXCEPT !.size = size])

\* Liquidation leaves size and open interest alone.
Liquidated(S, p) ==
    LET new == [S.positions[p] EXCEPT !.status = "Liquidated", !.closing = TRUE] IN
    DecrementOpen(IncrementTrade(UpdatePosition(S, p, new), Owner[p]), Owner[p])

Deposited(S, u, n) ==
    LET b == S.balances[u] IN SetBalance(Ensure(S, u), u, b.amount + n, b.amount + n - b.locked)

\* Mutant: the withdrawal is taken from the available part twice.
MutWithdrawn(S, u, n) ==
    LET b == S.balances[u] IN SetBalance(S, u, Clamp(b.amount - n), Clamp(b.amount - n) - n)

Withdrawn(S, u, n) ==
    LET b == S.balances[u] IN SetBalance(S, u, Clamp(b.amount - n), Clamp(Clamp(b.amount - n) - b.locked))

Placed(S, o, u) == Ensure(InsertOrder(S, o), u)

VaultMade(S, u) == SetVault(Ensure(S, u), u)

FundingSet(S, rate) == [S EXCEPT !.funding = rate]

Paused(S) == [S EXCEPT !.paused = TRUE]

-----------------------------------------------------------------------------
(* The match of replay_wal_entry(), where it differs.                      *)

ReplayOpened(S, p, size) ==
    LET pos == [status |-> "Open", size |-> size, priced |-> FALSE, closing |-> FALSE] IN
    IncrementOpen(Ensure([S EXCEPT !.positions[p] = pos], Owner[p]), Owner[p])

\* Mutant: the replay of a full close forgets the count of open positions.
MutReplayClosed(S, p, size, full) ==
    LET new == [S.positions[p] EXCEPT !.status = IF full THEN "Closed" ELSE @, !.size = IF full THEN @ ELSE @ - size]
    IN  AccumulateDaily(IncrementTrade(UpdatePosition(S, p, new), Owner[p]), Owner[p])

ReplayClosed(S, p, size, full) ==
    LET new == [S.positions[p] EXCEPT !.status = IF full THEN "Closed" ELSE @, !.size = IF full THEN @ ELSE @ - size]
        T == AccumulateDaily(IncrementTrade(UpdatePosition(S, p, new), Owner[p]), Owner[p])
    IN  IF full THEN DecrementOpen(T, Owner[p]) ELSE T

\* PositionModified falls into the catch-all arm.
ReplayModified(S, p, size) == S

ReplayLiquidated(S, p) ==
    LET new == [S.positions[p] EXCEPT !.status = "Liquidated"] IN
    DecrementOpen(IncrementTrade(UpdatePosition(S, p, new), Owner[p]), Owner[p])

\* restore_snapshot() inserts what snapshot() read of each store: the order
\* books are built anew from the orders.  The event log is in no snapshot.
Restore(S) ==
    [S EXCEPT !.book = [o \in Orders |-> IF S.orders[o] = "Active" THEN 1 ELSE 0], !.log = 0]

-----------------------------------------------------------------------------
Init ==
    /\ live = Empty
    /\ rebuilt = Empty
    /\ chain = [p \in Positions |-> 0]
    /\ ledger = [u \in Users |-> 0]
    /\ modified = {}
    /\ unsettled = FALSE
    /\ events = 0
    /\ restarts = 0

\* An event goes through process_event(), and its entry is in the write-ahead
\* log: both matches come after events.append().
Event(L, R) ==
    /\ events < MaxEvent
    /\ events' = events + 1
    /\ live' = AppendLog(L)
    /\ rebuilt' = AppendLog(R)
    /\ UNCHANGED restarts

PositionOpened(p, size) ==
    /\ live.positions[p].status = "None"
    /\ Event(Opened(live, p, size), ReplayOpened(rebuilt, p, size))
    /\ chain' = [chain EXCEPT ![p] = size]
    /\ UNCHANGED <<ledger, modified, unsettled>>

\* A full close is one of the position's whole size.
PositionClosed(p, size) ==
    /\ chain[p] # 0 /\ size <= chain[p]
    /\ LET full == size = chain[p] IN
       Event(Closed(live, p, size, full), ReplayClosed(rebuilt, p, size, full))
    /\ chain' = [chain EXCEPT ![p] = @ - size]
    /\ UNCHANGED <<ledger, modified, unsettled>>

PositionModified(p, size) ==
    /\ chain[p] # 0 /\ size # chain[p]
    /\ Event(Modified(live, p, size), ReplayModified(rebuilt, p, size))
    /\ chain' = [chain EXCEPT ![p] = size]
    /\ modified' = modified \cup {p}
    /\ unsettled' = TRUE
    /\ UNCHANGED ledger

Liquidation(p) ==
    /\ chain[p] # 0
    /\ Event(Liquidated(live, p), ReplayLiquidated(rebuilt, p))
    /\ chain' = [chain EXCEPT ![p] = 0]
    /\ unsettled' = TRUE
    /\ UNCHANGED <<ledger, modified>>

OrderPlaced(o, u) ==
    /\ live.orders[o] = "None"
    /\ Event(Placed(live, o, u), Placed(rebuilt, o, u))
    /\ UNCHANGED <<chain, ledger, modified, unsettled>>

\* OrderExecuted and OrderCancelled may both come for one order: a keeper's
\* execution crosses the user's cancellation.
OrderEnded(o, status) ==
    /\ live.orders[o] # "None"
    /\ Event(EndOrder(live, o, status), EndOrder(rebuilt, o, status))
    /\ UNCHANGED <<chain, ledger, modified, unsettled>>

CollateralDeposited(u, n) ==
    /\ ledger[u] + n <= MaxSize
    /\ Event(Deposited(live, u, n), Deposited(rebuilt, u, n))
    /\ ledger' = [ledger EXCEPT ![u] = @ + n]
    /\ UNCHANGED <<chain, modified, unsettled>>

CollateralWithdrawn(u, n) ==
    /\ n <= ledger[u]
    /\ Event(Withdrawn(live, u, n), Withdrawn(rebuilt, u, n))
    /\ ledger' = [ledger EXCEPT ![u] = @ - n]
    /\ UNCHANGED <<chain, modified, unsettled>>

VaultCreated(u) ==
    /\ live.users[u] # "Vault"
    /\ Event(VaultMade(live, u), VaultMade(rebuilt, u))
    /\ UNCHANGED <<chain, ledger, modified, unsettled>>

FundingRateUpdated(rate) ==
    /\ Event(FundingSet(live, rate), FundingSet(rebuilt, rate))
    /\ UNCHANGED <<chain, ledger, modified, unsettled>>

MarketPaused ==
    /\ Event(Paused(live), Paused(rebuilt))
    /\ UNCHANGED <<chain, ledger, modified, unsettled>>

\* snapshot() between two blocks.
snapshot ==
    /\ rebuilt' = Restore(live)
    /\ UNCHANGED <<live, chain, ledger, modified, unsettled, events, restarts>>

\* The process ends and the next one opens the files.
Restart ==
    /\ restarts < MaxRestart
    /\ restarts' = restarts + 1
    /\ live' = rebuilt
    /\ unsettled' = (unsettled \/ live.oi # rebuilt.oi)
    /\ UNCHANGED <<rebuilt, chain, ledger, modified, events>>

Next ==
    \/ \E p \in Positions, size \in Size :
         PositionOpened(p, size) \/ PositionClosed(p, size) \/ PositionModified(p, size)
    \/ \E p \in Positions : Liquidation(p)
    \/ \E o \in Orders, u \in Users : OrderPlaced(o, u)
    \/ \E o \in Orders, status \in {"Executed", "Cancelled"} : OrderEnded(o, status)
    \/ \E u \in Users, n \in Size : CollateralDeposited(u, n) \/ CollateralWithdrawn(u, n)
    \/ \E u \in Users : VaultCreated(u)
    \/ \E rate \in Size : FundingRateUpdated(rate)
    \/ MarketPaused
    \/ snapshot
    \/ Restart

Spec == Init /\ [][Next]_vars

-----------------------------------------------------------------------------
(* Properties.                                                             *)

PositionType ==
    [status : {"None", "Open", "Closed", "Liquidated"}, size : Int, priced : BOOLEAN, closing : BOOLEAN]
OrderStatus == {"None", "Active", "Executed", "Cancelled"}
BalanceType == [amount : Nat, locked : Nat, available : Nat]

StoresType ==
    [positions : [Positions -> PositionType],
     open_positions : [Users -> Nat], total_trades : [Users -> Nat], daily_trades : [Users -> Nat],
     orders : [Orders -> OrderStatus], book : [Orders -> Nat],
     balances : [Users -> BalanceType],
     users : [Users -> {"None", "Known", "Vault"}],
     oi : Int, funding : Nat, paused : BOOLEAN, log : Nat]

\* Every variable has its type; no balance becomes negative.
TypeOK ==
    /\ live \in StoresType /\ rebuilt \in StoresType
    /\ chain \in [Positions -> 0..MaxSize] /\ ledger \in [Users -> 0..MaxSize]
    /\ modified \subseteq Positions /\ unsettled \in BOOLEAN
    /\ events \in Nat /\ restarts \in Nat

OpenOf(S, u) == {p \in Positions : S.positions[p].status = "Open" /\ Owner[p] = u}

\* Trader statistics and position table agree, through closes, liquidations,
\* snapshots, replays and restarts: a trader's open_positions is the number
\* of that trader's open positions, in memory and in what open() rebuilds.
OpenCountMatches ==
    \A u \in Users : /\ live.open_positions[u] = Cardinality(OpenOf(live, u))
                     /\ rebuilt.open_positions[u] = Cardinality(OpenOf(rebuilt, u))

\* What a restart does preserve, whatever the mix of snapshot and replay:
\* orders, books, balances, users, statistics, funding rate, pause flag, the
\* status of every position, and the size of those that were never modified.
\* The rest of a row and the open interest it does not preserve, against what
\* README.md says of acknowledged writes: RowsSurvive, SizesSurvive,
\* InterestSurvives.
ReplayAgrees ==
    /\ rebuilt.orders = live.orders /\ rebuilt.book = live.book /\ rebuilt.balances = live.balances
    /\ rebuilt.users = live.users /\ rebuilt.funding = live.funding /\ rebuilt.paused = live.paused
    /\ rebuilt.open_positions = live.open_positions
    /\ rebuilt.total_trades = live.total_trades /\ rebuilt.daily_trades = live.daily_trades
    /\ \A p \in Positions :
         /\ rebuilt.positions[p].status = live.positions[p].status
         /\ p \notin modified => rebuilt.positions[p].size = live.positions[p].size

\* The open interest is what the open positions amount to on the chain, as
\* long as no liquidation, modification or replay came in between.
OpenInterestMatches ==
    ~unsettled => live.oi = SumFunctionOnSet(chain, Positions)

-----------------------------------------------------------------------------
(* What the documentation says, and the code does not keep.                *)

\* "Every mutation is appended to the write-ahead log, so an acknowledged
\* write survives a crash": the positions that open() rebuilds have the fields
\* they had.  Replay restores no entry price, none of the data of a close, and
\* skips PositionModified.
RowsSurvive == rebuilt.positions = live.positions

\* The same of the sizes alone: a modified position comes back with the size
\* it had before.
SizesSurvive == \A p \in Positions : rebuilt.positions[p].size = live.positions[p].size

\* The same of the market's open interest: the live match moves it with every
\* open and close, the replay never does.
InterestSurvives == rebuilt.oi = live.oi

=============================================================================
