------------------------- MODULE EventPathProofs --------------------------
(* Proofs about EngineState: statistics agree with the positions, a replay *)
(* agrees with what it repeats, open interest adds up.  Proofs about Feeds: *)
(* the event log's partitions agree, the leaderboards are right about all   *)
(* whose statistics have not changed, and the daily and lifetime statistics *)
(* hold the closes of each day of the calendar.                             *)
EXTENDS EngineState, Feeds, SequenceTheorems, FiniteSetTheorems, WellFoundedInduction, TLAPS

-----------------------------------------------------------------------------
(* The inductive invariant.                                                *)

\* The statistics count the open positions.
Counted(S) == \A u \in Users : S.open_positions[u] = Cardinality(OpenOf(S, u))

\* The stores of the running engine, against the positions on the chain: no
\* event locks a balance, an order is on the book while it is active, a
\* position the chain has is open, and the statistics count.
Sound(S, sizes) ==
    /\ \A u \in Users : S.balances[u].locked = 0
    /\ \A o \in Orders : S.book[o] = IF S.orders[o] = "Active" THEN 1 ELSE 0
    /\ \A p \in Positions : sizes[p] # 0 => S.positions[p].status = "Open"
    /\ Counted(S)

\* ReplayAgrees, of any two stores.
Agree(L, R, M) ==
    /\ R.orders = L.orders /\ R.book = L.book /\ R.balances = L.balances
    /\ R.users = L.users /\ R.funding = L.funding /\ R.paused = L.paused
    /\ R.open_positions = L.open_positions
    /\ R.total_trades = L.total_trades /\ R.daily_trades = L.daily_trades
    /\ \A p \in Positions :
         /\ R.positions[p].status = L.positions[p].status
         /\ p \notin M => R.positions[p].size = L.positions[p].size

\* The open interest is the sum of the positions on the chain, until something
\* that it does not follow has happened.
Settled == ~unsettled => live.oi = SumFunctionOnSet(chain, Positions)

Inv ==
    /\ TypeOK
    /\ Sound(live, chain)
    /\ Agree(live, rebuilt, modified)

-----------------------------------------------------------------------------
(* The stores are a record; an operation replaces some of its fields.      *)

Fields ==
    {"positions", "open_positions", "total_trades", "daily_trades", "orders", "book",
     "balances", "users", "oi", "funding", "paused", "log"}

\* T has what S has, but for the fields in F.
Frame(S, T, F) == \A f \in Fields \ F : T[f] = S[f]

LEMMA FrameTransitive ==
    ASSUME NEW S, NEW T, NEW U, NEW F, NEW G, Frame(S, T, F), Frame(T, U, G)
    PROVE  Frame(S, U, F \cup G)
BY DEF Frame

LEMMA FieldTypes ==
    ASSUME NEW S \in StoresType
    PROVE  /\ S.positions \in [Positions -> PositionType]
           /\ S.open_positions \in [Users -> Nat]
           /\ S.total_trades \in [Users -> Nat]
           /\ S.daily_trades \in [Users -> Nat]
           /\ S.orders \in [Orders -> OrderStatus]
           /\ S.book \in [Orders -> Nat]
           /\ S.balances \in [Users -> BalanceType]
           /\ S.users \in [Users -> {"None", "Known", "Vault"}]
           /\ S.oi \in Int
           /\ S.funding \in Nat
           /\ S.paused \in BOOLEAN
           /\ S.log \in Nat
BY DEF StoresType

\* What each operation of a store replaces, and with what.
\* A position is put into the table.
LEMMA PutPosition ==
    ASSUME NEW S \in StoresType, NEW p \in Positions, NEW pos \in PositionType
    PROVE  LET T == [S EXCEPT !.positions[p] = pos] IN
           /\ T \in StoresType
           /\ T.positions = [S.positions EXCEPT ![p] = pos]
           /\ Frame(S, T, {"positions"})
BY DEF StoresType, Frame, Fields

LEMMA UpdatePositionFields ==
    ASSUME NEW S \in StoresType, NEW p \in Positions, NEW pos \in PositionType
    PROVE  LET T == UpdatePosition(S, p, pos) IN
           /\ T \in StoresType
           /\ T.positions = IF S.positions[p].status = "None" THEN S.positions ELSE [S.positions EXCEPT ![p] = pos]
           /\ Frame(S, T, {"positions"})
BY DEF UpdatePosition, StoresType, Frame, Fields

LEMMA IncrementOpenFields ==
    ASSUME NEW S \in StoresType, NEW u \in Users
    PROVE  LET T == IncrementOpen(S, u) IN
           /\ T \in StoresType
           /\ T.open_positions = [S.open_positions EXCEPT ![u] = @ + 1]
           /\ Frame(S, T, {"open_positions"})
BY DEF IncrementOpen, StoresType, Frame, Fields

LEMMA DecrementOpenFields ==
    ASSUME NEW S \in StoresType, NEW u \in Users
    PROVE  LET T == DecrementOpen(S, u) IN
           /\ T \in StoresType
           /\ T.open_positions = [S.open_positions EXCEPT ![u] = IF @ > 0 THEN @ - 1 ELSE 0]
           /\ Frame(S, T, {"open_positions"})
BY DEF DecrementOpen, StoresType, Frame, Fields

LEMMA IncrementTradeFields ==
    ASSUME NEW S \in StoresType, NEW u \in Users
    PROVE  LET T == IncrementTrade(S, u) IN
           /\ T \in StoresType
           /\ T.total_trades = [S.total_trades EXCEPT ![u] = @ + 1]
           /\ Frame(S, T, {"total_trades"})
BY DEF IncrementTrade, StoresType, Frame, Fields

LEMMA AccumulateDailyFields ==
    ASSUME NEW S \in StoresType, NEW u \in Users
    PROVE  LET T == AccumulateDaily(S, u) IN
           /\ T \in StoresType
           /\ T.daily_trades = [S.daily_trades EXCEPT ![u] = @ + 1]
           /\ Frame(S, T, {"daily_trades"})
BY SMTT(30) DEF AccumulateDaily, StoresType, Frame, Fields

LEMMA AddOIFields ==
    ASSUME NEW S \in StoresType, NEW d \in Int
    PROVE  LET T == AddOI(S, d) IN
           /\ T \in StoresType
           /\ T.oi = S.oi + d
           /\ Frame(S, T, {"oi"})
BY DEF AddOI, StoresType, Frame, Fields

LEMMA AppendLogFields ==
    ASSUME NEW S \in StoresType
    PROVE  LET T == AppendLog(S) IN
           /\ T \in StoresType
           /\ Frame(S, T, {"log"})
BY DEF AppendLog, StoresType, Frame, Fields

LEMMA EnsureFields ==
    ASSUME NEW S \in StoresType, NEW u \in Users
    PROVE  LET T == Ensure(S, u) IN
           /\ T \in StoresType
           /\ T.users = [S.users EXCEPT ![u] = IF @ = "None" THEN "Known" ELSE @]
           /\ Frame(S, T, {"users"})
BY DEF Ensure, StoresType, Frame, Fields

LEMMA SetVaultFields ==
    ASSUME NEW S \in StoresType, NEW u \in Users
    PROVE  LET T == SetVault(S, u) IN
           /\ T \in StoresType
           /\ T.users = [S.users EXCEPT ![u] = IF @ = "None" THEN @ ELSE "Vault"]
           /\ Frame(S, T, {"users"})
BY DEF SetVault, StoresType, Frame, Fields

LEMMA InsertOrderFields ==
    ASSUME NEW S \in StoresType, NEW o \in Orders
    PROVE  LET T == InsertOrder(S, o) IN
           /\ T \in StoresType
           /\ T.orders = [S.orders EXCEPT ![o] = "Active"]
           /\ T.book = [S.book EXCEPT ![o] = @ + 1]
           /\ Frame(S, T, {"orders", "book"})
<1> DEFINE S1 == [S EXCEPT !.orders[o] = "Active"]
           T == [S1 EXCEPT !.book[o] = @ + 1]
<1>1. S1 \in StoresType /\ S1.orders = [S.orders EXCEPT ![o] = "Active"] /\ Frame(S, S1, {"orders"})
  BY DEF OrderStatus, StoresType, Frame, Fields
<1>2. T = InsertOrder(S, o)
  BY DEF InsertOrder
<1> HIDE DEF S1
<1>3. T \in StoresType /\ T.book = [S1.book EXCEPT ![o] = @ + 1] /\ Frame(S1, T, {"book"})
  <2>1. S1.book \in [Orders -> Nat] /\ S1 \in StoresType
    BY <1>1, FieldTypes
  <2>2. [S1.book EXCEPT ![o] = @ + 1] \in [Orders -> Nat]
    BY <2>1
  <2>3. T \in StoresType
    BY <2>1, <2>2 DEF StoresType
  <2>4. T.book = [S1.book EXCEPT ![o] = @ + 1]
    BY <2>1 DEF StoresType
  <2>5. Frame(S1, T, {"book"})
    BY <2>1 DEF StoresType, Frame, Fields
  <2> QED
    BY <2>3, <2>4, <2>5
<1> HIDE DEF T
<1>4. Frame(S, T, {"orders"} \cup {"book"})
  BY <1>1, <1>3, FrameTransitive
<1>5. S1.book = S.book /\ T.orders = S1.orders
  BY <1>1, <1>3 DEF Frame, Fields
<1>6. {"orders"} \cup {"book"} = {"orders", "book"}
  OBVIOUS
<1> QED
  BY <1>1, <1>2, <1>3, <1>4, <1>5, <1>6

\* How an order ends.
Ending == {"Executed", "Cancelled"}

LEMMA EndOrderFields ==
    ASSUME NEW S \in StoresType, NEW o \in Orders, NEW status \in Ending, S.orders[o] # "None"
    PROVE  LET T == EndOrder(S, o, status) IN
           /\ T \in StoresType
           /\ T.orders = [S.orders EXCEPT ![o] = status]
           /\ T.book = IF S.orders[o] = "Active" THEN [S.book EXCEPT ![o] = 0] ELSE S.book
           /\ Frame(S, T, {"orders", "book"})
BY DEF EndOrder, Ending, OrderStatus, StoresType, Frame, Fields

\* The balance that set_raw() leaves of b.
NewBalance(b, a, v) == [amount |-> a, locked |-> b.locked, available |-> v]

LEMMA SetBalanceFields ==
    ASSUME NEW S \in StoresType, NEW u \in Users, NEW a \in Nat, NEW v \in Nat
    PROVE  LET T == SetBalance(S, u, a, v) IN
           /\ T \in StoresType
           /\ T.balances = [S.balances EXCEPT ![u] = NewBalance(@, a, v)]
           /\ Frame(S, T, {"balances"})
BY DEF SetBalance, NewBalance, BalanceType, StoresType, Frame, Fields

LEMMA FundingSetFields ==
    ASSUME NEW S \in StoresType, NEW r \in Nat
    PROVE  LET T == FundingSet(S, r) IN
           /\ T \in StoresType
           /\ T.funding = r
           /\ Frame(S, T, {"funding"})
BY DEF FundingSet, StoresType, Frame, Fields

LEMMA PausedFields ==
    ASSUME NEW S \in StoresType
    PROVE  LET T == Paused(S) IN
           /\ T \in StoresType
           /\ T.paused = TRUE
           /\ Frame(S, T, {"paused"})
BY DEF Paused, StoresType, Frame, Fields

LEMMA RestoreFields ==
    ASSUME NEW S \in StoresType
    PROVE  LET T == Restore(S) IN
           /\ T \in StoresType
           /\ T.book = [o \in Orders |-> IF S.orders[o] = "Active" THEN 1 ELSE 0]
           /\ Frame(S, T, {"book", "log"})
BY DEF Restore, StoresType, Frame, Fields

-----------------------------------------------------------------------------
(* What the two matches do to the stores, event by event.                  *)

\* In T position p has this status and size; the other positions are as in S.
Moved(S, T, p, status, size) ==
    /\ T.positions[p].status = status
    /\ T.positions[p].size = size
    /\ \A q \in Positions \ {p} : T.positions[q] = S.positions[q]

\* The two position tables after a match arm: opening, closing, liquidating.
LEMMA OpenedFields ==
    ASSUME NEW S \in StoresType, NEW p \in Positions, NEW size \in Size
    PROVE  LET T == Opened(S, p, size) IN
           /\ T \in StoresType
           /\ T.users = [S.users EXCEPT ![Owner[p]] = IF @ = "None" THEN "Known" ELSE @]
           /\ T.open_positions = [S.open_positions EXCEPT ![Owner[p]] = @ + 1]
           /\ T.oi = S.oi + size
           /\ Frame(S, T, {"positions", "users", "open_positions", "oi"})
           /\ Moved(S, T, p, "Open", size)
<1> DEFINE u == Owner[p]
           pos == [status |-> "Open", size |-> size, priced |-> TRUE, closing |-> FALSE]
           S1 == [S EXCEPT !.positions[p] = pos]
           S2 == Ensure(S1, u)
           S3 == IncrementOpen(S2, u)
           T == AddOI(S3, size)
<1>1. u \in Users /\ size \in Int /\ pos \in PositionType /\ pos.status = "Open" /\ pos.size = size
  BY EngineAssumption DEF Size, PositionType
<1>2. T = Opened(S, p, size)
  BY DEF Opened
<1> HIDE DEF u, pos
<1>3. S1 \in StoresType /\ S1.positions = [S.positions EXCEPT ![p] = pos] /\ Frame(S, S1, {"positions"})
  BY <1>1, PutPosition
<1> HIDE DEF S1
<1>4. S2 \in StoresType /\ S2.users = [S1.users EXCEPT ![u] = IF @ = "None" THEN "Known" ELSE @] /\ Frame(S1, S2, {"users"})
  BY <1>1, <1>3, EnsureFields
<1> HIDE DEF S2
<1>5. S3 \in StoresType /\ S3.open_positions = [S2.open_positions EXCEPT ![u] = @ + 1] /\ Frame(S2, S3, {"open_positions"})
  BY <1>1, <1>4, IncrementOpenFields
<1> HIDE DEF S3
<1>6. T \in StoresType /\ T.oi = S3.oi + size /\ Frame(S3, T, {"oi"})
  BY <1>1, <1>5, AddOIFields
<1> HIDE DEF T
<1>7. Frame(S, T, {"positions", "users", "open_positions", "oi"})
  BY <1>3, <1>4, <1>5, <1>6 DEF Frame
<1>8. T.positions = S1.positions /\ T.users = S2.users /\ T.open_positions = S3.open_positions
      /\ S1.users = S.users /\ S2.open_positions = S.open_positions /\ S3.oi = S.oi
  BY <1>3, <1>4, <1>5, <1>6 DEF Frame, Fields
<1>9. Moved(S, T, p, "Open", size)
  BY <1>1, <1>3, <1>8, FieldTypes DEF Moved
<1> QED
  BY <1>2, <1>4, <1>5, <1>6, <1>7, <1>8, <1>9 DEF u

LEMMA ReplayOpenedFields ==
    ASSUME NEW S \in StoresType, NEW p \in Positions, NEW size \in Size
    PROVE  LET T == ReplayOpened(S, p, size) IN
           /\ T \in StoresType
           /\ T.users = [S.users EXCEPT ![Owner[p]] = IF @ = "None" THEN "Known" ELSE @]
           /\ T.open_positions = [S.open_positions EXCEPT ![Owner[p]] = @ + 1]
           /\ Frame(S, T, {"positions", "users", "open_positions"})
           /\ Moved(S, T, p, "Open", size)
<1> DEFINE u == Owner[p]
           pos == [status |-> "Open", size |-> size, priced |-> FALSE, closing |-> FALSE]
           S1 == [S EXCEPT !.positions[p] = pos]
           S2 == Ensure(S1, u)
           T == IncrementOpen(S2, u)
<1>1. u \in Users /\ size \in Int /\ pos \in PositionType /\ pos.status = "Open" /\ pos.size = size
  BY EngineAssumption DEF Size, PositionType
<1>2. T = ReplayOpened(S, p, size)
  BY DEF ReplayOpened
<1> HIDE DEF u, pos
<1>3. S1 \in StoresType /\ S1.positions = [S.positions EXCEPT ![p] = pos] /\ Frame(S, S1, {"positions"})
  BY <1>1, PutPosition
<1> HIDE DEF S1
<1>4. S2 \in StoresType /\ S2.users = [S1.users EXCEPT ![u] = IF @ = "None" THEN "Known" ELSE @] /\ Frame(S1, S2, {"users"})
  BY <1>1, <1>3, EnsureFields
<1> HIDE DEF S2
<1>5. T \in StoresType /\ T.open_positions = [S2.open_positions EXCEPT ![u] = @ + 1] /\ Frame(S2, T, {"open_positions"})
  BY <1>1, <1>4, IncrementOpenFields
<1> HIDE DEF T
<1>7. Frame(S, T, {"positions", "users", "open_positions"})
  BY <1>3, <1>4, <1>5 DEF Frame
<1>8. T.positions = S1.positions /\ T.users = S2.users
      /\ S1.users = S.users /\ S2.open_positions = S.open_positions
  BY <1>3, <1>4, <1>5 DEF Frame, Fields
<1>9. Moved(S, T, p, "Open", size)
  BY <1>1, <1>3, <1>8, FieldTypes DEF Moved
<1> QED
  BY <1>2, <1>4, <1>5, <1>7, <1>8, <1>9 DEF u

\* A trade of a trader, and a close, as both matches count them.
LEMMA TradeFields ==
    ASSUME NEW S \in StoresType, NEW u \in Users
    PROVE  LET T == AccumulateDaily(IncrementTrade(S, u), u) IN
           /\ T \in StoresType
           /\ T.total_trades = [S.total_trades EXCEPT ![u] = @ + 1]
           /\ T.daily_trades = [S.daily_trades EXCEPT ![u] = @ + 1]
           /\ Frame(S, T, {"total_trades", "daily_trades"})
<1> DEFINE S1 == IncrementTrade(S, u)
           T == AccumulateDaily(S1, u)
<1>1. S1 \in StoresType /\ S1.total_trades = [S.total_trades EXCEPT ![u] = @ + 1] /\ Frame(S, S1, {"total_trades"})
  BY IncrementTradeFields
<1> HIDE DEF S1
<1>2. T \in StoresType /\ T.daily_trades = [S1.daily_trades EXCEPT ![u] = @ + 1] /\ Frame(S1, T, {"daily_trades"})
  BY <1>1, AccumulateDailyFields
<1> HIDE DEF T
<1>3. Frame(S, T, {"total_trades", "daily_trades"})
  BY <1>1, <1>2 DEF Frame
<1>4. T.total_trades = S1.total_trades /\ S1.daily_trades = S.daily_trades
  BY <1>1, <1>2 DEF Frame, Fields
<1> QED
  BY <1>1, <1>2, <1>3, <1>4 DEF S1, T

\* What both matches do for a close of a known position.
CountedClose(S, p, new, full) ==
    LET T == AccumulateDaily(IncrementTrade(UpdatePosition(S, p, new), Owner[p]), Owner[p])
    IN  IF full THEN DecrementOpen(T, Owner[p]) ELSE T

LEMMA CountedCloseFields ==
    ASSUME NEW S \in StoresType, NEW p \in Positions, NEW new \in PositionType, NEW full \in BOOLEAN,
           S.positions[p].status # "None"
    PROVE  LET T == CountedClose(S, p, new, full) IN
           /\ T \in StoresType
           /\ T.positions = [S.positions EXCEPT ![p] = new]
           /\ T.total_trades = [S.total_trades EXCEPT ![Owner[p]] = @ + 1]
           /\ T.daily_trades = [S.daily_trades EXCEPT ![Owner[p]] = @ + 1]
           /\ T.open_positions = IF full THEN [S.open_positions EXCEPT ![Owner[p]] = IF @ > 0 THEN @ - 1 ELSE 0]
                                 ELSE S.open_positions
           /\ Frame(S, T, {"positions", "total_trades", "daily_trades", "open_positions"})
<1> DEFINE u == Owner[p]
           S1 == UpdatePosition(S, p, new)
           S2 == AccumulateDaily(IncrementTrade(S1, u), u)
           S3 == DecrementOpen(S2, u)
           T == CountedClose(S, p, new, full)
<1>1. u \in Users
  BY EngineAssumption
<1>2. T = IF full THEN S3 ELSE S2
  BY DEF CountedClose
<1> HIDE DEF u
<1>3. S1 \in StoresType /\ S1.positions = [S.positions EXCEPT ![p] = new] /\ Frame(S, S1, {"positions"})
  BY <1>1, UpdatePositionFields
<1> HIDE DEF S1
<1>4. /\ S2 \in StoresType
      /\ S2.total_trades = [S1.total_trades EXCEPT ![u] = @ + 1]
      /\ S2.daily_trades = [S1.daily_trades EXCEPT ![u] = @ + 1]
      /\ Frame(S1, S2, {"total_trades", "daily_trades"})
  BY <1>1, <1>3, TradeFields
<1> HIDE DEF S2
<1>5. /\ S3 \in StoresType
      /\ S3.open_positions = [S2.open_positions EXCEPT ![u] = IF @ > 0 THEN @ - 1 ELSE 0]
      /\ Frame(S2, S3, {"open_positions"})
  BY <1>1, <1>4, DecrementOpenFields
<1> HIDE DEF S3, T
<1>6. /\ S2.positions = S1.positions /\ S1.total_trades = S.total_trades
      /\ S1.daily_trades = S.daily_trades /\ S2.open_positions = S.open_positions
      /\ Frame(S, S2, {"positions", "total_trades", "daily_trades", "open_positions"})
  BY <1>3, <1>4 DEF Frame, Fields
<1>7. /\ S3.positions = S2.positions /\ S3.total_trades = S2.total_trades
      /\ S3.daily_trades = S2.daily_trades
      /\ Frame(S, S3, {"positions", "total_trades", "daily_trades", "open_positions"})
  BY <1>5, <1>6 DEF Frame, Fields
<1>8. CASE full
  <2>1. T = S3
    BY <1>2, <1>8
  <2> QED
    BY <1>3, <1>4, <1>5, <1>6, <1>7, <1>8, <2>1 DEF u, T
<1>9. CASE ~full
  <2>1. T = S2
    BY <1>2, <1>9
  <2> QED
    BY <1>3, <1>4, <1>6, <1>9, <2>1 DEF u, T
<1> QED
  BY <1>8, <1>9

\* The position a close leaves behind.
LEMMA ClosedFields ==
    ASSUME NEW S \in StoresType, NEW p \in Positions, NEW size \in Size, NEW full \in BOOLEAN,
           S.positions[p].status # "None"
    PROVE  LET T == Closed(S, p, size, full)
               old == S.positions[p] IN
           /\ T \in StoresType
           /\ Moved(S, T, p, IF full THEN "Closed" ELSE old.status, IF full THEN old.size ELSE old.size - size)
           /\ T.total_trades = [S.total_trades EXCEPT ![Owner[p]] = @ + 1]
           /\ T.daily_trades = [S.daily_trades EXCEPT ![Owner[p]] = @ + 1]
           /\ T.open_positions = IF full THEN [S.open_positions EXCEPT ![Owner[p]] = IF @ > 0 THEN @ - 1 ELSE 0]
                                 ELSE S.open_positions
           /\ T.oi = S.oi - size
           /\ Frame(S, T, {"positions", "total_trades", "daily_trades", "open_positions", "oi"})
<1> DEFINE old == S.positions[p]
           new == [old EXCEPT !.status = IF full THEN "Closed" ELSE @, !.size = IF full THEN @ ELSE @ - size,
                              !.closing = TRUE]
           D == CountedClose(S, p, new, full)
           T == AddOI(D, -size)
<1>1. old \in PositionType /\ -size \in Int /\ size \in Int
  BY FieldTypes DEF Size
<1>2. T = Closed(S, p, size, full)
  BY DEF Closed, CountedClose
<1>3. /\ new \in PositionType
      /\ new.status = IF full THEN "Closed" ELSE old.status
      /\ new.size = IF full THEN old.size ELSE old.size - size
  <2> DEFINE st == IF full THEN "Closed" ELSE old.status
             sz == IF full THEN old.size ELSE old.size - size
             n1 == [old EXCEPT !.status = st]
             n2 == [n1 EXCEPT !.size = sz]
             n3 == [n2 EXCEPT !.closing = TRUE]
  <2>1. st \in {"None", "Open", "Closed", "Liquidated"} /\ sz \in Int
    BY <1>1 DEF PositionType
  <2>2. new = n3
    BY Zenon
  <2> HIDE DEF st, sz, old, new
  <2>3. n1 \in PositionType /\ n1.status = st
    BY <1>1, <2>1 DEF PositionType
  <2> HIDE DEF n1
  <2>4. n2 \in PositionType /\ n2.status = st /\ n2.size = sz
    BY <2>1, <2>3 DEF PositionType
  <2> HIDE DEF n2
  <2>5. n3 \in PositionType /\ n3.status = st /\ n3.size = sz
    BY <2>4 DEF PositionType
  <2> HIDE DEF n3
  <2> QED
    BY <2>2, <2>5, Zenon DEF st, sz
<1> HIDE DEF old, new
<1>4. /\ D \in StoresType
      /\ D.positions = [S.positions EXCEPT ![p] = new]
      /\ D.total_trades = [S.total_trades EXCEPT ![Owner[p]] = @ + 1]
      /\ D.daily_trades = [S.daily_trades EXCEPT ![Owner[p]] = @ + 1]
      /\ D.open_positions = IF full THEN [S.open_positions EXCEPT ![Owner[p]] = IF @ > 0 THEN @ - 1 ELSE 0]
                            ELSE S.open_positions
      /\ Frame(S, D, {"positions", "total_trades", "daily_trades", "open_positions"})
  BY <1>3, CountedCloseFields
<1> HIDE DEF D
<1>5. T \in StoresType /\ T.oi = D.oi + -size /\ Frame(D, T, {"oi"})
  BY <1>1, <1>4, AddOIFields
<1> HIDE DEF T
<1>6. Frame(S, T, {"positions", "total_trades", "daily_trades", "open_positions", "oi"})
  BY <1>4, <1>5 DEF Frame
<1>7. /\ T.positions = D.positions /\ T.total_trades = D.total_trades
      /\ T.daily_trades = D.daily_trades /\ T.open_positions = D.open_positions
      /\ T.oi = S.oi - size
  <2>1. D.oi = S.oi /\ S.oi \in Int
    BY <1>4, FieldTypes DEF Frame, Fields
  <2> QED
    BY <1>1, <1>5, <2>1 DEF Frame, Fields
<1>8. Moved(S, T, p, IF full THEN "Closed" ELSE old.status, IF full THEN old.size ELSE old.size - size)
  BY <1>3, <1>4, <1>7, FieldTypes DEF Moved
<1> QED
  BY <1>2, <1>4, <1>5, <1>6, <1>7, <1>8 DEF old

LEMMA ReplayClosedFields ==
    ASSUME NEW S \in StoresType, NEW p \in Positions, NEW size \in Size, NEW full \in BOOLEAN,
           S.positions[p].status # "None"
    PROVE  LET T == ReplayClosed(S, p, size, full)
               old == S.positions[p] IN
           /\ T \in StoresType
           /\ Moved(S, T, p, IF full THEN "Closed" ELSE old.status, IF full THEN old.size ELSE old.size - size)
           /\ T.total_trades = [S.total_trades EXCEPT ![Owner[p]] = @ + 1]
           /\ T.daily_trades = [S.daily_trades EXCEPT ![Owner[p]] = @ + 1]
           /\ T.open_positions = IF full THEN [S.open_positions EXCEPT ![Owner[p]] = IF @ > 0 THEN @ - 1 ELSE 0]
                                 ELSE S.open_positions
           /\ Frame(S, T, {"positions", "total_trades", "daily_trades", "open_positions"})
<1> DEFINE old == S.positions[p]
           new == [old EXCEPT !.status = IF full THEN "Closed" ELSE @, !.size = IF full THEN @ ELSE @ - size]
           T == CountedClose(S, p, new, full)
<1>1. old \in PositionType /\ size \in Int
  BY FieldTypes DEF Size
<1>2. T = ReplayClosed(S, p, size, full)
  BY DEF ReplayClosed, CountedClose
<1>3. /\ new \in PositionType
      /\ new.status = IF full THEN "Closed" ELSE old.status
      /\ new.size = IF full THEN old.size ELSE old.size - size
  <2> DEFINE st == IF full THEN "Closed" ELSE old.status
             sz == IF full THEN old.size ELSE old.size - size
             n1 == [old EXCEPT !.status = st]
             n2 == [n1 EXCEPT !.size = sz]
  <2>1. st \in {"None", "Open", "Closed", "Liquidated"} /\ sz \in Int
    BY <1>1 DEF PositionType
  <2>2. new = n2
    BY Zenon
  <2> HIDE DEF st, sz, old, new
  <2>3. n1 \in PositionType /\ n1.status = st
    BY <1>1, <2>1 DEF PositionType
  <2> HIDE DEF n1
  <2>4. n2 \in PositionType /\ n2.status = st /\ n2.size = sz
    BY <2>1, <2>3 DEF PositionType
  <2> HIDE DEF n2
  <2> QED
    BY <2>2, <2>4, Zenon DEF st, sz
<1> HIDE DEF old, new
<1>4. /\ T \in StoresType
      /\ T.positions = [S.positions EXCEPT ![p] = new]
      /\ T.total_trades = [S.total_trades EXCEPT ![Owner[p]] = @ + 1]
      /\ T.daily_trades = [S.daily_trades EXCEPT ![Owner[p]] = @ + 1]
      /\ T.open_positions = IF full THEN [S.open_positions EXCEPT ![Owner[p]] = IF @ > 0 THEN @ - 1 ELSE 0]
                            ELSE S.open_positions
      /\ Frame(S, T, {"positions", "total_trades", "daily_trades", "open_positions"})
  BY <1>3, CountedCloseFields
<1> HIDE DEF T
<1>5. Moved(S, T, p, IF full THEN "Closed" ELSE old.status, IF full THEN old.size ELSE old.size - size)
  BY <1>3, <1>4, FieldTypes DEF Moved
<1> QED
  BY <1>2, <1>4, <1>5 DEF old

\* A liquidation, as both matches count it: `new' is the position it leaves.
CountedLiquidation(S, p, new) ==
    DecrementOpen(IncrementTrade(UpdatePosition(S, p, new), Owner[p]), Owner[p])

LEMMA LiquidatedFields ==
    ASSUME NEW S \in StoresType, NEW p \in Positions, NEW new \in PositionType,
           S.positions[p].status # "None"
    PROVE  LET T == CountedLiquidation(S, p, new) IN
           /\ T \in StoresType
           /\ T.positions = [S.positions EXCEPT ![p] = new]
           /\ T.total_trades = [S.total_trades EXCEPT ![Owner[p]] = @ + 1]
           /\ T.open_positions = [S.open_positions EXCEPT ![Owner[p]] = IF @ > 0 THEN @ - 1 ELSE 0]
           /\ Frame(S, T, {"positions", "total_trades", "open_positions"})
<1> DEFINE u == Owner[p]
           S1 == UpdatePosition(S, p, new)
           S2 == IncrementTrade(S1, u)
           T == DecrementOpen(S2, u)
<1>1. u \in Users
  BY EngineAssumption
<1> HIDE DEF u
<1>3. S1 \in StoresType /\ S1.positions = [S.positions EXCEPT ![p] = new] /\ Frame(S, S1, {"positions"})
  BY <1>1, UpdatePositionFields
<1> HIDE DEF S1
<1>4. S2 \in StoresType /\ S2.total_trades = [S1.total_trades EXCEPT ![u] = @ + 1] /\ Frame(S1, S2, {"total_trades"})
  BY <1>1, <1>3, IncrementTradeFields
<1> HIDE DEF S2
<1>5. /\ T \in StoresType
      /\ T.open_positions = [S2.open_positions EXCEPT ![u] = IF @ > 0 THEN @ - 1 ELSE 0]
      /\ Frame(S2, T, {"open_positions"})
  BY <1>1, <1>4, DecrementOpenFields
<1> HIDE DEF T
<1>6. /\ T.positions = S1.positions /\ T.total_trades = S2.total_trades
      /\ S1.total_trades = S.total_trades /\ S2.open_positions = S.open_positions
      /\ Frame(S, T, {"positions", "total_trades", "open_positions"})
  BY <1>3, <1>4, <1>5 DEF Frame, Fields
<1>7. T = CountedLiquidation(S, p, new)
  BY DEF CountedLiquidation, T, S2, S1, u
<1> QED
  BY <1>3, <1>4, <1>5, <1>6, <1>7 DEF u

-----------------------------------------------------------------------------
(* Counting open positions.                                                *)

LEMMA OpenFinite ==
    ASSUME NEW S, NEW u
    PROVE  IsFiniteSet(OpenOf(S, u)) /\ Cardinality(OpenOf(S, u)) \in Nat
<1>1. OpenOf(S, u) \subseteq Positions
  BY DEF OpenOf
<1>2. IsFiniteSet(OpenOf(S, u))
  BY <1>1, EngineAssumption, FS_Subset
<1> QED
  BY <1>2, FS_CardinalityType

\* A trader's count is kept, grows or shrinks with the one position that moved.
LEMMA CountKept ==
    ASSUME NEW S, NEW T, \A q \in Positions : T.positions[q].status = S.positions[q].status
    PROVE  \A u \in Users : OpenOf(T, u) = OpenOf(S, u)
BY DEF OpenOf

LEMMA CountUp ==
    ASSUME NEW S \in StoresType, NEW T, NEW p \in Positions,
           NEW size, S.positions[p].status # "Open", Moved(S, T, p, "Open", size),
           T.open_positions = [S.open_positions EXCEPT ![Owner[p]] = @ + 1],
           Counted(S)
    PROVE  Counted(T)
<1> SUFFICES ASSUME NEW u \in Users PROVE T.open_positions[u] = Cardinality(OpenOf(T, u))
  BY DEF Counted
<1>1. S.open_positions \in [Users -> Nat]
  BY FieldTypes
<1>2. CASE u = Owner[p]
  <2>1. OpenOf(T, u) = OpenOf(S, u) \cup {p} /\ p \notin OpenOf(S, u)
    BY <1>2 DEF OpenOf, Moved
  <2>2. Cardinality(OpenOf(T, u)) = Cardinality(OpenOf(S, u)) + 1
    BY <2>1, OpenFinite, FS_AddElement
  <2> QED
    BY <1>1, <1>2, <2>2 DEF Counted
<1>3. CASE u # Owner[p]
  <2>1. OpenOf(T, u) = OpenOf(S, u)
    BY <1>3 DEF OpenOf, Moved
  <2> QED
    BY <1>1, <1>3, <2>1 DEF Counted
<1> QED
  BY <1>2, <1>3

LEMMA CountDown ==
    ASSUME NEW S \in StoresType, NEW T, NEW p \in Positions,
           NEW status, NEW size, S.positions[p].status = "Open", status # "Open", Moved(S, T, p, status, size),
           T.open_positions = [S.open_positions EXCEPT ![Owner[p]] = IF @ > 0 THEN @ - 1 ELSE 0],
           Counted(S)
    PROVE  Counted(T)
<1> SUFFICES ASSUME NEW u \in Users PROVE T.open_positions[u] = Cardinality(OpenOf(T, u))
  BY DEF Counted
<1>1. S.open_positions \in [Users -> Nat]
  BY FieldTypes
<1>2. CASE u = Owner[p]
  <2>1. OpenOf(T, u) = OpenOf(S, u) \ {p} /\ p \in OpenOf(S, u)
    BY <1>2 DEF OpenOf, Moved
  <2>2. Cardinality(OpenOf(T, u)) = Cardinality(OpenOf(S, u)) - 1
    <3> DEFINE open == OpenOf(S, u)
    <3>1. IsFiniteSet(open) /\ p \in open
      BY <2>1, OpenFinite
    <3> HIDE DEF open
    <3>2. Cardinality(open \ {p}) = Cardinality(open) - 1
      BY <3>1, FS_RemoveElement
    <3> QED
      BY <2>1, <3>2 DEF open
  <2>3. Cardinality(OpenOf(T, u)) \in Nat /\ Cardinality(OpenOf(S, u)) \in Nat
    BY OpenFinite
  <2>4. Cardinality(OpenOf(S, u)) = S.open_positions[u]
    BY DEF Counted
  <2> HIDE DEF OpenOf, Moved
  <2> QED
    BY <1>1, <1>2, <2>2, <2>3, <2>4
<1>3. CASE u # Owner[p]
  <2>1. OpenOf(T, u) = OpenOf(S, u)
    BY <1>3 DEF OpenOf, Moved
  <2> QED
    BY <1>1, <1>3, <2>1 DEF Counted
<1> QED
  BY <1>2, <1>3

-----------------------------------------------------------------------------
(* One lemma per event.                                                    *)

\* Both matches come after events.append(), which disturbs neither predicate.
LEMMA EventStep ==
    ASSUME TypeOK, NEW L \in StoresType, NEW R \in StoresType, Event(L, R),
           chain' \in [Positions -> 0..MaxSize], ledger' \in [Users -> 0..MaxSize],
           modified' \subseteq Positions, unsettled' \in BOOLEAN,
           Sound(L, chain'), Agree(L, R, modified')
    PROVE  Inv'
<1>1. live' = AppendLog(L) /\ rebuilt' = AppendLog(R) /\ events' \in Nat /\ restarts' \in Nat
  BY DEF Event, TypeOK
<1>2. live' \in StoresType /\ Frame(L, live', {"log"})
  BY <1>1, AppendLogFields
<1>3. rebuilt' \in StoresType /\ Frame(R, rebuilt', {"log"})
  BY <1>1, AppendLogFields
<1>4. /\ live'.positions = L.positions /\ live'.open_positions = L.open_positions
      /\ live'.total_trades = L.total_trades /\ live'.daily_trades = L.daily_trades
      /\ live'.orders = L.orders /\ live'.book = L.book /\ live'.balances = L.balances
      /\ live'.users = L.users /\ live'.funding = L.funding /\ live'.paused = L.paused
  BY <1>2 DEF Frame, Fields
<1>5. /\ rebuilt'.positions = R.positions /\ rebuilt'.open_positions = R.open_positions
      /\ rebuilt'.total_trades = R.total_trades /\ rebuilt'.daily_trades = R.daily_trades
      /\ rebuilt'.orders = R.orders /\ rebuilt'.book = R.book /\ rebuilt'.balances = R.balances
      /\ rebuilt'.users = R.users /\ rebuilt'.funding = R.funding /\ rebuilt'.paused = R.paused
  BY <1>3 DEF Frame, Fields
<1>6. TypeOK'
  BY <1>1, <1>2, <1>3 DEF TypeOK
<1>7. \A u \in Users : OpenOf(live', u) = OpenOf(L, u)
  BY <1>4 DEF OpenOf
<1>8. Sound(live', chain')
  BY <1>4, <1>7 DEF Sound, Counted
<1>9. Agree(live', rebuilt', modified')
  BY <1>4, <1>5 DEF Agree
<1>10. (Sound(live, chain) /\ Agree(live, rebuilt, modified))'
  BY <1>8, <1>9 DEF Sound, Counted, Agree, OpenOf
<1> QED
  BY <1>6, <1>10 DEF Inv

LEMMA OpenedStep ==
    ASSUME Inv, NEW p \in Positions, NEW size \in Size, PositionOpened(p, size)
    PROVE  Inv'
<1> DEFINE L == Opened(live, p, size)
           R == ReplayOpened(rebuilt, p, size)
<1>1. TypeOK /\ live \in StoresType /\ rebuilt \in StoresType /\ Sound(live, chain) /\ Agree(live, rebuilt, modified)
  BY DEF Inv, TypeOK
<1>2. /\ Event(L, R) /\ live.positions[p].status = "None" /\ size \in 0..MaxSize /\ size \in Int
      /\ chain' = [chain EXCEPT ![p] = size] /\ UNCHANGED <<ledger, modified, unsettled>>
  BY DEF PositionOpened, Size
<1>3. /\ L \in StoresType
      /\ L.users = [live.users EXCEPT ![Owner[p]] = IF @ = "None" THEN "Known" ELSE @]
      /\ L.open_positions = [live.open_positions EXCEPT ![Owner[p]] = @ + 1]
      /\ Frame(live, L, {"positions", "users", "open_positions", "oi"})
      /\ Moved(live, L, p, "Open", size)
  BY <1>1, OpenedFields
<1>4. /\ R \in StoresType
      /\ R.users = [rebuilt.users EXCEPT ![Owner[p]] = IF @ = "None" THEN "Known" ELSE @]
      /\ R.open_positions = [rebuilt.open_positions EXCEPT ![Owner[p]] = @ + 1]
      /\ Frame(rebuilt, R, {"positions", "users", "open_positions"})
      /\ Moved(rebuilt, R, p, "Open", size)
  BY <1>1, ReplayOpenedFields
<1> HIDE DEF L, R
<1>5. /\ L.orders = live.orders /\ L.book = live.book /\ L.balances = live.balances
      /\ L.funding = live.funding /\ L.paused = live.paused
      /\ L.total_trades = live.total_trades /\ L.daily_trades = live.daily_trades
  BY <1>3 DEF Frame, Fields
<1>6. /\ R.orders = rebuilt.orders /\ R.book = rebuilt.book /\ R.balances = rebuilt.balances
      /\ R.funding = rebuilt.funding /\ R.paused = rebuilt.paused
      /\ R.total_trades = rebuilt.total_trades /\ R.daily_trades = rebuilt.daily_trades
  BY <1>4 DEF Frame, Fields
<1>7. Counted(L)
  BY <1>1, <1>2, <1>3, CountUp DEF Sound
<1>8. chain' \in [Positions -> 0..MaxSize]
  BY <1>1, <1>2 DEF TypeOK
<1>9. Sound(L, chain')
  <2>1. \A q \in Positions : chain'[q] # 0 => L.positions[q].status = "Open"
    BY <1>1, <1>2, <1>3 DEF Sound, Moved, TypeOK
  <2> QED
    BY <1>1, <1>5, <1>7, <2>1 DEF Sound
<1>10. Agree(L, R, modified')
  BY <1>1, <1>2, <1>3, <1>4, <1>5, <1>6 DEF Agree, Moved
<1>11. ledger' \in [Users -> 0..MaxSize] /\ modified' \subseteq Positions /\ unsettled' \in BOOLEAN
  BY <1>1, <1>2 DEF TypeOK
<1> QED
  BY <1>1, <1>2, <1>3, <1>4, <1>8, <1>9, <1>10, <1>11, EventStep

LEMMA ClosedStep ==
    ASSUME Inv, NEW p \in Positions, NEW size \in Size, PositionClosed(p, size)
    PROVE  Inv'
<1> DEFINE full == size = chain[p]
           L == Closed(live, p, size, full)
           R == ReplayClosed(rebuilt, p, size, full)
           st == IF full THEN "Closed" ELSE live.positions[p].status
<1>1. TypeOK /\ live \in StoresType /\ rebuilt \in StoresType /\ Sound(live, chain) /\ Agree(live, rebuilt, modified)
  BY DEF Inv, TypeOK
<1>2. /\ Event(L, R) /\ chain[p] # 0 /\ size <= chain[p] /\ size \in Int
      /\ chain' = [chain EXCEPT ![p] = @ - size] /\ UNCHANGED <<ledger, modified, unsettled>>
  BY DEF PositionClosed, Size
<1>3. live.positions[p].status = "Open" /\ rebuilt.positions[p].status = "Open" /\ full \in BOOLEAN
  BY <1>1, <1>2 DEF Sound, Agree
<1>4. full <=> size = chain[p]
  OBVIOUS
<1> HIDE DEF full
<1>5. /\ L \in StoresType
      /\ Moved(live, L, p, st, IF full THEN live.positions[p].size ELSE live.positions[p].size - size)
      /\ L.total_trades = [live.total_trades EXCEPT ![Owner[p]] = @ + 1]
      /\ L.daily_trades = [live.daily_trades EXCEPT ![Owner[p]] = @ + 1]
      /\ L.open_positions = IF full THEN [live.open_positions EXCEPT ![Owner[p]] = IF @ > 0 THEN @ - 1 ELSE 0]
                            ELSE live.open_positions
      /\ Frame(live, L, {"positions", "total_trades", "daily_trades", "open_positions", "oi"})
  BY <1>1, <1>3, ClosedFields
<1>6. /\ R \in StoresType
      /\ Moved(rebuilt, R, p, IF full THEN "Closed" ELSE rebuilt.positions[p].status,
               IF full THEN rebuilt.positions[p].size ELSE rebuilt.positions[p].size - size)
      /\ R.total_trades = [rebuilt.total_trades EXCEPT ![Owner[p]] = @ + 1]
      /\ R.daily_trades = [rebuilt.daily_trades EXCEPT ![Owner[p]] = @ + 1]
      /\ R.open_positions = IF full THEN [rebuilt.open_positions EXCEPT ![Owner[p]] = IF @ > 0 THEN @ - 1 ELSE 0]
                            ELSE rebuilt.open_positions
      /\ Frame(rebuilt, R, {"positions", "total_trades", "daily_trades", "open_positions"})
  BY <1>1, <1>3, ReplayClosedFields
<1> HIDE DEF L, R
<1>7. /\ L.orders = live.orders /\ L.book = live.book /\ L.balances = live.balances
      /\ L.funding = live.funding /\ L.paused = live.paused /\ L.users = live.users
  BY <1>5 DEF Frame, Fields
<1>8. /\ R.orders = rebuilt.orders /\ R.book = rebuilt.book /\ R.balances = rebuilt.balances
      /\ R.funding = rebuilt.funding /\ R.paused = rebuilt.paused /\ R.users = rebuilt.users
  BY <1>6 DEF Frame, Fields
<1>9. Counted(L)
  <2>1. CASE full
    <3>1. st # "Open"
      BY <2>1
    <3> QED
      BY <1>1, <1>3, <1>5, <2>1, <3>1, CountDown DEF Sound
  <2>2. CASE ~full
    <3>1. \A u \in Users : OpenOf(L, u) = OpenOf(live, u)
      BY <1>5, <2>2, CountKept DEF Moved
    <3> QED
      BY <1>1, <1>5, <2>2, <3>1 DEF Sound, Counted
  <2> QED
    BY <2>1, <2>2
<1>10. chain[p] \in 0..MaxSize /\ size \in 1..MaxSize /\ MaxSize \in Nat
  BY <1>1, EngineAssumption DEF TypeOK, Size
<1>11. chain' \in [Positions -> 0..MaxSize]
  <2>1. chain[p] - size \in 0..MaxSize
    BY <1>2, <1>10
  <2> QED
    BY <1>1, <1>2, <2>1 DEF TypeOK
<1>12. Sound(L, chain')
  <2>1. \A q \in Positions : chain'[q] # 0 => L.positions[q].status = "Open"
    <3> TAKE q \in Positions
    <3> HAVE chain'[q] # 0
    <3>1. CASE q = p
      <4>1. chain'[p] = chain[p] - size
        BY <1>1, <1>2 DEF TypeOK
      <4>2. ~full
        BY <1>4, <1>10, <3>1, <4>1
      <4> QED
        BY <1>3, <1>5, <3>1, <4>2 DEF Moved
    <3>2. CASE q # p
      BY <1>1, <1>2, <1>5, <3>2 DEF Sound, Moved, TypeOK
    <3> QED
      BY <3>1, <3>2
  <2> QED
    BY <1>1, <1>7, <1>9, <2>1 DEF Sound
<1>13. Agree(L, R, modified')
  <2> HIDE DEF st
  <2>1. /\ \A q \in Positions : R.positions[q].status = L.positions[q].status
        /\ \A q \in Positions \ modified : R.positions[q].size = L.positions[q].size
    BY <1>1, <1>3, <1>5, <1>6 DEF Agree, Moved, st
  <2>2. R.total_trades = L.total_trades /\ R.daily_trades = L.daily_trades /\ R.open_positions = L.open_positions
    BY <1>1, <1>5, <1>6 DEF Agree
  <2> QED
    BY <1>1, <1>2, <1>7, <1>8, <2>1, <2>2 DEF Agree
<1>14. ledger' \in [Users -> 0..MaxSize] /\ modified' \subseteq Positions /\ unsettled' \in BOOLEAN
  BY <1>1, <1>2 DEF TypeOK
<1> QED
  BY <1>1, <1>2, <1>5, <1>6, <1>11, <1>12, <1>13, <1>14, EventStep

LEMMA ModifiedStep ==
    ASSUME Inv, NEW p \in Positions, NEW size \in Size, PositionModified(p, size)
    PROVE  Inv'
<1> DEFINE new == [live.positions[p] EXCEPT !.size = size]
           L == Modified(live, p, size)
<1>1. TypeOK /\ live \in StoresType /\ rebuilt \in StoresType /\ Sound(live, chain) /\ Agree(live, rebuilt, modified)
  BY DEF Inv, TypeOK
<1>2. /\ Event(L, rebuilt) /\ chain[p] # 0 /\ size \in 0..MaxSize /\ size \in Int
      /\ chain' = [chain EXCEPT ![p] = size] /\ modified' = modified \cup {p} /\ unsettled' \in BOOLEAN
      /\ UNCHANGED ledger
  BY DEF PositionModified, ReplayModified, Size
<1>3. live.positions[p].status = "Open" /\ live.positions[p] \in PositionType /\ live.positions \in [Positions -> PositionType]
  BY <1>1, <1>2, FieldTypes DEF Sound
<1>4. new \in PositionType /\ new.status = "Open" /\ new.size = size
  BY <1>2, <1>3 DEF PositionType
<1>5. L = UpdatePosition(live, p, new)
  BY DEF Modified
<1> HIDE DEF new, L
<1>6. L \in StoresType /\ L.positions = [live.positions EXCEPT ![p] = new] /\ Frame(live, L, {"positions"})
  BY <1>1, <1>3, <1>4, <1>5, UpdatePositionFields
<1>7. /\ L.orders = live.orders /\ L.book = live.book /\ L.balances = live.balances
      /\ L.funding = live.funding /\ L.paused = live.paused /\ L.users = live.users
      /\ L.total_trades = live.total_trades /\ L.daily_trades = live.daily_trades
      /\ L.open_positions = live.open_positions
  BY <1>6 DEF Frame, Fields
<1>8. /\ \A q \in Positions : L.positions[q].status = live.positions[q].status
      /\ \A q \in Positions \ {p} : L.positions[q] = live.positions[q]
  BY <1>3, <1>4, <1>6
<1>9. Counted(L)
  BY <1>1, <1>7, <1>8, CountKept DEF Sound, Counted
<1>10. chain' \in [Positions -> 0..MaxSize] /\ modified' \subseteq Positions /\ ledger' \in [Users -> 0..MaxSize]
  BY <1>1, <1>2 DEF TypeOK
<1>11. Sound(L, chain')
  <2>1. \A q \in Positions : chain'[q] # 0 => L.positions[q].status = "Open"
    BY <1>1, <1>2, <1>3, <1>8 DEF Sound, TypeOK
  <2> QED
    BY <1>1, <1>7, <1>9, <2>1 DEF Sound
<1>12. Agree(L, rebuilt, modified')
  BY <1>1, <1>2, <1>7, <1>8 DEF Agree
<1> QED
  BY <1>1, <1>2, <1>6, <1>10, <1>11, <1>12, EventStep

LEMMA LiquidationStep ==
    ASSUME Inv, NEW p \in Positions, Liquidation(p)
    PROVE  Inv'
<1> DEFINE new == [live.positions[p] EXCEPT !.status = "Liquidated", !.closing = TRUE]
           n1 == [live.positions[p] EXCEPT !.status = "Liquidated"]
           renew == [rebuilt.positions[p] EXCEPT !.status = "Liquidated"]
           L == CountedLiquidation(live, p, new)
           R == CountedLiquidation(rebuilt, p, renew)
<1>1. TypeOK /\ live \in StoresType /\ rebuilt \in StoresType /\ Sound(live, chain) /\ Agree(live, rebuilt, modified)
  BY DEF Inv, TypeOK
<1>2. /\ Event(L, R) /\ chain[p] # 0 /\ chain' = [chain EXCEPT ![p] = 0] /\ unsettled' \in BOOLEAN
      /\ UNCHANGED <<ledger, modified>>
  BY DEF Liquidation, Liquidated, ReplayLiquidated, CountedLiquidation
<1>3. /\ live.positions[p].status = "Open" /\ rebuilt.positions[p].status = "Open"
      /\ live.positions[p] \in PositionType /\ live.positions \in [Positions -> PositionType]
      /\ rebuilt.positions[p] \in PositionType /\ rebuilt.positions \in [Positions -> PositionType]
  BY <1>1, <1>2, FieldTypes DEF Sound, Agree
<1>4. new \in PositionType /\ new.status = "Liquidated" /\ new.size = live.positions[p].size
  <2>1. n1 \in PositionType /\ n1.status = "Liquidated" /\ n1.size = live.positions[p].size
    BY <1>3 DEF PositionType
  <2>2. new = [n1 EXCEPT !.closing = TRUE]
    BY Zenon
  <2> HIDE DEF n1, new
  <2> QED
    BY <2>1, <2>2 DEF PositionType
<1>5. renew \in PositionType /\ renew.status = "Liquidated" /\ renew.size = rebuilt.positions[p].size
  BY <1>3 DEF PositionType
<1> HIDE DEF new, n1, renew
<1>7. /\ L \in StoresType
      /\ L.positions = [live.positions EXCEPT ![p] = new]
      /\ L.total_trades = [live.total_trades EXCEPT ![Owner[p]] = @ + 1]
      /\ L.open_positions = [live.open_positions EXCEPT ![Owner[p]] = IF @ > 0 THEN @ - 1 ELSE 0]
      /\ Frame(live, L, {"positions", "total_trades", "open_positions"})
  BY <1>1, <1>3, <1>4, LiquidatedFields
<1>8. /\ R \in StoresType
      /\ R.positions = [rebuilt.positions EXCEPT ![p] = renew]
      /\ R.total_trades = [rebuilt.total_trades EXCEPT ![Owner[p]] = @ + 1]
      /\ R.open_positions = [rebuilt.open_positions EXCEPT ![Owner[p]] = IF @ > 0 THEN @ - 1 ELSE 0]
      /\ Frame(rebuilt, R, {"positions", "total_trades", "open_positions"})
  BY <1>1, <1>3, <1>5, LiquidatedFields
<1> HIDE DEF L, R
<1>9. /\ L.orders = live.orders /\ L.book = live.book /\ L.balances = live.balances
      /\ L.funding = live.funding /\ L.paused = live.paused /\ L.users = live.users
      /\ L.daily_trades = live.daily_trades
  BY <1>7 DEF Frame, Fields
<1>10. /\ R.orders = rebuilt.orders /\ R.book = rebuilt.book /\ R.balances = rebuilt.balances
       /\ R.funding = rebuilt.funding /\ R.paused = rebuilt.paused /\ R.users = rebuilt.users
       /\ R.daily_trades = rebuilt.daily_trades
  BY <1>8 DEF Frame, Fields
<1>11. Moved(live, L, p, "Liquidated", live.positions[p].size) /\ Moved(rebuilt, R, p, "Liquidated", rebuilt.positions[p].size)
  BY <1>3, <1>4, <1>5, <1>7, <1>8 DEF Moved
<1>12. Counted(L)
  BY <1>1, <1>3, <1>7, <1>11, CountDown DEF Sound
<1>13. /\ chain' \in [Positions -> 0..MaxSize] /\ ledger' \in [Users -> 0..MaxSize]
       /\ modified' \subseteq Positions
  BY <1>1, <1>2, EngineAssumption DEF TypeOK
<1>14. Sound(L, chain')
  <2>1. \A q \in Positions : chain'[q] # 0 => L.positions[q].status = "Open"
    BY <1>1, <1>2, <1>11 DEF Sound, Moved, TypeOK
  <2> QED
    BY <1>1, <1>9, <1>12, <2>1 DEF Sound
<1>15. Agree(L, R, modified')
  <2>1. /\ \A q \in Positions : R.positions[q].status = L.positions[q].status
        /\ \A q \in Positions \ modified : R.positions[q].size = L.positions[q].size
    BY <1>1, <1>11 DEF Agree, Moved
  <2> QED
    BY <1>1, <1>2, <1>7, <1>8, <1>9, <1>10, <2>1 DEF Agree
<1> QED
  BY <1>1, <1>2, <1>7, <1>8, <1>13, <1>14, <1>15, EventStep

\* Events whose two arms are the same, and that leave the positions and their
\* statistics alone: the two stores go on agreeing when they change alike.
LEMMA SameEvent ==
    ASSUME Inv, NEW L \in StoresType, NEW R \in StoresType, Event(L, R), UNCHANGED <<chain, modified, unsettled>>,
           ledger' \in [Users -> 0..MaxSize],
           Frame(live, L, {"orders", "book", "balances", "users", "funding", "paused"}),
           Frame(rebuilt, R, {"orders", "book", "balances", "users", "funding", "paused"}),
           R.orders = L.orders, R.book = L.book, R.balances = L.balances,
           R.users = L.users, R.funding = L.funding, R.paused = L.paused,
           \A u \in Users : L.balances[u].locked = 0,
           \A o \in Orders : L.book[o] = IF L.orders[o] = "Active" THEN 1 ELSE 0
    PROVE  Inv'
<1>1. TypeOK /\ Sound(live, chain) /\ Agree(live, rebuilt, modified)
  BY DEF Inv
<1>2. /\ L.positions = live.positions /\ L.open_positions = live.open_positions
      /\ L.total_trades = live.total_trades /\ L.daily_trades = live.daily_trades
      /\ R.positions = rebuilt.positions /\ R.open_positions = rebuilt.open_positions
      /\ R.total_trades = rebuilt.total_trades /\ R.daily_trades = rebuilt.daily_trades
  BY DEF Frame, Fields
<1>3. Counted(L)
  BY <1>1, <1>2 DEF Sound, Counted, OpenOf
<1>4. Sound(L, chain')
  BY <1>1, <1>2, <1>3 DEF Sound
<1>5. Agree(L, R, modified')
  BY <1>1, <1>2 DEF Agree
<1>6. chain' \in [Positions -> 0..MaxSize] /\ modified' \subseteq Positions /\ unsettled' \in BOOLEAN
  BY <1>1 DEF TypeOK
<1> QED
  BY <1>1, <1>4, <1>5, <1>6, EventStep

LEMMA PlacedStep ==
    ASSUME Inv, NEW o \in Orders, NEW u \in Users, OrderPlaced(o, u)
    PROVE  Inv'
<1> DEFINE L1 == InsertOrder(live, o)
           R1 == InsertOrder(rebuilt, o)
           L == Ensure(L1, u)
           R == Ensure(R1, u)
<1>1. TypeOK /\ live \in StoresType /\ rebuilt \in StoresType /\ Sound(live, chain) /\ Agree(live, rebuilt, modified)
  BY DEF Inv, TypeOK
<1>2. Event(L, R) /\ live.orders[o] = "None" /\ UNCHANGED <<chain, ledger, modified, unsettled>>
  BY DEF OrderPlaced, Placed
<1>3. /\ L1 \in StoresType /\ L1.orders = [live.orders EXCEPT ![o] = "Active"]
      /\ L1.book = [live.book EXCEPT ![o] = @ + 1] /\ Frame(live, L1, {"orders", "book"})
  BY <1>1, InsertOrderFields
<1>4. /\ R1 \in StoresType /\ R1.orders = [rebuilt.orders EXCEPT ![o] = "Active"]
      /\ R1.book = [rebuilt.book EXCEPT ![o] = @ + 1] /\ Frame(rebuilt, R1, {"orders", "book"})
  BY <1>1, InsertOrderFields
<1> HIDE DEF L1, R1
<1>5. L \in StoresType /\ L.users = [L1.users EXCEPT ![u] = IF @ = "None" THEN "Known" ELSE @] /\ Frame(L1, L, {"users"})
  BY <1>3, EnsureFields
<1>6. R \in StoresType /\ R.users = [R1.users EXCEPT ![u] = IF @ = "None" THEN "Known" ELSE @] /\ Frame(R1, R, {"users"})
  BY <1>4, EnsureFields
<1> HIDE DEF L, R
<1>7. /\ Frame(live, L, {"orders", "book", "balances", "users", "funding", "paused"})
      /\ L.orders = L1.orders /\ L.book = L1.book /\ L1.users = live.users
      /\ L.balances = live.balances /\ L.funding = live.funding /\ L.paused = live.paused
  BY <1>3, <1>5 DEF Frame, Fields
<1>8. /\ Frame(rebuilt, R, {"orders", "book", "balances", "users", "funding", "paused"})
      /\ R.orders = R1.orders /\ R.book = R1.book /\ R1.users = rebuilt.users
      /\ R.balances = rebuilt.balances /\ R.funding = rebuilt.funding /\ R.paused = rebuilt.paused
  BY <1>4, <1>6 DEF Frame, Fields
<1>9. /\ R.orders = L.orders /\ R.book = L.book /\ R.balances = L.balances
      /\ R.users = L.users /\ R.funding = L.funding /\ R.paused = L.paused
  BY <1>1, <1>3, <1>4, <1>5, <1>6, <1>7, <1>8 DEF Agree
<1>10. \A q \in Orders : L.book[q] = IF L.orders[q] = "Active" THEN 1 ELSE 0
  BY <1>1, <1>2, <1>3, <1>7, FieldTypes DEF Sound
<1>11. (\A v \in Users : L.balances[v].locked = 0) /\ ledger' \in [Users -> 0..MaxSize]
  BY <1>1, <1>2, <1>7 DEF Sound, TypeOK
<1> QED
  BY <1>2, <1>5, <1>6, <1>7, <1>8, <1>9, <1>10, <1>11, SameEvent

LEMMA EndedStep ==
    ASSUME Inv, NEW o \in Orders, NEW status \in Ending, OrderEnded(o, status)
    PROVE  Inv'
<1> DEFINE L == EndOrder(live, o, status)
           R == EndOrder(rebuilt, o, status)
<1>1. TypeOK /\ live \in StoresType /\ rebuilt \in StoresType /\ Sound(live, chain) /\ Agree(live, rebuilt, modified)
  BY DEF Inv, TypeOK
<1>2. /\ Event(L, R) /\ UNCHANGED <<chain, ledger, modified, unsettled>> /\ live.orders[o] # "None"
      /\ status \in Ending
  BY DEF OrderEnded, Ending
<1>3. /\ L \in StoresType
      /\ L.orders = [live.orders EXCEPT ![o] = status]
      /\ L.book = IF live.orders[o] = "Active" THEN [live.book EXCEPT ![o] = 0] ELSE live.book
      /\ Frame(live, L, {"orders", "book"})
  BY <1>1, <1>2, EndOrderFields
<1>4. rebuilt.orders = live.orders /\ rebuilt.book = live.book
  BY <1>1 DEF Agree
<1>5. /\ R \in StoresType
      /\ R.orders = [rebuilt.orders EXCEPT ![o] = status]
      /\ R.book = IF rebuilt.orders[o] = "Active" THEN [rebuilt.book EXCEPT ![o] = 0] ELSE rebuilt.book
      /\ Frame(rebuilt, R, {"orders", "book"})
  BY <1>1, <1>2, <1>4, EndOrderFields
<1> HIDE DEF L, R
<1>6. /\ Frame(live, L, {"orders", "book", "balances", "users", "funding", "paused"})
      /\ L.balances = live.balances /\ L.funding = live.funding /\ L.paused = live.paused /\ L.users = live.users
  BY <1>3 DEF Frame, Fields
<1>7. /\ Frame(rebuilt, R, {"orders", "book", "balances", "users", "funding", "paused"})
      /\ R.balances = rebuilt.balances /\ R.funding = rebuilt.funding /\ R.paused = rebuilt.paused
      /\ R.users = rebuilt.users
  BY <1>5 DEF Frame, Fields
<1>8. R.orders = L.orders /\ R.book = L.book
  BY <1>3, <1>4, <1>5
<1>9. R.balances = L.balances /\ R.users = L.users /\ R.funding = L.funding /\ R.paused = L.paused
  BY <1>1, <1>6, <1>7 DEF Agree
<1>10. \A q \in Orders : L.book[q] = IF L.orders[q] = "Active" THEN 1 ELSE 0
  <2>1. live.book \in [Orders -> Nat] /\ live.orders \in [Orders -> OrderStatus]
    BY <1>1, FieldTypes
  <2>2. \A q \in Orders : live.book[q] = IF live.orders[q] = "Active" THEN 1 ELSE 0
    BY <1>1 DEF Sound
  <2> QED
    BY <1>3, <2>1, <2>2 DEF Ending
<1>11. (\A v \in Users : L.balances[v].locked = 0) /\ ledger' \in [Users -> 0..MaxSize]
  BY <1>1, <1>2, <1>6 DEF Sound, TypeOK
<1> QED
  BY <1>2, <1>3, <1>5, <1>6, <1>7, <1>8, <1>9, <1>10, <1>11, SameEvent

\* A balance set from what it was: the stores go on agreeing.
LEMMA BalanceStep ==
    ASSUME Inv, NEW u \in Users, NEW L1 \in StoresType, NEW R1 \in StoresType, NEW a \in Nat, NEW v \in Nat,
           Event(SetBalance(L1, u, a, v), SetBalance(R1, u, a, v)),
           UNCHANGED <<chain, modified, unsettled>>, ledger' \in [Users -> 0..MaxSize],
           Frame(live, L1, {"users"}), Frame(rebuilt, R1, {"users"}), R1.users = L1.users
    PROVE  Inv'
<1> DEFINE L == SetBalance(L1, u, a, v)
           R == SetBalance(R1, u, a, v)
<1>1. TypeOK /\ Sound(live, chain) /\ Agree(live, rebuilt, modified)
  BY DEF Inv
<1>2. /\ L \in StoresType /\ Frame(L1, L, {"balances"})
      /\ L.balances = [L1.balances EXCEPT ![u] = NewBalance(@, a, v)]
  BY SetBalanceFields
<1>3. /\ R \in StoresType /\ Frame(R1, R, {"balances"})
      /\ R.balances = [R1.balances EXCEPT ![u] = NewBalance(@, a, v)]
  BY SetBalanceFields
<1>4. Event(L, R)
  OBVIOUS
<1> HIDE DEF L, R
<1>5. /\ Frame(live, L, {"orders", "book", "balances", "users", "funding", "paused"})
      /\ L1.balances = live.balances /\ L.users = L1.users
      /\ L.orders = live.orders /\ L.book = live.book /\ L.funding = live.funding /\ L.paused = live.paused
  BY <1>2 DEF Frame, Fields
<1>6. /\ Frame(rebuilt, R, {"orders", "book", "balances", "users", "funding", "paused"})
      /\ R1.balances = rebuilt.balances /\ R.users = R1.users
      /\ R.orders = rebuilt.orders /\ R.book = rebuilt.book /\ R.funding = rebuilt.funding /\ R.paused = rebuilt.paused
  BY <1>3 DEF Frame, Fields
<1>7. R.balances = L.balances
  BY <1>1, <1>2, <1>3, <1>5, <1>6 DEF Agree
<1>8. R.orders = L.orders /\ R.book = L.book /\ R.users = L.users /\ R.funding = L.funding /\ R.paused = L.paused
  BY <1>1, <1>5, <1>6 DEF Agree
<1>9. \A w \in Users : L.balances[w].locked = 0
  <2>1. live.balances \in [Users -> BalanceType] /\ \A w \in Users : live.balances[w].locked = 0
    BY <1>1, FieldTypes DEF TypeOK, Sound
  <2> QED
    BY <1>2, <1>5, <2>1 DEF NewBalance
<1>10. \A q \in Orders : L.book[q] = IF L.orders[q] = "Active" THEN 1 ELSE 0
  BY <1>1, <1>5 DEF Sound
<1> QED
  BY <1>2, <1>3, <1>4, <1>5, <1>6, <1>7, <1>8, <1>9, <1>10, SameEvent

LEMMA DepositedStep ==
    ASSUME Inv, NEW u \in Users, NEW n \in Size, CollateralDeposited(u, n)
    PROVE  Inv'
<1> DEFINE a == live.balances[u].amount + n
           L1 == Ensure(live, u)
           R1 == Ensure(rebuilt, u)
<1>1. TypeOK /\ live \in StoresType /\ rebuilt \in StoresType /\ Sound(live, chain) /\ Agree(live, rebuilt, modified)
  BY DEF Inv, TypeOK
<1>2. /\ live.balances[u] \in BalanceType /\ live.balances[u].locked = 0 /\ rebuilt.balances = live.balances
      /\ n \in Nat
  BY <1>1, FieldTypes, EngineAssumption DEF Sound, Agree, Size
<1>3. a \in Nat /\ a - live.balances[u].locked = a
  BY <1>2 DEF BalanceType
<1>4. /\ Event(SetBalance(L1, u, a, a - live.balances[u].locked), SetBalance(R1, u, a, a - live.balances[u].locked))
      /\ UNCHANGED <<chain, modified, unsettled>>
      /\ ledger' = [ledger EXCEPT ![u] = @ + n] /\ ledger[u] + n <= MaxSize
  <2>1. rebuilt.balances[u] = live.balances[u]
    BY <1>2
  <2>2. Deposited(live, u, n) = SetBalance(L1, u, a, a - live.balances[u].locked)
    BY <1>2, <1>3 DEF Deposited, BalanceType
  <2>3. Deposited(rebuilt, u, n) = SetBalance(R1, u, a, a - live.balances[u].locked)
    BY <1>2, <1>3, <2>1 DEF Deposited, BalanceType
  <2> QED
    BY <2>2, <2>3 DEF CollateralDeposited
<1>5. ledger' \in [Users -> 0..MaxSize]
  BY <1>1, <1>2, <1>4, EngineAssumption DEF TypeOK
<1>6. L1 \in StoresType /\ L1.users = [live.users EXCEPT ![u] = IF @ = "None" THEN "Known" ELSE @] /\ Frame(live, L1, {"users"})
  BY <1>1, EnsureFields
<1>7. R1 \in StoresType /\ R1.users = [rebuilt.users EXCEPT ![u] = IF @ = "None" THEN "Known" ELSE @] /\ Frame(rebuilt, R1, {"users"})
  BY <1>1, EnsureFields
<1> HIDE DEF L1, R1, a
<1>8. R1.users = L1.users
  BY <1>1, <1>6, <1>7 DEF Agree
<1>9. Event(SetBalance(L1, u, a, a), SetBalance(R1, u, a, a))
  BY <1>3, <1>4
<1> QED
  BY <1>3, <1>4, <1>5, <1>6, <1>7, <1>8, <1>9, BalanceStep

LEMMA WithdrawnStep ==
    ASSUME Inv, NEW u \in Users, NEW n \in Size, CollateralWithdrawn(u, n)
    PROVE  Inv'
<1> DEFINE a == Clamp(live.balances[u].amount - n)
           v == Clamp(a - live.balances[u].locked)
<1>1. TypeOK /\ live \in StoresType /\ rebuilt \in StoresType /\ Sound(live, chain) /\ Agree(live, rebuilt, modified)
  BY DEF Inv, TypeOK
<1>2. /\ live.balances[u] \in BalanceType /\ live.balances[u].locked = 0 /\ rebuilt.balances = live.balances
      /\ n \in Nat
  BY <1>1, FieldTypes, EngineAssumption DEF Sound, Agree, Size
<1>3. a \in Nat /\ v \in Nat
  BY <1>2 DEF BalanceType, Clamp
<1>4. /\ Event(SetBalance(live, u, a, v), SetBalance(rebuilt, u, a, v))
      /\ UNCHANGED <<chain, modified, unsettled>>
      /\ ledger' = [ledger EXCEPT ![u] = @ - n] /\ n <= ledger[u]
  BY <1>2 DEF CollateralWithdrawn, Withdrawn
<1>5. ledger' \in [Users -> 0..MaxSize]
  BY <1>1, <1>2, <1>4, EngineAssumption DEF TypeOK
<1> HIDE DEF a, v
<1>6. Frame(live, live, {"users"}) /\ Frame(rebuilt, rebuilt, {"users"}) /\ rebuilt.users = live.users
  BY <1>1 DEF Frame, Agree
<1> QED
  BY <1>1, <1>3, <1>4, <1>5, <1>6, BalanceStep

LEMMA VaultStep ==
    ASSUME Inv, NEW u \in Users, VaultCreated(u)
    PROVE  Inv'
<1> DEFINE L1 == Ensure(live, u)
           R1 == Ensure(rebuilt, u)
           L == SetVault(L1, u)
           R == SetVault(R1, u)
<1>1. TypeOK /\ live \in StoresType /\ rebuilt \in StoresType /\ Sound(live, chain) /\ Agree(live, rebuilt, modified)
  BY DEF Inv, TypeOK
<1>2. Event(L, R) /\ UNCHANGED <<chain, ledger, modified, unsettled>>
  BY DEF VaultCreated, VaultMade
<1>3. L1 \in StoresType /\ L1.users = [live.users EXCEPT ![u] = IF @ = "None" THEN "Known" ELSE @] /\ Frame(live, L1, {"users"})
  BY <1>1, EnsureFields
<1>4. R1 \in StoresType /\ R1.users = [rebuilt.users EXCEPT ![u] = IF @ = "None" THEN "Known" ELSE @] /\ Frame(rebuilt, R1, {"users"})
  BY <1>1, EnsureFields
<1> HIDE DEF L1, R1
<1>5. L \in StoresType /\ L.users = [L1.users EXCEPT ![u] = IF @ = "None" THEN @ ELSE "Vault"] /\ Frame(L1, L, {"users"})
  BY <1>3, SetVaultFields
<1>6. R \in StoresType /\ R.users = [R1.users EXCEPT ![u] = IF @ = "None" THEN @ ELSE "Vault"] /\ Frame(R1, R, {"users"})
  BY <1>4, SetVaultFields
<1> HIDE DEF L, R
<1>7. /\ Frame(live, L, {"orders", "book", "balances", "users", "funding", "paused"})
      /\ L.orders = live.orders /\ L.book = live.book /\ L.balances = live.balances
      /\ L.funding = live.funding /\ L.paused = live.paused
  BY <1>3, <1>5 DEF Frame, Fields
<1>8. /\ Frame(rebuilt, R, {"orders", "book", "balances", "users", "funding", "paused"})
      /\ R.orders = rebuilt.orders /\ R.book = rebuilt.book /\ R.balances = rebuilt.balances
      /\ R.funding = rebuilt.funding /\ R.paused = rebuilt.paused
  BY <1>4, <1>6 DEF Frame, Fields
<1>9. /\ R.orders = L.orders /\ R.book = L.book /\ R.balances = L.balances
      /\ R.users = L.users /\ R.funding = L.funding /\ R.paused = L.paused
  BY <1>1, <1>3, <1>4, <1>5, <1>6, <1>7, <1>8 DEF Agree
<1>10. /\ \A q \in Orders : L.book[q] = IF L.orders[q] = "Active" THEN 1 ELSE 0
       /\ \A v \in Users : L.balances[v].locked = 0
       /\ ledger' \in [Users -> 0..MaxSize]
  BY <1>1, <1>2, <1>7 DEF Sound, TypeOK
<1> QED
  BY <1>2, <1>5, <1>6, <1>7, <1>8, <1>9, <1>10, SameEvent

LEMMA MarketStep ==
    ASSUME Inv, MarketPaused \/ \E rate \in Size : FundingRateUpdated(rate)
    PROVE  Inv'
<1>1. TypeOK /\ live \in StoresType /\ rebuilt \in StoresType /\ Sound(live, chain) /\ Agree(live, rebuilt, modified)
  BY DEF Inv, TypeOK
<1>2. CASE MarketPaused
  <2> DEFINE L == Paused(live)
             R == Paused(rebuilt)
  <2>1. Event(L, R) /\ UNCHANGED <<chain, ledger, modified, unsettled>>
    BY <1>2 DEF MarketPaused
  <2>2. L \in StoresType /\ L.paused = TRUE /\ Frame(live, L, {"paused"})
    BY <1>1, PausedFields
  <2>3. R \in StoresType /\ R.paused = TRUE /\ Frame(rebuilt, R, {"paused"})
    BY <1>1, PausedFields
  <2> HIDE DEF L, R
  <2>4. /\ Frame(live, L, {"orders", "book", "balances", "users", "funding", "paused"})
        /\ L.orders = live.orders /\ L.book = live.book /\ L.balances = live.balances
        /\ L.funding = live.funding /\ L.users = live.users
    BY <2>2 DEF Frame, Fields
  <2>5. /\ Frame(rebuilt, R, {"orders", "book", "balances", "users", "funding", "paused"})
        /\ R.orders = rebuilt.orders /\ R.book = rebuilt.book /\ R.balances = rebuilt.balances
        /\ R.funding = rebuilt.funding /\ R.users = rebuilt.users
    BY <2>3 DEF Frame, Fields
  <2>6. /\ R.orders = L.orders /\ R.book = L.book /\ R.balances = L.balances
        /\ R.users = L.users /\ R.funding = L.funding /\ R.paused = L.paused
    BY <1>1, <2>2, <2>3, <2>4, <2>5 DEF Agree
  <2>7. /\ \A q \in Orders : L.book[q] = IF L.orders[q] = "Active" THEN 1 ELSE 0
        /\ \A v \in Users : L.balances[v].locked = 0
        /\ ledger' \in [Users -> 0..MaxSize]
    BY <1>1, <2>1, <2>4 DEF Sound, TypeOK
  <2> QED
    BY <2>1, <2>2, <2>3, <2>4, <2>5, <2>6, <2>7, SameEvent
<1>3. CASE \E rate \in Size : FundingRateUpdated(rate)
  <2> PICK rate \in Size : FundingRateUpdated(rate)
    BY <1>3
  <2> DEFINE L == FundingSet(live, rate)
             R == FundingSet(rebuilt, rate)
  <2>0. rate \in Nat
    BY EngineAssumption DEF Size
  <2>1. Event(L, R) /\ UNCHANGED <<chain, ledger, modified, unsettled>>
    BY DEF FundingRateUpdated
  <2>2. L \in StoresType /\ L.funding = rate /\ Frame(live, L, {"funding"})
    BY <1>1, <2>0, FundingSetFields
  <2>3. R \in StoresType /\ R.funding = rate /\ Frame(rebuilt, R, {"funding"})
    BY <1>1, <2>0, FundingSetFields
  <2> HIDE DEF L, R
  <2>4. /\ Frame(live, L, {"orders", "book", "balances", "users", "funding", "paused"})
        /\ L.orders = live.orders /\ L.book = live.book /\ L.balances = live.balances
        /\ L.paused = live.paused /\ L.users = live.users
    BY <2>2 DEF Frame, Fields
  <2>5. /\ Frame(rebuilt, R, {"orders", "book", "balances", "users", "funding", "paused"})
        /\ R.orders = rebuilt.orders /\ R.book = rebuilt.book /\ R.balances = rebuilt.balances
        /\ R.paused = rebuilt.paused /\ R.users = rebuilt.users
    BY <2>3 DEF Frame, Fields
  <2>6. /\ R.orders = L.orders /\ R.book = L.book /\ R.balances = L.balances
        /\ R.users = L.users /\ R.funding = L.funding /\ R.paused = L.paused
    BY <1>1, <2>2, <2>3, <2>4, <2>5 DEF Agree
  <2>7. /\ \A q \in Orders : L.book[q] = IF L.orders[q] = "Active" THEN 1 ELSE 0
        /\ \A v \in Users : L.balances[v].locked = 0
        /\ ledger' \in [Users -> 0..MaxSize]
    BY <1>1, <2>1, <2>4 DEF Sound, TypeOK
  <2> QED
    BY <2>1, <2>2, <2>3, <2>4, <2>5, <2>6, <2>7, SameEvent
<1> QED
  BY <1>2, <1>3

-----------------------------------------------------------------------------
(* Sums over finite sets.                                                  *)

\* The recursion of SumFunctionOnSet(), as an equation for the function it defines.
Pick(s) == CHOOSE x \in s : TRUE
Add(f, g, s) == IF s = {} THEN 0 ELSE f[Pick(s)] + g[s \ {Pick(s)}]
Sums(f, g, D) == g = [s \in D |-> Add(f, g, s)]

\* A set of numbers has a least one.
LEMMA Least ==
    ASSUME NEW T \in SUBSET Nat, T # {}
    PROVE  \E n \in T : \A m \in T : n <= m
<1>1. \E n \in T : \A m \in T : ~ (<<m, n>> \in OpToRel(<, Nat))
  BY NatLessThanWellFounded, WFMin
<1>2. \A m, n \in Nat : m < n => <<m, n>> \in OpToRel(<, Nat)
  BY Zenon DEF OpToRel
<1>3. PICK n \in T : \A m \in T : ~ (<<m, n>> \in OpToRel(<, Nat))
  BY <1>1
<1>4. \A m \in T : ~ (m < n)
  BY <1>2, <1>3
<1> QED
  BY <1>4

\* A set of subsets has one of least size, which loses its place with any element.
LEMMA LeastSubset ==
    ASSUME NEW S, IsFiniteSet(S), NEW Bad \in SUBSET SUBSET S, Bad # {}
    PROVE  \E s \in Bad : IsFiniteSet(s) /\ \A x \in s : s \ {x} \notin Bad
<1> DEFINE Sizes == {Cardinality(s) : s \in Bad}
<1>1. \A s \in SUBSET S : IsFiniteSet(s) /\ Cardinality(s) \in Nat
  BY FS_Subset, FS_CardinalityType
<1>2. Sizes \in SUBSET Nat /\ Sizes # {}
  BY <1>1
<1>3. PICK n \in Sizes : \A m \in Sizes : n <= m
  <2> HIDE DEF Sizes
  <2> QED
    BY <1>2, Least
<1>4. PICK s \in Bad : Cardinality(s) = n
  OBVIOUS
<1>5. ASSUME NEW x \in s, s \ {x} \in Bad
      PROVE  FALSE
  <2>1. Cardinality(s \ {x}) = Cardinality(s) - 1 /\ Cardinality(s) \in Nat
    BY <1>1, FS_RemoveElement
  <2>2. Cardinality(s \ {x}) \in Sizes
    BY <1>5
  <2>3. n <= Cardinality(s \ {x})
    BY <1>3, <2>2
  <2> QED
    BY <1>4, <2>1, <2>3
<1> QED
  BY <1>1, <1>5

\* The equation, for an element of the domain.
LEMMA SumsAt ==
    ASSUME NEW f, NEW g, NEW D, Sums(f, g, D), NEW s \in D
    PROVE  g[s] = Add(f, g, s)
<1> DEFINE G(h) == [r \in D |-> Add(f, h, r)]
<1>1. G(g)[s] = Add(f, g, s)
  OBVIOUS
<1>2. g = G(g)
  BY DEF Sums
<1> HIDE DEF G
<1> QED
  BY <1>1, <1>2

\* For a finite set the recursion has a solution.
LEMMA SumsExist ==
    ASSUME NEW f, NEW S, IsFiniteSet(S)
    PROVE  \E g : Sums(f, g, SUBSET S)
<1> DEFINE Small(n) == {s \in SUBSET S : Cardinality(s) <= n}
           Bad == {n \in Nat : ~\E g : Sums(f, g, Small(n))}
<1>1. \A s \in SUBSET S : IsFiniteSet(s) /\ Cardinality(s) \in Nat /\ Cardinality(s) <= Cardinality(S)
  BY FS_Subset, FS_CardinalityType
<1>2. ASSUME Bad # {} PROVE FALSE
  <2>1. PICK n \in Bad : \A m \in Bad : n <= m
    BY <1>2, Least
  <2>2. CASE n = 0
    <3>1. Small(0) = {{}}
      BY <1>1, FS_EmptySet
    <3>2. Sums(f, [s \in Small(0) |-> 0], Small(0))
      BY <3>1 DEF Sums, Add
    <3> QED
      BY <2>1, <2>2, <3>2
  <2>3. CASE n # 0
    <3>1. n - 1 \in Nat /\ n - 1 \notin Bad
      <4> HIDE DEF Small
      <4> QED
        BY <2>1, <2>3
    <3>1a. PICK g : Sums(f, g, Small(n - 1))
      BY <3>1
    <3> DEFINE h == [s \in Small(n) |-> Add(f, g, s)]
    <3>2. ASSUME NEW s \in Small(n), s # {}
          PROVE  Pick(s) \in s /\ s \ {Pick(s)} \in Small(n - 1) /\ s \ {Pick(s)} \in Small(n)
      <4>1. Pick(s) \in s
        BY <3>2 DEF Pick
      <4>2. Cardinality(s \ {Pick(s)}) = Cardinality(s) - 1
        BY <1>1, <4>1, FS_RemoveElement
      <4> QED
        BY <1>1, <4>1, <4>2
    <3>3. ASSUME NEW s \in Small(n)
          PROVE  Add(f, g, s) = Add(f, h, s)
      <4>1. CASE s = {}
        BY <4>1 DEF Add
      <4>2. CASE s # {}
        <5>1. h[s \ {Pick(s)}] = Add(f, g, s \ {Pick(s)})
          BY <3>2, <4>2
        <5>2. g[s \ {Pick(s)}] = Add(f, g, s \ {Pick(s)})
          BY <3>1a, <3>2, <4>2, SumsAt
        <5> QED
          BY <5>1, <5>2 DEF Add
      <4> QED
        BY <4>1, <4>2
    <3>4. h = [s \in Small(n) |-> Add(f, h, s)]
      BY <3>3
    <3> QED
      BY <2>1, <3>4 DEF Sums
  <2> QED
    BY <2>2, <2>3
<1>3. Small(Cardinality(S)) = SUBSET S /\ Cardinality(S) \in Nat
  BY <1>1
<1>4. Cardinality(S) \notin Bad
  BY <1>2
<1> QED
  BY <1>3, <1>4

\* and only one.
LEMMA SumsUnique ==
    ASSUME NEW f, NEW S, NEW T, IsFiniteSet(S), NEW g, NEW h,
           Sums(f, g, SUBSET S), Sums(f, h, SUBSET T), NEW s \in SUBSET (S \cap T)
    PROVE  g[s] = h[s]
<1> DEFINE Bad == {r \in SUBSET (S \cap T) : g[r] # h[r]}
<1>1. ASSUME Bad # {} PROVE FALSE
  <2>1. IsFiniteSet(S \cap T)
    BY FS_Subset
  <2>2. PICK r \in Bad : \A x \in r : r \ {x} \notin Bad
    <3> HIDE DEF Bad
    <3>1. Bad \in SUBSET SUBSET (S \cap T)
      BY DEF Bad
    <3> QED
      BY <1>1, <2>1, <3>1, LeastSubset
  <2>3. g[r] = Add(f, g, r) /\ h[r] = Add(f, h, r)
    BY SumsAt
  <2>4. CASE r = {}
    BY <2>2, <2>3, <2>4 DEF Add
  <2>5. CASE r # {}
    <3>1. Pick(r) \in r
      BY <2>5 DEF Pick
    <3>2. g[r \ {Pick(r)}] = h[r \ {Pick(r)}]
      BY <2>2, <3>1
    <3> QED
      BY <2>2, <2>3, <3>2, <2>5 DEF Add
  <2> QED
    BY <2>4, <2>5
<1> QED
  BY <1>1

\* SumFunctionOnSet() is the solution.
LEMMA SumSolves ==
    ASSUME NEW f, NEW S, IsFiniteSet(S)
    PROVE  \E g : Sums(f, g, SUBSET S) /\ SumFunctionOnSet(f, S) = g[S]
<1> DEFINE g == CHOOSE h : Sums(f, h, SUBSET S)
<1>1. Sums(f, g, SUBSET S)
  BY SumsExist
<1>2. SumFunctionOnSet(f, S) = g[S]
  BY DEF SumFunctionOnSet, FoldFunctionOnSet, MapThenFoldSet, Sums, Add, Pick
<1> QED
  BY <1>1, <1>2

\* The empty sum.
LEMMA SumEmpty ==
    ASSUME NEW f
    PROVE  SumFunctionOnSet(f, {}) = 0
<1>1. PICK g : Sums(f, g, SUBSET {}) /\ SumFunctionOnSet(f, {}) = g[{}]
  BY SumSolves, FS_EmptySet
<1>2. g[{}] = Add(f, g, {})
  BY <1>1, SumsAt
<1> QED
  BY <1>1, <1>2 DEF Add

\* A sum, taken apart at the element CHOOSE picks.
LEMMA SumPick ==
    ASSUME NEW f, NEW S, IsFiniteSet(S), S # {}
    PROVE  Pick(S) \in S /\ SumFunctionOnSet(f, S) = f[Pick(S)] + SumFunctionOnSet(f, S \ {Pick(S)})
<1>1. Pick(S) \in S
  BY DEF Pick
<1>2. PICK g : Sums(f, g, SUBSET S) /\ SumFunctionOnSet(f, S) = g[S]
  BY SumSolves
<1> DEFINE T == S \ {Pick(S)}
<1>3. IsFiniteSet(T)
  BY FS_Subset
<1>4. PICK h : Sums(f, h, SUBSET T) /\ SumFunctionOnSet(f, T) = h[T]
  BY <1>3, SumSolves
<1>5. g[T] = h[T]
  <2>1. T \in SUBSET (S \cap T)
    OBVIOUS
  <2> HIDE DEF T
  <2> QED
    BY <2>1, <1>2, <1>4, SumsUnique
<1>6. g[S] = Add(f, g, S)
  BY <1>2, SumsAt
<1> QED
  BY <1>1, <1>2, <1>4, <1>5, <1>6 DEF Add

\* A sum of integers is one.
LEMMA SumType ==
    ASSUME NEW S, IsFiniteSet(S), NEW f, \A x \in S : f[x] \in Int
    PROVE  SumFunctionOnSet(f, S) \in Int
<1> DEFINE Bad == {s \in SUBSET S : SumFunctionOnSet(f, s) \notin Int}
<1>1. ASSUME Bad # {} PROVE FALSE
  <2>1. PICK r \in Bad : IsFiniteSet(r) /\ \A x \in r : r \ {x} \notin Bad
    <3> HIDE DEF Bad
    <3>1. Bad \in SUBSET SUBSET S
      BY DEF Bad
    <3> QED
      BY <1>1, <3>1, LeastSubset
  <2>2. CASE r = {}
    BY <2>1, <2>2, SumEmpty
  <2>3. CASE r # {}
    <3>1. Pick(r) \in r /\ SumFunctionOnSet(f, r) = f[Pick(r)] + SumFunctionOnSet(f, r \ {Pick(r)})
      BY <2>1, <2>3, SumPick
    <3>2. SumFunctionOnSet(f, r \ {Pick(r)}) \in Int /\ f[Pick(r)] \in Int
      BY <2>1, <3>1
    <3> QED
      BY <3>1, <3>2
  <2> QED
    BY <2>2, <2>3
<1> QED
  BY <1>1

\* Any element may be taken first.
LEMMA SumTake ==
    ASSUME NEW S, IsFiniteSet(S), NEW f, \A x \in S : f[x] \in Int, NEW x \in S
    PROVE  SumFunctionOnSet(f, S) = f[x] + SumFunctionOnSet(f, S \ {x})
<1> DEFINE Bad == {s \in SUBSET S : \E y \in s : SumFunctionOnSet(f, s) # f[y] + SumFunctionOnSet(f, s \ {y})}
<1>1. ASSUME Bad # {} PROVE FALSE
  <2>1. PICK r \in Bad : IsFiniteSet(r) /\ \A y \in r : r \ {y} \notin Bad
    <3> HIDE DEF Bad
    <3>1. Bad \in SUBSET SUBSET S
      BY DEF Bad
    <3> QED
      BY <1>1, <3>1, LeastSubset
  <2>2. PICK y \in r : SumFunctionOnSet(f, r) # f[y] + SumFunctionOnSet(f, r \ {y})
    BY <2>1
  <2> DEFINE p == Pick(r)
  <2>3. p \in r /\ SumFunctionOnSet(f, r) = f[p] + SumFunctionOnSet(f, r \ {p})
    BY <2>1, <2>2, SumPick
  <2> HIDE DEF p
  <2>4. p # y
    BY <2>2, <2>3
  <2> DEFINE rest == (r \ {p}) \ {y}
  <2>5. SumFunctionOnSet(f, r \ {p}) = f[y] + SumFunctionOnSet(f, rest)
    BY <2>1, <2>3, <2>4
  <2>6. SumFunctionOnSet(f, r \ {y}) = f[p] + SumFunctionOnSet(f, (r \ {y}) \ {p})
    BY <2>1, <2>2, <2>3, <2>4
  <2>7. (r \ {y}) \ {p} = rest
    OBVIOUS
  <2>8. SumFunctionOnSet(f, rest) \in Int /\ f[p] \in Int /\ f[y] \in Int
    BY <2>1, <2>2, <2>3, FS_Subset, SumType
  <2>9. SumFunctionOnSet(f, r \ {y}) = f[p] + SumFunctionOnSet(f, rest)
    BY <2>6, <2>7
  <2> HIDE DEF rest, Bad
  <2>10. f[p] + (f[y] + SumFunctionOnSet(f, rest)) = f[y] + (f[p] + SumFunctionOnSet(f, rest))
    BY <2>8
  <2> QED
    BY <2>2, <2>3, <2>5, <2>9, <2>10
<1> QED
  BY <1>1

\* The sum depends on the values in the set only.
LEMMA SumEqual ==
    ASSUME NEW S, IsFiniteSet(S), NEW f, NEW g, \A x \in S : f[x] = g[x]
    PROVE  SumFunctionOnSet(f, S) = SumFunctionOnSet(g, S)
<1> DEFINE Bad == {s \in SUBSET S : SumFunctionOnSet(f, s) # SumFunctionOnSet(g, s)}
<1>1. ASSUME Bad # {} PROVE FALSE
  <2>1. PICK r \in Bad : IsFiniteSet(r) /\ \A x \in r : r \ {x} \notin Bad
    <3> HIDE DEF Bad
    <3>1. Bad \in SUBSET SUBSET S
      BY DEF Bad
    <3> QED
      BY <1>1, <3>1, LeastSubset
  <2>2. CASE r = {}
    BY <2>1, <2>2, SumEmpty
  <2>3. CASE r # {}
    <3>1. Pick(r) \in r /\ SumFunctionOnSet(f, r) = f[Pick(r)] + SumFunctionOnSet(f, r \ {Pick(r)})
      BY <2>1, <2>3, SumPick
    <3>2. SumFunctionOnSet(g, r) = g[Pick(r)] + SumFunctionOnSet(g, r \ {Pick(r)})
      BY <2>1, <2>3, SumPick
    <3>3. SumFunctionOnSet(f, r \ {Pick(r)}) = SumFunctionOnSet(g, r \ {Pick(r)}) /\ f[Pick(r)] = g[Pick(r)]
      BY <2>1, <3>1
    <3> QED
      BY <2>1, <3>1, <3>2, <3>3
  <2> QED
    BY <2>2, <2>3
<1> QED
  BY <1>1

\* One of the values changes.
LEMMA SumUpdate ==
    ASSUME NEW S, IsFiniteSet(S), NEW f \in [S -> Int], NEW g \in [S -> Int], NEW x \in S,
           \A y \in S \ {x} : g[y] = f[y]
    PROVE  SumFunctionOnSet(g, S) = SumFunctionOnSet(f, S) - f[x] + g[x]
<1>1. SumFunctionOnSet(f, S) = f[x] + SumFunctionOnSet(f, S \ {x}) /\ SumFunctionOnSet(g, S) = g[x] + SumFunctionOnSet(g, S \ {x})
  BY SumTake
<1>2. IsFiniteSet(S \ {x})
  BY FS_Subset
<1>3. SumFunctionOnSet(f, S \ {x}) = SumFunctionOnSet(g, S \ {x})
  BY <1>2, SumEqual
<1>4. SumFunctionOnSet(f, S \ {x}) \in Int
  BY <1>2, SumType
<1> QED
  BY <1>1, <1>3, <1>4

\* Nothing adds up to nothing.
LEMMA SumZero ==
    ASSUME NEW S, IsFiniteSet(S), NEW f, \A x \in S : f[x] = 0
    PROVE  SumFunctionOnSet(f, S) = 0
<1> DEFINE Bad == {s \in SUBSET S : SumFunctionOnSet(f, s) # 0}
<1>1. ASSUME Bad # {} PROVE FALSE
  <2>1. PICK r \in Bad : IsFiniteSet(r) /\ \A x \in r : r \ {x} \notin Bad
    <3> HIDE DEF Bad
    <3>1. Bad \in SUBSET SUBSET S
      BY DEF Bad
    <3> QED
      BY <1>1, <3>1, LeastSubset
  <2>2. CASE r = {}
    BY <2>1, <2>2, SumEmpty
  <2>3. CASE r # {}
    <3>1. Pick(r) \in r /\ SumFunctionOnSet(f, r) = f[Pick(r)] + SumFunctionOnSet(f, r \ {Pick(r)})
      BY <2>1, <2>3, SumPick
    <3>2. SumFunctionOnSet(f, r \ {Pick(r)}) = 0 /\ f[Pick(r)] = 0
      BY <2>1, <3>1
    <3> QED
      BY <2>1, <3>1, <3>2
  <2> QED
    BY <2>2, <2>3
<1> QED
  BY <1>1
-----------------------------------------------------------------------------
(* The open interest.                                                      *)

\* An event that leaves the positions alone leaves the open interest alone.
LEMMA InterestKept ==
    ASSUME Inv, Settled, NEW L \in StoresType, NEW R, Event(L, R), L.oi = live.oi, UNCHANGED <<chain, unsettled>>
    PROVE  Settled'
<1>1. live'.oi = live.oi
  BY AppendLogFields DEF Event, Frame, Fields
<1> QED
  BY <1>1 DEF Settled

\* An opened position adds its size to the running total and to the chain.
LEMMA OpenedSettled ==
    ASSUME Inv, Settled, NEW p \in Positions, NEW size \in Size, PositionOpened(p, size)
    PROVE  Settled'
<1> DEFINE L == Opened(live, p, size)
<1>1. TypeOK /\ live \in StoresType /\ Sound(live, chain)
  BY DEF Inv, TypeOK
<1>2. chain \in [Positions -> Int] /\ size \in Int /\ live.oi \in Int
  BY <1>1 DEF TypeOK, Size, StoresType
<1>3. /\ live' = AppendLog(L) /\ live.positions[p].status = "None"
      /\ chain' = [chain EXCEPT ![p] = size] /\ UNCHANGED unsettled
  BY DEF PositionOpened, Event
<1>4. /\ L \in StoresType
      /\ L.users = [live.users EXCEPT ![Owner[p]] = IF @ = "None" THEN "Known" ELSE @]
      /\ L.open_positions = [live.open_positions EXCEPT ![Owner[p]] = @ + 1]
      /\ L.oi = live.oi + size
  BY <1>1, OpenedFields
<1> HIDE DEF L
<1>5. live'.oi = live.oi + size
  BY <1>3, <1>4, AppendLogFields DEF Frame, Fields
<1>6. chain[p] = 0
  BY <1>1, <1>3 DEF Sound
<1>7. SumFunctionOnSet(chain', Positions) = SumFunctionOnSet(chain, Positions) - chain[p] + size
  <2>1. /\ chain' \in [Positions -> Int] /\ chain'[p] = size
        /\ \A q \in Positions \ {p} : chain'[q] = chain[q]
    BY <1>2, <1>3
  <2>2. IsFiniteSet(Positions)
    BY EngineAssumption
  <2>3. SumFunctionOnSet(chain', Positions) = SumFunctionOnSet(chain, Positions) - chain[p] + chain'[p]
    BY <1>2, <2>1, <2>2, SumUpdate
  <2> QED
    BY <2>1, <2>3
<1>8. SumFunctionOnSet(chain, Positions) \in Int
  BY <1>2, SumType, EngineAssumption
<1> QED
  BY <1>2, <1>3, <1>5, <1>6, <1>7, <1>8 DEF Settled

\* A close, partial or full, takes its size from both.
LEMMA ClosedSettled ==
    ASSUME Inv, Settled, NEW p \in Positions, NEW size \in Size, PositionClosed(p, size)
    PROVE  Settled'
<1> DEFINE full == size = chain[p]
           L == Closed(live, p, size, full)
           left == chain[p] - size
<1>1. TypeOK /\ live \in StoresType /\ Sound(live, chain)
  BY DEF Inv, TypeOK
<1>2. chain \in [Positions -> Int] /\ size \in Int /\ live.oi \in Int /\ chain[p] \in Int /\ left \in Int
  BY <1>1 DEF TypeOK, Size, StoresType
<1>3. /\ live' = AppendLog(L) /\ chain[p] # 0
      /\ chain' = [chain EXCEPT ![p] = left] /\ UNCHANGED unsettled
  BY DEF PositionClosed, Event
<1>4. live.positions[p].status = "Open" /\ full \in BOOLEAN
  BY <1>1, <1>3 DEF Sound
<1> HIDE DEF full
<1>5. /\ L \in StoresType
      /\ L.total_trades = [live.total_trades EXCEPT ![Owner[p]] = @ + 1]
      /\ L.daily_trades = [live.daily_trades EXCEPT ![Owner[p]] = @ + 1]
      /\ L.open_positions = IF full THEN [live.open_positions EXCEPT ![Owner[p]] = IF @ > 0 THEN @ - 1 ELSE 0]
                            ELSE live.open_positions
      /\ L.oi = live.oi - size
      /\ Frame(live, L, {"positions", "total_trades", "daily_trades", "open_positions", "oi"})
  BY <1>1, <1>4, ClosedFields
<1> HIDE DEF L
<1>6. live'.oi = live.oi - size
  BY <1>3, <1>5, AppendLogFields DEF Frame, Fields
<1>7. SumFunctionOnSet(chain', Positions) = SumFunctionOnSet(chain, Positions) - chain[p] + left
  <2> HIDE DEF left
  <2>1. /\ chain' \in [Positions -> Int] /\ chain'[p] = left
        /\ \A q \in Positions \ {p} : chain'[q] = chain[q]
    BY <1>2, <1>3
  <2>2. IsFiniteSet(Positions)
    BY EngineAssumption
  <2>3. SumFunctionOnSet(chain', Positions) = SumFunctionOnSet(chain, Positions) - chain[p] + chain'[p]
    BY <1>2, <2>1, <2>2, SumUpdate
  <2> QED
    BY <2>1, <2>3
<1>8. SumFunctionOnSet(chain, Positions) \in Int
  BY <1>2, SumType, EngineAssumption
<1> QED
  BY <1>2, <1>3, <1>6, <1>7, <1>8 DEF Settled

-----------------------------------------------------------------------------
(* Snapshot and restart.                                                   *)

\* The books that restore_snapshot() builds are the books that were there.
LEMMA SnapshotStep ==
    ASSUME Inv, snapshot
    PROVE  Inv'
<1>1. TypeOK /\ live \in StoresType /\ Sound(live, chain)
  BY DEF Inv, TypeOK
<1>2. rebuilt' = Restore(live) /\ UNCHANGED <<live, chain, ledger, modified, unsettled, events, restarts>>
  BY DEF snapshot
<1>3. /\ rebuilt' \in StoresType /\ Frame(live, rebuilt', {"book", "log"})
      /\ rebuilt'.book = [o \in Orders |-> IF live.orders[o] = "Active" THEN 1 ELSE 0]
  BY <1>1, <1>2, RestoreFields
<1>4. TypeOK'
  BY <1>1, <1>2, <1>3 DEF TypeOK
<1>5. rebuilt'.book = live.book
  BY <1>1, <1>3, FieldTypes DEF Sound
<1>6. Agree(live, rebuilt', modified)
  BY <1>3, <1>5 DEF Frame, Fields, Agree
<1>7. Sound(live, chain)' /\ Agree(live, rebuilt, modified)'
  BY <1>1, <1>2, <1>6 DEF Sound, Counted, OpenOf, Agree
<1> QED
  BY <1>4, <1>7 DEF Inv

\* What open() rebuilds is as sound as what was running.
LEMMA RestartStep ==
    ASSUME Inv, Restart
    PROVE  Inv'
<1>1. TypeOK /\ Sound(live, chain) /\ Agree(live, rebuilt, modified)
  BY DEF Inv
<1>2. /\ live' = rebuilt /\ restarts' = restarts + 1 /\ unsettled' \in BOOLEAN
      /\ UNCHANGED <<rebuilt, chain, ledger, modified, events>>
  BY DEF Restart
<1>3. TypeOK'
  BY <1>1, <1>2 DEF TypeOK
<1>4. \A u \in Users : OpenOf(rebuilt, u) = OpenOf(live, u)
  BY <1>1, CountKept DEF Agree
<1>5. Counted(rebuilt)
  BY <1>1, <1>4 DEF Sound, Counted, Agree
<1>6. Sound(rebuilt, chain)
  BY <1>1, <1>5 DEF Sound, Agree
<1>7. Sound(live, chain)' /\ Agree(live, rebuilt, modified)'
  BY <1>2, <1>6 DEF Sound, Counted, OpenOf, Agree
<1> QED
  BY <1>3, <1>7 DEF Inv

-----------------------------------------------------------------------------
(* The theorems.                                                           *)

LEMMA InitInv == Init => Inv
<1> SUFFICES ASSUME Init PROVE Inv
  OBVIOUS
<1>1. Empty \in StoresType
  BY DEF Empty, StoresType, PositionType, OrderStatus, BalanceType
<1>2. TypeOK
  <2>1. 0 \in 0..MaxSize
    BY EngineAssumption
  <2>2. chain \in [Positions -> 0..MaxSize] /\ ledger \in [Users -> 0..MaxSize]
    BY <2>1 DEF Init
  <2> QED
    BY <1>1, <2>2 DEF Init, TypeOK
<1>3. live = Empty /\ rebuilt = Empty /\ \A p \in Positions : chain[p] = 0
  BY DEF Init
<1>4. \A u \in Users : OpenOf(Empty, u) = {}
  BY DEF OpenOf, Empty
<1>5. Counted(Empty)
  BY <1>4, FS_EmptySet DEF Counted, Empty
<1>6. Sound(live, chain)
  BY <1>3, <1>5 DEF Sound, Empty
<1>7. Agree(live, rebuilt, modified)
  BY <1>3 DEF Agree
<1> QED
  BY <1>2, <1>6, <1>7 DEF Inv

LEMMA NextInv == Inv /\ [Next]_vars => Inv'
<1> SUFFICES ASSUME Inv, [Next]_vars PROVE Inv'
  OBVIOUS
<1>1. ASSUME NEW p \in Positions, NEW size \in Size,
             PositionOpened(p, size) \/ PositionClosed(p, size) \/ PositionModified(p, size)
      PROVE  Inv'
  BY <1>1, OpenedStep, ClosedStep, ModifiedStep
<1>2. ASSUME NEW p \in Positions, Liquidation(p) PROVE Inv'
  BY <1>2, LiquidationStep
<1>3. ASSUME NEW o \in Orders, NEW u \in Users, OrderPlaced(o, u) PROVE Inv'
  BY <1>3, PlacedStep
<1>4. ASSUME NEW o \in Orders, NEW status \in Ending, OrderEnded(o, status) PROVE Inv'
  BY <1>4, EndedStep
<1>5. ASSUME NEW u \in Users, NEW n \in Size, CollateralDeposited(u, n) \/ CollateralWithdrawn(u, n) PROVE Inv'
  BY <1>5, DepositedStep, WithdrawnStep
<1>6. ASSUME NEW u \in Users, VaultCreated(u) PROVE Inv'
  BY <1>6, VaultStep
<1>7. ASSUME MarketPaused \/ \E rate \in Size : FundingRateUpdated(rate) PROVE Inv'
  BY <1>7, MarketStep
<1>8. CASE snapshot
  BY <1>8, SnapshotStep
<1>9. CASE Restart
  BY <1>9, RestartStep
<1>10. CASE UNCHANGED vars
  BY <1>10 DEF vars, Inv, TypeOK, Sound, Counted, OpenOf, Agree
<1> QED
  BY <1>1, <1>2, <1>3, <1>4, <1>5, <1>6, <1>7, <1>8, <1>9, <1>10 DEF Next, Ending

\* Nothing is open and nothing is counted.
LEMMA InitSettled == Init => Settled
<1> SUFFICES ASSUME Init PROVE Settled
  OBVIOUS
<1>1. live.oi = 0 /\ \A p \in Positions : chain[p] = 0
  BY DEF Init, Empty
<1> QED
  BY <1>1, SumZero, EngineAssumption DEF Settled

\* Every step: an event that opens or closes moves both sides, one that
\* modifies or liquidates says so in unsettled, the others move neither.
LEMMA NextSettled == Inv /\ Settled /\ [Next]_vars => Settled'
<1> SUFFICES ASSUME Inv, Settled, [Next]_vars PROVE Settled'
  OBVIOUS
<1>1. live \in StoresType /\ rebuilt \in StoresType
  BY DEF Inv, TypeOK
<1>2. ASSUME NEW p \in Positions, NEW size \in Size, PositionOpened(p, size) \/ PositionClosed(p, size) PROVE Settled'
  BY <1>2, OpenedSettled, ClosedSettled
<1>3. ASSUME NEW p \in Positions, Liquidation(p) \/ \E size \in Size : PositionModified(p, size) PROVE Settled'
  BY <1>3 DEF PositionModified, Liquidation, Settled
<1>4. ASSUME NEW o \in Orders, NEW u \in Users, OrderPlaced(o, u) PROVE Settled'
  <2> DEFINE L1 == InsertOrder(live, o)
             L == Ensure(L1, u)
  <2>1. L1 \in StoresType /\ Frame(live, L1, {"orders", "book"})
    BY <1>1, InsertOrderFields
  <2> HIDE DEF L1
  <2>2. L \in StoresType /\ Frame(L1, L, {"users"})
    BY <2>1, EnsureFields
  <2>3. Event(L, Placed(rebuilt, o, u)) /\ UNCHANGED <<chain, unsettled>>
    BY <1>4 DEF OrderPlaced, Placed, L1
  <2> HIDE DEF L
  <2> QED
    BY <2>1, <2>2, <2>3, InterestKept DEF Frame, Fields
<1>5. ASSUME NEW o \in Orders, NEW status \in Ending, OrderEnded(o, status) PROVE Settled'
  <2> DEFINE L == EndOrder(live, o, status)
  <2>1. Event(L, EndOrder(rebuilt, o, status)) /\ UNCHANGED <<chain, unsettled>> /\ live.orders[o] # "None"
    BY <1>5 DEF OrderEnded
  <2>2. L \in StoresType /\ Frame(live, L, {"orders", "book"})
    BY <1>1, <2>1, EndOrderFields
  <2> HIDE DEF L
  <2> QED
    BY <2>1, <2>2, InterestKept DEF Frame, Fields
<1>6. ASSUME NEW u \in Users, NEW n \in Size, CollateralDeposited(u, n) \/ CollateralWithdrawn(u, n) PROVE Settled'
  <2>1. PICK L, R : /\ Event(L, R) /\ UNCHANGED <<chain, unsettled>>
                    /\ L = Deposited(live, u, n) \/ L = Withdrawn(live, u, n)
    BY <1>6 DEF CollateralDeposited, CollateralWithdrawn
  <2>2. live'.oi = live.oi
    BY <1>1, <2>1 DEF Event, AppendLog, Deposited, Withdrawn, SetBalance, Ensure, StoresType
  <2> QED
    BY <2>1, <2>2 DEF Settled
<1>7. ASSUME NEW u \in Users, VaultCreated(u) PROVE Settled'
  <2>1. live'.oi = live.oi /\ UNCHANGED <<chain, unsettled>>
    BY <1>1, <1>7 DEF VaultCreated, Event, AppendLog, VaultMade, SetVault, Ensure, StoresType
  <2> QED
    BY <2>1 DEF Settled
<1>8. ASSUME MarketPaused \/ \E rate \in Size : FundingRateUpdated(rate) PROVE Settled'
  <2>1. live'.oi = live.oi /\ UNCHANGED <<chain, unsettled>>
    BY <1>1, <1>8 DEF MarketPaused, FundingRateUpdated, Event, AppendLog, Paused, FundingSet, StoresType
  <2> QED
    BY <2>1 DEF Settled
<1>9. CASE snapshot
  BY <1>9 DEF snapshot, Settled
<1>10. CASE Restart
  <2>1. TypeOK
    BY DEF Inv
  <2> QED
    BY <1>10, <2>1 DEF Restart, Settled, TypeOK
<1>11. CASE UNCHANGED vars
  BY <1>11 DEF vars, Settled
<1> QED
  BY <1>2, <1>3, <1>4, <1>5, <1>6, <1>7, <1>8, <1>9, <1>10, <1>11 DEF Next, Ending

\* The inductive invariant holds of every behaviour of the engine's stores.
THEOREM Invariance == Spec => []Inv
<1> QED
  BY InitInv, NextInv, PTL DEF Spec

\* Every store keeps its type, live and rebuilt: no event makes a balance
\* negative, though process_event() subtracts from it.
THEOREM TypeCorrect == Spec => []TypeOK
<1>1. Inv => TypeOK
  BY DEF Inv
<1> QED
  BY <1>1, Invariance, PTL

\* Whatever the mix of snapshots, replayed entries and restarts, what open()
\* rebuilds agrees with the running engine on orders, books, balances, users,
\* statistics, funding rate, pause flag and the status of every position.
THEOREM ReplayEquivalence == Spec => []ReplayAgrees
<1>1. Inv => ReplayAgrees
  BY DEF Inv, Agree, ReplayAgrees
<1> QED
  BY <1>1, Invariance, PTL

\* trader_stats and positions are updated by separate calls of the two
\* matches; the count of open positions never drifts from the table.
THEOREM CountsNeverDrift == Spec => []OpenCountMatches
<1>1. Inv => OpenCountMatches
  <2> SUFFICES ASSUME Inv PROVE OpenCountMatches
    OBVIOUS
  <2>1. Counted(live) /\ Agree(live, rebuilt, modified)
    BY DEF Inv, Sound
  <2>2. \A u \in Users : OpenOf(rebuilt, u) = OpenOf(live, u)
    BY <2>1, CountKept DEF Agree
  <2> QED
    BY <2>1, <2>2 DEF Counted, Agree, OpenCountMatches
<1> QED
  BY <1>1, Invariance, PTL

\* add_long_oi() and add_short_oi() keep a running total that nothing ever
\* recomputes: as long as every position was opened and closed by live events,
\* partly or in full, it is the sum of the sizes that are open.
THEOREM InterestAddsUp == Spec => []OpenInterestMatches
<1>1. Settled => OpenInterestMatches
  BY DEF Settled, OpenInterestMatches
<1> QED
  BY <1>1, Invariance, InitSettled, NextSettled, PTL DEF Spec

-----------------------------------------------------------------------------
(* Filters.                                                                *)

\* How many of the indices in keep are up to i, and which is the k-th.
UpTo(keep, i) == {j \in keep : j <= i}
Nth(keep, k) == CHOOSE i \in keep : Cardinality(UpTo(keep, i)) = k

\* A filter keeps finitely many.
LEMMA KeepFinite ==
    ASSUME NEW n \in Nat, NEW keep \in SUBSET (1..n)
    PROVE  IsFiniteSet(keep) /\ Cardinality(keep) \in Nat /\ \A i \in keep : i \in Nat /\ i <= n
<1>1. IsFiniteSet(1..n)
  BY FS_Interval
<1>2. IsFiniteSet(keep)
  BY <1>1, FS_Subset
<1> QED
  BY <1>2, FS_CardinalityType

\* An index of a filter has its number, no other has the same.
LEMMA UpToCount ==
    ASSUME NEW n \in Nat, NEW keep \in SUBSET (1..n), NEW i \in keep
    PROVE  /\ IsFiniteSet(keep) /\ IsFiniteSet(UpTo(keep, i))
           /\ Cardinality(UpTo(keep, i)) \in 1..Cardinality(keep)
           /\ \A j \in keep : i < j => Cardinality(UpTo(keep, i)) < Cardinality(UpTo(keep, j))
<1>1. IsFiniteSet(keep) /\ Cardinality(keep) \in Nat /\ \A j \in keep : j \in Nat
  BY KeepFinite
<1>2. \A j \in keep : IsFiniteSet(UpTo(keep, j)) /\ Cardinality(UpTo(keep, j)) \in Nat
  <2> TAKE j \in keep
  <2>1. UpTo(keep, j) \in SUBSET keep
    BY DEF UpTo
  <2> QED
    BY <1>1, <2>1, FS_Subset, FS_CardinalityType
<1>3. Cardinality(UpTo(keep, i)) <= Cardinality(keep)
  <2>1. UpTo(keep, i) \in SUBSET keep
    BY DEF UpTo
  <2> QED
    BY <1>1, <2>1, FS_Subset
<1>4. Cardinality(UpTo(keep, i)) # 0
  <2>1. i \in UpTo(keep, i)
    BY DEF UpTo
  <2> QED
    BY <1>2, <2>1, FS_EmptySet
<1>5. ASSUME NEW j \in keep, i < j
      PROVE  Cardinality(UpTo(keep, i)) < Cardinality(UpTo(keep, j))
  <2>0. i \in Nat /\ j \in Nat
    BY <1>1
  <2>1. UpTo(keep, i) \in SUBSET UpTo(keep, j) /\ j \in UpTo(keep, j) /\ j \notin UpTo(keep, i)
    <3>1. \A x \in keep : x <= i => x <= j
      BY <1>1, <1>5, <2>0
    <3>2. j <= j /\ ~(j <= i)
      BY <1>5, <2>0
    <3> QED
      BY <3>1, <3>2 DEF UpTo
  <2>2. UpTo(keep, i) # UpTo(keep, j)
    BY <2>1
  <2> QED
    BY <1>2, <2>1, <2>2, FS_Subset
<1> QED
  BY <1>1, <1>2, <1>3, <1>4, <1>5

\* Every number has its index.
LEMMA NthExists ==
    ASSUME NEW n \in Nat, NEW keep \in SUBSET (1..n), NEW k \in 1..Cardinality(keep)
    PROVE  Nth(keep, k) \in keep /\ Cardinality(UpTo(keep, Nth(keep, k))) = k
<1> DEFINE f == [i \in keep |-> Cardinality(UpTo(keep, i))]
           T == 1..Cardinality(keep)
<1>1. IsFiniteSet(keep) /\ Cardinality(keep) \in Nat /\ \A j \in keep : j \in Nat
  BY KeepFinite
<1>2. IsFiniteSet(T) /\ Cardinality(T) = Cardinality(keep)
  <2>1. 1 \in Int /\ Cardinality(keep) \in Int
    BY <1>1
  <2> QED
    BY <1>1, <2>1, FS_Interval
<1>3. f \in Injection(keep, T)
  <2>1. \A i \in keep : f[i] \in T
    BY UpToCount
  <2>2. ASSUME NEW i \in keep, NEW j \in keep, f[i] = f[j] PROVE i = j
    <3>1. i \in Nat /\ j \in Nat /\ f[i] \in Nat /\ f[j] \in Nat
      BY <1>1, <2>1
    <3>1a. f[i] = Cardinality(UpTo(keep, i)) /\ f[j] = Cardinality(UpTo(keep, j))
      OBVIOUS
    <3> HIDE DEF f
    <3>2. /\ i < j => Cardinality(UpTo(keep, i)) < Cardinality(UpTo(keep, j))
          /\ j < i => Cardinality(UpTo(keep, j)) < Cardinality(UpTo(keep, i))
      BY UpToCount
    <3>3. ~(i < j) /\ ~(j < i)
      <4> DEFINE u == Cardinality(UpTo(keep, i))
                 v == Cardinality(UpTo(keep, j))
      <4>1. u = v /\ u \in Nat
        BY <2>2, <3>1, <3>1a
      <4>2. (i < j => u < v) /\ (j < i => v < u)
        BY <3>2
      <4> HIDE DEF u, v
      <4> QED
        BY <4>1, <4>2
    <3> QED
      BY <3>1, <3>3
  <2> QED
    BY <2>1, <2>2 DEF Injection, IsInjective
<1>4. f \in Surjection(keep, T)
  BY <1>1, <1>2, <1>3, FS_Injection
<1>5. \E i \in keep : Cardinality(UpTo(keep, i)) = k
  BY <1>4 DEF Surjection
<1> QED
  BY <1>5 DEF Nth

\* The number belongs to the index it is counted at.
LEMMA NthIs ==
    ASSUME NEW n \in Nat, NEW keep \in SUBSET (1..n), NEW i \in keep
    PROVE  Nth(keep, Cardinality(UpTo(keep, i))) = i
<1> DEFINE j == Nth(keep, Cardinality(UpTo(keep, i)))
<1>1. Cardinality(UpTo(keep, i)) \in 1..Cardinality(keep)
  BY UpToCount
<1>2. j \in keep /\ Cardinality(UpTo(keep, j)) = Cardinality(UpTo(keep, i))
  BY <1>1, NthExists
<1> HIDE DEF j
<1>3. i \in Nat /\ j \in Nat /\ Cardinality(UpTo(keep, i)) \in Nat
  BY <1>1, <1>2
<1>4. ~(i < j) /\ ~(j < i)
  BY <1>2, <1>3, UpToCount
<1> QED
  BY <1>3, <1>4 DEF j

\* The indices come in their order.
LEMMA NthAscends ==
    ASSUME NEW n \in Nat, NEW keep \in SUBSET (1..n), NEW k \in 1..Cardinality(keep), NEW l \in 1..Cardinality(keep), k < l
    PROVE  Nth(keep, k) < Nth(keep, l)
<1>1. Nth(keep, k) \in keep /\ Nth(keep, l) \in keep
  BY NthExists
<1>2. Cardinality(UpTo(keep, Nth(keep, k))) = k /\ Cardinality(UpTo(keep, Nth(keep, l))) = l
  BY NthExists
<1>3. Nth(keep, k) \in Nat /\ Nth(keep, l) \in Nat /\ k \in Nat /\ l \in Nat
  <2>1. Cardinality(keep) \in Nat /\ \A i \in keep : i \in Nat
    BY KeepFinite
  <2>2. k \in Nat /\ l \in Nat
    BY <2>1
  <2> QED
    BY <1>1, <2>1, <2>2
<1>4. ~(Nth(keep, l) < Nth(keep, k))
  <2>1. Nth(keep, l) < Nth(keep, k) => l < k
    BY <1>1, <1>2, UpToCount
  <2> QED
    BY <1>3, <2>1
<1>5. Nth(keep, l) # Nth(keep, k)
  BY <1>2, <1>3
<1> QED
  BY <1>3, <1>4, <1>5

\* The elements a filter returns.
LEMMA PickedIs ==
    ASSUME NEW S, NEW s \in Seq(S), NEW keep \in SUBSET (1..Len(s))
    PROVE  /\ Picked(s, keep) \in Seq(S) /\ Len(Picked(s, keep)) = Cardinality(keep) /\ Cardinality(keep) \in Nat
           /\ \A k \in 1..Cardinality(keep) : Nth(keep, k) \in keep /\ Picked(s, keep)[k] = s[Nth(keep, k)]
<1>0. Len(s) \in Nat
  OBVIOUS
<1>1. Cardinality(keep) \in Nat
  BY <1>0, KeepFinite
<1>2. Picked(s, keep) = [k \in 1..Cardinality(keep) |-> s[Nth(keep, k)]]
  BY DEF Picked, Nth, UpTo
<1>3. \A k \in 1..Cardinality(keep) : Nth(keep, k) \in keep /\ s[Nth(keep, k)] \in S
  <2> TAKE k \in 1..Cardinality(keep)
  <2>1. Nth(keep, k) \in keep
    BY <1>0, NthExists
  <2>2. Nth(keep, k) \in 1..Len(s)
    BY <2>1
  <2> HIDE DEF Nth
  <2> QED
    BY <2>1, <2>2
<1> QED
  BY <1>1, <1>2, <1>3

\* An element behind, which is kept or not.
LEMMA NthOfMore ==
    ASSUME NEW n \in Nat, NEW keep \in SUBSET (1..n)
    PROVE  LET more == keep \cup {n + 1} IN
           /\ Cardinality(more) = Cardinality(keep) + 1
           /\ Nth(more, Cardinality(keep) + 1) = n + 1
           /\ \A k \in 1..Cardinality(keep) : Nth(more, k) = Nth(keep, k)
<1> DEFINE more == keep \cup {n + 1}
<1>1. IsFiniteSet(keep) /\ Cardinality(keep) \in Nat /\ \A j \in keep : j \in Nat
  BY KeepFinite
<1>2. n + 1 \notin keep /\ n + 1 \in Nat /\ more \in SUBSET (1..(n + 1))
  OBVIOUS
<1>3. Cardinality(more) = Cardinality(keep) + 1
  BY <1>1, <1>2, FS_AddElement
<1>4. UpTo(more, n + 1) = more
  <2>1. \A j \in more : j <= n + 1
    BY KeepFinite
  <2> HIDE DEF more
  <2> QED
    BY <2>1 DEF UpTo
<1>5. Nth(more, Cardinality(keep) + 1) = n + 1
  <2>1. n + 1 \in more
    OBVIOUS
  <2> HIDE DEF more
  <2>2. Nth(more, Cardinality(UpTo(more, n + 1))) = n + 1
    BY <1>2, <2>1, NthIs
  <2> QED
    BY <1>3, <1>4, <2>2
<1>6. ASSUME NEW k \in 1..Cardinality(keep)
      PROVE  Nth(more, k) = Nth(keep, k)
  <2>1. Nth(keep, k) \in keep /\ Cardinality(UpTo(keep, Nth(keep, k))) = k
    BY NthExists
  <2>2. UpTo(more, Nth(keep, k)) = UpTo(keep, Nth(keep, k))
    <3>1. ~(n + 1 <= Nth(keep, k))
      <4>1. Nth(keep, k) \in Nat /\ Nth(keep, k) <= n
        BY <2>1, KeepFinite
      <4> QED
        BY <4>1
    <3> QED
      BY <3>1 DEF UpTo
  <2>3. Nth(keep, k) \in more
    BY <2>1
  <2> HIDE DEF more
  <2>4. Nth(more, Cardinality(UpTo(more, Nth(keep, k)))) = Nth(keep, k)
    BY <1>2, <2>3, NthIs
  <2> QED
    BY <2>1, <2>2, <2>4
<1> QED
  BY <1>3, <1>5, <1>6

\* A filter of one event more: the same, or the event behind it.
LEMMA PickedMore ==
    ASSUME NEW S, NEW s \in Seq(S), NEW e \in S, NEW keep \in SUBSET (1..Len(s))
    PROVE  /\ Picked(Append(s, e), keep) = Picked(s, keep)
           /\ Picked(Append(s, e), keep \cup {Len(s) + 1}) = Append(Picked(s, keep), e)
<1> DEFINE t == Append(s, e)
           more == keep \cup {Len(s) + 1}
<1>1. /\ t \in Seq(S) /\ Len(t) = Len(s) + 1 /\ Len(s) \in Nat
      /\ \A i \in 1..Len(s) : t[i] = s[i] /\ t[Len(s) + 1] = e
  BY AppendProperties
<1>2. keep \in SUBSET (1..Len(t)) /\ more \in SUBSET (1..Len(t))
  <2>1. Len(t) = Len(s) + 1 /\ Len(s) \in Nat
    BY <1>1
  <2> HIDE DEF t
  <2>2. 1..Len(s) \subseteq 1..Len(t) /\ Len(s) + 1 \in 1..Len(t)
    BY <2>1
  <2> QED
    BY <2>2
<1>1a. t[Len(s) + 1] = e
  BY AppendProperties
<1> HIDE DEF t
<1>3. /\ Picked(s, keep) \in Seq(S) /\ Len(Picked(s, keep)) = Cardinality(keep) /\ Cardinality(keep) \in Nat
      /\ \A k \in 1..Cardinality(keep) : Nth(keep, k) \in keep /\ Picked(s, keep)[k] = s[Nth(keep, k)]
  BY PickedIs
<1>4. /\ Picked(t, keep) \in Seq(S) /\ Len(Picked(t, keep)) = Cardinality(keep)
      /\ \A k \in 1..Cardinality(keep) : Nth(keep, k) \in keep /\ Picked(t, keep)[k] = t[Nth(keep, k)]
  BY <1>1, <1>2, PickedIs
<1>5. Picked(t, keep) = Picked(s, keep)
  <2>1. \A k \in 1..Cardinality(keep) : Picked(t, keep)[k] = Picked(s, keep)[k]
    BY <1>1, <1>3, <1>4
  <2> QED
    BY <1>3, <1>4, <2>1, SeqEqual
<1>6. /\ Cardinality(more) = Cardinality(keep) + 1 /\ Nth(more, Cardinality(keep) + 1) = Len(s) + 1
      /\ \A k \in 1..Cardinality(keep) : Nth(more, k) = Nth(keep, k)
  BY <1>1, NthOfMore
<1> HIDE DEF more
<1>7. /\ Picked(t, more) \in Seq(S) /\ Len(Picked(t, more)) = Cardinality(keep) + 1
      /\ \A k \in 1..(Cardinality(keep) + 1) : Picked(t, more)[k] = t[Nth(more, k)]
  <2>1. /\ Picked(t, more) \in Seq(S) /\ Len(Picked(t, more)) = Cardinality(more)
        /\ \A k \in 1..Cardinality(more) : Picked(t, more)[k] = t[Nth(more, k)]
    BY <1>1, <1>2, PickedIs
  <2> QED
    BY <1>6, <2>1
<1>8. /\ Append(Picked(s, keep), e) \in Seq(S) /\ Len(Append(Picked(s, keep), e)) = Cardinality(keep) + 1
      /\ \A k \in 1..Cardinality(keep) : Append(Picked(s, keep), e)[k] = Picked(s, keep)[k]
      /\ Append(Picked(s, keep), e)[Cardinality(keep) + 1] = e
  BY <1>3, AppendProperties
<1>9. ASSUME NEW k \in 1..(Cardinality(keep) + 1)
      PROVE  Picked(t, more)[k] = Append(Picked(s, keep), e)[k]
  <2>1. CASE k = Cardinality(keep) + 1
    BY <1>1a, <1>6, <1>7, <1>8, <2>1
  <2>2. CASE k \in 1..Cardinality(keep)
    <3>1. Nth(keep, k) \in 1..Len(s) /\ Picked(s, keep)[k] = s[Nth(keep, k)] /\ Nth(more, k) = Nth(keep, k)
      BY <1>3, <1>6, <2>2
    <3> QED
      BY <1>1, <1>7, <1>8, <2>2, <3>1
  <2> QED
    BY <1>3, <2>1, <2>2
<1>10. Picked(t, more) = Append(Picked(s, keep), e)
  BY <1>7, <1>8, <1>9, SeqEqual
<1> QED
  BY <1>5, <1>10 DEF t, more

\* A filter that keeps an interval returns that part.
LEMMA PickedInterval ==
    ASSUME NEW S, NEW s \in Seq(S), NEW lo \in 0..Len(s), NEW hi \in lo..Len(s)
    PROVE  Picked(s, (lo + 1)..hi) = SubSeq(s, lo + 1, hi)
<1> DEFINE keep == (lo + 1)..hi
<1>1. lo \in Nat /\ hi \in Nat /\ Len(s) \in Nat /\ keep \in SUBSET (1..Len(s))
  OBVIOUS
<1>2. \A i \in lo..hi : Cardinality((lo + 1)..i) = i - lo
  <2> TAKE i \in lo..hi
  <2>1. i \in Int /\ lo <= i /\ lo + 1 \in Int
    BY <1>1
  <2>2. Cardinality((lo + 1)..i) = IF lo + 1 > i THEN 0 ELSE i - (lo + 1) + 1
    BY <1>1, <2>1, FS_Interval
  <2> QED
    BY <1>1, <2>1, <2>2
<1>3. Cardinality(keep) = hi - lo
  BY <1>1, <1>2
<1>4. \A k \in 1..(hi - lo) : Nth(keep, k) = lo + k
  <2> TAKE k \in 1..(hi - lo)
  <2>1. lo + k \in keep /\ UpTo(keep, lo + k) = (lo + 1)..(lo + k) /\ lo + k \in lo..hi
    BY <1>1 DEF UpTo
  <2>2. Cardinality(UpTo(keep, lo + k)) = k
    BY <1>1, <1>2, <2>1
  <2> HIDE DEF keep
  <2> QED
    BY <1>1, <2>1, <2>2, NthIs
<1> HIDE DEF keep
<1>5. /\ Picked(s, keep) \in Seq(S) /\ Len(Picked(s, keep)) = hi - lo
      /\ \A k \in 1..(hi - lo) : Picked(s, keep)[k] = s[lo + k]
  <2>1. /\ Picked(s, keep) \in Seq(S) /\ Len(Picked(s, keep)) = Cardinality(keep)
        /\ \A k \in 1..Cardinality(keep) : Picked(s, keep)[k] = s[Nth(keep, k)]
    BY <1>1, PickedIs
  <2> QED
    BY <1>3, <1>4, <2>1
<1>6. /\ SubSeq(s, lo + 1, hi) \in Seq(S) /\ Len(SubSeq(s, lo + 1, hi)) = hi - lo
      /\ \A k \in 1..(hi - lo) : SubSeq(s, lo + 1, hi)[k] = s[lo + k]
  <2>1. \A i \in (lo + 1)..hi : s[i] \in S
    BY <1>1
  <2>2. lo + 1 \in Int /\ hi \in Int /\ hi - (lo + 1) + 1 = hi - lo /\ (lo + 1 <= hi \/ hi - lo = 0)
    BY <1>1
  <2>3. /\ SubSeq(s, lo + 1, hi) \in Seq(S) /\ Len(SubSeq(s, lo + 1, hi)) = IF lo + 1 <= hi THEN hi - (lo + 1) + 1 ELSE 0
        /\ \A k \in 1..(hi - (lo + 1) + 1) : SubSeq(s, lo + 1, hi)[k] = s[lo + 1 + k - 1]
    BY <2>1, <2>2, SubSeqProperties
  <2>4. \A k \in 1..(hi - lo) : lo + 1 + k - 1 = lo + k
    BY <1>1
  <2> QED
    BY <2>2, <2>3, <2>4
<1>7. \A k \in 1..(hi - lo) : Picked(s, keep)[k] = SubSeq(s, lo + 1, hi)[k]
  BY <1>5, <1>6
<1>8. Picked(s, keep) = SubSeq(s, lo + 1, hi)
  BY <1>5, <1>6, <1>7, SeqEqual
<1> QED
  BY <1>8 DEF keep

-----------------------------------------------------------------------------
(* The event log: its inductive invariant.                                 *)

Kind == WithMarket \cup WithTrader \cup {"PositionModified", "OrderExecuted", "ADLExecuted", "VaultDeficit"}
Logged == [n : Nat, kind : Kind, market : Market, trader : Trader, size : Nat, pnl : Int, ts : Nat]

FeedsTypes ==
    /\ mix \in Mixes
    /\ wal \in Seq(Logged) /\ base \in Nat
    /\ by_market \in [Market -> Seq(Logged)] /\ by_trader \in [Trader -> Seq(Logged)] /\ total_count \in Nat
    /\ stats \in [Trader -> TraderStats \cup {None}]
    /\ indexer \in {"idle", "market", "trader", "count", "ensure", "trade", "daily"}
    /\ file.block \in Nat /\ file.stats \in [Trader -> TraderStats \cup {None}]

\* Blocks are places in the log; the event under way is behind the snapshot
\* that was restored and the one that was taken last.
Numbered ==
    /\ \A i \in 1..Len(wal) : wal[i].n = i
    /\ base <= Len(wal) /\ file.block <= Len(wal)
    /\ indexer # "idle" => wal # <<>> /\ base < Len(wal) /\ file.block < Len(wal)
    /\ indexer = "trade" => stats[Now.trader] \in TraderStats

\* What each of the three parts of the event log has been told.
ToldMarket == IF indexer = "market" THEN Len(wal) - 1 ELSE Len(wal)
ToldTrader == IF indexer \in {"market", "trader"} THEN Len(wal) - 1 ELSE Len(wal)
ToldCount == IF indexer \in {"market", "trader", "count"} THEN Len(wal) - 1 ELSE Len(wal)

Told ==
    /\ \A m \in Market : by_market[m] = OfMarket(SubSeq(wal, base + 1, ToldMarket), m)
    /\ \A tr \in Trader : by_trader[tr] = OfTrader(SubSeq(wal, base + 1, ToldTrader), tr)
    /\ total_count = ToldCount - base

FeedsInv == FeedsTypes /\ Numbered /\ Told

-----------------------------------------------------------------------------
(* Partitions.                                                             *)

\* The fields of an event.
LEMMA KindOf == ChainEvent = [kind : Kind, market : Market, trader : Trader, size : Nat, pnl : Int, ts : Nat]
BY DEF ChainEvent, Kind

\* An event in the log, under its place.
LEMMA EntryLogged ==
    ASSUME NEW n \in Nat, NEW e \in ChainEvent
    PROVE  Entry(n, e) \in Logged /\ Entry(n, e).n = n
<1>1. /\ e.kind \in Kind /\ e.market \in Market /\ e.trader \in Trader
      /\ e.size \in Nat /\ e.pnl \in Int /\ e.ts \in Nat
  BY KindOf
<1> QED
  BY <1>1 DEF Entry, Logged

\* The fields of a log entry.
LEMMA LoggedFields ==
    ASSUME NEW e \in Logged
    PROVE  /\ e.n \in Nat /\ e.kind \in Kind /\ e.market \in Market /\ e.trader \in Trader
           /\ e.size \in Nat /\ e.pnl \in Int /\ e.ts \in Nat
BY DEF Logged

\* An event more in the log is an event more for its market, and for its trader.
LEMMA AppendOfMarket ==
    ASSUME NEW s \in Seq(Logged), NEW e \in Logged, NEW m \in Market
    PROVE  /\ OfMarket(s, m) \in Seq(Logged)
           /\ OfMarket(Append(s, e), m) = IF MarketOf(e) = m THEN Append(OfMarket(s, m), e) ELSE OfMarket(s, m)
<1> DEFINE t == Append(s, e)
           keep == {i \in DOMAIN s : MarketOf(s[i]) = m}
           more == {i \in DOMAIN t : MarketOf(t[i]) = m}
<1>1. Len(t) = Len(s) + 1 /\ Len(s) \in Nat /\ t[Len(s) + 1] = e /\ t \in Seq(Logged)
  BY AppendProperties
<1>2. \A i \in 1..Len(s) : t[i] = s[i]
  BY AppendProperties
<1>3. DOMAIN s = 1..Len(s) /\ DOMAIN t = 1..Len(s) \cup {Len(s) + 1}
  <2>1. DOMAIN t = 1..(Len(s) + 1)
    BY <1>1, LenProperties
  <2> QED
    BY <1>1, <2>1, LenProperties
<1> HIDE DEF t
<1>4. more = IF MarketOf(e) = m THEN keep \cup {Len(s) + 1} ELSE keep
  BY <1>1, <1>2, <1>3
<1>5. keep \in SUBSET (1..Len(s))
  BY <1>3
<1>6. OfMarket(s, m) = Picked(s, keep) /\ OfMarket(t, m) = Picked(t, more)
  BY DEF OfMarket
<1> HIDE DEF keep, more
<1>7. Picked(t, keep) = Picked(s, keep) /\ Picked(t, keep \cup {Len(s) + 1}) = Append(Picked(s, keep), e)
  BY <1>5, PickedMore DEF t
<1>8. Picked(s, keep) \in Seq(Logged)
  BY <1>5, PickedIs
<1> QED
  BY <1>4, <1>6, <1>7, <1>8 DEF t

\* The same of a trader's partition.
LEMMA AppendOfTrader ==
    ASSUME NEW s \in Seq(Logged), NEW e \in Logged, NEW tr \in Trader
    PROVE  /\ OfTrader(s, tr) \in Seq(Logged)
           /\ OfTrader(Append(s, e), tr) = IF TraderOf(e) = tr THEN Append(OfTrader(s, tr), e) ELSE OfTrader(s, tr)
<1> DEFINE t == Append(s, e)
           keep == {i \in DOMAIN s : TraderOf(s[i]) = tr}
           more == {i \in DOMAIN t : TraderOf(t[i]) = tr}
<1>1. Len(t) = Len(s) + 1 /\ Len(s) \in Nat /\ t[Len(s) + 1] = e /\ t \in Seq(Logged)
  BY AppendProperties
<1>2. \A i \in 1..Len(s) : t[i] = s[i]
  BY AppendProperties
<1>3. DOMAIN s = 1..Len(s) /\ DOMAIN t = 1..Len(s) \cup {Len(s) + 1}
  <2>1. DOMAIN t = 1..(Len(s) + 1)
    BY <1>1, LenProperties
  <2> QED
    BY <1>1, <2>1, LenProperties
<1> HIDE DEF t
<1>4. more = IF TraderOf(e) = tr THEN keep \cup {Len(s) + 1} ELSE keep
  BY <1>1, <1>2, <1>3
<1>5. keep \in SUBSET (1..Len(s))
  BY <1>3
<1>6. OfTrader(s, tr) = Picked(s, keep) /\ OfTrader(t, tr) = Picked(t, more)
  BY DEF OfTrader
<1> HIDE DEF keep, more
<1>7. Picked(t, keep) = Picked(s, keep) /\ Picked(t, keep \cup {Len(s) + 1}) = Append(Picked(s, keep), e)
  BY <1>5, PickedMore DEF t
<1>8. Picked(s, keep) \in Seq(Logged)
  BY <1>5, PickedIs
<1> QED
  BY <1>4, <1>6, <1>7, <1>8 DEF t

\* Nothing of an empty log.
LEMMA OfNothing ==
    ASSUME NEW m, NEW tr
    PROVE  OfMarket(<<>>, m) = <<>> /\ OfTrader(<<>>, tr) = <<>>
<1>1. ASSUME NEW keep, keep = {} PROVE Picked(<<>>, keep) = <<>>
  <2>1. Cardinality(keep) = 0
    BY <1>1, FS_EmptySet
  <2>2. 1..0 = {}
    OBVIOUS
  <2> QED
    BY <2>1, <2>2 DEF Picked
<1>2. {i \in DOMAIN << >> : MarketOf(<< >>[i]) = m} = {} /\ {i \in DOMAIN << >> : TraderOf(<< >>[i]) = tr} = {}
  OBVIOUS
<1> QED
  BY <1>1, <1>2 DEF OfMarket, OfTrader

\* append(): the partitions of a log with one event more.
LEMMA MarketAppended ==
    ASSUME NEW parts \in [Market -> Seq(Logged)], NEW s \in Seq(Logged), NEW e \in Logged,
           \A m \in Market : parts[m] = OfMarket(s, m)
    PROVE  /\ ToMarket(parts, e) \in [Market -> Seq(Logged)]
           /\ \A m \in Market : ToMarket(parts, e)[m] = OfMarket(Append(s, e), m)
<1>1. None \notin Market
  BY FeedsAssumption
<1>2. MarketOf(e) \in Market \cup {None}
  BY LoggedFields DEF MarketOf
<1>3. /\ ToMarket(parts, e) \in [Market -> Seq(Logged)]
      /\ \A m \in Market : ToMarket(parts, e)[m] = IF MarketOf(e) = m THEN Append(parts[m], e) ELSE parts[m]
  BY <1>1, <1>2 DEF ToMarket
<1>4. \A m \in Market : OfMarket(Append(s, e), m) = IF MarketOf(e) = m THEN Append(OfMarket(s, m), e) ELSE OfMarket(s, m)
  BY AppendOfMarket
<1> QED
  BY <1>3, <1>4

\* The same of the traders' partitions.
LEMMA TraderAppended ==
    ASSUME NEW parts \in [Trader -> Seq(Logged)], NEW s \in Seq(Logged), NEW e \in Logged,
           \A tr \in Trader : parts[tr] = OfTrader(s, tr)
    PROVE  /\ ToTrader(parts, e) \in [Trader -> Seq(Logged)]
           /\ \A tr \in Trader : ToTrader(parts, e)[tr] = OfTrader(Append(s, e), tr)
<1>1. None \notin Trader
  BY FeedsAssumption
<1>2. TraderOf(e) \in Trader \cup {None}
  BY LoggedFields DEF TraderOf
<1>3. /\ ToTrader(parts, e) \in [Trader -> Seq(Logged)]
      /\ \A tr \in Trader : ToTrader(parts, e)[tr] = IF TraderOf(e) = tr THEN Append(parts[tr], e) ELSE parts[tr]
  BY <1>1, <1>2 DEF ToTrader
<1>4. \A tr \in Trader : OfTrader(Append(s, e), tr) = IF TraderOf(e) = tr THEN Append(OfTrader(s, tr), e) ELSE OfTrader(s, tr)
  BY AppendOfTrader
<1> QED
  BY <1>3, <1>4

\* Part of a log, and one event more.
LEMMA PartMore ==
    ASSUME NEW s \in Seq(Logged), NEW a \in 0..Len(s), NEW b \in a..(Len(s) - 1)
    PROVE  /\ SubSeq(s, a + 1, b) \in Seq(Logged) /\ s[b + 1] \in Logged
           /\ SubSeq(s, a + 1, b + 1) = Append(SubSeq(s, a + 1, b), s[b + 1])
<1>1. a + 1 \in 1..Len(s) /\ b + 1 \in (a + 1)..Len(s) /\ b + 1 - 1 = b /\ b + 1 \in 1..Len(s) /\ b \in Nat
  OBVIOUS
<1>2. SubSeq(s, a + 1, b + 1) = SubSeq(s, a + 1, b) \o <<s[b + 1]>>
  <2>1. SubSeq(s, a + 1, b + 1) = SubSeq(s, a + 1, b + 1 - 1) \o <<s[b + 1]>>
    BY <1>1, SubSeqRecursiveSecond
  <2> QED
    BY <1>1, <2>1
<1>3. SubSeq(s, a + 1, b) \in Seq(Logged) /\ s[b + 1] \in Logged
  <2>1. \A i \in (a + 1)..b : s[i] \in Logged
    <3>1. \A i \in (a + 1)..b : i \in 1..Len(s)
      BY <1>1
    <3> QED
      BY <3>1, ElementOfSeq
  <2>2. a + 1 \in Int /\ b \in Int
    BY <1>1
  <2>3. SubSeq(s, a + 1, b) \in Seq(Logged)
    BY <2>1, <2>2, SubSeqProperties
  <2> QED
    BY <1>1, <2>3, ElementOfSeq
<1> QED
  BY <1>2, <1>3, AppendIsConcat

\* A longer log begins with the shorter one.
LEMMA PartOfLonger ==
    ASSUME NEW s \in Seq(Logged), NEW e \in Logged, NEW a \in 0..Len(s)
    PROVE  SubSeq(Append(s, e), a + 1, Len(s)) = SubSeq(s, a + 1, Len(s))
<1> DEFINE t == Append(s, e)
<1>1. Len(s) \in Nat /\ a \in Nat /\ \A i \in 1..Len(s) : t[i] = s[i]
  BY AppendProperties
<1> HIDE DEF t
<1>2. \A i \in (a + 1)..Len(s) : t[i] = s[i] /\ s[i] \in Logged
  <2>1. \A i \in (a + 1)..Len(s) : i \in 1..Len(s)
    BY <1>1
  <2> QED
    BY <1>1, <2>1, ElementOfSeq
<1>3. a + 1 \in Int /\ Len(s) \in Int
  BY <1>1
<1>4. /\ SubSeq(s, a + 1, Len(s)) \in Seq(Logged)
      /\ Len(SubSeq(s, a + 1, Len(s))) = IF a + 1 <= Len(s) THEN Len(s) - (a + 1) + 1 ELSE 0
      /\ \A i \in 1..(Len(s) - (a + 1) + 1) : SubSeq(s, a + 1, Len(s))[i] = s[a + 1 + i - 1]
  BY <1>2, <1>3, SubSeqProperties
<1>5. /\ SubSeq(t, a + 1, Len(s)) \in Seq(Logged)
      /\ Len(SubSeq(t, a + 1, Len(s))) = IF a + 1 <= Len(s) THEN Len(s) - (a + 1) + 1 ELSE 0
      /\ \A i \in 1..(Len(s) - (a + 1) + 1) : SubSeq(t, a + 1, Len(s))[i] = t[a + 1 + i - 1]
  BY <1>2, <1>3, SubSeqProperties
<1>6. \A i \in 1..Len(SubSeq(t, a + 1, Len(s))) : SubSeq(t, a + 1, Len(s))[i] = SubSeq(s, a + 1, Len(s))[i]
  <2> TAKE i \in 1..Len(SubSeq(t, a + 1, Len(s)))
  <2>1. i \in 1..(Len(s) - (a + 1) + 1) /\ a + 1 + i - 1 \in (a + 1)..Len(s)
    BY <1>1, <1>5
  <2> QED
    BY <1>2, <1>4, <1>5, <2>1
<1>7. SubSeq(t, a + 1, Len(s)) = SubSeq(s, a + 1, Len(s))
  BY <1>4, <1>5, <1>6, SeqEqual
<1> QED
  BY <1>7 DEF t

-----------------------------------------------------------------------------
(* The statistics.                                                         *)

\* Max() and Min() of two.
LEMMA MaxMin ==
    ASSUME NEW a \in Int, NEW b \in Int
    PROVE  Max({a, b}) \in Int /\ Min({a, b}) \in Int
<1>1. \E x \in {a, b} : \A y \in {a, b} : x >= y
  OBVIOUS
<1>2. \E x \in {a, b} : \A y \in {a, b} : x <= y
  OBVIOUS
<1>3. Max({a, b}) \in {a, b}
  BY <1>1 DEF Max
<1>4. Min({a, b}) \in {a, b}
  BY <1>2 DEF Min
<1> QED
  BY <1>3, <1>4

\* A counted trade leaves statistics, and so does a new row.
LEMMA TradeCounted ==
    ASSUME NEW s \in TraderStats, NEW e \in Logged
    PROVE  increment_trade(s, e) \in TraderStats /\ NewStats \in TraderStats
<1>1. e.size \in Nat /\ e.pnl \in Int
  BY LoggedFields
<1>2. Volume(e) \in Nat /\ Pnl(e) \in Int
  BY <1>1 DEF Volume, Pnl
<1>3. /\ s.trades \in Nat /\ s.volume \in Nat /\ s.pnl \in Int /\ s.wins \in Nat /\ s.losses \in Nat
      /\ s.liquidations \in Nat /\ s.best \in Int /\ s.worst \in Int
  BY DEF TraderStats
<1>4. Max({s.best, Pnl(e)}) \in Int /\ Min({s.worst, Pnl(e)}) \in Int
  BY <1>2, <1>3, MaxMin
<1>5. increment_trade(s, e) \in TraderStats
  BY <1>2, <1>3, <1>4 DEF increment_trade, TraderStats
<1> QED
  BY <1>5 DEF NewStats, TraderStats

\* ensure() and what is counted after it; nothing but the event's trader changes.
LEMMA StatsAppended ==
    ASSUME NEW all \in [Trader -> TraderStats \cup {None}], NEW e \in Logged
    PROVE  /\ ensure(all, e) \in [Trader -> TraderStats \cup {None}]
           /\ e.kind \in Ensured => ensure(all, e)[e.trader] \in TraderStats
           /\ \A tr \in Trader : ensure(all, e)[tr] = all[tr] \/ (all[tr] = None /\ ensure(all, e)[tr] = NewStats)
           /\ all[e.trader] \in TraderStats =>
                  /\ Trade(all, e) \in [Trader -> TraderStats \cup {None}]
                  /\ \A tr \in Trader \ {e.trader} : Trade(all, e)[tr] = all[tr]
           /\ Trade(ensure(all, e), e) \in [Trader -> TraderStats \cup {None}]
<1>1. e.trader \in Trader /\ NewStats \in TraderStats
  BY LoggedFields DEF NewStats, TraderStats
<1>2. /\ ensure(all, e) \in [Trader -> TraderStats \cup {None}]
      /\ e.kind \in Ensured => ensure(all, e)[e.trader] \in TraderStats
      /\ \A tr \in Trader : ensure(all, e)[tr] = all[tr] \/ (all[tr] = None /\ ensure(all, e)[tr] = NewStats)
  BY <1>1 DEF ensure
<1>3. ASSUME NEW more \in [Trader -> TraderStats \cup {None}], more[e.trader] \in TraderStats
      PROVE  /\ Trade(more, e) \in [Trader -> TraderStats \cup {None}]
             /\ \A tr \in Trader \ {e.trader} : Trade(more, e)[tr] = more[tr]
  <2>1. increment_trade(more[e.trader], e) \in TraderStats
    BY <1>3, TradeCounted
  <2> QED
    BY <1>1, <2>1 DEF Trade
<1>4. Trade(ensure(all, e), e) \in [Trader -> TraderStats \cup {None}]
  <2>1. CASE e.kind \in Traded
    BY <1>2, <1>3, <2>1 DEF Ensured
  <2>2. CASE e.kind \notin Traded
    BY <1>2, <2>2 DEF Trade
  <2> QED
    BY <2>1, <2>2
<1> QED
  BY <1>2, <1>3, <1>4

-----------------------------------------------------------------------------
(* Replay.                                                                 *)

\* What replay has made of these entries.
Made(S, told) ==
    /\ S.by_market \in [Market -> Seq(Logged)] /\ S.by_trader \in [Trader -> Seq(Logged)]
    /\ S.stats \in [Trader -> TraderStats \cup {None}]
    /\ \A m \in Market : S.by_market[m] = OfMarket(told, m)
    /\ \A tr \in Trader : S.by_trader[tr] = OfTrader(told, tr)

\* One entry more.
LEMMA MadeMore ==
    ASSUME NEW S, NEW told \in Seq(Logged), NEW e \in Logged, Made(S, told)
    PROVE  Made(ReplayEntry(S, e), Append(told, e))
<1> DEFINE R == ReplayEntry(S, e)
<1>1. /\ R.by_market = ToMarket(S.by_market, e) /\ R.by_trader = ToTrader(S.by_trader, e)
      /\ R.stats = Trade(ensure(S.stats, e), e)
  BY DEF ReplayEntry
<1> HIDE DEF R
<1>2. S.by_market \in [Market -> Seq(Logged)] /\ S.by_trader \in [Trader -> Seq(Logged)] /\ S.stats \in [Trader -> TraderStats \cup {None}]
  BY DEF Made
<1>3. R.stats \in [Trader -> TraderStats \cup {None}]
  <2> DEFINE all == S.stats
  <2>1. all \in [Trader -> TraderStats \cup {None}]
    BY <1>2
  <2> HIDE DEF all
  <2>2. Trade(ensure(all, e), e) \in [Trader -> TraderStats \cup {None}]
    BY <2>1, StatsAppended
  <2> QED
    BY <1>1, <2>2 DEF all
<1>4. /\ ToMarket(S.by_market, e) \in [Market -> Seq(Logged)]
      /\ \A m \in Market : ToMarket(S.by_market, e)[m] = OfMarket(Append(told, e), m)
  <2> DEFINE parts == S.by_market
  <2>1. parts \in [Market -> Seq(Logged)] /\ \A m \in Market : parts[m] = OfMarket(told, m)
    BY DEF Made
  <2> HIDE DEF parts
  <2>2. ToMarket(parts, e) \in [Market -> Seq(Logged)] /\ \A m \in Market : ToMarket(parts, e)[m] = OfMarket(Append(told, e), m)
    BY <2>1, MarketAppended
  <2> QED
    BY <2>2 DEF parts
<1>4a. /\ ToTrader(S.by_trader, e) \in [Trader -> Seq(Logged)]
       /\ \A tr \in Trader : ToTrader(S.by_trader, e)[tr] = OfTrader(Append(told, e), tr)
  <2> DEFINE parts == S.by_trader
  <2>1. parts \in [Trader -> Seq(Logged)] /\ \A tr \in Trader : parts[tr] = OfTrader(told, tr)
    BY DEF Made
  <2> HIDE DEF parts
  <2>2. ToTrader(parts, e) \in [Trader -> Seq(Logged)] /\ \A tr \in Trader : ToTrader(parts, e)[tr] = OfTrader(Append(told, e), tr)
    BY <2>1, TraderAppended
  <2> QED
    BY <2>2 DEF parts
<1>5. Made(R, Append(told, e))
  BY <1>1, <1>3, <1>4, <1>4a DEF Made
<1> QED
  BY <1>5 DEF R

\* The function that replay is.
After(S, entries, g, n) == g = [i \in 0..n |-> IF i = 0 THEN S ELSE ReplayEntry(g[i - 1], entries[i])]

\* Its equation, at one place.
LEMMA AfterAt ==
    ASSUME NEW S, NEW entries, NEW g, NEW n \in Nat, After(S, entries, g, n), NEW i \in 0..n
    PROVE  g[i] = IF i = 0 THEN S ELSE ReplayEntry(g[i - 1], entries[i])
BY DEF After

\* There is such a function.
LEMMA AfterExists ==
    ASSUME NEW S, NEW entries, NEW n \in Nat
    PROVE  \E g : After(S, entries, g, n)
<1> DEFINE Bad == {k \in Nat : ~\E g : After(S, entries, g, k)}
<1>1. ASSUME Bad # {} PROVE FALSE
  <2>1. PICK k \in Bad : \A l \in Bad : k <= l
    BY <1>1, Least
  <2>2. CASE k = 0
    <3>1. 0..0 = {0}
      OBVIOUS
    <3>2. After(S, entries, [i \in 0..0 |-> S], 0)
      BY <3>1 DEF After
    <3> QED
      BY <2>1, <2>2, <3>2
  <2>3. CASE k # 0
    <3>1. k - 1 \in Nat /\ k - 1 \notin Bad
      BY <2>1, <2>3
    <3>2. PICK g : After(S, entries, g, k - 1)
      BY <3>1
    <3> DEFINE h == [i \in 0..k |-> IF i = 0 THEN S ELSE ReplayEntry(g[i - 1], entries[i])]
    <3>3. ASSUME NEW i \in 0..(k - 1)
          PROVE  h[i] = g[i]
      <4>1. i \in 0..k
        BY <2>1
      <4>2. g[i] = IF i = 0 THEN S ELSE ReplayEntry(g[i - 1], entries[i])
        BY <3>1, <3>2, AfterAt
      <4> QED
        BY <4>1, <4>2
    <3>4. ASSUME NEW i \in 0..k
          PROVE  h[i] = IF i = 0 THEN S ELSE ReplayEntry(h[i - 1], entries[i])
      <4>1. i # 0 => i - 1 \in 0..(k - 1)
        BY <2>1
      <4> QED
        BY <3>3, <4>1
    <3>5. h = [i \in 0..k |-> IF i = 0 THEN S ELSE ReplayEntry(h[i - 1], entries[i])]
      <4>1. h = [i \in 0..k |-> h[i]]
        OBVIOUS
      <4> HIDE DEF h
      <4> QED
        BY <3>4, <4>1
    <3> QED
      BY <2>1, <3>5 DEF After
  <2> QED
    BY <2>2, <2>3
<1> QED
  BY <1>1

\* A replay makes the partitions of what it repeats.
LEMMA ReplayMade ==
    ASSUME NEW S, NEW entries \in Seq(Logged), Made(S, <<>>)
    PROVE  Made(Replay(S, entries), entries)
<1> DEFINE n == Len(entries)
           g == CHOOSE f : After(S, entries, f, n)
           Bad == {k \in 0..n : ~Made(g[k], SubSeq(entries, 1, k))}
<1>1. n \in Nat
  OBVIOUS
<1>2. After(S, entries, g, n)
  BY <1>1, AfterExists
<1>3. Replay(S, entries) = g[n]
  BY DEF Replay, After
<1> HIDE DEF g, n
<1>4. ASSUME Bad # {} PROVE FALSE
  <2>0. Bad \in SUBSET Nat
    BY <1>1
  <2>1. PICK k \in Bad : \A l \in Bad : k <= l
    BY <1>4, <2>0, Least
  <2>2. CASE k = 0
    <3>1. g[0] = S
      BY <1>1, <1>2, AfterAt
    <3>2. SubSeq(entries, 1, 0) = <<>>
      BY SubSeqEmpty
    <3> QED
      BY <2>1, <2>2, <3>1, <3>2
  <2>3. CASE k # 0
    <3>1. k \in 1..n /\ k - 1 \in 0..n /\ k - 1 \notin Bad
      BY <1>1, <2>1, <2>3
    <3>2. Made(g[k - 1], SubSeq(entries, 1, k - 1))
      BY <3>1
    <3>3. g[k] = ReplayEntry(g[k - 1], entries[k])
      BY <1>1, <1>2, <3>1, AfterAt
    <3>4. /\ SubSeq(entries, 1, k - 1) \in Seq(Logged) /\ entries[k] \in Logged
          /\ SubSeq(entries, 1, k) = Append(SubSeq(entries, 1, k - 1), entries[k])
      <4>1. 0 \in 0..Len(entries) /\ k - 1 \in 0..(Len(entries) - 1) /\ k - 1 + 1 = k /\ 0 + 1 = 1
        BY <1>1, <3>1 DEF n
      <4>2. /\ SubSeq(entries, 0 + 1, k - 1) \in Seq(Logged) /\ entries[k - 1 + 1] \in Logged
            /\ SubSeq(entries, 0 + 1, k - 1 + 1) = Append(SubSeq(entries, 0 + 1, k - 1), entries[k - 1 + 1])
        BY <4>1, PartMore
      <4> QED
        BY <4>1, <4>2
    <3>5. Made(g[k], SubSeq(entries, 1, k))
      BY <3>2, <3>3, <3>4, MadeMore
    <3> QED
      BY <2>1, <3>5
  <2> QED
    BY <2>2, <2>3
<1>5. n \in 0..n /\ SubSeq(entries, 1, n) = entries
  BY <1>1, SubSeqFull DEF n
<1> QED
  BY <1>3, <1>4, <1>5

-----------------------------------------------------------------------------
(* Pages.                                                                  *)

\* Blocks in ascending order.
Climbs(s) == \A i, j \in 1..Len(s) : i < j => s[i].n < s[j].n

\* What a filter returns of a part of the log climbs.
LEMMA PickedClimbs ==
    ASSUME NEW s \in Seq(Logged), Climbs(s), NEW keep \in SUBSET (1..Len(s))
    PROVE  Climbs(Picked(s, keep))
<1>1. /\ Len(Picked(s, keep)) = Cardinality(keep)
      /\ \A k \in 1..Cardinality(keep) : Nth(keep, k) \in keep /\ Picked(s, keep)[k] = s[Nth(keep, k)]
  BY PickedIs
<1>2. ASSUME NEW k \in 1..Cardinality(keep), NEW l \in 1..Cardinality(keep), k < l
      PROVE  Picked(s, keep)[k].n < Picked(s, keep)[l].n
  <2>0. Len(s) \in Nat
    OBVIOUS
  <2>1. Nth(keep, k) < Nth(keep, l)
    BY <1>2, <2>0, NthAscends
  <2>2. Nth(keep, k) \in 1..Len(s) /\ Nth(keep, l) \in 1..Len(s)
    BY <1>1
  <2>3. s[Nth(keep, k)].n < s[Nth(keep, l)].n
    BY <2>1, <2>2 DEF Climbs
  <2> QED
    BY <1>1, <2>3
<1> QED
  BY <1>1, <1>2 DEF Climbs

\* Every part of the log climbs.
LEMMA LogClimbs ==
    ASSUME NEW s \in Seq(Logged), \A i \in 1..Len(s) : s[i].n = i, NEW a \in 0..Len(s), NEW b \in a..Len(s)
    PROVE  SubSeq(s, a + 1, b) \in Seq(Logged) /\ Len(SubSeq(s, a + 1, b)) = b - a /\ Climbs(SubSeq(s, a + 1, b))
<1>1. a \in Nat /\ b \in Nat /\ Len(s) \in Nat /\ a + 1 \in Int /\ b \in Int
  OBVIOUS
<1>2. \A i \in (a + 1)..b : i \in 1..Len(s) /\ s[i] \in Logged
  <2>1. \A i \in (a + 1)..b : i \in 1..Len(s)
    BY <1>1
  <2> QED
    BY <2>1, ElementOfSeq
<1>3. /\ SubSeq(s, a + 1, b) \in Seq(Logged)
      /\ Len(SubSeq(s, a + 1, b)) = IF a + 1 <= b THEN b - (a + 1) + 1 ELSE 0
      /\ \A i \in 1..(b - (a + 1) + 1) : SubSeq(s, a + 1, b)[i] = s[a + 1 + i - 1]
  BY <1>1, <1>2, SubSeqProperties
<1>4. Len(SubSeq(s, a + 1, b)) = b - a
  BY <1>1, <1>3
<1>5. ASSUME NEW i \in 1..(b - a)
      PROVE  SubSeq(s, a + 1, b)[i].n = a + i
  <2>1. i \in 1..(b - (a + 1) + 1) /\ a + 1 + i - 1 = a + i /\ a + i \in 1..Len(s)
    BY <1>1
  <2>2. SubSeq(s, a + 1, b)[i] = s[a + i]
    BY <1>3, <2>1
  <2> QED
    BY <2>1, <2>2
<1>6. Climbs(SubSeq(s, a + 1, b))
  <2> SUFFICES ASSUME NEW i \in 1..(b - a), NEW j \in 1..(b - a), i < j
               PROVE  SubSeq(s, a + 1, b)[i].n < SubSeq(s, a + 1, b)[j].n
    BY <1>4 DEF Climbs
  <2>1. SubSeq(s, a + 1, b)[i].n = a + i /\ SubSeq(s, a + 1, b)[j].n = a + j
    BY <1>5
  <2>2. a + i < a + j
    BY <1>1
  <2> QED
    BY <2>1, <2>2
<1> QED
  BY <1>3, <1>4, <1>6

\* The latest of a part, turned round, are its end.
LEMMA LatestIs ==
    ASSUME NEW part \in Seq(Logged), NEW h \in 0..Len(part)
    PROVE  Reverse(latest(part, Len(part) - h)) = SubSeq(part, h + 1, Len(part))
<1> DEFINE t == SubSeq(part, h + 1, Len(part))
<1>1. h \in Nat /\ Len(part) \in Nat
  OBVIOUS
<1>2. Max({1, Len(part) - (Len(part) - h) + 1}) = h + 1
  <2>1. Len(part) - (Len(part) - h) + 1 = h + 1
    BY <1>1
  <2>2. \A x \in {1, h + 1} : (\A y \in {1, h + 1} : x >= y) => x = h + 1
    BY <1>1
  <2>3. \E x \in {1, h + 1} : \A y \in {1, h + 1} : x >= y
    BY <1>1
  <2> QED
    BY <2>1, <2>2, <2>3 DEF Max
<1>3. latest(part, Len(part) - h) = Reverse(t)
  BY <1>2 DEF latest
<1>4. t \in Seq(Logged) /\ Len(t) \in Nat
  <2>1. \A i \in (h + 1)..Len(part) : part[i] \in Logged
    BY <1>1, ElementOfSeq
  <2>2. h + 1 \in Int /\ Len(part) \in Int
    BY <1>1
  <2>3. t \in Seq(Logged)
    BY <2>1, <2>2, SubSeqProperties
  <2> QED
    BY <2>3, LenProperties
<1> HIDE DEF t
<1>5. Reverse(Reverse(t)) = t
  <2>1. Reverse(t) = [i \in 1..Len(t) |-> t[Len(t) - i + 1]]
    BY DEF Reverse
  <2>2. Reverse(t) \in Seq(Logged) /\ Len(Reverse(t)) = Len(t)
    <3>1. \A i \in 1..Len(t) : Len(t) - i + 1 \in 1..Len(t)
      BY <1>4
    <3>2. \A i \in 1..Len(t) : t[Len(t) - i + 1] \in Logged
      BY <1>4, <3>1, ElementOfSeq
    <3> QED
      BY <1>4, <2>1, <3>2
  <2>3. Reverse(Reverse(t)) = [i \in 1..Len(t) |-> Reverse(t)[Len(t) - i + 1]]
    BY <2>2 DEF Reverse
  <2>4. \A i \in 1..Len(t) : Reverse(t)[Len(t) - i + 1] = t[i]
    <3> TAKE i \in 1..Len(t)
    <3>1. Len(t) - i + 1 \in 1..Len(t) /\ Len(t) - (Len(t) - i + 1) + 1 = i
      BY <1>4
    <3> QED
      BY <2>1, <3>1
  <2>5. t = [i \in 1..Len(t) |-> t[i]]
    BY <1>4
  <2> QED
    BY <2>3, <2>4, <2>5
<1> QED
  BY <1>3, <1>5 DEF t

\* Where a part is parted at a block, paging by blocks parts it.
LEMMA Pages ==
    ASSUME NEW part \in Seq(Logged), Climbs(part), NEW b \in Nat
    PROVE  Paged(part, filter_by_block_range(part, None, b), filter_by_block_range(part, b, None))
<1> DEFINE older == {i \in DOMAIN part : part[i].n < b}
           newer == {i \in DOMAIN part : part[i].n >= b}
           Beyond == {i \in 1..(Len(part) + 1) : i = Len(part) + 1 \/ part[i].n >= b}
<1>0. Len(part) \in Nat /\ DOMAIN part = 1..Len(part) /\ b # None
  <2>1. None \notin Nat
    BY FeedsAssumption
  <2> QED
    BY <2>1, LenProperties
<1>0a. \A i \in 1..Len(part) : part[i].n \in Nat
  BY ElementOfSeq, LoggedFields
<1>1. PICK l \in Beyond : \A x \in Beyond : l <= x
  <2>1. Beyond \in SUBSET Nat /\ Len(part) + 1 \in Beyond
    BY <1>0
  <2> HIDE DEF Beyond
  <2> QED
    BY <2>1, Least
<1>2. l \in 1..(Len(part) + 1)
  OBVIOUS
<1>3. \A i \in 1..Len(part) : i < l => part[i].n < b
  <2> TAKE i \in 1..Len(part)
  <2> HAVE i < l
  <2>1. i \notin Beyond
    BY <1>0, <1>1
  <2>2. i \in 1..(Len(part) + 1)
    BY <1>0
  <2> QED
    BY <1>0, <1>0a, <2>1, <2>2
<1>4. \A i \in 1..Len(part) : i >= l => part[i].n >= b
  <2> TAKE i \in 1..Len(part)
  <2> HAVE i >= l
  <2>1. l \in 1..Len(part) /\ part[l].n >= b
    BY <1>0, <1>1
  <2>2. l < i => part[l].n < part[i].n
    BY <2>1 DEF Climbs
  <2>3. part[l].n \in Nat /\ part[i].n \in Nat
    BY <1>0a, <2>1
  <2>4. l = i \/ l < i
    BY <1>0, <2>1
  <2> QED
    BY <2>1, <2>2, <2>3, <2>4
<1> DEFINE h == l - 1
<1>5. h \in 0..Len(part) /\ h \in Nat /\ Len(part) \in h..Len(part) /\ 0 \in 0..Len(part) /\ h \in 0..Len(part)
  BY <1>0, <1>2
<1>6. older = 1..h
  <2>1. \A i \in 1..Len(part) : part[i].n < b <=> i < l
    BY <1>0, <1>0a, <1>2, <1>3, <1>4
  <2>2. \A i \in 1..Len(part) : i < l <=> i <= h
    BY <1>2
  <2>3. 1..h = {i \in 1..Len(part) : i <= h}
    BY <1>5
  <2> HIDE DEF h
  <2> QED
    BY <1>0, <2>1, <2>2, <2>3
<1>7. newer = (h + 1)..Len(part)
  <2>1. \A i \in 1..Len(part) : part[i].n >= b <=> i >= l
    BY <1>0, <1>0a, <1>2, <1>3, <1>4
  <2>2. h + 1 = l
    BY <1>2
  <2>3. l..Len(part) = {i \in 1..Len(part) : i >= l}
    BY <1>2
  <2> HIDE DEF h
  <2> QED
    BY <1>0, <2>1, <2>2, <2>3
<1>8. /\ filter_by_block_range(part, None, b) = Picked(part, older)
      /\ filter_by_block_range(part, b, None) = Picked(part, newer)
  BY <1>0 DEF filter_by_block_range
<1> HIDE DEF h, older, newer
<1>9. Picked(part, 1..h) = SubSeq(part, 1, h) /\ Picked(part, (h + 1)..Len(part)) = SubSeq(part, h + 1, Len(part))
  <2>1. Picked(part, (0 + 1)..h) = SubSeq(part, 0 + 1, h)
    BY <1>5, PickedInterval
  <2>2. Picked(part, (h + 1)..Len(part)) = SubSeq(part, h + 1, Len(part))
    BY <1>5, PickedInterval
  <2>3. 0 + 1 = 1
    OBVIOUS
  <2> QED
    BY <2>1, <2>2, <2>3
<1>10. SubSeq(part, 1, h) \o SubSeq(part, h + 1, Len(part)) = part
  <2>1. 1 \in 1..(Len(part) + 1) /\ h \in (1 - 1)..Len(part) /\ Len(part) \in h..Len(part)
    BY <1>0, <1>5
  <2>2. SubSeq(part, 1, h) \o SubSeq(part, h + 1, Len(part)) = SubSeq(part, 1, Len(part))
    BY <2>1, ConcatAdjacentSubSeq
  <2> QED
    BY <2>2, SubSeqFull
<1>11. Len(SubSeq(part, h + 1, Len(part))) = Len(part) - h
  <2> DEFINE n == Len(part)
             k == Len(SubSeq(part, h + 1, n))
  <2>1. \A i \in (h + 1)..n : part[i] \in Logged
    BY <1>5, ElementOfSeq
  <2>2. h + 1 \in Int /\ n \in Int /\ h \in Nat /\ n \in Nat /\ h <= n
    BY <1>0, <1>5
  <2> HIDE DEF n
  <2>3. k = IF h + 1 <= n THEN n - (h + 1) + 1 ELSE 0
    BY <2>1, <2>2, SubSeqProperties
  <2> HIDE DEF k
  <2>4. k = n - h
    BY <2>2, <2>3
  <2> QED
    BY <2>4 DEF k, n
<1>12. Reverse(latest(part, Len(part) - h)) = SubSeq(part, h + 1, Len(part))
  BY <1>5, LatestIs
<1> QED
  BY <1>6, <1>7, <1>8, <1>9, <1>10, <1>11, <1>12 DEF Paged

-----------------------------------------------------------------------------
(* The invariant holds.                                                    *)

\* The first state.
LEMMA FeedsInitInv == FeedsInit => FeedsInv
<1> SUFFICES ASSUME FeedsInit PROVE FeedsInv
  OBVIOUS
<1> USE DEF FeedsInit
<1>1. FeedsTypes
  BY DEF FeedsTypes, NoStats
<1>2. Numbered
  BY DEF Numbered
<1>3. SubSeq(wal, base + 1, ToldMarket) = <<>> /\ SubSeq(wal, base + 1, ToldTrader) = <<>> /\ ToldCount = 0
  <2>1. ToldMarket = 0 /\ ToldTrader = 0 /\ ToldCount = 0 /\ base + 1 = 1
    BY DEF ToldMarket, ToldTrader, ToldCount
  <2>2. SubSeq(wal, 1, 0) = <<>>
    BY SubSeqEmpty
  <2> QED
    BY <2>1, <2>2
<1>4. Told
  <2>1. /\ \A m \in Market : by_market[m] = OfMarket(SubSeq(wal, base + 1, ToldMarket), m)
        /\ \A tr \in Trader : by_trader[tr] = OfTrader(SubSeq(wal, base + 1, ToldTrader), tr)
    BY <1>3, OfNothing
  <2>2. total_count = ToldCount - base
    BY <1>3
  <2> QED
    BY <2>1, <2>2 DEF Told
<1> QED
  BY <1>1, <1>2, <1>4 DEF FeedsInv

\* Steps of others.
LEMMA ElsewhereStep ==
    ASSUME FeedsInv, mix' = mix, wal' = wal, base' = base, log' = log, indexer' = indexer,
           stats' = stats,
           file' = file \/ (indexer = "idle" /\ file'.block = Len(wal) /\ file'.stats = stats)
    PROVE  FeedsInv'
<1>1. FeedsTypes'
  BY DEF FeedsInv, FeedsTypes, log
<1>2. Numbered'
  BY DEF FeedsInv, FeedsTypes, Numbered, Now
<1>3. Told'
  BY DEF FeedsInv, Told, log, ToldMarket, ToldTrader, ToldCount
<1> QED
  BY <1>1, <1>2, <1>3 DEF FeedsInv

\* LogEvent puts the next block behind the log.
LEMMA LogStep ==
    ASSUME FeedsInv, NEW e \in mix.events, LogEvent(e)
    PROVE  FeedsInv'
<1> DEFINE entry == Entry(Len(wal) + 1, e)
<1>1. /\ indexer = "idle" /\ wal' = Append(wal, entry) /\ indexer' = "market"
      /\ by_market' = by_market /\ by_trader' = by_trader /\ total_count' = total_count
      /\ stats' = stats /\ mix' = mix /\ base' = base /\ file' = file
  BY DEF LogEvent, log, IndexerRest
<1>2. wal \in Seq(Logged) /\ Len(wal) \in Nat /\ base \in 0..Len(wal) /\ file.block \in 0..Len(wal)
  BY DEF FeedsInv, FeedsTypes, Numbered
<1>3. entry \in Logged /\ entry.n = Len(wal) + 1
  <2>1. e \in ChainEvent
    BY FeedsAssumption DEF FeedsInv, FeedsTypes
  <2>2. Len(wal) + 1 \in Nat
    BY <1>2
  <2> QED
    BY <2>1, <2>2, EntryLogged
<1> HIDE DEF entry
<1>4. /\ wal' \in Seq(Logged) /\ wal' # <<>> /\ Len(wal') = Len(wal) + 1
      /\ \A i \in 1..Len(wal) : wal'[i] = wal[i]
  BY <1>1, <1>2, <1>3, AppendProperties
<1>4a. wal'[Len(wal) + 1] = entry
  BY <1>1, <1>2, <1>3, AppendProperties
<1>5. FeedsTypes'
  BY <1>1, <1>4 DEF FeedsInv, FeedsTypes
<1>6. Numbered'
  <2>1. \A i \in 1..Len(wal') : wal'[i].n = i
    <3> TAKE i \in 1..Len(wal')
    <3>1. CASE i = Len(wal) + 1
      BY <1>3, <1>4a, <3>1
    <3>2. CASE i \in 1..Len(wal)
      BY <1>4, <3>2 DEF FeedsInv, Numbered
    <3> QED
      BY <1>2, <1>4, <3>1, <3>2
  <2>2. base < Len(wal') /\ file.block < Len(wal')
    BY <1>2, <1>4
  <2>3. base \in Nat /\ file.block \in Nat /\ Len(wal') \in Nat
    BY <1>2, <1>4
  <2> QED
    BY <1>1, <1>4, <2>1, <2>2, <2>3 DEF Numbered
<1>7. Told'
  <2>1. SubSeq(wal', base + 1, Len(wal)) = SubSeq(wal, base + 1, Len(wal))
    BY <1>1, <1>2, <1>3, PartOfLonger
  <2>2. /\ ToldMarket' = Len(wal) /\ ToldTrader' = Len(wal) /\ ToldCount' = Len(wal)
        /\ ToldMarket = Len(wal) /\ ToldTrader = Len(wal) /\ ToldCount = Len(wal)
    BY <1>1, <1>2, <1>4 DEF ToldMarket, ToldTrader, ToldCount
  <2>3. Told
    BY DEF FeedsInv
  <2> QED
    BY <1>1, <2>1, <2>2, <2>3 DEF Told
<1> QED
  BY <1>5, <1>6, <1>7 DEF FeedsInv

\* The event under way, and the log with it and without.
LEMMA UnderWay ==
    ASSUME FeedsInv, indexer # "idle"
    PROVE  /\ Len(wal) \in Nat /\ Len(wal) - 1 \in Nat /\ Now \in Logged /\ base \in 0..(Len(wal) - 1)
           /\ SubSeq(wal, base + 1, Len(wal) - 1) \in Seq(Logged)
           /\ SubSeq(wal, base + 1, Len(wal)) = Append(SubSeq(wal, base + 1, Len(wal) - 1), Now)
<1>1. wal \in Seq(Logged) /\ Len(wal) \in Nat /\ base \in Nat /\ base < Len(wal)
  BY DEF FeedsInv, FeedsTypes, Numbered
<1>2. base \in 0..Len(wal) /\ Len(wal) - 1 \in base..(Len(wal) - 1) /\ Len(wal) - 1 + 1 = Len(wal) /\ base \in 0..(Len(wal) - 1)
  BY <1>1
<1>3. /\ SubSeq(wal, base + 1, Len(wal) - 1) \in Seq(Logged) /\ wal[Len(wal) - 1 + 1] \in Logged
      /\ SubSeq(wal, base + 1, Len(wal) - 1 + 1) = Append(SubSeq(wal, base + 1, Len(wal) - 1), wal[Len(wal) - 1 + 1])
  BY <1>1, <1>2, PartMore
<1>4. wal[Len(wal) - 1 + 1] = Now /\ Len(wal) - 1 \in Nat
  BY <1>1, <1>2 DEF Now
<1>5. SubSeq(wal, base + 1, Len(wal) - 1 + 1) = SubSeq(wal, base + 1, Len(wal))
  BY <1>2
<1> QED
  BY <1>1, <1>2, <1>3, <1>4, <1>5

\* append(): the market's partition.
LEMMA AppendMarketStep ==
    ASSUME FeedsInv, AppendMarket
    PROVE  FeedsInv'
<1>1. /\ indexer = "market" /\ indexer' = "trader" /\ by_market' = ToMarket(by_market, Now)
      /\ wal' = wal /\ by_trader' = by_trader /\ total_count' = total_count /\ stats' = stats
      /\ mix' = mix /\ base' = base /\ file' = file
  BY DEF AppendMarket, IndexerRest
<1>2. /\ Now \in Logged /\ SubSeq(wal, base + 1, Len(wal) - 1) \in Seq(Logged)
      /\ SubSeq(wal, base + 1, Len(wal)) = Append(SubSeq(wal, base + 1, Len(wal) - 1), Now)
  BY <1>1, UnderWay
<1>3. /\ ToldMarket = Len(wal) - 1 /\ ToldMarket' = Len(wal)
      /\ ToldTrader = ToldTrader' /\ ToldCount = ToldCount'
  BY <1>1 DEF ToldMarket, ToldTrader, ToldCount
<1>4. by_market \in [Market -> Seq(Logged)] /\ \A m \in Market : by_market[m] = OfMarket(SubSeq(wal, base + 1, Len(wal) - 1), m)
  BY <1>3 DEF FeedsInv, FeedsTypes, Told
<1>5. /\ by_market' \in [Market -> Seq(Logged)]
      /\ \A m \in Market : by_market'[m] = OfMarket(SubSeq(wal, base + 1, Len(wal)), m)
  <2> DEFINE part == SubSeq(wal, base + 1, Len(wal) - 1)
  <2>1. /\ part \in Seq(Logged) /\ Now \in Logged /\ by_market \in [Market -> Seq(Logged)]
        /\ \A m \in Market : by_market[m] = OfMarket(part, m)
    BY <1>2, <1>4
  <2> HIDE DEF part
  <2>2. /\ ToMarket(by_market, Now) \in [Market -> Seq(Logged)]
        /\ \A m \in Market : ToMarket(by_market, Now)[m] = OfMarket(Append(part, Now), m)
    BY <2>1, MarketAppended
  <2> QED
    BY <1>1, <1>2, <2>2 DEF part
<1>6. FeedsTypes'
  BY <1>1, <1>5 DEF FeedsInv, FeedsTypes
<1>7. Numbered'
  BY <1>1 DEF FeedsInv, Numbered
<1>8. Told'
  BY <1>1, <1>3, <1>5 DEF FeedsInv, Told
<1> QED
  BY <1>6, <1>7, <1>8 DEF FeedsInv

\* append(): the trader's partition.
LEMMA AppendTraderStep ==
    ASSUME FeedsInv, AppendTrader
    PROVE  FeedsInv'
<1>1. /\ indexer = "trader" /\ indexer' = "count" /\ by_trader' = ToTrader(by_trader, Now)
      /\ wal' = wal /\ by_market' = by_market /\ total_count' = total_count /\ stats' = stats
      /\ mix' = mix /\ base' = base /\ file' = file
  BY DEF AppendTrader, IndexerRest
<1>2. /\ Now \in Logged /\ SubSeq(wal, base + 1, Len(wal) - 1) \in Seq(Logged)
      /\ SubSeq(wal, base + 1, Len(wal)) = Append(SubSeq(wal, base + 1, Len(wal) - 1), Now)
  BY <1>1, UnderWay
<1>3. /\ ToldTrader = Len(wal) - 1 /\ ToldTrader' = Len(wal)
      /\ ToldMarket = ToldMarket' /\ ToldCount = ToldCount'
  BY <1>1 DEF ToldMarket, ToldTrader, ToldCount
<1>4. by_trader \in [Trader -> Seq(Logged)] /\ \A tr \in Trader : by_trader[tr] = OfTrader(SubSeq(wal, base + 1, Len(wal) - 1), tr)
  BY <1>3 DEF FeedsInv, FeedsTypes, Told
<1>5. /\ by_trader' \in [Trader -> Seq(Logged)]
      /\ \A tr \in Trader : by_trader'[tr] = OfTrader(SubSeq(wal, base + 1, Len(wal)), tr)
  <2> DEFINE part == SubSeq(wal, base + 1, Len(wal) - 1)
  <2>1. /\ part \in Seq(Logged) /\ Now \in Logged /\ by_trader \in [Trader -> Seq(Logged)]
        /\ \A tr \in Trader : by_trader[tr] = OfTrader(part, tr)
    BY <1>2, <1>4
  <2> HIDE DEF part
  <2>2. /\ ToTrader(by_trader, Now) \in [Trader -> Seq(Logged)]
        /\ \A tr \in Trader : ToTrader(by_trader, Now)[tr] = OfTrader(Append(part, Now), tr)
    BY <2>1, TraderAppended
  <2> QED
    BY <1>1, <1>2, <2>2 DEF part
<1>6. FeedsTypes'
  BY <1>1, <1>5 DEF FeedsInv, FeedsTypes
<1>7. Numbered'
  BY <1>1 DEF FeedsInv, Numbered
<1>8. Told'
  BY <1>1, <1>3, <1>5 DEF FeedsInv, Told
<1> QED
  BY <1>6, <1>7, <1>8 DEF FeedsInv

\* append(): the count.
LEMMA AppendCountStep ==
    ASSUME FeedsInv, AppendCount
    PROVE  FeedsInv'
<1>1. /\ indexer = "count" /\ indexer' \in {"ensure", "idle"} /\ total_count' = total_count + 1
      /\ wal' = wal /\ by_market' = by_market /\ by_trader' = by_trader /\ stats' = stats
      /\ mix' = mix /\ base' = base /\ file' = file
  BY DEF AppendCount, IndexerRest
<1>2. Len(wal) \in Nat /\ base \in Nat /\ total_count \in Nat
  BY DEF FeedsInv, FeedsTypes
<1>3. /\ ToldTrader = ToldTrader' /\ ToldMarket = ToldMarket'
      /\ ToldCount = Len(wal) - 1 /\ ToldCount' = Len(wal)
  BY <1>1 DEF ToldMarket, ToldTrader, ToldCount
<1>4. FeedsTypes'
  BY <1>1, <1>2 DEF FeedsInv, FeedsTypes
<1>5. Numbered'
  BY <1>1 DEF FeedsInv, Numbered
<1>6. Told'
  BY <1>1, <1>2, <1>3 DEF FeedsInv, Told
<1> QED
  BY <1>4, <1>5, <1>6 DEF FeedsInv

\* The stages behind the event log.
LEMMA StatsStep ==
    ASSUME FeedsInv, EnsureStats \/ CountTrade \/ CountDay
    PROVE  FeedsInv'
<1>1. /\ wal' = wal /\ by_market' = by_market /\ by_trader' = by_trader /\ total_count' = total_count
      /\ mix' = mix /\ base' = base /\ file' = file
      /\ indexer \in {"ensure", "trade", "daily"} /\ indexer' \in {"trade", "daily", "idle"}
  BY DEF EnsureStats, CountTrade, CountDay, IndexerRest, log
<1>2. Now \in Logged /\ Now' = Now /\ Now.trader \in Trader
  BY <1>1, UnderWay, LoggedFields DEF Now
<1>2a. stats \in [Trader -> TraderStats \cup {None}]
  BY DEF FeedsInv, FeedsTypes
<1>3. stats' \in [Trader -> TraderStats \cup {None}] /\ (indexer' = "trade" => stats'[Now.trader] \in TraderStats)
  <2>1. CASE EnsureStats
    <3>1. stats' = ensure(stats, Now) /\ indexer' \in {"trade", "idle"} /\ (indexer' = "trade" => Now.kind \in Traded)
      BY <2>1 DEF EnsureStats
    <3>2. ensure(stats, Now) \in [Trader -> TraderStats \cup {None}] /\ (Now.kind \in Ensured => ensure(stats, Now)[Now.trader] \in TraderStats)
      BY <1>2, <1>2a, StatsAppended
    <3> QED
      BY <3>1, <3>2 DEF Ensured
  <2>2. CASE CountTrade
    <3>1. stats' = Trade(stats, Now) /\ indexer = "trade" /\ indexer' # "trade"
      BY <2>2 DEF CountTrade
    <3>2. stats[Now.trader] \in TraderStats
      BY <3>1 DEF FeedsInv, Numbered
    <3>3. Trade(stats, Now) \in [Trader -> TraderStats \cup {None}]
      BY <1>2, <1>2a, <3>2, StatsAppended
    <3> QED
      BY <3>1, <3>3
  <2>3. CASE CountDay
    BY <1>2a, <2>3 DEF CountDay
  <2> QED
    BY <2>1, <2>2, <2>3
<1>4. ToldTrader = ToldTrader' /\ ToldMarket = ToldMarket' /\ ToldCount = ToldCount'
  BY <1>1 DEF ToldMarket, ToldTrader, ToldCount
<1>5. FeedsTypes'
  BY <1>1, <1>3 DEF FeedsInv, FeedsTypes
<1>6. Numbered'
  BY <1>1, <1>2, <1>3 DEF FeedsInv, Numbered
<1>7. Told'
  BY <1>1, <1>4 DEF FeedsInv, Told
<1> QED
  BY <1>5, <1>6, <1>7 DEF FeedsInv

\* open(): the log from the file's block on is replayed.
LEMMA ReopenStep ==
    ASSUME FeedsInv, Reopen
    PROVE  FeedsInv'
<1> DEFINE behind == SubSeq(wal, file.block + 1, Len(wal))
           S == Replay(Restored, behind)
<1>1. /\ wal' = wal /\ mix' = mix /\ file' = file /\ base' = file.block /\ indexer' = "idle"
      /\ by_market' = S.by_market /\ by_trader' = S.by_trader /\ total_count' = Len(behind) /\ stats' = S.stats
  BY DEF Reopen
<1>2. wal \in Seq(Logged) /\ Len(wal) \in Nat /\ file.block \in 0..Len(wal) /\ file.stats \in [Trader -> TraderStats \cup {None}]
  BY DEF FeedsInv, FeedsTypes, Numbered
<1>3. behind \in Seq(Logged) /\ Len(behind) = Len(wal) - file.block
  <2>1. Len(wal) \in file.block..Len(wal) /\ \A i \in 1..Len(wal) : wal[i].n = i
    BY <1>2 DEF FeedsInv, Numbered
  <2> QED
    BY <1>2, <2>1, LogClimbs
<1>4. Made(Restored, <<>>)
  <2>1. /\ Restored.by_market = [m \in Market |-> <<>>] /\ Restored.by_trader = [tr \in Trader |-> <<>>]
        /\ Restored.stats = file.stats
    BY DEF Restored
  <2>2. <<>> \in Seq(Logged)
    BY EmptySeq
  <2> QED
    BY <1>2, <2>1, <2>2, OfNothing DEF Made
<1>5. Made(S, behind)
  BY <1>3, <1>4, ReplayMade
<1> HIDE DEF S
<1>6. FeedsTypes'
  BY <1>1, <1>2, <1>3, <1>5 DEF FeedsInv, FeedsTypes, Made
<1>7. Numbered'
  BY <1>1, <1>2 DEF FeedsInv, Numbered
<1>8. Told'
  <2>1. ToldMarket' = Len(wal) /\ ToldTrader' = Len(wal) /\ ToldCount' = Len(wal)
    BY <1>1 DEF ToldMarket, ToldTrader, ToldCount
  <2> QED
    BY <1>1, <1>3, <1>5, <2>1 DEF Told, Made
<1> QED
  BY <1>6, <1>7, <1>8 DEF FeedsInv

\* Every step.
LEMMA FeedsNextInv == FeedsInv /\ [FeedsNext]_feedsVars => FeedsInv'
<1> SUFFICES ASSUME FeedsInv, [FeedsNext]_feedsVars PROVE FeedsInv'
  OBVIOUS
<1>1. CASE \E e \in mix.events : LogEvent(e)
  BY <1>1, LogStep
<1>2. CASE IndexerStep
  BY <1>2, AppendMarketStep, AppendTraderStep, AppendCountStep, StatsStep DEF IndexerStep
<1>3. CASE BeginRebuild \/ (\E tr \in Trader : ReadStats(tr)) \/ (\E b \in Board : SetBoard(b))
  <2>1. mix' = mix /\ wal' = wal /\ base' = base /\ log' = log /\ indexer' = indexer /\ stats' = stats /\ file' = file
    BY <1>3 DEF BeginRebuild, ReadStats, SetBoard, TaskRest
  <2> QED
    BY <2>1, ElsewhereStep
<1>4. CASE Snapshot
  <2>1. /\ mix' = mix /\ wal' = wal /\ base' = base /\ log' = log /\ indexer' = indexer /\ stats' = stats
        /\ indexer = "idle" /\ file'.block = Len(wal) /\ file'.stats = stats
    BY <1>4 DEF Snapshot
  <2> QED
    BY <2>1, ElsewhereStep
<1>5. CASE Reopen
  BY <1>5, ReopenStep
<1>6. CASE UNCHANGED feedsVars
  <2>1. mix' = mix /\ wal' = wal /\ base' = base /\ log' = log /\ indexer' = indexer /\ stats' = stats /\ file' = file
    BY <1>6 DEF feedsVars
  <2> QED
    BY <2>1, ElsewhereStep
<1> QED
  BY <1>1, <1>2, <1>3, <1>4, <1>5, <1>6 DEF FeedsNext

-----------------------------------------------------------------------------
(* What the event log promises.                                            *)

\* The stage an event is at, as a number.
LEMMA ThroughIs ==
    ASSUME FeedsInv
    PROVE  /\ Through("market") = SubSeq(wal, 1, ToldMarket) /\ Through("trader") = SubSeq(wal, 1, ToldTrader)
           /\ Through("count") = SubSeq(wal, 1, ToldCount)
<1> DEFINE At(s) == CHOOSE i \in DOMAIN Stages : Stages[i] = s
<1>1. DOMAIN Stages = 1..6
  BY DEF Stages
<1>2. /\ At("market") = 1 /\ At("trader") = 2 /\ At("count") = 3
      /\ At("ensure") = 4 /\ At("trade") = 5 /\ At("daily") = 6
  <2>1. /\ Stages[1] = "market" /\ Stages[2] = "trader" /\ Stages[3] = "count"
        /\ Stages[4] = "ensure" /\ Stages[5] = "trade" /\ Stages[6] = "daily"
    BY DEF Stages
  <2>2. 1..6 = {1, 2, 3, 4, 5, 6}
    OBVIOUS
  <2>3. ASSUME NEW s, NEW k \in 1..6, Stages[k] = s, \A i \in 1..6 : Stages[i] = s => i = k
        PROVE  At(s) = k
    BY <1>1, <2>3
  <2> HIDE DEF At
  <2>4. At("market") = 1
    BY <2>1, <2>2, <2>3
  <2>5. At("trader") = 2
    BY <2>1, <2>2, <2>3
  <2>6. At("count") = 3
    BY <2>1, <2>2, <2>3
  <2>7. At("ensure") = 4
    BY <2>1, <2>2, <2>3
  <2>8. At("trade") = 5
    BY <2>1, <2>2, <2>3
  <2>9. At("daily") = 6
    BY <2>1, <2>2, <2>3
  <2> QED
    BY <2>4, <2>5, <2>6, <2>7, <2>8, <2>9
<1>3. indexer \in {"idle", "market", "trader", "count", "ensure", "trade", "daily"}
  BY DEF FeedsInv, FeedsTypes
<1>4. \A s : Through(s) = SubSeq(wal, 1, IF indexer # "idle" /\ At(indexer) <= At(s) THEN Len(wal) - 1 ELSE Len(wal))
  BY DEF Through
<1> HIDE DEF At
<1>5. /\ (indexer # "idle" /\ At(indexer) <= At("market")) <=> indexer = "market"
      /\ (indexer # "idle" /\ At(indexer) <= At("trader")) <=> indexer \in {"market", "trader"}
      /\ (indexer # "idle" /\ At(indexer) <= At("count")) <=> indexer \in {"market", "trader", "count"}
  BY <1>2, <1>3
<1> QED
  BY <1>4, <1>5 DEF ToldMarket, ToldTrader, ToldCount

\* Since() of the first events of the log.
LEMMA SinceIs ==
    ASSUME FeedsInv, NEW k \in base..Len(wal)
    PROVE  /\ Since(SubSeq(wal, 1, k)) = SubSeq(wal, base + 1, k) /\ Len(SubSeq(wal, base + 1, k)) = k - base
           /\ SubSeq(wal, base + 1, k) \in Seq(Logged) /\ Climbs(SubSeq(wal, base + 1, k))
<1>1. wal \in Seq(Logged) /\ Len(wal) \in Nat /\ base \in 0..Len(wal) /\ \A i \in 1..Len(wal) : wal[i].n = i
  BY DEF FeedsInv, FeedsTypes, Numbered
<1>2. /\ SubSeq(wal, base + 1, k) \in Seq(Logged) /\ Len(SubSeq(wal, base + 1, k)) = k - base
      /\ Climbs(SubSeq(wal, base + 1, k))
  BY <1>1, LogClimbs
<1>3. SubSeq(wal, 1, k) \in Seq(Logged) /\ Len(SubSeq(wal, 1, k)) = k
  <2>1. 0 \in 0..Len(wal) /\ k \in 0..Len(wal) /\ 0 + 1 = 1 /\ k - 0 = k
    BY <1>1
  <2>2. SubSeq(wal, 0 + 1, k) \in Seq(Logged) /\ Len(SubSeq(wal, 0 + 1, k)) = k - 0
    BY <1>1, <2>1, LogClimbs
  <2> QED
    BY <2>1, <2>2
<1>4. SubSeq(SubSeq(wal, 1, k), base + 1, k) = SubSeq(wal, base + 1, k)
  <2>1. CASE base = k
    BY <1>1, <2>1, SubSeqEmpty
  <2>2. CASE base # k
    <3>1. /\ 1 \in 1..Len(wal) /\ k \in 1..Len(wal) /\ base + 1 \in 1..(k - 1 + 1) /\ k \in 1..(k - 1 + 1)
          /\ 1 + (base + 1) - 1 = base + 1 /\ 1 + k - 1 = k
      BY <1>1, <2>2
    <3>2. SubSeq(SubSeq(wal, 1, k), base + 1, k) = SubSeq(wal, 1 + (base + 1) - 1, 1 + k - 1)
      BY <1>1, <3>1, SubSeqOfSubSeq
    <3> QED
      BY <3>1, <3>2
  <2> QED
    BY <2>1, <2>2
<1> QED
  BY <1>2, <1>3, <1>4 DEF Since

\* What the partitions tell is what PartitionsAgree asks for.
LEMMA ToldAgree == FeedsInv => PartitionsAgree
<1> SUFFICES ASSUME FeedsInv PROVE PartitionsAgree
  OBVIOUS
<1>1. ToldMarket \in base..Len(wal) /\ ToldTrader \in base..Len(wal) /\ ToldCount \in base..Len(wal)
  <2>1. Len(wal) \in Nat /\ base \in Nat /\ base <= Len(wal) /\ (indexer # "idle" => base < Len(wal))
    BY DEF FeedsInv, FeedsTypes, Numbered
  <2> QED
    BY <2>1 DEF ToldMarket, ToldTrader, ToldCount
<1>2. /\ Since(Through("market")) = SubSeq(wal, base + 1, ToldMarket)
      /\ Since(Through("trader")) = SubSeq(wal, base + 1, ToldTrader)
      /\ Since(Through("count")) = SubSeq(wal, base + 1, ToldCount)
      /\ Len(SubSeq(wal, base + 1, ToldCount)) = ToldCount - base
  BY <1>1, ThroughIs, SinceIs
<1>3. /\ SubSeq(wal, base + 1, ToldMarket) \in Seq(Logged) /\ Climbs(SubSeq(wal, base + 1, ToldMarket))
      /\ SubSeq(wal, base + 1, ToldTrader) \in Seq(Logged) /\ Climbs(SubSeq(wal, base + 1, ToldTrader))
  BY <1>1, SinceIs
<1>4. /\ \A m \in Market : by_market[m] = OfMarket(Since(Through("market")), m)
      /\ \A tr \in Trader : by_trader[tr] = OfTrader(Since(Through("trader")), tr)
      /\ total_count = Len(Since(Through("count")))
  BY <1>2 DEF FeedsInv, Told
<1>5. \A m \in Market : by_market[m] \in Seq(Logged) /\ Climbs(by_market[m])
  <2> TAKE m \in Market
  <2> DEFINE s == SubSeq(wal, base + 1, ToldMarket)
             keep == {i \in DOMAIN s : MarketOf(s[i]) = m}
  <2>1. by_market[m] = Picked(s, keep)
    BY <1>2, <1>4 DEF OfMarket
  <2>2. s \in Seq(Logged) /\ Climbs(s)
    BY <1>3
  <2> HIDE DEF s
  <2>3. keep \in SUBSET (1..Len(s))
    BY <2>2, LenProperties
  <2> HIDE DEF keep
  <2> QED
    BY <2>1, <2>2, <2>3, PickedClimbs DEF FeedsInv, FeedsTypes
<1>6. \A tr \in Trader : by_trader[tr] \in Seq(Logged) /\ Climbs(by_trader[tr])
  <2> TAKE tr \in Trader
  <2> DEFINE s == SubSeq(wal, base + 1, ToldTrader)
             keep == {i \in DOMAIN s : TraderOf(s[i]) = tr}
  <2>1. by_trader[tr] = Picked(s, keep)
    BY <1>2, <1>4 DEF OfTrader
  <2>2. s \in Seq(Logged) /\ Climbs(s)
    BY <1>3
  <2> HIDE DEF s
  <2>3. keep \in SUBSET (1..Len(s))
    BY <2>2, LenProperties
  <2> HIDE DEF keep
  <2> QED
    BY <2>1, <2>2, <2>3, PickedClimbs DEF FeedsInv, FeedsTypes
<1>7. ASSUME NEW b \in DOMAIN wal
      PROVE  /\ \A m \in Market : Paged(by_market[m], events_by_market(m, None, b), events_by_market(m, b, None))
             /\ \A tr \in Trader : Paged(by_trader[tr], events_by_trader(tr, None, b), events_by_trader(tr, b, None))
  <2>1. b \in Nat
    BY LenProperties DEF FeedsInv, FeedsTypes
  <2>2. \A m \in Market : Paged(by_market[m], events_by_market(m, None, b), events_by_market(m, b, None))
    BY <1>5, <2>1, Pages DEF events_by_market
  <2>3. \A tr \in Trader : Paged(by_trader[tr], events_by_trader(tr, None, b), events_by_trader(tr, b, None))
    BY <1>6, <2>1, Pages DEF events_by_trader
  <2> QED
    BY <2>2, <2>3
<1> QED
  BY <1>4, <1>7 DEF PartitionsAgree

\* The log has the blocks in their order; the partitions and the count tell of
\* the events since the restored snapshot, up to the stage process_event() is at.
THEOREM FeedsInvariance == FeedsSpec => []FeedsInv
<1> QED
  BY FeedsInitInv, FeedsNextInv, PTL DEF FeedsSpec

\* The partitions by market and by trader and the count tell of the same events
\* in the order of their blocks, through every append(), snapshot() and open(),
\* and pages by block range or from the end neither drop nor repeat an event.
THEOREM LogsAgree == FeedsSpec => []PartitionsAgree
<1> QED
  BY FeedsInvariance, ToldAgree, PTL

-----------------------------------------------------------------------------
(* The boards: their inductive invariant.                                  *)

\* A row of a board, and what a task may have read.
Row == [rank : Nat, trader : Trader, value : Int, trades : Nat]
Got == UNION {[D -> TraderStats] : D \in SUBSET Trader}

BoardTypes ==
    /\ boards \in [Board -> Seq(Row)]
    /\ task \in [on : {"idle", "all", "volume"}, todo : SUBSET Trader, got : Got]
    /\ stale \in [Board \cup {"task"} -> SUBSET Trader]

\* A trader who is on no board.
Inactive(tr) == stats[tr] = None \/ stats[tr].trades = 0

\* What the task has read of those whose statistics have not changed since.
Read ==
    /\ task.on = "volume" => task.todo = {}
    /\ task.on # "idle" =>
          \A tr \in Trader \ stale["task"] :
              /\ tr \in DOMAIN task.got => stats[tr] # None /\ stats[tr] = task.got[tr]
              /\ tr \notin DOMAIN task.got /\ tr \notin task.todo => Inactive(tr)

OnBoard(b, tr) == \E i \in 1..Len(boards[b]) : boards[b][i].trader = tr

\* Ranks follow the values, and nobody is there twice.
Ordered(b) ==
    /\ Len(boards[b]) <= MaxEntries
    /\ \A i \in 1..Len(boards[b]) :
          /\ boards[b][i].rank = i /\ boards[b][i].trades > 0
          /\ i > 1 => boards[b][i].value <= boards[b][i - 1].value
    /\ \A i, j \in 1..Len(boards[b]) : boards[b][i].trader = boards[b][j].trader => i = j

\* A board is right about those whose statistics have not changed since.
Fresh(b) ==
    /\ \A i \in 1..Len(boards[b]) :
          boards[b][i].trader \notin stale[b] =>
              LET s == stats[boards[b][i].trader] IN
              s # None /\ boards[b][i].value = Value(b, s) /\ boards[b][i].trades = s.trades
    /\ \A tr \in Trader \ stale[b] :
          ~OnBoard(b, tr) =>
              Inactive(tr) \/ (Len(boards[b]) = MaxEntries /\ Value(b, stats[tr]) <= boards[b][MaxEntries].value)

BoardInv == BoardTypes /\ Read /\ \A b \in Board : Ordered(b) /\ Fresh(b)

\* The first state.
LEMMA BoardInit == FeedsInit => BoardInv
<1> SUFFICES ASSUME FeedsInit PROVE BoardInv
  OBVIOUS
<1>1. NoRows \in Got /\ DOMAIN NoRows = {}
  <2>1. NoRows \in [{} -> TraderStats] /\ {} \in SUBSET Trader
    BY DEF NoRows
  <2> QED
    BY <2>1 DEF Got
<1>2. BoardTypes
  BY <1>1 DEF FeedsInit, BoardTypes, IdleTask
<1>3. Read
  BY DEF FeedsInit, Read, IdleTask
<1>4. ASSUME NEW b \in Board PROVE Ordered(b) /\ Fresh(b)
  <2>1. boards[b] = <<>> /\ Len(boards[b]) = 0 /\ 1..0 = {} /\ MaxEntries \in Nat
    BY FeedsAssumption DEF FeedsInit
  <2>2. \A tr \in Trader : Inactive(tr)
    BY DEF FeedsInit, NoStats, Inactive
  <2>3. Ordered(b)
    BY <2>1 DEF Ordered
  <2> QED
    BY <2>1, <2>2, <2>3 DEF Fresh
<1> QED
  BY <1>2, <1>3, <1>4 DEF BoardInv

\* Steps that neither read nor set a board.
LEMMA StatisticsStep ==
    ASSUME BoardInv, boards' = boards, task' = task, stale' \in [Board \cup {"task"} -> SUBSET Trader],
           \A b \in Board \cup {"task"} : stale[b] \subseteq stale'[b],
           \A b \in Board \cup {"task"} : \A tr \in Trader \ stale'[b] :
               stats'[tr] = stats[tr] \/ (stats[tr] = None /\ stats'[tr] = NewStats)
    PROVE  BoardInv'
<1>1. BoardTypes'
  BY DEF BoardInv, BoardTypes
<1>2. NewStats.trades = 0
  BY DEF NewStats
<1>3. ASSUME NEW b \in Board \cup {"task"}, NEW tr \in Trader \ stale'[b]
      PROVE  /\ tr \notin stale[b]
             /\ stats[tr] # None => stats'[tr] = stats[tr]
             /\ Inactive(tr) => Inactive(tr)'
             /\ stats'[tr] = stats[tr] \/ Inactive(tr)'
  BY <1>2, <1>3 DEF Inactive
<1>4. Read'
  <2>1. ASSUME task.on # "idle", NEW tr \in Trader \ stale'["task"]
        PROVE  /\ tr \in DOMAIN task.got => stats'[tr] # None /\ stats'[tr] = task.got[tr]
               /\ tr \notin DOMAIN task.got /\ tr \notin task.todo => Inactive(tr)'
    <3>1. /\ tr \notin stale["task"]
          /\ stats[tr] # None => stats'[tr] = stats[tr]
          /\ Inactive(tr) => Inactive(tr)'
      BY <1>3, <2>1
    <3> QED
      BY <2>1, <3>1 DEF BoardInv, Read
  <2> QED
    BY <2>1 DEF BoardInv, Read
<1>5. ASSUME NEW b \in Board PROVE Ordered(b)' /\ Fresh(b)'
  <2>1. Ordered(b) /\ Fresh(b)
    BY DEF BoardInv
  <2>2. Ordered(b)'
    BY <2>1 DEF Ordered
  <2>3. ASSUME NEW i \in 1..Len(boards[b]), boards[b][i].trader \notin stale'[b]
        PROVE  LET s == stats'[boards[b][i].trader] IN
               s # None /\ boards[b][i].value = Value(b, s) /\ boards[b][i].trades = s.trades
    <3> DEFINE tr == boards[b][i].trader
    <3>1. tr \in Trader
      <4>1. boards[b] \in Seq(Row)
        BY DEF BoardInv, BoardTypes
      <4>2. boards[b][i] \in Row
        BY <4>1, ElementOfSeq
      <4> QED
        BY <4>2 DEF Row
    <3>2. tr \notin stale[b] /\ (stats[tr] # None => stats'[tr] = stats[tr])
      BY <1>3, <2>3, <3>1
    <3>3. LET s == stats[tr] IN s # None /\ boards[b][i].value = Value(b, s) /\ boards[b][i].trades = s.trades
      BY <2>1, <3>2 DEF Fresh
    <3> QED
      BY <3>2, <3>3
  <2>4. ASSUME NEW tr \in Trader \ stale'[b], ~OnBoard(b, tr)
        PROVE  Inactive(tr)' \/ (Len(boards[b]) = MaxEntries /\ Value(b, stats'[tr]) <= boards[b][MaxEntries].value)
    <3>1. /\ tr \notin stale[b] /\ (Inactive(tr) => Inactive(tr)')
          /\ stats'[tr] = stats[tr] \/ Inactive(tr)'
      BY <1>3
    <3>2. Inactive(tr) \/ (Len(boards[b]) = MaxEntries /\ Value(b, stats[tr]) <= boards[b][MaxEntries].value)
      BY <2>1, <2>4, <3>1 DEF Fresh
    <3> QED
      BY <3>1, <3>2
  <2>5. \A tr \in Trader : OnBoard(b, tr)' <=> OnBoard(b, tr)
    BY DEF OnBoard
  <2>6. Fresh(b)'
    BY <2>3, <2>4, <2>5 DEF Fresh
  <2> QED
    BY <2>2, <2>6
<1> QED
  BY <1>1, <1>4, <1>5 DEF BoardInv

\* A rebuild begins with nothing read.
LEMMA BeginStep ==
    ASSUME BoardInv, BeginRebuild
    PROVE  BoardInv'
<1>1. /\ boards' = boards /\ stats' = stats
      /\ task' = [on |-> "all", todo |-> Trader, got |-> NoRows] /\ stale' = [stale EXCEPT !["task"] = {}]
  BY DEF BeginRebuild, TaskRest
<1>2. NoRows \in Got /\ DOMAIN NoRows = {}
  <2>1. NoRows \in [{} -> TraderStats] /\ {} \in SUBSET Trader
    BY DEF NoRows
  <2> QED
    BY <2>1 DEF Got
<1>3. BoardTypes'
  BY <1>1, <1>2 DEF BoardInv, BoardTypes
<1>4. Read'
  BY <1>1, <1>2 DEF Read
<1>5. ASSUME NEW b \in Board PROVE Ordered(b)' /\ Fresh(b)'
  <2>1. stale'[b] = stale[b]
    BY <1>1 DEF BoardInv, BoardTypes, Board
  <2>2. Ordered(b) /\ Fresh(b)
    BY DEF BoardInv
  <2>3. Ordered(b)'
    BY <1>1, <2>2 DEF Ordered
  <2>4. Fresh(b)'
    BY <1>1, <2>1, <2>2 DEF Fresh, OnBoard, Inactive
  <2> QED
    BY <2>3, <2>4
<1> QED
  BY <1>3, <1>4, <1>5 DEF BoardInv

\* A row is read.
LEMMA ReadStep ==
    ASSUME FeedsInv, BoardInv, NEW tr \in Trader, ReadStats(tr)
    PROVE  BoardInv'
<1> DEFINE old == task.got
           new == [t \in DOMAIN old \cup {tr} |-> IF t = tr THEN stats[tr] ELSE old[t]]
<1>1. /\ boards' = boards /\ stats' = stats /\ stale' = stale /\ task.on = "all" /\ tr \in task.todo
      /\ task' = [task EXCEPT !.todo = @ \ {tr}, !.got = IF stats[tr] = None THEN old ELSE new]
  BY DEF ReadStats, TaskRest
<1>2. task \in [on : {"idle", "all", "volume"}, todo : SUBSET Trader, got : Got] /\ stats[tr] \in TraderStats \cup {None}
  BY DEF BoardInv, BoardTypes, FeedsInv, FeedsTypes
<1>3. PICK D \in SUBSET Trader : old \in [D -> TraderStats]
  BY <1>2 DEF Got
<1>4. stats[tr] # None => new \in Got
  <2>1. stats[tr] # None => new \in [D \cup {tr} -> TraderStats]
    BY <1>2, <1>3
  <2>2. D \cup {tr} \in SUBSET Trader
    OBVIOUS
  <2> HIDE DEF new, old
  <2> QED
    BY <2>1, <2>2 DEF Got
<1>5. /\ task'.on = task.on /\ task'.todo = task.todo \ {tr} /\ task'.got = IF stats[tr] = None THEN old ELSE new
      /\ task' \in [on : {"idle", "all", "volume"}, todo : SUBSET Trader, got : Got]
  <2> DEFINE got == IF stats[tr] = None THEN old ELSE new
  <2>1. got \in Got
    BY <1>2, <1>4
  <2>2. task' = [task EXCEPT !.todo = @ \ {tr}, !.got = got]
    BY <1>1
  <2> HIDE DEF got
  <2>3. /\ task'.on = task.on /\ task'.todo = task.todo \ {tr} /\ task'.got = got
        /\ task' \in [on : {"idle", "all", "volume"}, todo : SUBSET Trader, got : Got]
    BY <1>2, <2>1, <2>2
  <2> QED
    BY <2>3 DEF got
<1>6. BoardTypes'
  BY <1>1, <1>5 DEF BoardInv, BoardTypes
<1>7. Read'
  <2>1. task'.on = "all"
    BY <1>1, <1>5
  <2>2. ASSUME NEW t \in Trader \ stale["task"]
        PROVE  /\ t \in DOMAIN task'.got => stats[t] # None /\ stats[t] = task'.got[t]
               /\ t \notin DOMAIN task'.got /\ t \notin task'.todo => Inactive(t)
    <3>1. /\ t \in DOMAIN old => stats[t] # None /\ stats[t] = old[t]
          /\ t \notin DOMAIN old /\ t \notin task.todo => Inactive(t)
      BY <1>1 DEF BoardInv, Read
    <3>2. CASE stats[tr] = None
      <4>1. task'.got = old /\ task'.todo = task.todo \ {tr}
        BY <1>5, <3>2
      <4>2. Inactive(tr)
        BY <3>2 DEF Inactive
      <4> QED
        BY <3>1, <4>1, <4>2
    <3>3. CASE stats[tr] # None
      <4>1. task'.got = new /\ task'.todo = task.todo \ {tr}
        BY <1>5, <3>3
      <4>2. DOMAIN new = DOMAIN old \cup {tr} /\ new[tr] = stats[tr] /\ (t \in DOMAIN old /\ t # tr => new[t] = old[t])
        OBVIOUS
      <4> HIDE DEF new, old
      <4> QED
        BY <3>1, <3>3, <4>1, <4>2
    <3> QED
      BY <3>2, <3>3
  <2> QED
    BY <1>1, <2>1, <2>2 DEF Read, Inactive
<1>8. ASSUME NEW b \in Board PROVE Ordered(b)' /\ Fresh(b)'
  <2>1. Ordered(b) /\ Fresh(b)
    BY DEF BoardInv
  <2> QED
    BY <1>1, <2>1 DEF Ordered, Fresh, OnBoard, Inactive
<1> QED
  BY <1>6, <1>7, <1>8 DEF BoardInv

\* The boards start empty, and every trader's row has changed.
LEMMA ReopenBoards ==
    ASSUME BoardInv, Reopen
    PROVE  BoardInv'
<1>1. boards' = [b \in Board |-> <<>>] /\ task' = IdleTask /\ stale' = [b \in DOMAIN stale |-> Trader]
  BY DEF Reopen
<1>2. NoRows \in Got
  <2>1. NoRows \in [{} -> TraderStats] /\ {} \in SUBSET Trader
    BY DEF NoRows
  <2> QED
    BY <2>1 DEF Got
<1>3. BoardTypes'
  BY <1>1, <1>2 DEF BoardInv, BoardTypes, IdleTask
<1>4. Read'
  BY <1>1 DEF Read, IdleTask
<1>5. ASSUME NEW b \in Board PROVE Ordered(b)' /\ Fresh(b)'
  <2>1. boards'[b] = <<>> /\ Len(boards'[b]) = 0 /\ 1..0 = {} /\ MaxEntries \in Nat
    BY <1>1, FeedsAssumption
  <2>2. stale'[b] = Trader
    BY <1>1 DEF BoardInv, BoardTypes
  <2>3. Ordered(b)'
    BY <2>1 DEF Ordered
  <2> QED
    BY <2>1, <2>2, <2>3 DEF Fresh
<1> QED
  BY <1>3, <1>4, <1>5 DEF BoardInv

-----------------------------------------------------------------------------
(* The boards: rankings.                                                   *)

\* What a ranking is.
RankingOf(r, got, b) ==
    /\ r \in Seq(Row) /\ Len(r) <= MaxEntries
    /\ \A i \in 1..Len(r) :
          LET s == got[r[i].trader] IN
          /\ r[i].rank = i /\ r[i].trader \in DOMAIN got
          /\ s.trades > 0 /\ r[i].value = Value(b, s) /\ r[i].trades = s.trades
          /\ i > 1 => r[i].value <= r[i - 1].value
    /\ \A i, j \in 1..Len(r) : r[i].trader = r[j].trader => i = j
    /\ \A tr \in Active(got) :
          (\A i \in 1..Len(r) : r[i].trader # tr) => Len(r) = MaxEntries /\ Value(b, got[tr]) <= r[MaxEntries].value

\* Every ranking that Rankings() allows is one.
LEMMA RankingIs ==
    ASSUME NEW got \in Got, NEW b \in Board, NEW r \in Rankings(got, b)
    PROVE  RankingOf(r, got, b)
<1> DEFINE n == Cardinality(Active(got))
<1>1. PICK order \in SetToSeqs(Active(got)) : Sorted(order, got, b) /\ r = Truncated(Ranked(order, got, b))
  BY DEF Rankings
<1>2. Active(got) \in SUBSET Trader /\ Active(got) \in SUBSET DOMAIN got /\ \A tr \in DOMAIN got : got[tr] \in TraderStats
  BY DEF Got, Active
<1>3. IsFiniteSet(Active(got)) /\ n \in Nat
  BY <1>2, FeedsAssumption, FS_Subset, FS_CardinalityType
<1>4. order \in [1..n -> Active(got)] /\ \A i, j \in 1..n : i # j => order[i] # order[j]
  BY DEF SetToSeqs
<1> HIDE DEF n
<1>5. \A tr \in Active(got) : \E i \in 1..n : order[i] = tr
  <2>1. order \in Injection(1..n, Active(got))
    BY <1>4 DEF Injection, IsInjective
  <2>2. 1 \in Int /\ n \in Int
    BY <1>3
  <2>3. Cardinality(1..n) = n
    BY <1>3, <2>2, FS_Interval
  <2>4. Cardinality(1..n) = Cardinality(Active(got))
    BY <2>3 DEF n
  <2>5. order \in Surjection(1..n, Active(got))
    BY <1>3, <2>1, <2>4, FS_Injection
  <2> QED
    BY <2>5 DEF Surjection
<1> DEFINE R == Ranked(order, got, b)
           k == Min({MaxEntries, Len(R)})
<1>6. DOMAIN order = 1..n
  BY <1>4
<1>7. ASSUME NEW i \in 1..n
      PROVE  LET s == got[order[i]] IN
             /\ s \in TraderStats /\ order[i] \in Active(got) /\ order[i] \in Trader /\ order[i] \in DOMAIN got
             /\ s.trades \in Nat /\ s.trades > 0 /\ Value(b, s) \in Int
             /\ R[i] = [rank |-> i, trader |-> order[i], value |-> Value(b, s), trades |-> s.trades]
             /\ R[i] \in Row
  <2> DEFINE s == got[order[i]]
  <2>1. order[i] \in Active(got)
    BY <1>4
  <2>2. s \in TraderStats /\ s.trades > 0 /\ order[i] \in Trader /\ order[i] \in DOMAIN got
    BY <1>2, <2>1 DEF Active
  <2> HIDE DEF s
  <2>3. s.trades \in Nat /\ Value(b, s) \in Int
    BY <2>2 DEF TraderStats, Value
  <2>4. R[i] = [rank |-> i, trader |-> order[i], value |-> Value(b, s), trades |-> s.trades]
    BY <1>6 DEF Ranked, s
  <2>5. i \in Nat
    BY <1>3
  <2>6. R[i] \in Row
    BY <2>2, <2>3, <2>4, <2>5 DEF Row
  <2> QED
    BY <2>1, <2>2, <2>3, <2>4, <2>6 DEF s
<1>8. R = [i \in 1..n |-> R[i]] /\ R \in Seq(Row) /\ Len(R) = n
  <2>1. R = [i \in 1..n |-> R[i]]
    BY <1>6 DEF Ranked
  <2> HIDE DEF R
  <2>2. R \in [1..n -> Row]
    BY <1>7, <2>1
  <2> QED
    BY <1>3, <2>1, <2>2
<1>9. k \in Nat /\ k <= n /\ k <= MaxEntries /\ (k < n => k = MaxEntries)
  <2>1. MaxEntries \in Nat
    BY FeedsAssumption
  <2>2. \E x \in {MaxEntries, n} : \A y \in {MaxEntries, n} : x <= y
    BY <1>3, <2>1
  <2>3. k \in {MaxEntries, n} /\ \A y \in {MaxEntries, n} : k <= y
    BY <1>8, <2>2 DEF Min
  <2> HIDE DEF k
  <2> QED
    BY <1>3, <2>1, <2>3
<1>10. r = SubSeq(R, 1, k)
  BY <1>1 DEF Truncated
<1> HIDE DEF R, k
<1>11. r \in Seq(Row) /\ Len(r) = k /\ \A i \in 1..k : r[i] = R[i]
  <2>1. \A i \in 1..k : R[i] \in Row
    <3>1. \A i \in 1..k : i \in 1..n
      BY <1>3, <1>9
    <3>2. \A i \in 1..n : R[i] \in Row
      BY <1>7
    <3> QED
      BY <3>1, <3>2
  <2>2. 1 \in Int /\ k \in Int
    BY <1>9
  <2>3. /\ SubSeq(R, 1, k) \in Seq(Row) /\ Len(SubSeq(R, 1, k)) = IF 1 <= k THEN k - 1 + 1 ELSE 0
        /\ \A i \in 1..(k - 1 + 1) : SubSeq(R, 1, k)[i] = R[1 + i - 1]
    BY <2>1, <2>2, SubSeqProperties
  <2>4. \A i \in 1..k : i \in 1..(k - 1 + 1) /\ 1 + i - 1 = i
    BY <1>9
  <2>5. \A i \in 1..k : r[i] = R[i]
    BY <1>10, <2>3, <2>4
  <2>6. Len(r) = k
    BY <1>9, <1>10, <2>3
  <2> QED
    BY <1>10, <2>3, <2>5, <2>6
<1>12. \A i \in 1..k : i \in 1..n
  BY <1>3, <1>9
<1>13. ASSUME NEW i \in 1..Len(r)
       PROVE  LET s == got[r[i].trader] IN
              /\ r[i].rank = i /\ r[i].trader = order[i] /\ r[i].trader \in DOMAIN got
              /\ s.trades > 0 /\ r[i].value = Value(b, s) /\ r[i].trades = s.trades
  <2>1. i \in 1..n /\ r[i] = R[i]
    BY <1>11, <1>12
  <2>2. LET s == got[order[i]] IN
        /\ s.trades > 0 /\ order[i] \in DOMAIN got
        /\ R[i] = [rank |-> i, trader |-> order[i], value |-> Value(b, s), trades |-> s.trades]
    BY <1>7, <2>1
  <2> QED
    BY <2>1, <2>2
<1>14. ASSUME NEW i \in 1..Len(r), i > 1
       PROVE  r[i].value <= r[i - 1].value
  <2>1. i - 1 \in 1..Len(r) /\ i - 1 < i /\ i - 1 \in 1..n /\ i \in 1..n
    BY <1>9, <1>11, <1>12, <1>14
  <2>2. Value(b, got[order[i - 1]]) >= Value(b, got[order[i]])
    BY <1>1, <1>6, <2>1 DEF Sorted
  <2>3. r[i].value = Value(b, got[order[i]]) /\ r[i - 1].value = Value(b, got[order[i - 1]])
    BY <1>13, <2>1
  <2>4. Value(b, got[order[i]]) \in Int /\ Value(b, got[order[i - 1]]) \in Int
    BY <1>7, <2>1
  <2> QED
    BY <2>2, <2>3, <2>4
<1>15. ASSUME NEW i \in 1..Len(r), NEW j \in 1..Len(r), r[i].trader = r[j].trader
       PROVE  i = j
  BY <1>4, <1>11, <1>12, <1>13, <1>15
<1>16. ASSUME NEW tr \in Active(got), \A i \in 1..Len(r) : r[i].trader # tr
       PROVE  Len(r) = MaxEntries /\ Value(b, got[tr]) <= r[MaxEntries].value
  <2>1. PICK j \in 1..n : order[j] = tr
    BY <1>5
  <2>2. j \notin 1..k
    BY <1>11, <1>13, <1>16, <2>1
  <2>3. k < j /\ k = MaxEntries
    BY <1>3, <1>9, <2>2
  <2>4. k \in 1..n /\ k \in 1..Len(r)
    BY <1>3, <1>9, <1>11, <2>3, FeedsAssumption
  <2>5. Value(b, got[order[k]]) >= Value(b, got[tr])
    BY <1>1, <1>6, <2>1, <2>3, <2>4 DEF Sorted
  <2>6. r[k].value = Value(b, got[order[k]])
    BY <1>13, <2>4
  <2>7. Value(b, got[order[k]]) \in Int /\ Value(b, got[tr]) \in Int
    BY <1>7, <2>1, <2>4
  <2> QED
    BY <1>11, <2>3, <2>5, <2>6, <2>7
<1> QED
  BY <1>9, <1>11, <1>13, <1>14, <1>15, <1>16 DEF RankingOf

\* rebuild_pnl() or rebuild_volume() sets its board.
LEMMA BoardStep ==
    ASSUME FeedsInv, BoardInv, NEW b \in Board, SetBoard(b)
    PROVE  BoardInv'
<1>1. PICK r \in Rankings(task.got, b) : boards' = [boards EXCEPT ![b] = r]
  BY DEF SetBoard
<1>2. /\ stats' = stats /\ task.todo = {} /\ task.on \in {"all", "volume"}
      /\ stale' = [stale EXCEPT ![b] = stale["task"]]
      /\ task' = IF b = "pnl" THEN [task EXCEPT !.on = "volume"] ELSE IdleTask
  BY DEF SetBoard, TaskRest
<1>3. /\ boards \in [Board -> Seq(Row)] /\ stale \in [Board \cup {"task"} -> SUBSET Trader]
      /\ task \in [on : {"idle", "all", "volume"}, todo : SUBSET Trader, got : Got]
      /\ b \in Board \cup {"task"} /\ "task" \notin Board
  BY DEF BoardInv, BoardTypes, Board
<1>4. task.got \in Got
  BY <1>3
<1>5. RankingOf(r, task.got, b)
  BY <1>4, RankingIs
<1>6. boards'[b] = r /\ stale'[b] = stale["task"] /\ stale'["task"] = stale["task"]
  BY <1>1, <1>2, <1>3
<1>7. BoardTypes'
  <2>1. task' \in [on : {"idle", "all", "volume"}, todo : SUBSET Trader, got : Got]
    <3>1. NoRows \in Got
      <4>1. NoRows \in [{} -> TraderStats] /\ {} \in SUBSET Trader
        BY DEF NoRows
      <4> QED
        BY <4>1 DEF Got
    <3> QED
      BY <1>2, <1>3, <3>1 DEF IdleTask
  <2>2. r \in Seq(Row)
    BY <1>5 DEF RankingOf
  <2> QED
    BY <1>1, <1>2, <1>3, <2>1, <2>2 DEF BoardTypes
<1>8. Read'
  <2>1. task'.on # "idle" => task'.on = "volume" /\ task'.todo = task.todo /\ task'.got = task.got
    BY <1>2, <1>3 DEF IdleTask
  <2>2. Read
    BY DEF BoardInv
  <2> QED
    BY <1>2, <1>6, <2>1, <2>2 DEF Read, Inactive
<1>9. ASSUME NEW c \in Board, c # b
      PROVE  Ordered(c)' /\ Fresh(c)'
  <2>1. boards'[c] = boards[c] /\ stale'[c] = stale[c]
    BY <1>1, <1>2, <1>3, <1>9
  <2>2. Ordered(c) /\ Fresh(c)
    BY DEF BoardInv
  <2> QED
    BY <1>2, <2>1, <2>2 DEF Ordered, Fresh, OnBoard, Inactive
<1>10. Ordered(b)'
  <2>1. Ordered(b)' <=>
        /\ Len(r) <= MaxEntries
        /\ \A i \in 1..Len(r) : r[i].rank = i /\ r[i].trades > 0 /\ (i > 1 => r[i].value <= r[i - 1].value)
        /\ \A i, j \in 1..Len(r) : r[i].trader = r[j].trader => i = j
    BY <1>6 DEF Ordered
  <2> QED
    BY <1>5, <2>1 DEF RankingOf
<1>11. Fresh(b)'
  <2>1. \A tr \in Trader \ stale["task"] :
           /\ tr \in DOMAIN task.got => stats[tr] # None /\ stats[tr] = task.got[tr]
           /\ tr \notin DOMAIN task.got => Inactive(tr)
    BY <1>2 DEF BoardInv, Read
  <2>2. ASSUME NEW i \in 1..Len(r), r[i].trader \notin stale["task"]
        PROVE  LET s == stats[r[i].trader] IN s # None /\ r[i].value = Value(b, s) /\ r[i].trades = s.trades
    <3>1. LET s == task.got[r[i].trader] IN r[i].trader \in DOMAIN task.got /\ r[i].value = Value(b, s) /\ r[i].trades = s.trades
      BY <1>5 DEF RankingOf
    <3>2. r[i].trader \in Trader
      BY <1>4, <3>1 DEF Got
    <3> QED
      BY <2>1, <2>2, <3>1, <3>2
  <2>3. ASSUME NEW tr \in Trader \ stale["task"], \A i \in 1..Len(r) : r[i].trader # tr
        PROVE  Inactive(tr) \/ (Len(r) = MaxEntries /\ Value(b, stats[tr]) <= r[MaxEntries].value)
    <3>1. CASE tr \in Active(task.got)
      <4>1. Len(r) = MaxEntries /\ Value(b, task.got[tr]) <= r[MaxEntries].value
        BY <1>5, <2>3, <3>1 DEF RankingOf
      <4>2. stats[tr] = task.got[tr]
        BY <2>1, <3>1 DEF Active
      <4> QED
        BY <4>1, <4>2
    <3>2. CASE tr \in DOMAIN task.got /\ tr \notin Active(task.got)
      <4>1. stats[tr] = task.got[tr] /\ ~(task.got[tr].trades > 0) /\ task.got[tr] \in TraderStats
        BY <1>4, <2>1, <3>2 DEF Active, Got
      <4>2. stats[tr].trades \in Nat
        BY <4>1 DEF TraderStats
      <4> QED
        BY <4>1, <4>2 DEF Inactive
    <3>3. CASE tr \notin DOMAIN task.got
      BY <2>1, <3>3
    <3> QED
      BY <3>1, <3>2, <3>3
  <2>4. \A tr : OnBoard(b, tr)' <=> \E i \in 1..Len(r) : r[i].trader = tr
    BY <1>6 DEF OnBoard
  <2> QED
    BY <1>2, <1>6, <2>2, <2>3, <2>4 DEF Fresh, Inactive
<1> QED
  BY <1>7, <1>8, <1>9, <1>10, <1>11 DEF BoardInv

\* Every step.
LEMMA BoardNext == FeedsInv /\ BoardInv /\ [FeedsNext]_feedsVars => BoardInv'
<1> SUFFICES ASSUME FeedsInv, BoardInv, [FeedsNext]_feedsVars PROVE BoardInv'
  OBVIOUS
<1>0. /\ stale \in [Board \cup {"task"} -> SUBSET Trader] /\ stats \in [Trader -> TraderStats \cup {None}]
  BY DEF FeedsInv, FeedsTypes, BoardInv, BoardTypes
<1>1. CASE stats' = stats /\ boards' = boards /\ task' = task /\ stale' = stale
  BY <1>0, <1>1, StatisticsStep
<1>2. CASE \E e \in mix.events : LogEvent(e)
  BY <1>1, <1>2 DEF LogEvent, IndexerRest
<1>3. CASE AppendMarket \/ AppendTrader \/ AppendCount \/ CountDay
  BY <1>1, <1>3 DEF AppendMarket, AppendTrader, AppendCount, CountDay, IndexerRest
<1>4. CASE EnsureStats
  <2>1. stats' = ensure(stats, Now) /\ stale' = stale /\ boards' = boards /\ task' = task /\ indexer = "ensure"
    BY <1>4 DEF EnsureStats, IndexerRest
  <2>2. Now \in Logged
    BY <2>1, UnderWay
  <2>3. \A tr \in Trader : stats'[tr] = stats[tr] \/ (stats[tr] = None /\ stats'[tr] = NewStats)
    BY <1>0, <2>1, <2>2, StatsAppended
  <2> QED
    BY <1>0, <2>1, <2>3, StatisticsStep
<1>5. CASE CountTrade
  <2>1. /\ stats' = Trade(stats, Now) /\ stale' = [b \in DOMAIN stale |-> stale[b] \cup {Now.trader}]
        /\ boards' = boards /\ task' = task /\ indexer = "trade"
    BY <1>5 DEF CountTrade, IndexerRest
  <2>2. Now \in Logged /\ stats[Now.trader] \in TraderStats
    BY <2>1, UnderWay DEF FeedsInv, Numbered
  <2>2a. Now.trader \in Trader
    BY <2>2, LoggedFields
  <2>3. \A tr \in Trader \ {Now.trader} : stats'[tr] = stats[tr]
    BY <1>0, <2>1, <2>2, StatsAppended
  <2>4. stale' \in [Board \cup {"task"} -> SUBSET Trader] /\ \A b \in Board \cup {"task"} : stale'[b] = stale[b] \cup {Now.trader}
    BY <1>0, <2>1, <2>2a
  <2> QED
    BY <2>1, <2>3, <2>4, StatisticsStep
<1>6. CASE BeginRebuild
  BY <1>6, BeginStep
<1>7. CASE \E tr \in Trader : ReadStats(tr)
  BY <1>7, ReadStep
<1>8. CASE \E b \in Board : SetBoard(b)
  BY <1>8, BoardStep
<1>9. CASE Snapshot
  BY <1>1, <1>9 DEF Snapshot
<1>10. CASE Reopen
  BY <1>10, ReopenBoards
<1>11. CASE UNCHANGED feedsVars
  BY <1>1, <1>11 DEF feedsVars
<1> QED
  BY <1>2, <1>3, <1>4, <1>5, <1>6, <1>7, <1>8, <1>9, <1>10, <1>11 DEF FeedsNext, IndexerStep

\* The invariant gives the property.
LEMMA BoardsAreFresh == BoardInv => BoardFresh
<1> SUFFICES ASSUME BoardInv, NEW b \in Board
             PROVE  LET on == {boards[b][i].trader : i \in DOMAIN boards[b]} IN
        /\ Len(boards[b]) = Cardinality(on) /\ Len(boards[b]) <= MaxEntries
        /\ \A i \in DOMAIN boards[b] :
              LET e == boards[b][i] IN
              /\ rank(b, e.trader) = i /\ e.trades > 0
              /\ i > 1 => e.value <= boards[b][i - 1].value
              /\ e.trader \notin stale[b] => e.value = Value(b, stats[e.trader]) /\ e.trades = stats[e.trader].trades
        /\ \A tr \in Trader \ (on \cup stale[b]) :
              stats[tr] # None /\ stats[tr].trades > 0 =>
                  /\ Len(boards[b]) = MaxEntries
                  /\ Value(b, stats[tr]) <= boards[b][MaxEntries].value
  BY DEF BoardFresh
<1> DEFINE r == boards[b]
           on == {r[i].trader : i \in 1..Len(r)}
<1>1. r \in Seq(Row) /\ DOMAIN r = 1..Len(r) /\ Len(r) \in Nat
  BY LenProperties DEF BoardInv, BoardTypes
<1>2. Ordered(b) /\ Fresh(b)
  BY DEF BoardInv
<1>3. Len(r) = Cardinality(on)
  <2> DEFINE f == [i \in 1..Len(r) |-> r[i].trader]
  <2>1. f \in [1..Len(r) -> on] /\ \A x \in on : \E i \in 1..Len(r) : f[i] = x
    OBVIOUS
  <2>2. \A i, j \in 1..Len(r) : f[i] = f[j] => i = j
    BY <1>2 DEF Ordered
  <2> HIDE DEF f
  <2>3. f \in Bijection(1..Len(r), on)
    BY <2>1, <2>2 DEF Bijection, Injection, Surjection, IsInjective
  <2>4. 1 \in Int /\ Len(r) \in Int
    BY <1>1
  <2>5. IsFiniteSet(1..Len(r)) /\ Cardinality(1..Len(r)) = Len(r)
    BY <1>1, <2>4, FS_Interval
  <2>6. Cardinality(on) = Cardinality(1..Len(r))
    BY <2>3, <2>5, FS_Bijection DEF ExistsBijection
  <2> QED
    BY <2>5, <2>6
<1>4. ASSUME NEW i \in 1..Len(r)
      PROVE  rank(b, r[i].trader) = i
  <2> DEFINE at == {j \in DOMAIN r : r[j].trader = r[i].trader}
  <2>1. at = {i}
    BY <1>1, <1>2 DEF Ordered
  <2>2. i \in Nat /\ Min({i}) = i
    BY <1>1 DEF Min
  <2>3. r[i].rank = i
    BY <1>2 DEF Ordered
  <2> HIDE DEF at
  <2>4. rank(b, r[i].trader) = IF at = {} THEN 0 ELSE r[Min(at)].rank
    BY DEF rank, at
  <2> QED
    BY <2>1, <2>2, <2>3, <2>4
<1>5. ASSUME NEW tr \in Trader \ (on \cup stale[b]), stats[tr] # None, stats[tr].trades > 0
      PROVE  Len(r) = MaxEntries /\ Value(b, stats[tr]) <= r[MaxEntries].value
  <2>1. ~OnBoard(b, tr)
    BY <1>5 DEF OnBoard
  <2>2. ~Inactive(tr)
    BY <1>5 DEF Inactive
  <2> QED
    BY <1>2, <2>1, <2>2 DEF Fresh
<1>6. ASSUME NEW i \in 1..Len(r)
      PROVE  LET e == r[i] IN
             /\ e.trades > 0 /\ (i > 1 => e.value <= r[i - 1].value)
             /\ e.trader \notin stale[b] => e.value = Value(b, stats[e.trader]) /\ e.trades = stats[e.trader].trades
  BY <1>2 DEF Ordered, Fresh
<1>7. Len(r) <= MaxEntries
  BY <1>2 DEF Ordered
<1>8. on = {boards[b][i].trader : i \in DOMAIN boards[b]} /\ DOMAIN boards[b] = 1..Len(r)
  BY <1>1
<1> QED
  BY <1>3, <1>4, <1>5, <1>6, <1>7, <1>8

\* What rebuild_leaderboard() has read, and the boards made from it, are true of
\* every trader whose statistics have not changed since.
THEOREM BoardsInvariance == FeedsSpec => []BoardInv
<1> QED
  BY FeedsInvariance, BoardInit, BoardNext, PTL DEF FeedsSpec

\* A board is in order and without repetition, and right about every trader whose
\* statistics have not changed since rebuild_leaderboard() read them, however
\* increment_trade() and open() interleave with the rebuild.
THEOREM BoardsFresh == FeedsSpec => []BoardFresh
<1> QED
  BY BoardsInvariance, BoardsAreFresh, PTL

-----------------------------------------------------------------------------
(* The calendar.                                                           *)

\* Leap years up to y, and of an era.
Leaps(y) == y \div 4 - y \div 100 + y \div 400

\* One year more.
LEMMA LeapsNext ==
    ASSUME NEW y \in Nat, y > 0
    PROVE  Leaps(y) = Leaps(y - 1) + IF Leap(y) THEN 1 ELSE 0
<1>1. y \div 4 = (y - 1) \div 4 + IF y % 4 = 0 THEN 1 ELSE 0
  OBVIOUS
<1>2. y \div 100 = (y - 1) \div 100 + IF y % 100 = 0 THEN 1 ELSE 0
  OBVIOUS
<1>3. y \div 400 = (y - 1) \div 400 + IF y % 400 = 0 THEN 1 ELSE 0
  OBVIOUS
<1>4. (y % 400 = 0 => y % 100 = 0) /\ (y % 100 = 0 => y % 4 = 0)
  OBVIOUS
<1> QED
  BY <1>1, <1>2, <1>3, <1>4 DEF Leaps, Leap

\* The leap years since 1970.
LEMMA LeapsBetween ==
    ASSUME NEW y \in Nat, y >= 1970
    PROVE  LeapDays(y) = Leaps(y - 1) - 477
<1> DEFINE Year(n) == {x \in 1970..(n - 1) : Leap(x)}
           Bad == {n \in Nat : n >= 1970 /\ ~(IsFiniteSet(Year(n)) /\ Cardinality(Year(n)) = Leaps(n - 1) - 477)}
<1>1. ASSUME Bad # {} PROVE FALSE
  <2>0. Bad \in SUBSET Nat
    OBVIOUS
  <2> HIDE DEF Bad
  <2>1. PICK n \in Bad : \A k \in Bad : n <= k
    BY <1>1, <2>0, Least
  <2> USE DEF Bad
  <2>2. CASE n = 1970
    <3>1. Year(n) = {}
      BY <2>2
    <3>2. Leaps(1969) = 477
      BY DEF Leaps
    <3>3. IsFiniteSet({}) /\ Cardinality({}) = 0
      BY FS_EmptySet
    <3> QED
      BY <2>1, <2>2, <3>1, <3>2, <3>3
  <2>3. CASE n # 1970
    <3>1. n - 1 \in Nat /\ n - 1 >= 1970 /\ n - 1 \notin Bad
      BY <2>1, <2>3
    <3>2. IsFiniteSet(Year(n - 1)) /\ Cardinality(Year(n - 1)) = Leaps(n - 1 - 1) - 477
      BY <3>1
    <3>3. Leaps(n - 1) = Leaps(n - 1 - 1) + IF Leap(n - 1) THEN 1 ELSE 0
      BY <3>1, LeapsNext
    <3>4. Leaps(n - 1 - 1) \in Int
      BY <3>1 DEF Leaps
    <3>5. n - 1 \notin Year(n - 1) /\ Year(n) = IF Leap(n - 1) THEN Year(n - 1) \cup {n - 1} ELSE Year(n - 1)
      <4>1. 1970..(n - 1) = 1970..(n - 1 - 1) \cup {n - 1} /\ n - 1 \notin 1970..(n - 1 - 1)
        BY <3>1
      <4> QED
        BY <4>1
    <3> HIDE DEF Year
    <3>6. /\ IsFiniteSet(Year(n - 1) \cup {n - 1})
          /\ Cardinality(Year(n - 1) \cup {n - 1}) = Cardinality(Year(n - 1)) + 1
      BY <3>2, <3>5, FS_AddElement
    <3>7. IsFiniteSet(Year(n)) /\ Cardinality(Year(n)) = Leaps(n - 1) - 477
      <4>1. CASE Leap(n - 1)
        BY <3>2, <3>3, <3>4, <3>5, <3>6, <4>1
      <4>2. CASE ~Leap(n - 1)
        BY <3>2, <3>3, <3>4, <3>5, <4>2
      <4> QED
        BY <4>1, <4>2
    <3> QED
      BY <2>1, <3>7
  <2> QED
    BY <2>2, <2>3
<1> HIDE DEF Bad
<1>2. y \notin Bad
  BY <1>1
<1> HIDE DEF Year
<1>3. Cardinality(Year(y)) = Leaps(y - 1) - 477
  BY <1>2 DEF Bad
<1>4. Year(y) = {x \in 1970..(y - 1) : Leap(x)}
  BY DEF Year
<1> QED
  BY <1>3, <1>4 DEF LeapDays

\* The days of the months before m.
LEMMA MonthsBefore ==
    ASSUME NEW y \in Nat, NEW m \in 1..12
    PROVE  MonthDays(y, m) =
               IF m <= 2 THEN (153 * (m + 9) + 2) \div 5 - 306
               ELSE (153 * (m - 3) + 2) \div 5 + 59 + IF Leap(y) THEN 1 ELSE 0
<1> DEFINE f == [k \in 1..12 |-> MonthLength(y, k)]
           T(k) == SumFunctionOnSet(f, 1..k)
           leap == IF Leap(y) THEN 1 ELSE 0
<1>1. \A k \in 1..12 : f[k] = MonthLength(y, k) /\ MonthLength(y, k) \in Int
  BY DEF MonthLength
<1> HIDE DEF f
<1>2. ASSUME NEW k \in 1..12
      PROVE  T(k) = MonthLength(y, k) + T(k - 1)
  <2>1. k \in Int /\ 1 \in Int /\ k \in 1..k /\ (1..k) \ {k} = 1..(k - 1)
    OBVIOUS
  <2>2. IsFiniteSet(1..k)
    BY <2>1, FS_Interval
  <2>3. \A x \in 1..k : f[x] \in Int
    BY <1>1
  <2>4. SumFunctionOnSet(f, 1..k) = f[k] + SumFunctionOnSet(f, (1..k) \ {k})
    BY <2>1, <2>2, <2>3, SumTake
  <2> QED
    BY <1>1, <2>1, <2>4
<1>3. T(0) = 0
  <2>1. 1..0 = {}
    OBVIOUS
  <2> QED
    BY <2>1, SumEmpty
<1> HIDE DEF T
<1>4. leap \in {0, 1}
  OBVIOUS
<1>5. /\ MonthLength(y, 1) = 31 /\ MonthLength(y, 2) = 28 + leap /\ MonthLength(y, 3) = 31 /\ MonthLength(y, 4) = 30
      /\ MonthLength(y, 5) = 31 /\ MonthLength(y, 6) = 30 /\ MonthLength(y, 7) = 31 /\ MonthLength(y, 8) = 31
      /\ MonthLength(y, 9) = 30 /\ MonthLength(y, 10) = 31 /\ MonthLength(y, 11) = 30
  BY DEF MonthLength
<1> HIDE DEF leap
<1>6. T(1) = 31
  <2>1. T(1) = MonthLength(y, 1) + T(1 - 1)
    BY <1>2
  <2> QED
    BY <1>3, <1>5, <2>1
<1>7. T(2) = 59 + leap
  <2>1. T(2) = MonthLength(y, 2) + T(2 - 1)
    BY <1>2
  <2> QED
    BY <1>4, <1>5, <1>6, <2>1
<1>8. T(3) = 90 + leap
  <2>1. T(3) = MonthLength(y, 3) + T(3 - 1)
    BY <1>2
  <2> QED
    BY <1>4, <1>5, <1>7, <2>1
<1>9. T(4) = 120 + leap
  <2>1. T(4) = MonthLength(y, 4) + T(4 - 1)
    BY <1>2
  <2> QED
    BY <1>4, <1>5, <1>8, <2>1
<1>10. T(5) = 151 + leap
  <2>1. T(5) = MonthLength(y, 5) + T(5 - 1)
    BY <1>2
  <2> QED
    BY <1>4, <1>5, <1>9, <2>1
<1>11. T(6) = 181 + leap
  <2>1. T(6) = MonthLength(y, 6) + T(6 - 1)
    BY <1>2
  <2> QED
    BY <1>4, <1>5, <1>10, <2>1
<1>12. T(7) = 212 + leap
  <2>1. T(7) = MonthLength(y, 7) + T(7 - 1)
    BY <1>2
  <2> QED
    BY <1>4, <1>5, <1>11, <2>1
<1>13. T(8) = 243 + leap
  <2>1. T(8) = MonthLength(y, 8) + T(8 - 1)
    BY <1>2
  <2> QED
    BY <1>4, <1>5, <1>12, <2>1
<1>14. T(9) = 273 + leap
  <2>1. T(9) = MonthLength(y, 9) + T(9 - 1)
    BY <1>2
  <2> QED
    BY <1>4, <1>5, <1>13, <2>1
<1>15. T(10) = 304 + leap
  <2>1. T(10) = MonthLength(y, 10) + T(10 - 1)
    BY <1>2
  <2> QED
    BY <1>4, <1>5, <1>14, <2>1
<1>16. T(11) = 334 + leap
  <2>1. T(11) = MonthLength(y, 11) + T(11 - 1)
    BY <1>2
  <2> QED
    BY <1>4, <1>5, <1>15, <2>1
<1>17. T(m - 1) = IF m <= 2 THEN (153 * (m + 9) + 2) \div 5 - 306
                  ELSE (153 * (m - 3) + 2) \div 5 + 59 + leap
  <2>1. m \in {1, 2, 3, 4, 5, 6, 7, 8, 9, 10, 11, 12}
    OBVIOUS
  <2>2. /\ (153 * 10 + 2) \div 5 = 306 /\ (153 * 11 + 2) \div 5 = 337 /\ (153 * 0 + 2) \div 5 = 0
        /\ (153 * 1 + 2) \div 5 = 31 /\ (153 * 2 + 2) \div 5 = 61 /\ (153 * 3 + 2) \div 5 = 92
        /\ (153 * 4 + 2) \div 5 = 122 /\ (153 * 5 + 2) \div 5 = 153 /\ (153 * 6 + 2) \div 5 = 184
        /\ (153 * 7 + 2) \div 5 = 214 /\ (153 * 8 + 2) \div 5 = 245 /\ (153 * 9 + 2) \div 5 = 275
    OBVIOUS
  <2> QED
    BY <1>3, <1>4, <1>6, <1>7, <1>8, <1>9, <1>10, <1>11, <1>12, <1>13, <1>14, <1>15, <1>16, <2>1, <2>2
<1>18. SumFunctionOnSet(f, 1..(m - 1)) = T(m - 1)
  BY DEF T
<1> QED
  BY <1>17, <1>18 DEF f, leap, MonthDays

\* The year of an era and the day of a year, by their inequalities.
LEMMA DayOfEra ==
    ASSUME NEW doe \in Int, NEW c4 \in Int, NEW c \in Int, NEW g \in Int, NEW yoe \in Int, NEW a \in Int, NEW b \in Int,
           0 <= doe, doe <= 146096,
           1460 * c4 <= doe, doe < 1460 * c4 + 1460, 36524 * c <= doe, doe < 36524 * c + 36524,
           146096 * g <= doe, doe < 146096 * g + 146096,
           365 * yoe <= doe - c4 + c - g, doe - c4 + c - g < 365 * yoe + 365,
           4 * a <= yoe, yoe < 4 * a + 4, 100 * b <= yoe, yoe < 100 * b + 100
    PROVE  0 <= yoe /\ yoe < 400 /\ 365 * yoe + a - b <= doe /\ doe <= 365 * yoe + a - b + 365
<1>1. 0 <= yoe /\ yoe < 400
  OBVIOUS
<1>2. 365 * yoe + a - b <= doe
  BY <1>1
<1>3. doe <= 365 * yoe + a - b + 365
  BY <1>1
<1> QED
  BY <1>1, <1>2, <1>3

\* A 366th day is in a year that ends with a leap day.
LEMMA LeapDayOfEra ==
    ASSUME NEW doe \in Int, NEW c4 \in Int, NEW c \in Int, NEW g \in Int, NEW yoe \in Int, NEW a \in Int, NEW b \in Int,
           0 <= doe, doe <= 146096,
           1460 * c4 <= doe, doe < 1460 * c4 + 1460, 36524 * c <= doe, doe < 36524 * c + 36524,
           146096 * g <= doe, doe < 146096 * g + 146096,
           365 * yoe <= doe - c4 + c - g, doe - c4 + c - g < 365 * yoe + 365,
           4 * a <= yoe, yoe < 4 * a + 4, 100 * b <= yoe, yoe < 100 * b + 100,
           doe = 365 * yoe + a - b + 365
    PROVE  yoe = 4 * a + 3 /\ (yoe = 100 * b + 99 => yoe = 399)
<1>1. 0 <= yoe /\ yoe < 400
  OBVIOUS
<1>2. yoe = 4 * a + 3
  BY <1>1
<1>3. b = 0 \/ b = 1 \/ b = 2 \/ b = 3
  BY <1>1
<1>4. ASSUME yoe = 100 * b + 99 PROVE yoe = 399
  BY <1>2, <1>3, <1>4
<1> QED
  BY <1>2, <1>4

\* The year of an era is one of 400, and the day one of its 365, or of its 366.
LEMMA YearFacts ==
    ASSUME NEW doe \in Nat, doe <= 146096
    PROVE  /\ YearOfEra(doe) \in Nat /\ YearOfEra(doe) < 400
           /\ doe - DaysBefore(YearOfEra(doe)) \in Nat /\ doe - DaysBefore(YearOfEra(doe)) <= 365
           /\ doe - DaysBefore(YearOfEra(doe)) = 365 =>
                 YearOfEra(doe) % 4 = 3 /\ (YearOfEra(doe) % 100 = 99 => YearOfEra(doe) = 399)
<1>1. doe \in Int /\ 0 <= doe /\ doe <= 146096
  OBVIOUS
<1>2. PICK c4 \in Int : c4 = doe \div 1460 /\ 1460 * c4 <= doe /\ doe < 1460 * c4 + 1460
  BY <1>1
<1>3. PICK c \in Int : c = doe \div 36524 /\ 36524 * c <= doe /\ doe < 36524 * c + 36524
  BY <1>1
<1>4. PICK g \in Int : g = doe \div 146096 /\ 146096 * g <= doe /\ doe < 146096 * g + 146096
  BY <1>1
<1>5. PICK n \in Int : n = doe - c4 + c - g
  BY <1>1
<1>6. PICK yoe \in Int : yoe = n \div 365 /\ 365 * yoe <= n /\ n < 365 * yoe + 365
  OBVIOUS
<1>7. PICK a \in Int : a = yoe \div 4 /\ 4 * a <= yoe /\ yoe < 4 * a + 4
  OBVIOUS
<1>8. PICK b \in Int : b = yoe \div 100 /\ 100 * b <= yoe /\ yoe < 100 * b + 100
  OBVIOUS
<1>9. YearOfEra(doe) = yoe
  BY <1>2, <1>3, <1>4, <1>5, <1>6 DEF YearOfEra
<1>10. DaysBefore(yoe) = 365 * yoe + a - b
  BY <1>7, <1>8 DEF DaysBefore
<1>11. 365 * yoe <= doe - c4 + c - g /\ doe - c4 + c - g < 365 * yoe + 365
  BY <1>5, <1>6
<1>12. 0 <= yoe /\ yoe < 400 /\ 365 * yoe + a - b <= doe /\ doe <= 365 * yoe + a - b + 365
  BY <1>1, <1>2, <1>3, <1>4, <1>7, <1>8, <1>11, DayOfEra
<1>13. /\ yoe \in Nat /\ yoe < 400
       /\ doe - (365 * yoe + a - b) \in Nat /\ doe - (365 * yoe + a - b) <= 365
  BY <1>1, <1>12
<1>14. ASSUME doe - (365 * yoe + a - b) = 365
       PROVE  yoe % 4 = 3 /\ (yoe % 100 = 99 => yoe = 399)
  <2>1. doe = 365 * yoe + a - b + 365
    BY <1>14
  <2>2. yoe = 4 * a + 3 /\ (yoe = 100 * b + 99 => yoe = 399)
    BY <1>1, <1>2, <1>3, <1>4, <1>7, <1>8, <1>11, <2>1, LeapDayOfEra
  <2>3. yoe % 100 = 99 => yoe = 100 * b + 99
    BY <1>8
  <2> QED
    BY <2>2, <2>3
<1> QED
  BY <1>9, <1>10, <1>13, <1>14

\* Leap years so far, at most one in four.
LEMMA LeapsBound ==
    ASSUME NEW n \in Nat
    PROVE  Leaps(n) \in Int /\ 4 * Leaps(n) <= n + 3 /\ Leaps(n) >= 0
<1>1. /\ n \div 4 \in Nat /\ n \div 100 \in Nat /\ n \div 400 \in Nat
      /\ 4 * (n \div 4) <= n /\ n \div 400 <= n \div 100 /\ n \div 100 <= n \div 4
  OBVIOUS
<1> QED
  BY <1>1 DEF Leaps

\* The day of a date, in closed form.
DayOf(y, m, d) ==
    365 * (y - 1970) + (Leaps(y - 1) - 477)
    + (IF m <= 2 THEN (153 * (m + 9) + 2) \div 5 - 306
       ELSE (153 * (m - 3) + 2) \div 5 + 59 + IF Leap(y) THEN 1 ELSE 0) + d - 1

\* It is the day that the calendar counts.
LEMMA DayNumberIs ==
    ASSUME NEW y \in Nat, y >= 1970, NEW m \in 1..12, NEW d \in Int
    PROVE  DayNumber(y, m, d) = DayOf(y, m, d)
<1>1. LeapDays(y) = Leaps(y - 1) - 477
  BY LeapsBetween
<1>2. MonthDays(y, m) = IF m <= 2 THEN (153 * (m + 9) + 2) \div 5 - 306
                        ELSE (153 * (m - 3) + 2) \div 5 + 59 + IF Leap(y) THEN 1 ELSE 0
  BY MonthsBefore
<1> QED
  BY <1>1, <1>2 DEF DayNumber, DayOf

\* A date that the calendar has.
OfCalendar(y, m, d) == m \in 1..12 /\ d \in 1..MonthLength(y, m)

\* The date of a day of a year is one of the calendar and stands for that day.
LEMMA DateFacts ==
    ASSUME NEW year \in Nat, NEW doy \in Nat, doy <= 365, doy = 365 => Leap(year + 1),
           365 * year + Leaps(year) + doy >= 719468
    PROVE  LET date == DateOf(year, doy) IN
           /\ date \in Nat /\ OfCalendar(date \div 10000, (date \div 100) % 100, date % 100)
           /\ DayNumber(date \div 10000, (date \div 100) % 100, date % 100) = 365 * year + Leaps(year) + doy - 719468
<1>1. PICK mp \in Int : mp = (5 * doy + 2) \div 153 /\ 153 * mp <= 5 * doy + 2 /\ 5 * doy + 2 < 153 * mp + 153
  OBVIOUS
<1>2. PICK q \in Int : q = (153 * mp + 2) \div 5 /\ 5 * q <= 153 * mp + 2 /\ 153 * mp + 2 < 5 * q + 5
  OBVIOUS
<1>3. PICK d \in Int : d = doy - q + 1
  OBVIOUS
<1>4. PICK m \in Int : m = IF mp < 10 THEN mp + 3 ELSE mp - 9
  OBVIOUS
<1>5. PICK y \in Int : y = year + IF m <= 2 THEN 1 ELSE 0
  OBVIOUS
<1>6. DateOf(year, doy) = y * 10000 + m * 100 + d
  BY <1>1, <1>2, <1>3, <1>4, <1>5 DEF DateOf
<1>7. mp >= 0 /\ mp <= 11
  BY <1>1
<1>8. d >= 1 /\ d <= 31
  BY <1>1, <1>2, <1>3
<1>9. m >= 1 /\ m <= 12 /\ (m <= 2 <=> mp >= 10)
  BY <1>4, <1>7
<1>10. y \in Nat /\ y >= year
  BY <1>5
<1>11. PICK leaps \in Int : leaps = Leaps(year) /\ 4 * leaps <= year + 3
  BY LeapsBound
<1>12. y >= 1970
  <2> SUFFICES ASSUME y < 1970 PROVE FALSE
    BY <1>10
  <2>1. year >= 1967
    BY <1>11
  <2>2. Leaps(1967) = 476 /\ Leaps(1968) = 477 /\ Leaps(1969) = 477
    BY DEF Leaps
  <2>3. CASE m <= 2
    <3>1. year = 1967 \/ year = 1968
      BY <1>5, <2>1, <2>3
    <3> QED
      BY <2>2, <3>1
  <2>4. CASE ~(m <= 2)
    <3>1. year = 1967 \/ year = 1968 \/ year = 1969
      BY <1>5, <2>1, <2>4
    <3>2. 5 * doy + 2 < 1530
      BY <1>1, <1>7, <1>9, <2>4
    <3> QED
      BY <2>2, <3>1, <3>2
  <2> QED
    BY <2>3, <2>4
<1>13. m \in 1..12
  BY <1>9
<1>14. DayNumber(y, m, d) =
          365 * (y - 1970) + (Leaps(y - 1) - 477)
          + (IF m <= 2 THEN (153 * (m + 9) + 2) \div 5 - 306
             ELSE (153 * (m - 3) + 2) \div 5 + 59 + IF Leap(y) THEN 1 ELSE 0) + d - 1
  <2>1. DayNumber(y, m, d) = DayOf(y, m, d)
    BY <1>10, <1>12, <1>13, DayNumberIs
  <2> QED
    BY <2>1 DEF DayOf
<1>15. DayNumber(y, m, d) = 365 * year + Leaps(year) + doy - 719468
  <2>1. CASE m <= 2
    <3>1. m + 9 = mp /\ y - 1 = year
      BY <1>4, <1>5, <1>9, <2>1
    <3>2. DayNumber(y, m, d) = 365 * (y - 1970) + (leaps - 477) + (q - 306) + d - 1
      BY <1>2, <1>11, <1>14, <2>1, <3>1
    <3> QED
      BY <1>3, <1>11, <3>1, <3>2
  <2>2. CASE ~(m <= 2)
    <3>1. m - 3 = mp /\ y = year
      BY <1>4, <1>5, <1>9, <2>2
    <3>2. PICK leap \in Int : leap = IF Leap(y) THEN 1 ELSE 0
      OBVIOUS
    <3>3. Leaps(y) = Leaps(y - 1) + leap /\ y - 1 \in Nat /\ Leaps(y - 1) \in Int
      BY <1>10, <1>12, <3>2, LeapsNext, LeapsBound
    <3>4. DayNumber(y, m, d) = 365 * (y - 1970) + (Leaps(y - 1) - 477) + (q + 59 + leap) + d - 1
      BY <1>2, <1>14, <2>2, <3>1, <3>2
    <3>5. PICK before \in Int : before = Leaps(y - 1)
      BY <3>3
    <3>6. leaps = before + leap
      BY <1>11, <3>1, <3>3, <3>5
    <3> QED
      BY <1>3, <1>11, <3>1, <3>4, <3>5, <3>6
  <2> QED
    BY <2>1, <2>2
<1>16. PICK date \in Int : date = y * 10000 + m * 100 + d
  OBVIOUS
<1>17. date \in Nat /\ date \div 10000 = y /\ date \div 100 = 100 * y + m /\ date % 100 = d
  BY <1>8, <1>9, <1>10, <1>16
<1>18. (date \div 100) % 100 = m
  BY <1>9, <1>10, <1>17
<1>19. d <= MonthLength(y, m)
  <2>1. CASE m = 2
    <3>1. mp = 11 /\ q = 337 /\ y = year + 1
      BY <1>2, <1>4, <1>5, <1>7, <2>1
    <3>2. MonthLength(y, m) = IF Leap(y) THEN 29 ELSE 28
      BY <2>1 DEF MonthLength
    <3>3. d <= 28 \/ (doy = 365 /\ d = 29)
      BY <1>3, <3>1
    <3>4. doy = 365 => Leap(y)
      BY <3>1
    <3> QED
      BY <3>2, <3>3, <3>4
  <2>2. CASE m \in {4, 6, 9, 11}
    <3>1. mp = 1 \/ mp = 3 \/ mp = 6 \/ mp = 8
      BY <1>4, <1>7, <2>2
    <3>2. d <= 30
      BY <1>1, <1>2, <1>3, <3>1
    <3> QED
      BY <2>2, <3>2 DEF MonthLength
  <2>3. CASE m # 2 /\ m \notin {4, 6, 9, 11}
    BY <1>8, <2>3 DEF MonthLength
  <2> QED
    BY <2>1, <2>2, <2>3
<1>20. OfCalendar(y, m, d)
  <2>1. MonthLength(y, m) \in Int
    BY DEF MonthLength
  <2> QED
    BY <1>8, <1>13, <1>19, <2>1 DEF OfCalendar
<1> QED
  BY <1>6, <1>15, <1>16, <1>17, <1>18, <1>20

\* timestamp_to_date() and the Gregorian calendar: the year, month and day of the
\* date of any Unix time are a date of the calendar and, counted out from 1970,
\* the day that time is on.
THEOREM DatesAreDays ==
    ASSUME NEW ts \in Nat
    PROVE  LET date == timestamp_to_date(ts) IN
           /\ date \in Nat /\ OfCalendar(date \div 10000, (date \div 100) % 100, date % 100)
           /\ DayNumber(date \div 10000, (date \div 100) % 100, date % 100) = ts \div 86400
<1>1. PICK day \in Nat : day = ts \div 86400
  OBVIOUS
<1>2. PICK z \in Nat : z = day + 719468
  OBVIOUS
<1>3. PICK era \in Int : era = z \div 146097 /\ 146097 * era <= z /\ z < 146097 * era + 146097
  OBVIOUS
<1>4. PICK doe \in Nat : doe = z - era * 146097 /\ doe <= 146096
  BY <1>3
<1>5. timestamp_to_date(ts) = EraDate(era, doe)
  BY <1>1, <1>2, <1>3, <1>4 DEF timestamp_to_date
<1>6. PICK yoe \in Nat : yoe = YearOfEra(doe) /\ yoe < 400 /\ doe - DaysBefore(yoe) \in Nat /\ doe - DaysBefore(yoe) <= 365
  BY <1>4, YearFacts
<1>7. PICK doy \in Nat : doy = doe - DaysBefore(yoe) /\ doy <= 365
  BY <1>6
<1>8. era >= 0
  BY <1>3
<1>9. PICK year \in Nat : year = yoe + era * 400
  BY <1>8
<1>10. timestamp_to_date(ts) = DateOf(year, doy)
  BY <1>5, <1>6, <1>7, <1>9 DEF EraDate
<1>11. Leaps(year) = 97 * era + yoe \div 4 - yoe \div 100
  <2>1. year \div 4 = 100 * era + yoe \div 4
    BY <1>8, <1>9
  <2>2. year \div 100 = 4 * era + yoe \div 100
    BY <1>8, <1>9
  <2>3. year \div 400 = era
    BY <1>6, <1>8, <1>9
  <2> QED
    BY <2>1, <2>2, <2>3 DEF Leaps
<1>12. 365 * year + Leaps(year) + doy = z
  <2>1. PICK a \in Int : a = yoe \div 4
    OBVIOUS
  <2>2. PICK b \in Int : b = yoe \div 100
    OBVIOUS
  <2>3. DaysBefore(yoe) = 365 * yoe + a - b /\ Leaps(year) = 97 * era + a - b
    BY <1>11, <2>1, <2>2 DEF DaysBefore
  <2> QED
    BY <1>4, <1>7, <1>9, <2>3
<1>13. 365 * year + Leaps(year) + doy >= 719468 /\ 365 * year + Leaps(year) + doy - 719468 = day
  <2>1. PICK n \in Int : n = Leaps(year)
    BY LeapsBound
  <2>2. 365 * year + n + doy = day + 719468
    BY <1>2, <1>12, <2>1
  <2> QED
    BY <2>1, <2>2
<1>14. doy = 365 => Leap(year + 1)
  <2> SUFFICES ASSUME doy = 365 PROVE Leap(year + 1)
    OBVIOUS
  <2>1. yoe % 4 = 3 /\ (yoe % 100 = 99 => yoe = 399)
    BY <1>4, <1>6, <1>7, YearFacts
  <2>2. (year + 1) % 4 = 0
    BY <1>8, <1>9, <2>1
  <2>3. ASSUME (year + 1) % 100 = 0 PROVE (year + 1) % 400 = 0
    <3>1. yoe % 100 = 99
      BY <1>8, <1>9, <2>3
    <3>2. year + 1 = 400 * (era + 1)
      BY <1>9, <2>1, <3>1
    <3> QED
      BY <1>8, <3>2
  <2> QED
    BY <2>2, <2>3 DEF Leap
<1> DEFINE date == DateOf(year, doy)
<1>15. /\ date \in Nat /\ OfCalendar(date \div 10000, (date \div 100) % 100, date % 100)
       /\ DayNumber(date \div 10000, (date \div 100) % 100, date % 100) = day
  BY <1>7, <1>13, <1>14, DateFacts
<1> HIDE DEF date
<1>16. timestamp_to_date(ts) = date
  BY <1>10 DEF date
<1> QED
  BY <1>1, <1>15, <1>16

\* Two times have the same date just when they are of the same day.
LEMMA DateIsDay ==
    ASSUME NEW t \in Nat, NEW ts \in Nat
    PROVE  LET date == timestamp_to_date(t) IN
           ts \div 86400 = DayNumber(date \div 10000, (date \div 100) % 100, date % 100) <=> timestamp_to_date(ts) = date
<1> DEFINE date == timestamp_to_date(t)
           Day(x) == DayNumber(x \div 10000, (x \div 100) % 100, x % 100)
<1>1. ts \div 86400 = t \div 86400 => timestamp_to_date(ts) = date
  BY DEF timestamp_to_date
<1>2. Day(timestamp_to_date(ts)) = ts \div 86400 /\ Day(date) = t \div 86400
  BY DatesAreDays
<1> HIDE DEF date, Day
<1>3. ts \div 86400 = Day(date) <=> timestamp_to_date(ts) = date
  BY <1>1, <1>2
<1> QED
  BY <1>3 DEF date, Day

-----------------------------------------------------------------------------
(* Sums over parts.                                                        *)

\* One element more.
LEMMA SumMore ==
    ASSUME NEW S, IsFiniteSet(S), NEW x, x \notin S, NEW f, \A y \in S \cup {x} : f[y] \in Int
    PROVE  SumFunctionOnSet(f, S \cup {x}) = SumFunctionOnSet(f, S) + f[x]
<1> DEFINE T == S \cup {x}
<1>1. IsFiniteSet(T)
  BY FS_AddElement
<1>2. x \in T /\ T \ {x} = S /\ \A y \in T : f[y] \in Int
  OBVIOUS
<1> HIDE DEF T
<1>3. SumFunctionOnSet(f, T) = f[x] + SumFunctionOnSet(f, T \ {x})
  BY <1>1, <1>2, SumTake
<1>4. SumFunctionOnSet(f, S) \in Int
  BY SumType
<1>5. f[x] \in Int
  OBVIOUS
<1>6. SumFunctionOnSet(f, T) = f[x] + SumFunctionOnSet(f, S)
  <2>1. T \ {x} = S
    BY <1>2
  <2> QED
    BY <1>3, <2>1, Zenon
<1> QED
  BY <1>4, <1>5, <1>6 DEF T

\* Two parts.
LEMMA SumDisjoint ==
    ASSUME NEW A, NEW B, IsFiniteSet(A), IsFiniteSet(B), A \cap B = {}, NEW f, \A x \in A \cup B : f[x] \in Int
    PROVE  SumFunctionOnSet(f, A \cup B) = SumFunctionOnSet(f, A) + SumFunctionOnSet(f, B)
<1> DEFINE Bad == {s \in SUBSET B : SumFunctionOnSet(f, A \cup s) # SumFunctionOnSet(f, A) + SumFunctionOnSet(f, s)}
<1>1. ASSUME Bad # {} PROVE FALSE
  <2>1. PICK r \in Bad : IsFiniteSet(r) /\ \A x \in r : r \ {x} \notin Bad
    <3> HIDE DEF Bad
    <3>1. Bad \in SUBSET SUBSET B
      BY DEF Bad
    <3> QED
      BY <1>1, <3>1, LeastSubset
  <2>2. r \in SUBSET B /\ SumFunctionOnSet(f, A \cup r) # SumFunctionOnSet(f, A) + SumFunctionOnSet(f, r)
    BY <2>1
  <2>3. SumFunctionOnSet(f, A) \in Int
    BY SumType
  <2>4. CASE r = {}
    <3>1. A \cup r = A
      BY <2>4
    <3> QED
      BY <2>2, <2>3, <2>4, <3>1, SumEmpty
  <2>5. CASE r # {}
    <3>1. PICK x \in r : TRUE
      BY <2>5
    <3>2. r \ {x} \in SUBSET B /\ r \ {x} \notin Bad
      BY <2>1, <2>2, <3>1
    <3>3. SumFunctionOnSet(f, A \cup (r \ {x})) = SumFunctionOnSet(f, A) + SumFunctionOnSet(f, r \ {x})
      BY <3>2
    <3>4. IsFiniteSet(A \cup r)
      BY <2>1, FS_Union
    <3>5. x \in A \cup r /\ (A \cup r) \ {x} = A \cup (r \ {x}) /\ \A y \in A \cup r : f[y] \in Int
      BY <2>2, <3>1
    <3> HIDE DEF Bad
    <3>6. SumFunctionOnSet(f, A \cup r) = f[x] + SumFunctionOnSet(f, (A \cup r) \ {x})
      <4> DEFINE T == A \cup r
      <4>1. IsFiniteSet(T) /\ x \in T /\ \A y \in T : f[y] \in Int
        BY <3>4, <3>5
      <4> HIDE DEF T
      <4>2. SumFunctionOnSet(f, T) = f[x] + SumFunctionOnSet(f, T \ {x})
        BY <4>1, SumTake
      <4> QED
        BY <4>2 DEF T
    <3>7. \A y \in r : f[y] \in Int
      BY <2>2
    <3>8. SumFunctionOnSet(f, r) = f[x] + SumFunctionOnSet(f, r \ {x})
      BY <2>1, <3>1, <3>7, SumTake
    <3>9. SumFunctionOnSet(f, r \ {x}) \in Int
      <4>1. IsFiniteSet(r \ {x}) /\ \A y \in r \ {x} : f[y] \in Int
        BY <2>1, <3>7, FS_RemoveElement
      <4> QED
        BY <4>1, SumType
    <3>10. SumFunctionOnSet(f, A \cup r) = f[x] + (SumFunctionOnSet(f, A) + SumFunctionOnSet(f, r \ {x}))
      BY <3>3, <3>5, <3>6
    <3>11. f[x] \in Int
      BY <3>1, <3>7
    <3> QED
      BY <2>2, <2>3, <3>8, <3>9, <3>10, <3>11
  <2> QED
    BY <2>4, <2>5
<1> HIDE DEF Bad
<1>2. B \notin Bad /\ B \in SUBSET B
  BY <1>1
<1> QED
  BY <1>2 DEF Bad

\* A sum of ones.
LEMMA SumOnes ==
    ASSUME NEW S, IsFiniteSet(S), NEW f, \A x \in S : f[x] = 1
    PROVE  SumFunctionOnSet(f, S) = Cardinality(S)
<1> DEFINE Bad == {s \in SUBSET S : SumFunctionOnSet(f, s) # Cardinality(s)}
<1>1. ASSUME Bad # {} PROVE FALSE
  <2>1. PICK r \in Bad : IsFiniteSet(r) /\ \A x \in r : r \ {x} \notin Bad
    <3> HIDE DEF Bad
    <3>1. Bad \in SUBSET SUBSET S
      BY DEF Bad
    <3> QED
      BY <1>1, <3>1, LeastSubset
  <2>2. r \in SUBSET S /\ SumFunctionOnSet(f, r) # Cardinality(r)
    BY <2>1
  <2>3. CASE r = {}
    <3>1. Cardinality(r) = 0
      BY <2>3, FS_EmptySet
    <3> QED
      BY <2>2, <2>3, <3>1, SumEmpty
  <2>4. CASE r # {}
    <3>1. PICK x \in r : TRUE
      BY <2>4
    <3>2. r \ {x} \in SUBSET S /\ r \ {x} \notin Bad
      BY <2>1, <2>2, <3>1
    <3>3. SumFunctionOnSet(f, r \ {x}) = Cardinality(r \ {x})
      BY <3>2
    <3> HIDE DEF Bad
    <3>4. f[x] = 1 /\ \A y \in r : f[y] \in Int
      BY <2>2, <3>1
    <3>5. SumFunctionOnSet(f, r) = f[x] + SumFunctionOnSet(f, r \ {x})
      BY <2>1, <3>1, <3>4, SumTake
    <3>6. Cardinality(r \ {x}) = Cardinality(r) - 1 /\ Cardinality(r) \in Nat
      BY <2>1, <3>1, FS_RemoveElement, FS_CardinalityType
    <3> QED
      BY <2>2, <3>3, <3>4, <3>5, <3>6
  <2> QED
    BY <2>3, <2>4
<1> HIDE DEF Bad
<1>2. S \notin Bad /\ S \in SUBSET S
  BY <1>1
<1> QED
  BY <1>2 DEF Bad

\* The parts P[d] of C, one for each value d in D of k, and their sums.
Parted(C, k, D, P) == (\A x \in C : k[x] \in D) /\ \A d \in D : \A x : x \in P[d] <=> x \in C /\ k[x] = d
SumsOf(g, f, P, D) == \A d \in D : g[d] = SumFunctionOnSet(f, P[d])

\* The sum of the sums over the parts.
LEMMA SumParts ==
    ASSUME NEW C, IsFiniteSet(C), NEW f, \A x \in C : f[x] \in Int, NEW D, IsFiniteSet(D),
           NEW k, NEW P, Parted(C, k, D, P), NEW g, SumsOf(g, f, P, D)
    PROVE  SumFunctionOnSet(g, D) = SumFunctionOnSet(f, C)
<1> DEFINE In(s) == {x \in C : k[x] \in s}
           At(d) == {x \in C : k[x] = d}
           Bad == {s \in SUBSET D : SumFunctionOnSet(g, s) # SumFunctionOnSet(f, In(s))}
<1>1. ASSUME NEW s PROVE IsFiniteSet(In(s)) /\ \A x \in In(s) : f[x] \in Int
  <2>1. In(s) \in SUBSET C
    OBVIOUS
  <2> HIDE DEF In
  <2> QED
    BY <2>1, FS_Subset
<1>2. ASSUME NEW d PROVE IsFiniteSet(At(d)) /\ \A x \in At(d) : f[x] \in Int
  <2>1. At(d) \in SUBSET C
    OBVIOUS
  <2> HIDE DEF At
  <2> QED
    BY <2>1, FS_Subset
<1>3. ASSUME NEW s \in SUBSET D, NEW d \in s
      PROVE  In(s) = At(d) \cup In(s \ {d}) /\ At(d) \cap In(s \ {d}) = {}
  OBVIOUS
<1>4. In({}) = {}
  OBVIOUS
<1>5. In(D) = C
  BY DEF Parted
<1>6. \A d \in D : At(d) = P[d]
  BY DEF Parted
<1> HIDE DEF In, At
<1>7. \A d \in D : g[d] = SumFunctionOnSet(f, At(d))
  BY <1>6 DEF SumsOf
<1>8. \A d \in D : g[d] \in Int
  <2> TAKE d \in D
  <2>1. SumFunctionOnSet(f, At(d)) \in Int
    BY <1>2, SumType
  <2> QED
    BY <1>7, <2>1
<1>9. ASSUME Bad # {} PROVE FALSE
  <2>1. PICK r \in Bad : IsFiniteSet(r) /\ \A x \in r : r \ {x} \notin Bad
    <3> HIDE DEF Bad
    <3>1. Bad \in SUBSET SUBSET D
      BY DEF Bad
    <3> QED
      BY <1>9, <3>1, LeastSubset
  <2>2. r \in SUBSET D /\ SumFunctionOnSet(g, r) # SumFunctionOnSet(f, In(r))
    BY <2>1
  <2>3. CASE r = {}
    BY <1>4, <2>2, <2>3, SumEmpty
  <2>4. CASE r # {}
    <3>1. PICK d \in r : TRUE
      BY <2>4
    <3>2. r \ {d} \in SUBSET D /\ r \ {d} \notin Bad
      BY <2>1, <2>2, <3>1
    <3>3. SumFunctionOnSet(g, r \ {d}) = SumFunctionOnSet(f, In(r \ {d}))
      BY <3>2
    <3> HIDE DEF Bad
    <3>4. \A y \in r : g[y] \in Int
      BY <1>8, <2>2
    <3>5. SumFunctionOnSet(g, r) = g[d] + SumFunctionOnSet(g, r \ {d})
      BY <2>1, <3>1, <3>4, SumTake
    <3>6. In(r) = At(d) \cup In(r \ {d}) /\ At(d) \cap In(r \ {d}) = {}
      BY <1>3, <2>2, <3>1
    <3>7. /\ IsFiniteSet(At(d)) /\ IsFiniteSet(In(r \ {d}))
          /\ \A x \in At(d) \cup In(r \ {d}) : f[x] \in Int
      BY <1>1, <1>2
    <3>8. SumFunctionOnSet(f, At(d) \cup In(r \ {d})) = SumFunctionOnSet(f, At(d)) + SumFunctionOnSet(f, In(r \ {d}))
      <4> DEFINE A == At(d)
                 B == In(r \ {d})
      <4>1. IsFiniteSet(A) /\ IsFiniteSet(B) /\ A \cap B = {} /\ \A x \in A \cup B : f[x] \in Int
        BY <3>6, <3>7
      <4> HIDE DEF A, B
      <4> QED
        BY <4>1, SumDisjoint DEF A, B
    <3>9. g[d] = SumFunctionOnSet(f, At(d))
      BY <1>7, <2>2, <3>1
    <3> QED
      BY <2>2, <3>3, <3>5, <3>6, <3>8, <3>9
  <2> QED
    BY <2>3, <2>4
<1> HIDE DEF Bad
<1>10. D \notin Bad /\ D \in SUBSET D
  BY <1>9
<1> QED
  BY <1>5, <1>10 DEF Bad

-----------------------------------------------------------------------------
(* The closes in the log.                                                  *)

\* Among the first n events of a log: a trader's closes, those of a date, the
\* dates of all of them, and the trader's liquidations.
ClosesIn(w, n, tr) == {i \in 1..n : w[i].kind = "PositionClosed" /\ w[i].trader = tr}
ClosesOn(w, n, tr, date) == {i \in ClosesIn(w, n, tr) : timestamp_to_date(w[i].ts) = date}
DaysIn(w, n, tr) == {timestamp_to_date(w[i].ts) : i \in ClosesIn(w, n, tr)}
FinesIn(w, n, tr) == {i \in 1..n : w[i].kind = "Liquidation" /\ w[i].trader = tr}

SizesOf(w) == [i \in 1..Len(w) |-> w[i].size]
PnlsOf(w) == [i \in 1..Len(w) |-> w[i].pnl]

\* What they come to on a date.
DayOn(w, n, tr, date) ==
    [volume |-> SumFunctionOnSet(SizesOf(w), ClosesOn(w, n, tr, date)),
     pnl |-> SumFunctionOnSet(PnlsOf(w), ClosesOn(w, n, tr, date)),
     trades |-> Cardinality(ClosesOn(w, n, tr, date))]

\* The days hold the closes of the first n events, but for those that were cut.
DaysHold(days, w, n, c) ==
    /\ DOMAIN days = Trader
    /\ \A tr \in Trader :
          /\ DOMAIN days[tr] \subseteq DaysIn(w, n, tr)
          /\ \A date \in DaysIn(w, n, tr) \ c[tr] : date \in DOMAIN days[tr] /\ days[tr][date] = DayOn(w, n, tr, date)

\* The lifetime statistics hold the closes and the liquidations.
RowHolds(s, w, n, tr) ==
    /\ s.liquidations = Cardinality(FinesIn(w, n, tr))
    /\ s.trades = Cardinality(ClosesIn(w, n, tr)) + Cardinality(FinesIn(w, n, tr))
    /\ s.pnl = SumFunctionOnSet(PnlsOf(w), ClosesIn(w, n, tr)) - SumFunctionOnSet(SizesOf(w), FinesIn(w, n, tr))
    /\ s.wins + s.losses + s.liquidations = s.trades

StatsHold(st, w, n) ==
    \A tr \in Trader :
        IF st[tr] = None THEN ClosesIn(w, n, tr) = {} /\ FinesIn(w, n, tr) = {} ELSE RowHolds(st[tr], w, n, tr)

\* They are finitely many places of the log.
LEMMA ClosesFinite ==
    ASSUME NEW w \in Seq(Logged), NEW n \in 0..Len(w), NEW tr
    PROVE  /\ IsFiniteSet(ClosesIn(w, n, tr)) /\ Cardinality(ClosesIn(w, n, tr)) \in Nat /\ ClosesIn(w, n, tr) \subseteq 1..Len(w)
           /\ IsFiniteSet(FinesIn(w, n, tr)) /\ Cardinality(FinesIn(w, n, tr)) \in Nat /\ FinesIn(w, n, tr) \subseteq 1..Len(w)
           /\ \A date : /\ IsFiniteSet(ClosesOn(w, n, tr, date)) /\ Cardinality(ClosesOn(w, n, tr, date)) \in Nat
                        /\ ClosesOn(w, n, tr, date) \subseteq ClosesIn(w, n, tr)
<1>1. IsFiniteSet(1..n) /\ 1..n \subseteq 1..Len(w)
  BY FS_Interval
<1>2. ClosesIn(w, n, tr) \subseteq 1..n /\ FinesIn(w, n, tr) \subseteq 1..n
  BY DEF ClosesIn, FinesIn
<1>3. \A date : ClosesOn(w, n, tr, date) \subseteq ClosesIn(w, n, tr)
  BY DEF ClosesOn
<1>4. \A S \in SUBSET (1..n) : IsFiniteSet(S) /\ Cardinality(S) \in Nat
  BY <1>1, FS_Subset, FS_CardinalityType
<1> QED
  BY <1>1, <1>2, <1>3, <1>4

\* Sizes and results are numbers.
LEMMA SizesAre ==
    ASSUME NEW w \in Seq(Logged)
    PROVE  \A i \in 1..Len(w) : /\ w[i] \in Logged /\ SizesOf(w)[i] = w[i].size /\ PnlsOf(w)[i] = w[i].pnl
                                /\ SizesOf(w)[i] \in Int /\ PnlsOf(w)[i] \in Int
<1> TAKE i \in 1..Len(w)
<1>1. w[i] \in Logged
  BY ElementOfSeq
<1>2. w[i].size \in Nat /\ w[i].pnl \in Int
  BY <1>1, LoggedFields
<1> QED
  BY <1>1, <1>2 DEF SizesOf, PnlsOf

\* One event more.
LEMMA ClosesMore ==
    ASSUME NEW w \in Seq(Logged), NEW n \in 0..(Len(w) - 1), NEW tr
    PROVE  LET e == w[n + 1]
               date == timestamp_to_date(e.ts)
               closed == e.kind = "PositionClosed" /\ e.trader = tr IN
           /\ n + 1 \notin ClosesIn(w, n, tr) /\ n + 1 \notin FinesIn(w, n, tr)
           /\ ClosesIn(w, n + 1, tr) = IF closed THEN ClosesIn(w, n, tr) \cup {n + 1} ELSE ClosesIn(w, n, tr)
           /\ FinesIn(w, n + 1, tr) = IF e.kind = "Liquidation" /\ e.trader = tr
                                      THEN FinesIn(w, n, tr) \cup {n + 1} ELSE FinesIn(w, n, tr)
           /\ DaysIn(w, n + 1, tr) = IF closed THEN DaysIn(w, n, tr) \cup {date} ELSE DaysIn(w, n, tr)
           /\ \A d : ClosesOn(w, n + 1, tr, d) = IF closed /\ date = d THEN ClosesOn(w, n, tr, d) \cup {n + 1}
                                                 ELSE ClosesOn(w, n, tr, d)
<1> DEFINE e == w[n + 1]
           date == timestamp_to_date(e.ts)
           closed == e.kind = "PositionClosed" /\ e.trader = tr
<1>1. 1..(n + 1) = 1..n \cup {n + 1} /\ n + 1 \notin 1..n
  OBVIOUS
<1>2. n + 1 \notin ClosesIn(w, n, tr) /\ n + 1 \notin FinesIn(w, n, tr)
  BY <1>1 DEF ClosesIn, FinesIn
<1>3. ClosesIn(w, n + 1, tr) = IF closed THEN ClosesIn(w, n, tr) \cup {n + 1} ELSE ClosesIn(w, n, tr)
  BY <1>1 DEF ClosesIn
<1>4. FinesIn(w, n + 1, tr) = IF e.kind = "Liquidation" /\ e.trader = tr
                              THEN FinesIn(w, n, tr) \cup {n + 1} ELSE FinesIn(w, n, tr)
  BY <1>1 DEF FinesIn
<1>5. DaysIn(w, n + 1, tr) = IF closed THEN DaysIn(w, n, tr) \cup {date} ELSE DaysIn(w, n, tr)
  BY <1>3 DEF DaysIn
<1>6. ASSUME NEW d
      PROVE  ClosesOn(w, n + 1, tr, d) = IF closed /\ date = d THEN ClosesOn(w, n, tr, d) \cup {n + 1}
                                         ELSE ClosesOn(w, n, tr, d)
  BY <1>3 DEF ClosesOn
<1> QED
  BY <1>2, <1>3, <1>4, <1>5, <1>6

\* One event more that is none of the trader's closes.
LEMMA ClosesSame ==
    ASSUME NEW w \in Seq(Logged), NEW n \in 0..(Len(w) - 1), NEW tr,
           ~(w[n + 1].kind = "PositionClosed" /\ w[n + 1].trader = tr)
    PROVE  /\ ClosesIn(w, n + 1, tr) = ClosesIn(w, n, tr) /\ DaysIn(w, n + 1, tr) = DaysIn(w, n, tr)
           /\ \A d : ClosesOn(w, n + 1, tr, d) = ClosesOn(w, n, tr, d)
<1>1. ClosesIn(w, n + 1, tr) = ClosesIn(w, n, tr)
  <2>1. 1..(n + 1) = 1..n \cup {n + 1}
    OBVIOUS
  <2> QED
    BY <2>1 DEF ClosesIn
<1> QED
  BY <1>1 DEF DaysIn, ClosesOn

\* A date without a close has nothing on it.
LEMMA NoDayYet ==
    ASSUME NEW w \in Seq(Logged), NEW n \in 0..Len(w), NEW tr, NEW date, date \notin DaysIn(w, n, tr)
    PROVE  ClosesOn(w, n, tr, date) = {} /\ DayOn(w, n, tr, date) = NewDay
<1>1. ClosesOn(w, n, tr, date) = {}
  BY DEF ClosesOn, DaysIn
<1>2. SumFunctionOnSet(SizesOf(w), {}) = 0 /\ SumFunctionOnSet(PnlsOf(w), {}) = 0 /\ Cardinality({}) = 0
  BY SumEmpty, FS_EmptySet
<1> QED
  BY <1>1, <1>2 DEF DayOn, NewDay

-----------------------------------------------------------------------------
\* The day of a date with one close more.
LEMMA DayOnMore ==
    ASSUME NEW w \in Seq(Logged), NEW n \in 0..(Len(w) - 1), NEW tr, NEW date,
           w[n + 1].kind = "PositionClosed", w[n + 1].trader = tr, timestamp_to_date(w[n + 1].ts) = date
    PROVE  LET old == DayOn(w, n, tr, date) IN
           DayOn(w, n + 1, tr, date) =
               [volume |-> old.volume + w[n + 1].size, pnl |-> old.pnl + w[n + 1].pnl, trades |-> old.trades + 1]
<1> DEFINE C == ClosesOn(w, n, tr, date)
           f == SizesOf(w)
           g == PnlsOf(w)
<1>1. n \in 0..Len(w) /\ n + 1 \in 1..Len(w)
  OBVIOUS
<1>2. ClosesOn(w, n + 1, tr, date) = C \cup {n + 1} /\ n + 1 \notin ClosesIn(w, n, tr)
  BY ClosesMore
<1>3. IsFiniteSet(C) /\ Cardinality(C) \in Nat /\ C \subseteq ClosesIn(w, n, tr) /\ ClosesIn(w, n, tr) \subseteq 1..Len(w)
  BY <1>1, ClosesFinite
<1>4. \A i \in 1..Len(w) : f[i] = w[i].size /\ g[i] = w[i].pnl /\ f[i] \in Int /\ g[i] \in Int
  BY SizesAre
<1>5. DayOn(w, n, tr, date) = [volume |-> SumFunctionOnSet(f, C), pnl |-> SumFunctionOnSet(g, C), trades |-> Cardinality(C)]
  BY DEF DayOn
<1> HIDE DEF C, f, g
<1>6. n + 1 \notin C /\ \A i \in C \cup {n + 1} : f[i] \in Int /\ g[i] \in Int
  BY <1>1, <1>2, <1>3, <1>4
<1>7. SumFunctionOnSet(f, C \cup {n + 1}) = SumFunctionOnSet(f, C) + f[n + 1]
  BY <1>3, <1>6, SumMore
<1>8. SumFunctionOnSet(g, C \cup {n + 1}) = SumFunctionOnSet(g, C) + g[n + 1]
  BY <1>3, <1>6, SumMore
<1>9. Cardinality(C \cup {n + 1}) = Cardinality(C) + 1
  BY <1>3, <1>6, FS_AddElement
<1>10. DayOn(w, n + 1, tr, date) = [volume |-> SumFunctionOnSet(f, C \cup {n + 1}), pnl |-> SumFunctionOnSet(g, C \cup {n + 1}),
                                    trades |-> Cardinality(C \cup {n + 1})]
  BY <1>2 DEF DayOn, f, g
<1>11. f[n + 1] = w[n + 1].size /\ g[n + 1] = w[n + 1].pnl
  BY <1>1, <1>4
<1>12. DayOn(w, n + 1, tr, date) = [volume |-> SumFunctionOnSet(f, C) + w[n + 1].size,
                                    pnl |-> SumFunctionOnSet(g, C) + w[n + 1].pnl, trades |-> Cardinality(C) + 1]
  BY <1>7, <1>8, <1>9, <1>10, <1>11, Zenon
<1>13. /\ DayOn(w, n, tr, date).volume = SumFunctionOnSet(f, C) /\ DayOn(w, n, tr, date).pnl = SumFunctionOnSet(g, C)
       /\ DayOn(w, n, tr, date).trades = Cardinality(C)
  BY <1>5
<1> QED
  BY <1>12, <1>13, Zenon

\* accumulate_trade() keeps the days up to date.
LEMMA DaysMore ==
    ASSUME NEW w \in Seq(Logged), NEW n \in 0..(Len(w) - 1), NEW days, NEW c, DaysHold(days, w, n, c)
    PROVE  DaysHold(Daily(days, w[n + 1]), w, n + 1, c)
<1> DEFINE e == w[n + 1]
           date == timestamp_to_date(e.ts)
           new == Daily(days, e)
<1>1. n \in 0..Len(w) /\ n + 1 \in 1..Len(w)
  OBVIOUS
<1>2. e \in Logged /\ e.trader \in Trader
  <2>1. e \in Logged
    BY <1>1, ElementOfSeq
  <2> QED
    BY <2>1, LoggedFields
<1>3. ASSUME NEW tr \in Trader, ~(e.kind = "PositionClosed" /\ e.trader = tr), new[tr] = days[tr]
      PROVE  /\ DOMAIN new[tr] \subseteq DaysIn(w, n + 1, tr)
             /\ \A d \in DaysIn(w, n + 1, tr) \ c[tr] : d \in DOMAIN new[tr] /\ new[tr][d] = DayOn(w, n + 1, tr, d)
  <2>1. DaysIn(w, n + 1, tr) = DaysIn(w, n, tr) /\ \A d : ClosesOn(w, n + 1, tr, d) = ClosesOn(w, n, tr, d)
    BY <1>3, ClosesSame
  <2>2. \A d : DayOn(w, n + 1, tr, d) = DayOn(w, n, tr, d)
    BY <2>1 DEF DayOn
  <2> HIDE DEF new
  <2> QED
    BY <1>3, <2>1, <2>2 DEF DaysHold
<1>4. CASE e.kind # "PositionClosed"
  <2>1. new = days
    BY <1>4 DEF Daily
  <2> HIDE DEF new
  <2> QED
    BY <1>3, <1>4, <2>1 DEF DaysHold, new
<1>5. CASE e.kind = "PositionClosed"
  <2> DEFINE tr == e.trader
             old == IF date \in DOMAIN days[tr] THEN days[tr][date] ELSE NewDay
             sum == [volume |-> old.volume + e.size, pnl |-> old.pnl + e.pnl, trades |-> old.trades + 1]
  <2>1. new = [days EXCEPT ![tr] = [d \in DOMAIN days[tr] \cup {date} |-> IF d = date THEN sum ELSE days[tr][d]]]
    BY <1>5 DEF Daily, Accumulate
  <2>2. DOMAIN new = Trader /\ \A t \in Trader : t # tr => new[t] = days[t]
    BY <2>1 DEF DaysHold
  <2>3. /\ DOMAIN new[tr] = DOMAIN days[tr] \cup {date}
        /\ \A d \in DOMAIN days[tr] \cup {date} : new[tr][d] = IF d = date THEN sum ELSE days[tr][d]
    <3> DEFINE F == [d \in DOMAIN days[tr] \cup {date} |-> IF d = date THEN sum ELSE days[tr][d]]
    <3>1. tr \in DOMAIN days
      BY <1>2 DEF DaysHold
    <3>2. new[tr] = F
      <4>1. new = [days EXCEPT ![tr] = F]
        BY <2>1
      <4> HIDE DEF F, new
      <4> QED
        BY <3>1, <4>1
    <3> HIDE DEF new, sum
    <3> QED
      BY <3>2
  <2>4. /\ DaysIn(w, n + 1, tr) = DaysIn(w, n, tr) \cup {date}
        /\ \A d : d # date => ClosesOn(w, n + 1, tr, d) = ClosesOn(w, n, tr, d)
    BY <1>5, ClosesMore
  <2>5. DOMAIN days[tr] \subseteq DaysIn(w, n, tr)
    BY <1>2 DEF DaysHold
  <2>6. \A d \in DaysIn(w, n, tr) \ c[tr] : d \in DOMAIN days[tr] /\ days[tr][d] = DayOn(w, n, tr, d)
    BY <1>2 DEF DaysHold
  <2>7. date \notin c[tr] => old = DayOn(w, n, tr, date)
    <3>1. CASE date \in DaysIn(w, n, tr)
      BY <2>6, <3>1
    <3>2. CASE date \notin DaysIn(w, n, tr)
      <4>1. DayOn(w, n, tr, date) = NewDay
        BY <1>1, <3>2, NoDayYet
      <4> QED
        BY <2>5, <3>2, <4>1
    <3> QED
      BY <3>1, <3>2
  <2> HIDE DEF old
  <2>8. date \notin c[tr] => sum = DayOn(w, n + 1, tr, date)
    <3>1. DayOn(w, n + 1, tr, date) =
              [volume |-> DayOn(w, n, tr, date).volume + e.size, pnl |-> DayOn(w, n, tr, date).pnl + e.pnl,
               trades |-> DayOn(w, n, tr, date).trades + 1]
      BY <1>5, DayOnMore
    <3> QED
      BY <2>7, <3>1
  <2>9. \A d : d # date => DayOn(w, n + 1, tr, d) = DayOn(w, n, tr, d)
    BY <2>4 DEF DayOn
  <2> HIDE DEF new, sum, date
  <2>10. /\ DOMAIN new[tr] \subseteq DaysIn(w, n + 1, tr)
         /\ \A d \in DaysIn(w, n + 1, tr) \ c[tr] : d \in DOMAIN new[tr] /\ new[tr][d] = DayOn(w, n + 1, tr, d)
    BY <2>3, <2>4, <2>5, <2>6, <2>8, <2>9
  <2>11. \A t \in Trader : t # tr =>
            /\ DOMAIN new[t] \subseteq DaysIn(w, n + 1, t)
            /\ \A d \in DaysIn(w, n + 1, t) \ c[t] : d \in DOMAIN new[t] /\ new[t][d] = DayOn(w, n + 1, t, d)
    BY <1>3, <2>2
  <2> QED
    BY <2>2, <2>10, <2>11 DEF DaysHold, new
<1> QED
  BY <1>4, <1>5

-----------------------------------------------------------------------------
(* The lifetime statistics.                                                *)

\* Nothing happened to the trader.
LEMMA NewRow ==
    ASSUME NEW w \in Seq(Logged), NEW n \in 0..Len(w), NEW tr, ClosesIn(w, n, tr) = {}, FinesIn(w, n, tr) = {}
    PROVE  RowHolds(NewStats, w, n, tr)
<1>1. SumFunctionOnSet(SizesOf(w), {}) = 0 /\ SumFunctionOnSet(PnlsOf(w), {}) = 0 /\ Cardinality({}) = 0
  BY SumEmpty, FS_EmptySet
<1> QED
  BY <1>1 DEF RowHolds, NewStats

\* ensure() adds rows without anything in them.
LEMMA StatsEnsured ==
    ASSUME NEW w \in Seq(Logged), NEW n \in 0..Len(w), NEW e \in Logged,
           NEW st \in [Trader -> TraderStats \cup {None}], StatsHold(st, w, n)
    PROVE  StatsHold(ensure(st, e), w, n)
<1> DEFINE new == ensure(st, e)
<1>1. \A tr \in Trader : new[tr] = st[tr] \/ (st[tr] = None /\ new[tr] = NewStats)
  BY StatsAppended
<1>2. NewStats # None
  BY FeedsAssumption DEF NewStats, TraderStats
<1> HIDE DEF new
<1>3. ASSUME NEW tr \in Trader
      PROVE  IF new[tr] = None THEN ClosesIn(w, n, tr) = {} /\ FinesIn(w, n, tr) = {} ELSE RowHolds(new[tr], w, n, tr)
  <2>1. CASE new[tr] = st[tr]
    BY <2>1 DEF StatsHold
  <2>2. CASE st[tr] = None /\ new[tr] = NewStats
    <3>1. ClosesIn(w, n, tr) = {} /\ FinesIn(w, n, tr) = {}
      BY <2>2 DEF StatsHold
    <3>2. RowHolds(NewStats, w, n, tr)
      BY <3>1, NewRow
    <3> QED
      BY <1>2, <2>2, <3>2
  <2> QED
    BY <1>1, <2>1, <2>2
<1>4. StatsHold(new, w, n)
  BY <1>3 DEF StatsHold
<1> QED
  BY <1>4 DEF new

\* increment_trade() of a close.
LEMMA RowClosed ==
    ASSUME NEW w \in Seq(Logged), NEW n \in 0..(Len(w) - 1), NEW tr, NEW s \in TraderStats, RowHolds(s, w, n, tr),
           w[n + 1].kind = "PositionClosed", w[n + 1].trader = tr
    PROVE  RowHolds(increment_trade(s, w[n + 1]), w, n + 1, tr)
<1> DEFINE C == ClosesIn(w, n, tr)
           L == FinesIn(w, n, tr)
           f == SizesOf(w)
           g == PnlsOf(w)
           t == increment_trade(s, w[n + 1])
<1>1. n \in 0..Len(w) /\ n + 1 \in 1..Len(w)
  OBVIOUS
<1>2. ClosesIn(w, n + 1, tr) = C \cup {n + 1} /\ FinesIn(w, n + 1, tr) = L /\ n + 1 \notin C
  BY ClosesMore
<1>3. /\ IsFiniteSet(C) /\ Cardinality(C) \in Nat /\ C \subseteq 1..Len(w)
      /\ IsFiniteSet(L) /\ Cardinality(L) \in Nat /\ L \subseteq 1..Len(w)
  BY <1>1, ClosesFinite
<1>4. \A i \in 1..Len(w) : f[i] \in Int /\ g[i] \in Int /\ g[i] = w[i].pnl
  BY SizesAre
<1>5. /\ s.liquidations = Cardinality(L) /\ s.trades = Cardinality(C) + Cardinality(L)
      /\ s.pnl = SumFunctionOnSet(g, C) - SumFunctionOnSet(f, L) /\ s.wins + s.losses + s.liquidations = s.trades
  BY DEF RowHolds
<1>6. s.trades \in Nat /\ s.pnl \in Int /\ s.wins \in Nat /\ s.losses \in Nat /\ s.liquidations \in Nat
  BY DEF TraderStats
<1>7. /\ t.trades = s.trades + 1 /\ t.pnl = s.pnl + w[n + 1].pnl /\ t.liquidations = s.liquidations
      /\ (t.wins = s.wins + 1 /\ t.losses = s.losses) \/ (t.wins = s.wins /\ t.losses = s.losses + 1)
  <2>1. /\ t.trades = s.trades + 1 /\ t.pnl = s.pnl + w[n + 1].pnl /\ t.liquidations = s.liquidations + 0
        /\ t.wins = s.wins + (IF w[n + 1].pnl > 0 THEN 1 ELSE 0) /\ t.losses = s.losses + (IF w[n + 1].pnl > 0 THEN 0 ELSE 1)
    BY DEF increment_trade, Pnl
  <2> HIDE DEF t
  <2> QED
    BY <1>6, <2>1
<1> HIDE DEF C, L, f, g, t
<1>8. n + 1 \notin C /\ \A i \in C \cup {n + 1} : g[i] \in Int
  BY <1>1, <1>2, <1>3, <1>4
<1>9. SumFunctionOnSet(g, C \cup {n + 1}) = SumFunctionOnSet(g, C) + g[n + 1]
  BY <1>3, <1>8, SumMore
<1>10. Cardinality(C \cup {n + 1}) = Cardinality(C) + 1
  BY <1>2, <1>3, FS_AddElement
<1>11. SumFunctionOnSet(g, C) \in Int /\ SumFunctionOnSet(f, L) \in Int
  <2>1. \A i \in L : f[i] \in Int
    BY <1>3, <1>4
  <2> QED
    BY <1>3, <1>8, <2>1, SumType
<1>12. g[n + 1] = w[n + 1].pnl /\ g[n + 1] \in Int
  BY <1>1, <1>4
<1>13. t.pnl = SumFunctionOnSet(g, C \cup {n + 1}) - SumFunctionOnSet(f, L)
  BY <1>5, <1>7, <1>9, <1>11, <1>12
<1>14. t.trades = Cardinality(C \cup {n + 1}) + Cardinality(L) /\ t.liquidations = Cardinality(L)
  BY <1>3, <1>5, <1>7, <1>10
<1>15. t.wins + t.losses + t.liquidations = t.trades
  BY <1>5, <1>6, <1>7
<1>16. RowHolds(t, w, n + 1, tr)
  BY <1>2, <1>13, <1>14, <1>15 DEF RowHolds, f, g
<1> QED
  BY <1>16 DEF t

\* increment_trade() of a liquidation.
LEMMA RowLiquidated ==
    ASSUME NEW w \in Seq(Logged), NEW n \in 0..(Len(w) - 1), NEW tr, NEW s \in TraderStats, RowHolds(s, w, n, tr),
           w[n + 1].kind = "Liquidation", w[n + 1].trader = tr
    PROVE  RowHolds(increment_trade(s, w[n + 1]), w, n + 1, tr)
<1> DEFINE C == ClosesIn(w, n, tr)
           L == FinesIn(w, n, tr)
           f == SizesOf(w)
           g == PnlsOf(w)
           t == increment_trade(s, w[n + 1])
<1>1. n \in 0..Len(w) /\ n + 1 \in 1..Len(w)
  OBVIOUS
<1>2. ClosesIn(w, n + 1, tr) = C /\ FinesIn(w, n + 1, tr) = L \cup {n + 1} /\ n + 1 \notin L
  BY ClosesMore
<1>3. /\ IsFiniteSet(C) /\ Cardinality(C) \in Nat /\ C \subseteq 1..Len(w)
      /\ IsFiniteSet(L) /\ Cardinality(L) \in Nat /\ L \subseteq 1..Len(w)
  BY <1>1, ClosesFinite
<1>4. \A i \in 1..Len(w) : f[i] \in Int /\ g[i] \in Int /\ f[i] = w[i].size
  BY SizesAre
<1>5. /\ s.liquidations = Cardinality(L) /\ s.trades = Cardinality(C) + Cardinality(L)
      /\ s.pnl = SumFunctionOnSet(g, C) - SumFunctionOnSet(f, L) /\ s.wins + s.losses + s.liquidations = s.trades
  BY DEF RowHolds
<1>6. s.trades \in Nat /\ s.pnl \in Int /\ s.wins \in Nat /\ s.losses \in Nat /\ s.liquidations \in Nat
  BY DEF TraderStats
<1>7. /\ t.trades = s.trades + 1 /\ t.pnl = s.pnl + (-w[n + 1].size) /\ t.liquidations = s.liquidations + 1
      /\ t.wins = s.wins /\ t.losses = s.losses
  <2>1. /\ t.trades = s.trades + 1 /\ t.pnl = s.pnl + (-w[n + 1].size) /\ t.liquidations = s.liquidations + 1
        /\ t.wins = s.wins + 0 /\ t.losses = s.losses + 0
    BY DEF increment_trade, Pnl
  <2> HIDE DEF t
  <2> QED
    BY <1>6, <2>1
<1> HIDE DEF C, L, f, g, t
<1>8. n + 1 \notin L /\ \A i \in L \cup {n + 1} : f[i] \in Int
  BY <1>1, <1>2, <1>3, <1>4
<1>9. SumFunctionOnSet(f, L \cup {n + 1}) = SumFunctionOnSet(f, L) + f[n + 1]
  BY <1>3, <1>8, SumMore
<1>10. Cardinality(L \cup {n + 1}) = Cardinality(L) + 1
  BY <1>2, <1>3, FS_AddElement
<1>11. SumFunctionOnSet(g, C) \in Int /\ SumFunctionOnSet(f, L) \in Int
  <2>1. \A i \in C : g[i] \in Int
    BY <1>3, <1>4
  <2> QED
    BY <1>3, <1>8, <2>1, SumType
<1>12. f[n + 1] = w[n + 1].size /\ f[n + 1] \in Int
  BY <1>1, <1>4
<1>13. t.pnl = SumFunctionOnSet(g, C) - SumFunctionOnSet(f, L \cup {n + 1})
  BY <1>5, <1>7, <1>9, <1>11, <1>12
<1>14. t.trades = Cardinality(C) + Cardinality(L \cup {n + 1}) /\ t.liquidations = Cardinality(L \cup {n + 1})
  BY <1>3, <1>5, <1>7, <1>10
<1>15. t.wins + t.losses + t.liquidations = t.trades
  BY <1>5, <1>6, <1>7
<1>16. RowHolds(t, w, n + 1, tr)
  BY <1>2, <1>13, <1>14, <1>15 DEF RowHolds, f, g
<1> QED
  BY <1>16 DEF t

\* The statistics with one event more.
LEMMA StatsTraded ==
    ASSUME NEW w \in Seq(Logged), NEW n \in 0..(Len(w) - 1),
           NEW st \in [Trader -> TraderStats \cup {None}], StatsHold(st, w, n),
           w[n + 1].kind \in Traded => st[w[n + 1].trader] \in TraderStats
    PROVE  StatsHold(Trade(st, w[n + 1]), w, n + 1)
<1> DEFINE e == w[n + 1]
           new == Trade(st, e)
<1>1. n \in 0..Len(w) /\ n + 1 \in 1..Len(w)
  OBVIOUS
<1>2. e \in Logged /\ e.trader \in Trader
  <2>1. e \in Logged
    BY <1>1, ElementOfSeq
  <2> QED
    BY <2>1, LoggedFields
<1>3. /\ e.kind \notin Traded => new = st
      /\ e.kind \in Traded => /\ new[e.trader] = increment_trade(st[e.trader], e)
                              /\ \A tr \in Trader : tr # e.trader => new[tr] = st[tr]
  BY <1>2 DEF Trade
<1>4. NewStats \in TraderStats /\ None \notin TraderStats
  BY FeedsAssumption DEF NewStats, TraderStats
<1>5. e.kind \in Traded => new[e.trader] \in TraderStats
  BY <1>2, <1>3, TradeCounted
<1> HIDE DEF new
<1>6. ASSUME NEW tr \in Trader
      PROVE  IF new[tr] = None THEN ClosesIn(w, n + 1, tr) = {} /\ FinesIn(w, n + 1, tr) = {} ELSE RowHolds(new[tr], w, n + 1, tr)
  <2>1. CASE ~(e.kind \in Traded /\ tr = e.trader)
    <3>1. ClosesIn(w, n + 1, tr) = ClosesIn(w, n, tr) /\ FinesIn(w, n + 1, tr) = FinesIn(w, n, tr)
      BY <2>1, ClosesMore DEF Traded
    <3>2. new[tr] = st[tr]
      BY <1>3, <2>1
    <3>3. IF st[tr] = None THEN ClosesIn(w, n, tr) = {} /\ FinesIn(w, n, tr) = {} ELSE RowHolds(st[tr], w, n, tr)
      BY DEF StatsHold
    <3>4. \A s : RowHolds(s, w, n + 1, tr) <=> RowHolds(s, w, n, tr)
      BY <3>1 DEF RowHolds
    <3> QED
      BY <3>1, <3>2, <3>3, <3>4
  <2>2. CASE e.kind \in Traded /\ tr = e.trader
    <3>1. st[tr] \in TraderStats /\ RowHolds(st[tr], w, n, tr)
      BY <1>4, <2>2 DEF StatsHold
    <3>2. RowHolds(increment_trade(st[tr], e), w, n + 1, tr)
      <4>1. CASE e.kind = "PositionClosed"
        BY <2>2, <3>1, <4>1, RowClosed
      <4>2. CASE e.kind = "Liquidation"
        BY <2>2, <3>1, <4>2, RowLiquidated
      <4> QED
        BY <2>2, <4>1, <4>2 DEF Traded
    <3> QED
      BY <1>3, <1>4, <1>5, <2>2, <3>2
  <2> QED
    BY <2>1, <2>2
<1>7. StatsHold(new, w, n + 1)
  BY <1>6 DEF StatsHold
<1> QED
  BY <1>7 DEF new

-----------------------------------------------------------------------------
(* A longer log.                                                           *)

\* What the first n events come to does not depend on what is behind them.
LEMMA LongerLog ==
    ASSUME NEW w \in Seq(Logged), NEW e \in Logged, NEW n \in 0..Len(w)
    PROVE  LET more == Append(w, e) IN
           /\ \A tr : /\ ClosesIn(more, n, tr) = ClosesIn(w, n, tr) /\ FinesIn(more, n, tr) = FinesIn(w, n, tr)
                      /\ DaysIn(more, n, tr) = DaysIn(w, n, tr)
                      /\ \A date : DayOn(more, n, tr, date) = DayOn(w, n, tr, date)
           /\ \A days, c : DaysHold(days, w, n, c) => DaysHold(days, more, n, c)
           /\ \A st : StatsHold(st, w, n) => StatsHold(st, more, n)
<1> DEFINE more == Append(w, e)
<1>1. more \in Seq(Logged) /\ Len(more) = Len(w) + 1 /\ \A i \in 1..Len(w) : more[i] = w[i]
  BY AppendProperties
<1> HIDE DEF more
<1>2. 1..n \subseteq 1..Len(w) /\ 1..Len(w) \subseteq 1..Len(more) /\ \A i \in 1..n : more[i] = w[i]
  BY <1>1
<1>3. ASSUME NEW tr
      PROVE  /\ ClosesIn(more, n, tr) = ClosesIn(w, n, tr) /\ FinesIn(more, n, tr) = FinesIn(w, n, tr)
             /\ ClosesIn(w, n, tr) \subseteq 1..n /\ FinesIn(w, n, tr) \subseteq 1..n
  BY <1>2 DEF ClosesIn, FinesIn
<1>4. ASSUME NEW tr
      PROVE  /\ DaysIn(more, n, tr) = DaysIn(w, n, tr)
             /\ \A date : ClosesOn(more, n, tr, date) = ClosesOn(w, n, tr, date)
  BY <1>2, <1>3 DEF DaysIn, ClosesOn
<1>5. \A i \in 1..n : SizesOf(more)[i] = SizesOf(w)[i] /\ PnlsOf(more)[i] = PnlsOf(w)[i]
  BY <1>2 DEF SizesOf, PnlsOf
<1>6. ASSUME NEW S, IsFiniteSet(S), S \subseteq 1..n
      PROVE  /\ SumFunctionOnSet(SizesOf(more), S) = SumFunctionOnSet(SizesOf(w), S)
             /\ SumFunctionOnSet(PnlsOf(more), S) = SumFunctionOnSet(PnlsOf(w), S)
  <2>1. \A i \in S : SizesOf(more)[i] = SizesOf(w)[i] /\ PnlsOf(more)[i] = PnlsOf(w)[i]
    BY <1>5, <1>6
  <2> QED
    BY <1>6, <2>1, SumEqual
<1>7. ASSUME NEW tr, NEW date
      PROVE  DayOn(more, n, tr, date) = DayOn(w, n, tr, date)
  <2>1. IsFiniteSet(ClosesOn(w, n, tr, date)) /\ ClosesOn(w, n, tr, date) \subseteq 1..n
    BY <1>3, ClosesFinite
  <2> QED
    BY <1>4, <1>6, <2>1 DEF DayOn
<1>8. ASSUME NEW s, NEW tr
      PROVE  RowHolds(s, more, n, tr) <=> RowHolds(s, w, n, tr)
  <2>1. IsFiniteSet(ClosesIn(w, n, tr)) /\ IsFiniteSet(FinesIn(w, n, tr))
    BY ClosesFinite
  <2>2. SumFunctionOnSet(PnlsOf(more), ClosesIn(w, n, tr)) = SumFunctionOnSet(PnlsOf(w), ClosesIn(w, n, tr))
    BY <1>3, <1>6, <2>1
  <2>3. SumFunctionOnSet(SizesOf(more), FinesIn(w, n, tr)) = SumFunctionOnSet(SizesOf(w), FinesIn(w, n, tr))
    BY <1>3, <1>6, <2>1
  <2> QED
    BY <1>3, <2>2, <2>3 DEF RowHolds
<1>9. \A days, c : DaysHold(days, w, n, c) => DaysHold(days, more, n, c)
  BY <1>4, <1>7 DEF DaysHold
<1>10. \A st : StatsHold(st, w, n) => StatsHold(st, more, n)
  BY <1>3, <1>8 DEF StatsHold
<1> QED
  BY <1>3, <1>4, <1>7, <1>9, <1>10 DEF more

-----------------------------------------------------------------------------
(* The statistics: their inductive invariant.                              *)

\* The events that the daily and the lifetime statistics have been told of.
ToldDays == IF indexer = "idle" THEN Len(wal) ELSE Len(wal) - 1
ToldStats == IF indexer \in {"idle", "daily"} THEN Len(wal) ELSE Len(wal) - 1

\* The dates of a trader's closes that the file has not kept.
Older(dates) == {d \in dates : Cardinality(Newer(dates, d)) >= HistoryLimit}
FileCut == [tr \in Trader |-> cut[tr] \cup Older(DaysIn(wal, file.block, tr))]

DailyInv ==
    /\ DaysHold(daily, wal, ToldDays, cut) /\ StatsHold(stats, wal, ToldStats)
    /\ DaysHold(file.daily, wal, file.block, FileCut) /\ StatsHold(file.stats, wal, file.block)

\* The dates of a trader are finitely many.
LEMMA DaysFinite ==
    ASSUME NEW w \in Seq(Logged), NEW n \in 0..Len(w), NEW tr
    PROVE  IsFiniteSet(DaysIn(w, n, tr))
<1>1. IsFiniteSet(ClosesIn(w, n, tr))
  BY ClosesFinite
<1> DEFINE f == [i \in ClosesIn(w, n, tr) |-> timestamp_to_date(w[i].ts)]
<1>2. f \in Surjection(ClosesIn(w, n, tr), DaysIn(w, n, tr))
  BY DEF DaysIn, Surjection
<1> HIDE DEF f
<1> QED
  BY <1>1, <1>2, FS_Surjection

\* Of nothing there is nothing.
LEMMA NothingHolds ==
    ASSUME NEW w, NEW c
    PROVE  DaysHold(NoDays, w, 0, c) /\ StatsHold(NoStats, w, 0)
<1>1. \A tr : ClosesIn(w, 0, tr) = {} /\ FinesIn(w, 0, tr) = {}
  <2>1. 1..0 = {}
    OBVIOUS
  <2> QED
    BY <2>1 DEF ClosesIn, FinesIn
<1>2. \A tr : DaysIn(w, 0, tr) = {}
  BY <1>1 DEF DaysIn
<1> QED
  BY <1>1, <1>2 DEF DaysHold, StatsHold, NoDays, NoStats, NoRows

\* With more of the dates cut it holds as well.
LEMMA CutMore ==
    ASSUME NEW days, NEW w, NEW n, NEW c, NEW d, DaysHold(days, w, n, c), \A tr \in Trader : c[tr] \subseteq d[tr]
    PROVE  DaysHold(days, w, n, d)
BY DEF DaysHold

\* The first state.
LEMMA DailyInit == FeedsInit => DailyInv
<1> SUFFICES ASSUME FeedsInit PROVE DailyInv
  OBVIOUS
<1>1. ToldDays = 0 /\ ToldStats = 0 /\ file.block = 0
  BY DEF FeedsInit, ToldDays, ToldStats
<1>2. daily = NoDays /\ stats = NoStats /\ file.daily = NoDays /\ file.stats = NoStats
  BY DEF FeedsInit
<1> QED
  BY <1>1, <1>2, NothingHolds DEF DailyInv

\* Steps of others.
LEMMA DailyElsewhere ==
    ASSUME DailyInv, wal' = wal, daily' = daily, stats' = stats, file' = file, cut' = cut,
           ToldDays' = ToldDays, ToldStats' = ToldStats
    PROVE  DailyInv'
BY DEF DailyInv, FileCut

\* LogEvent puts an event behind all the statistics have been told of.
LEMMA DailyLogStep ==
    ASSUME FeedsInv, DailyInv, NEW e \in mix.events, LogEvent(e)
    PROVE  DailyInv'
<1> DEFINE entry == Entry(Len(wal) + 1, e)
<1>1. /\ indexer = "idle" /\ wal' = Append(wal, entry) /\ indexer' = "market"
      /\ daily' = daily /\ stats' = stats /\ file' = file /\ cut' = cut
  BY DEF LogEvent, IndexerRest
<1>2. wal \in Seq(Logged) /\ Len(wal) \in Nat /\ file.block \in 0..Len(wal) /\ Len(wal) \in 0..Len(wal)
  BY DEF FeedsInv, FeedsTypes, Numbered
<1>3. entry \in Logged
  <2>1. e \in ChainEvent
    BY FeedsAssumption DEF FeedsInv, FeedsTypes
  <2>2. Len(wal) + 1 \in Nat
    BY <1>2
  <2> QED
    BY <2>1, <2>2, EntryLogged
<1> HIDE DEF entry
<1>4. Len(wal') = Len(wal) + 1
  BY <1>1, <1>2, <1>3, AppendProperties
<1>5. ToldDays = Len(wal) /\ ToldStats = Len(wal) /\ ToldDays' = Len(wal) /\ ToldStats' = Len(wal)
  BY <1>1, <1>2, <1>4 DEF ToldDays, ToldStats
<1>6. DaysHold(daily, wal', Len(wal), cut) /\ StatsHold(stats, wal', Len(wal))
  BY <1>1, <1>2, <1>3, <1>5, LongerLog DEF DailyInv
<1>7. DaysHold(file.daily, wal', file.block, FileCut) /\ StatsHold(file.stats, wal', file.block)
  BY <1>1, <1>2, <1>3, LongerLog DEF DailyInv
<1>8. FileCut' = FileCut
  <2>1. \A tr : DaysIn(wal', file.block, tr) = DaysIn(wal, file.block, tr)
    BY <1>1, <1>2, <1>3, LongerLog
  <2> QED
    BY <1>1, <2>1 DEF FileCut
<1> QED
  BY <1>1, <1>5, <1>6, <1>7, <1>8 DEF DailyInv

\* The steps of process_event() that reach the statistics.
LEMMA DailyStatsStep ==
    ASSUME FeedsInv, DailyInv, AppendCount \/ EnsureStats \/ CountTrade \/ CountDay
    PROVE  DailyInv'
<1> DEFINE n == Len(wal) - 1
<1>1. wal' = wal /\ file' = file /\ cut' = cut /\ indexer \in {"count", "ensure", "trade", "daily"}
  BY DEF AppendCount, EnsureStats, CountTrade, CountDay, IndexerRest
<1>2. /\ wal \in Seq(Logged) /\ Now \in Logged /\ n \in Nat /\ n + 1 = Len(wal) /\ n \in 0..(Len(wal) - 1)
      /\ n \in 0..Len(wal)
  <2>1. wal \in Seq(Logged)
    BY DEF FeedsInv, FeedsTypes
  <2>2. Len(wal) \in Nat /\ Len(wal) - 1 \in Nat /\ Now \in Logged
    BY <1>1, UnderWay
  <2> QED
    BY <2>1, <2>2
<1>3. wal[n + 1] = Now
  BY <1>2 DEF Now
<1>4. stats \in [Trader -> TraderStats \cup {None}]
  BY DEF FeedsInv, FeedsTypes
<1>5. FileCut' = FileCut
  BY <1>1 DEF FileCut
<1>6. /\ ToldDays = n /\ (indexer # "daily" => ToldStats = n) /\ (indexer = "daily" => ToldStats = n + 1)
      /\ ToldDays' = (IF indexer' = "idle" THEN n + 1 ELSE n)
      /\ ToldStats' = (IF indexer' \in {"idle", "daily"} THEN n + 1 ELSE n)
  BY <1>1, <1>2 DEF ToldDays, ToldStats
<1>7. DaysHold(daily, wal, ToldDays, cut) /\ StatsHold(stats, wal, ToldStats)
  BY DEF DailyInv
<1> HIDE DEF n
<1>8. DaysHold(daily, wal, n, cut) /\ DaysHold(Daily(daily, Now), wal, n + 1, cut)
  <2>1. DaysHold(daily, wal, n, cut)
    BY <1>6, <1>7
  <2> QED
    BY <1>2, <1>3, <2>1, DaysMore
<1>9. ASSUME indexer # "daily", Now.kind \in Traded => stats[Now.trader] \in TraderStats
      PROVE  StatsHold(stats, wal, n) /\ StatsHold(Trade(stats, Now), wal, n + 1)
  <2>1. StatsHold(stats, wal, n)
    BY <1>6, <1>7, <1>9
  <2> QED
    BY <1>2, <1>3, <1>4, <1>9, <2>1, StatsTraded
<1>10. CASE AppendCount
  <2>1. stats' = stats /\ daily' = daily /\ indexer = "count" /\ indexer' = IF Now.kind \in Ensured THEN "ensure" ELSE "idle"
    BY <1>10 DEF AppendCount
  <2>2. CASE Now.kind \in Ensured
    BY <1>1, <1>5, <1>6, <1>7, <2>1, <2>2 DEF DailyInv
  <2>3. CASE Now.kind \notin Ensured
    <3>1. Daily(daily, Now) = daily /\ Trade(stats, Now) = stats
      BY <2>3 DEF Daily, Trade, Ensured, Traded
    <3>2. DaysHold(daily, wal, n + 1, cut) /\ StatsHold(stats, wal, n + 1)
      BY <1>8, <1>9, <2>1, <2>3, <3>1 DEF Ensured
    <3> QED
      BY <1>1, <1>5, <1>6, <2>1, <2>3, <3>2 DEF DailyInv
  <2> QED
    BY <2>2, <2>3
<1>11. CASE EnsureStats
  <2>1. /\ stats' = ensure(stats, Now) /\ daily' = daily /\ indexer = "ensure"
        /\ indexer' = IF Now.kind \in Traded THEN "trade" ELSE "idle"
    BY <1>11 DEF EnsureStats
  <2>2. StatsHold(stats, wal, n)
    BY <1>6, <1>7, <2>1
  <2>3. StatsHold(ensure(stats, Now), wal, n)
    BY <1>2, <1>4, <2>2, StatsEnsured
  <2>4. CASE Now.kind \in Traded
    BY <1>1, <1>5, <1>6, <1>8, <2>1, <2>3, <2>4 DEF DailyInv
  <2>5. CASE Now.kind \notin Traded
    <3>1. Daily(daily, Now) = daily /\ Trade(ensure(stats, Now), Now) = ensure(stats, Now)
      BY <2>5 DEF Daily, Trade, Traded
    <3>2. ensure(stats, Now) \in [Trader -> TraderStats \cup {None}]
      BY <1>2, <1>4, StatsAppended
    <3>3. StatsHold(ensure(stats, Now), wal, n + 1)
      BY <1>2, <1>3, <2>3, <2>5, <3>1, <3>2, StatsTraded
    <3> QED
      BY <1>1, <1>5, <1>6, <1>8, <2>1, <2>5, <3>1, <3>3 DEF DailyInv
  <2> QED
    BY <2>4, <2>5
<1>12. CASE CountTrade
  <2>1. /\ stats' = Trade(stats, Now) /\ daily' = daily /\ indexer = "trade"
        /\ indexer' = IF Now.kind = "PositionClosed" THEN "daily" ELSE "idle"
    BY <1>12 DEF CountTrade
  <2>2. StatsHold(Trade(stats, Now), wal, n + 1)
    BY <1>9, <2>1 DEF FeedsInv, Numbered
  <2>3. CASE Now.kind = "PositionClosed"
    BY <1>1, <1>5, <1>6, <1>8, <2>1, <2>2, <2>3 DEF DailyInv
  <2>4. CASE Now.kind # "PositionClosed"
    <3>1. Daily(daily, Now) = daily
      BY <2>4 DEF Daily
    <3> QED
      BY <1>1, <1>5, <1>6, <1>8, <2>1, <2>2, <2>4, <3>1 DEF DailyInv
  <2> QED
    BY <2>3, <2>4
<1>13. CASE CountDay
  <2>1. stats' = stats /\ daily' = Daily(daily, Now) /\ indexer = "daily" /\ indexer' = "idle"
    BY <1>13 DEF CountDay
  <2>2. StatsHold(stats, wal, n + 1)
    BY <1>6, <1>7, <2>1
  <2> QED
    BY <1>1, <1>5, <1>6, <1>8, <2>1, <2>2 DEF DailyInv
<1> QED
  BY <1>10, <1>11, <1>12, <1>13

\* snapshot(): the newest days of every trader that has statistics.
LEMMA DailySnapshot ==
    ASSUME FeedsInv, DailyInv, Snapshot
    PROVE  DailyInv'
<1> DEFINE kept(tr) == trader_daily_history(daily, tr, HistoryLimit)
           old(tr) == DaysIn(wal, Len(wal), tr)
           days == [tr \in Trader |-> IF stats[tr] = None THEN NoRows ELSE Restrict(daily[tr], kept(tr))]
<1>1. /\ wal' = wal /\ daily' = daily /\ stats' = stats /\ indexer' = indexer /\ cut' = cut /\ indexer = "idle"
      /\ file' = [block |-> Len(wal), stats |-> stats, daily |-> days]
  BY DEF Snapshot
<1>2. wal \in Seq(Logged) /\ Len(wal) \in 0..Len(wal)
  BY DEF FeedsInv, FeedsTypes
<1>3. ToldDays = Len(wal) /\ ToldStats = Len(wal) /\ ToldDays' = Len(wal) /\ ToldStats' = Len(wal)
  BY <1>1 DEF ToldDays, ToldStats
<1>4. DaysHold(daily, wal, Len(wal), cut) /\ StatsHold(stats, wal, Len(wal))
  BY <1>3 DEF DailyInv
<1>5. FileCut' = [tr \in Trader |-> cut[tr] \cup Older(old(tr))]
  BY <1>1 DEF FileCut
<1>6. ASSUME NEW tr \in Trader
      PROVE  /\ DOMAIN days[tr] \subseteq old(tr)
             /\ \A d \in old(tr) \ (cut[tr] \cup Older(old(tr))) : d \in DOMAIN days[tr] /\ days[tr][d] = DayOn(wal, Len(wal), tr, d)
  <2>1. CASE stats[tr] = None
    <3>1. ClosesIn(wal, Len(wal), tr) = {}
      BY <1>4, <2>1 DEF StatsHold
    <3>2. old(tr) = {}
      BY <3>1 DEF DaysIn
    <3>3. days[tr] = NoRows /\ DOMAIN NoRows = {}
      BY <2>1 DEF NoRows
    <3> QED
      BY <3>2, <3>3
  <2>2. CASE stats[tr] # None
    <3>1. days[tr] = [d \in kept(tr) |-> daily[tr][d]]
      BY <2>2 DEF Restrict
    <3>2. kept(tr) = {d \in DOMAIN daily[tr] : Cardinality(Newer(DOMAIN daily[tr], d)) < HistoryLimit}
      BY DEF trader_daily_history, Dates
    <3>3. DOMAIN daily[tr] \subseteq old(tr)
      BY <1>4 DEF DaysHold
    <3>4. IsFiniteSet(old(tr))
      BY <1>2, DaysFinite
    <3> HIDE DEF days, kept, old
    <3>5. ASSUME NEW d \in old(tr) \ (cut[tr] \cup Older(old(tr)))
          PROVE  d \in kept(tr) /\ daily[tr][d] = DayOn(wal, Len(wal), tr, d)
      <4>1. d \in DOMAIN daily[tr] /\ daily[tr][d] = DayOn(wal, Len(wal), tr, d)
        BY <1>4, <3>5 DEF DaysHold, old
      <4>2. Newer(old(tr), d) \in SUBSET old(tr) /\ Newer(DOMAIN daily[tr], d) \in SUBSET Newer(old(tr), d)
        BY <3>3 DEF Newer
      <4>3. IsFiniteSet(Newer(old(tr), d))
        BY <3>4, <4>2, FS_Subset
      <4>4. /\ Cardinality(Newer(DOMAIN daily[tr], d)) <= Cardinality(Newer(old(tr), d))
            /\ Cardinality(Newer(DOMAIN daily[tr], d)) \in Nat /\ Cardinality(Newer(old(tr), d)) \in Nat
        BY <4>2, <4>3, FS_Subset, FS_CardinalityType
      <4>5. ~(Cardinality(Newer(old(tr), d)) >= HistoryLimit)
        BY <3>5 DEF Older
      <4>6. Cardinality(Newer(DOMAIN daily[tr], d)) < HistoryLimit
        BY <4>4, <4>5, FeedsAssumption
      <4> QED
        BY <3>2, <4>1, <4>6
    <3> QED
      BY <3>1, <3>2, <3>3, <3>5
  <2> QED
    BY <2>1, <2>2
<1>7. DOMAIN days = Trader
  OBVIOUS
<1> HIDE DEF days
<1>8. DaysHold(days, wal, Len(wal), FileCut')
  BY <1>5, <1>6, <1>7 DEF DaysHold
<1>9. file'.daily = days /\ file'.stats = stats /\ file'.block = Len(wal)
  BY <1>1
<1> QED
  BY <1>1, <1>3, <1>4, <1>8, <1>9 DEF DailyInv

-----------------------------------------------------------------------------
(* The statistics: replay.                                                 *)

\* A replay of the log behind block b brings the statistics up to date.
LEMMA ReplayHolds ==
    ASSUME NEW w \in Seq(Logged), NEW b \in 0..Len(w), NEW c, NEW S,
           S.stats \in [Trader -> TraderStats \cup {None}], DaysHold(S.daily, w, b, c), StatsHold(S.stats, w, b)
    PROVE  LET R == Replay(S, SubSeq(w, b + 1, Len(w))) IN
           DaysHold(R.daily, w, Len(w), c) /\ StatsHold(R.stats, w, Len(w))
<1> DEFINE entries == SubSeq(w, b + 1, Len(w))
           n == Len(entries)
           g == CHOOSE f : After(S, entries, f, n)
           Good(k) == /\ g[k].stats \in [Trader -> TraderStats \cup {None}]
                      /\ DaysHold(g[k].daily, w, b + k, c) /\ StatsHold(g[k].stats, w, b + k)
           Bad == {k \in 0..n : ~Good(k)}
<1>1. n = Len(w) - b /\ n \in Nat /\ \A k \in 1..n : entries[k] = w[b + k]
  <2>1. \A i \in (b + 1)..Len(w) : i \in 1..Len(w) /\ w[i] \in Logged
    <3>1. \A i \in (b + 1)..Len(w) : i \in 1..Len(w)
      OBVIOUS
    <3> QED
      BY <3>1, ElementOfSeq
  <2>2. b + 1 \in Int /\ Len(w) \in Int
    OBVIOUS
  <2>3. /\ Len(entries) = IF b + 1 <= Len(w) THEN Len(w) - (b + 1) + 1 ELSE 0
        /\ \A i \in 1..(Len(w) - (b + 1) + 1) : entries[i] = w[b + 1 + i - 1]
    BY <2>1, <2>2, SubSeqProperties
  <2> HIDE DEF entries
  <2>4. n = Len(w) - b
    BY <2>3
  <2>5. \A k \in 1..n : k \in 1..(Len(w) - (b + 1) + 1) /\ b + 1 + k - 1 = b + k
    BY <2>4
  <2> QED
    BY <2>3, <2>4, <2>5
<1>2. After(S, entries, g, n)
  BY <1>1, AfterExists
<1>3. Replay(S, entries) = g[n]
  BY DEF Replay, After
<1> HIDE DEF g, n, entries
<1>4. ASSUME Bad # {} PROVE FALSE
  <2>0. Bad \in SUBSET Nat
    BY <1>1
  <2>1. PICK k \in Bad : \A l \in Bad : k <= l
    BY <1>4, <2>0, Least
  <2>2. CASE k = 0
    <3>1. g[0] = S /\ b + 0 = b
      BY <1>1, <1>2, AfterAt
    <3> QED
      BY <2>1, <2>2, <3>1
  <2>3. CASE k # 0
    <3>1. k \in 1..n /\ k - 1 \in 0..n /\ k - 1 \notin Bad
      BY <1>1, <2>1, <2>3
    <3>2. Good(k - 1)
      BY <3>1
    <3> DEFINE m == b + (k - 1)
               e == w[m + 1]
               old == g[k - 1]
    <3>3. m \in 0..(Len(w) - 1) /\ m \in 0..Len(w) /\ m + 1 = b + k /\ m + 1 \in 1..Len(w)
      BY <1>1, <3>1
    <3>4. e \in Logged
      BY <3>3, ElementOfSeq
    <3>5. g[k] = ReplayEntry(old, e)
      <4>1. entries[k] = w[b + k]
        BY <1>1, <3>1
      <4>2. g[k] = ReplayEntry(g[k - 1], entries[k])
        BY <1>1, <1>2, <3>1, AfterAt
      <4> QED
        BY <3>3, <4>1, <4>2
    <3>6. /\ old.stats \in [Trader -> TraderStats \cup {None}]
          /\ DaysHold(old.daily, w, m, c) /\ StatsHold(old.stats, w, m)
      BY <3>2
    <3>7. g[k].stats = Trade(ensure(old.stats, e), e) /\ g[k].daily = Daily(old.daily, e)
      BY <3>5 DEF ReplayEntry
    <3> HIDE DEF Bad, m, old
    <3>8. DaysHold(g[k].daily, w, m + 1, c)
      <4> DEFINE days == old.daily
      <4>1. DaysHold(days, w, m, c)
        BY <3>6
      <4> HIDE DEF days
      <4>2. DaysHold(Daily(days, w[m + 1]), w, m + 1, c)
        BY <3>3, <4>1, DaysMore
      <4> QED
        BY <3>7, <4>2 DEF days
    <3>9. g[k].stats \in [Trader -> TraderStats \cup {None}] /\ StatsHold(g[k].stats, w, m + 1)
      <4> DEFINE st == old.stats
                 more == ensure(st, e)
      <4>1. st \in [Trader -> TraderStats \cup {None}] /\ StatsHold(st, w, m)
        BY <3>6
      <4> HIDE DEF st
      <4>2. /\ more \in [Trader -> TraderStats \cup {None}] /\ (e.kind \in Ensured => more[e.trader] \in TraderStats)
            /\ Trade(more, e) \in [Trader -> TraderStats \cup {None}]
        BY <3>4, <4>1, StatsAppended
      <4>3. StatsHold(more, w, m)
        BY <3>3, <3>4, <4>1, StatsEnsured
      <4> HIDE DEF more
      <4>4. e.kind \in Traded => more[e.trader] \in TraderStats
        BY <4>2 DEF Ensured
      <4>5. StatsHold(Trade(more, w[m + 1]), w, m + 1)
        BY <3>3, <4>2, <4>3, <4>4, StatsTraded
      <4> QED
        BY <3>7, <4>2, <4>5 DEF more, st
    <3>10. Good(k)
      BY <3>3, <3>8, <3>9
    <3> QED
      BY <2>1, <3>10 DEF Bad
  <2> QED
    BY <2>2, <2>3
<1>5. n \in 0..n /\ b + n = Len(w)
  BY <1>1
<1>6. Good(n)
  BY <1>4, <1>5
<1> QED
  BY <1>3, <1>5, <1>6 DEF entries

\* open(): what the file had cut is gone, all the rest is there again.
LEMMA DailyReopen ==
    ASSUME FeedsInv, DailyInv, Reopen
    PROVE  DailyInv'
<1> DEFINE behind == SubSeq(wal, file.block + 1, Len(wal))
           S == Replay(Restored, behind)
<1>1. /\ stats' = S.stats /\ daily' = S.daily /\ indexer' = "idle" /\ wal' = wal /\ file' = file
      /\ cut' = [tr \in Trader |-> cut[tr] \cup Older(CloseDates(SubSeq(wal, 1, file.block), tr))]
  BY DEF Reopen, Older
<1>2. wal \in Seq(Logged) /\ Len(wal) \in Nat /\ file.block \in 0..Len(wal) /\ file.stats \in [Trader -> TraderStats \cup {None}]
  BY DEF FeedsInv, FeedsTypes, Numbered
<1>3. ASSUME NEW tr PROVE CloseDates(SubSeq(wal, 1, file.block), tr) = DaysIn(wal, file.block, tr)
  <2> DEFINE part == SubSeq(wal, 1, file.block)
  <2>1. DOMAIN part = 1..file.block /\ \A i \in 1..file.block : part[i] = wal[i]
    <3>1. \A i \in 1..file.block : wal[i] \in Logged
      <4>1. \A i \in 1..file.block : i \in 1..Len(wal)
        BY <1>2
      <4> QED
        BY <1>2, <4>1, ElementOfSeq
    <3>2. 1 \in Int /\ file.block \in Int
      BY <1>2
    <3>3. /\ part \in Seq(Logged) /\ Len(part) = IF 1 <= file.block THEN file.block - 1 + 1 ELSE 0
          /\ \A i \in 1..(file.block - 1 + 1) : part[i] = wal[1 + i - 1]
      BY <3>1, <3>2, SubSeqProperties
    <3>4. \A i \in 1..file.block : i \in 1..(file.block - 1 + 1) /\ 1 + i - 1 = i
      BY <1>2
    <3> HIDE DEF part
    <3>5. Len(part) = file.block
      BY <1>2, <3>3
    <3> QED
      BY <3>3, <3>4, <3>5, LenProperties
  <2> HIDE DEF part
  <2>2. {j \in DOMAIN part : part[j].kind = "PositionClosed" /\ part[j].trader = tr} = ClosesIn(wal, file.block, tr)
    BY <2>1 DEF ClosesIn
  <2>3. ClosesIn(wal, file.block, tr) \subseteq 1..file.block
    BY DEF ClosesIn
  <2>4. CloseDates(part, tr) = DaysIn(wal, file.block, tr)
    BY <2>1, <2>2, <2>3 DEF CloseDates, DaysIn
  <2> QED
    BY <2>4 DEF part
<1>4. cut' = FileCut
  BY <1>1, <1>3 DEF FileCut
<1>5. FileCut' = FileCut
  <2>1. FileCut' = [tr \in Trader |-> FileCut[tr] \cup Older(DaysIn(wal, file.block, tr))]
    BY <1>1, <1>4 DEF FileCut
  <2>2. \A tr \in Trader : FileCut[tr] \cup Older(DaysIn(wal, file.block, tr)) = FileCut[tr]
    BY DEF FileCut
  <2>3. FileCut = [tr \in Trader |-> FileCut[tr]]
    BY DEF FileCut
  <2> QED
    BY <2>1, <2>2, <2>3
<1>6. DaysHold(S.daily, wal, Len(wal), FileCut) /\ StatsHold(S.stats, wal, Len(wal))
  <2>1. Restored.stats = file.stats /\ Restored.daily = file.daily
    BY DEF Restored
  <2>2. DaysHold(Restored.daily, wal, file.block, FileCut) /\ StatsHold(Restored.stats, wal, file.block)
    BY <2>1 DEF DailyInv
  <2>3. Restored.stats \in [Trader -> TraderStats \cup {None}]
    BY <1>2, <2>1
  <2> QED
    BY <1>2, <2>2, <2>3, ReplayHolds
<1> HIDE DEF S
<1>7. ToldDays' = Len(wal) /\ ToldStats' = Len(wal)
  BY <1>1 DEF ToldDays, ToldStats
<1> QED
  BY <1>1, <1>4, <1>5, <1>6, <1>7 DEF DailyInv

\* Every step.
LEMMA DailyNext == FeedsInv /\ DailyInv /\ [FeedsNext]_feedsVars => DailyInv'
<1> SUFFICES ASSUME FeedsInv, DailyInv, [FeedsNext]_feedsVars PROVE DailyInv'
  OBVIOUS
<1>1. CASE \E e \in mix.events : LogEvent(e)
  BY <1>1, DailyLogStep
<1>2. CASE AppendMarket \/ AppendTrader
  <2>1. /\ wal' = wal /\ daily' = daily /\ stats' = stats /\ file' = file /\ cut' = cut
        /\ indexer \in {"market", "trader"} /\ indexer' \in {"trader", "count"}
    BY <1>2 DEF AppendMarket, AppendTrader, IndexerRest
  <2>2. ToldDays' = ToldDays /\ ToldStats' = ToldStats
    BY <2>1 DEF ToldDays, ToldStats
  <2> QED
    BY <2>1, <2>2, DailyElsewhere
<1>3. CASE AppendCount \/ EnsureStats \/ CountTrade \/ CountDay
  BY <1>3, DailyStatsStep
<1>4. CASE BeginRebuild \/ (\E tr \in Trader : ReadStats(tr)) \/ (\E b \in Board : SetBoard(b)) \/ UNCHANGED feedsVars
  <2>1. wal' = wal /\ daily' = daily /\ stats' = stats /\ file' = file /\ cut' = cut /\ indexer' = indexer
    BY <1>4 DEF BeginRebuild, ReadStats, SetBoard, TaskRest, feedsVars
  <2>2. ToldDays' = ToldDays /\ ToldStats' = ToldStats
    BY <2>1 DEF ToldDays, ToldStats
  <2> QED
    BY <2>1, <2>2, DailyElsewhere
<1>5. CASE Snapshot
  BY <1>5, DailySnapshot
<1>6. CASE Reopen
  BY <1>6, DailyReopen
<1> QED
  BY <1>1, <1>2, <1>3, <1>4, <1>5, <1>6 DEF FeedsNext, IndexerStep

\* The daily statistics hold the closes of the events they have been told of, the
\* lifetime statistics these and the liquidations; the snapshot file those up to
\* its block, but for the days trader_daily_history() did not return.
THEOREM DailyInvariance == FeedsSpec => []DailyInv
<1> QED
  BY FeedsInvariance, DailyInit, DailyNext, PTL DEF FeedsSpec

-----------------------------------------------------------------------------
(* What the statistics promise.                                            *)

\* The events through the daily statistics.
LEMMA DaysThrough ==
    ASSUME FeedsInv
    PROVE  /\ Through("daily") = SubSeq(wal, 1, ToldDays) /\ ToldDays \in 0..Len(wal)
           /\ DOMAIN Through("daily") = 1..ToldDays /\ \A i \in 1..ToldDays : Through("daily")[i] = wal[i]
<1> DEFINE At(s) == CHOOSE i \in DOMAIN Stages : Stages[i] = s
           part == SubSeq(wal, 1, ToldDays)
<1>1. DOMAIN Stages = 1..6
  BY DEF Stages
<1>2. \A s \in {"market", "trader", "count", "ensure", "trade", "daily"} : At(s) <= At("daily")
  <2>1. /\ Stages[1] = "market" /\ Stages[2] = "trader" /\ Stages[3] = "count"
        /\ Stages[4] = "ensure" /\ Stages[5] = "trade" /\ Stages[6] = "daily"
    BY DEF Stages
  <2>2. 1..6 = {1, 2, 3, 4, 5, 6}
    OBVIOUS
  <2>3. \A s : (\E i \in DOMAIN Stages : Stages[i] = s) => At(s) \in 1..6 /\ Stages[At(s)] = s
    BY <1>1
  <2> HIDE DEF At
  <2>4. At("daily") = 6
    BY <1>1, <2>1, <2>2, <2>3
  <2>5. \A s \in {"market", "trader", "count", "ensure", "trade", "daily"} : At(s) \in 1..6
    BY <1>1, <2>1, <2>2, <2>3
  <2> QED
    BY <2>4, <2>5
<1>3. indexer # "idle" => indexer \in {"market", "trader", "count", "ensure", "trade", "daily"}
  BY DEF FeedsInv, FeedsTypes
<1>4. wal \in Seq(Logged) /\ Len(wal) \in Nat
  BY DEF FeedsInv, FeedsTypes
<1>5. Through("daily") = SubSeq(wal, 1, IF indexer # "idle" /\ At(indexer) <= At("daily") THEN Len(wal) - 1 ELSE Len(wal))
  BY DEF Through
<1> HIDE DEF At
<1>6. Through("daily") = part
  BY <1>2, <1>3, <1>5 DEF ToldDays
<1>7. ToldDays \in 0..Len(wal)
  <2>1. indexer # "idle" => Len(wal) - 1 \in Nat
    BY UnderWay
  <2> QED
    BY <1>4, <2>1 DEF ToldDays
<1>8. DOMAIN part = 1..ToldDays /\ \A i \in 1..ToldDays : part[i] = wal[i]
  <2> DEFINE t == ToldDays
  <2>1. \A i \in 1..t : wal[i] \in Logged
    <3>1. \A i \in 1..t : i \in 1..Len(wal)
      BY <1>4, <1>7
    <3> QED
      BY <1>4, <3>1, ElementOfSeq
  <2>2. 1 \in Int /\ t \in Int
    BY <1>4, <1>7
  <2> HIDE DEF t
  <2>3. /\ SubSeq(wal, 1, t) \in Seq(Logged) /\ Len(SubSeq(wal, 1, t)) = IF 1 <= t THEN t - 1 + 1 ELSE 0
        /\ \A i \in 1..(t - 1 + 1) : SubSeq(wal, 1, t)[i] = wal[1 + i - 1]
    BY <2>1, <2>2, SubSeqProperties
  <2>4. \A i \in 1..t : i \in 1..(t - 1 + 1) /\ 1 + i - 1 = i
    BY <2>2
  <2>5. Len(SubSeq(wal, 1, t)) = t
    BY <1>4, <1>7, <2>3 DEF t
  <2>6. DOMAIN SubSeq(wal, 1, t) = 1..t
    BY <2>3, <2>5, LenProperties
  <2> QED
    BY <2>3, <2>4, <2>6 DEF t
<1> QED
  BY <1>6, <1>7, <1>8

\* The closes of a day of the calendar are those with its date.
LEMMA ClosesAre ==
    ASSUME FeedsInv, DailyInv, NEW date \in AllDates, NEW tr
    PROVE  Closes(tr, date) = ClosesOn(wal, ToldDays, tr, date)
<1> DEFINE Day == DayNumber(date \div 10000, (date \div 100) % 100, date % 100)
<1>1. wal \in Seq(Logged) /\ ToldDays \in 0..Len(wal) /\ Len(wal) \in Nat
  BY DaysThrough DEF FeedsInv, FeedsTypes
<1>2. \A i \in 1..ToldDays : wal[i].ts \in Nat
  <2> TAKE i \in 1..ToldDays
  <2>1. i \in 1..Len(wal)
    BY <1>1
  <2>2. wal[i] \in Logged
    BY <1>1, <2>1, ElementOfSeq
  <2> QED
    BY <2>2, LoggedFields
<1>3. PICK t \in Nat : date = timestamp_to_date(t)
  <2>1. PICK u \in Trader : date \in DOMAIN daily[u]
    BY DEF AllDates, Dates
  <2>2. date \in DaysIn(wal, ToldDays, u)
    BY <2>1 DEF DailyInv, DaysHold
  <2>3. PICK i \in 1..ToldDays : date = timestamp_to_date(wal[i].ts)
    BY <2>2 DEF DaysIn, ClosesIn
  <2> QED
    BY <1>2, <2>3
<1>4. \A ts \in Nat : ts \div 86400 = Day <=> timestamp_to_date(ts) = date
  BY <1>3, DateIsDay
<1>5. /\ DOMAIN Through("daily") = 1..ToldDays /\ \A i \in 1..ToldDays : Through("daily")[i] = wal[i]
  BY DaysThrough
<1>6. Closes(tr, date) = {i \in DOMAIN Through("daily") :
          /\ Through("daily")[i].kind = "PositionClosed" /\ Through("daily")[i].trader = tr
          /\ Through("daily")[i].ts \div 86400 = Day}
  BY DEF Closes
<1> HIDE DEF Day
<1>7. Closes(tr, date) = {i \in 1..ToldDays :
          wal[i].kind = "PositionClosed" /\ wal[i].trader = tr /\ wal[i].ts \div 86400 = Day}
  <2> DEFINE seen == Through("daily")
             In(i) == wal[i].kind = "PositionClosed" /\ wal[i].trader = tr /\ wal[i].ts \div 86400 = Day
             Seen(i) == seen[i].kind = "PositionClosed" /\ seen[i].trader = tr /\ seen[i].ts \div 86400 = Day
  <2>1. \A i \in 1..ToldDays : Seen(i) <=> In(i)
    BY <1>5
  <2>2. Closes(tr, date) = {i \in DOMAIN seen : Seen(i)} /\ DOMAIN seen = 1..ToldDays
    BY <1>5, <1>6
  <2> HIDE DEF seen, In, Seen
  <2>3. Closes(tr, date) = {i \in 1..ToldDays : In(i)}
    BY <2>1, <2>2
  <2> QED
    BY <2>3 DEF In
<1>8. \A i \in 1..ToldDays : wal[i].ts \div 86400 = Day <=> timestamp_to_date(wal[i].ts) = date
  BY <1>2, <1>4
<1> QED
  BY <1>7, <1>8 DEF ClosesOn, ClosesIn

\* A day that was not cut is there with its closes, or there are none.
LEMMA DayMatches ==
    ASSUME FeedsInv, DailyInv, NEW tr \in Trader, NEW date \in AllDates, date \notin cut[tr]
    PROVE  IF date \notin Dates(daily, tr) THEN ClosesOn(wal, ToldDays, tr, date) = {}
           ELSE daily[tr][date] = DayOn(wal, ToldDays, tr, date)
<1>1. wal \in Seq(Logged) /\ ToldDays \in 0..Len(wal)
  BY DaysThrough DEF FeedsInv, FeedsTypes
<1>2. /\ DOMAIN daily[tr] \subseteq DaysIn(wal, ToldDays, tr)
      /\ date \in DaysIn(wal, ToldDays, tr) => date \in DOMAIN daily[tr] /\ daily[tr][date] = DayOn(wal, ToldDays, tr, date)
  BY DEF DailyInv, DaysHold
<1>3. CASE date \notin Dates(daily, tr)
  <2>1. date \notin DaysIn(wal, ToldDays, tr)
    BY <1>2, <1>3 DEF Dates
  <2> QED
    BY <1>1, <1>3, <2>1, NoDayYet
<1>4. CASE date \in Dates(daily, tr)
  BY <1>2, <1>4 DEF Dates
<1> QED
  BY <1>3, <1>4

\* The days of a trader, none of them cut, add up to all closes.
LEMMA DaysAddUp ==
    ASSUME FeedsInv, DailyInv, NEW tr \in Trader, cut[tr] = {}, NEW trades, NEW pnls,
           trades = [d \in Dates(daily, tr) |-> daily[tr][d].trades],
           pnls = [d \in Dates(daily, tr) |-> daily[tr][d].pnl]
    PROVE  /\ SumFunctionOnSet(trades, Dates(daily, tr)) = Cardinality(ClosesIn(wal, ToldDays, tr))
           /\ SumFunctionOnSet(pnls, Dates(daily, tr)) = SumFunctionOnSet(PnlsOf(wal), ClosesIn(wal, ToldDays, tr))
<1> DEFINE C == ClosesIn(wal, ToldDays, tr)
           D == DaysIn(wal, ToldDays, tr)
           k == [i \in C |-> timestamp_to_date(wal[i].ts)]
           one == [i \in C |-> 1]
           p == PnlsOf(wal)
           At == [d \in D |-> {i \in C : k[i] = d}]
<1>1. wal \in Seq(Logged) /\ ToldDays \in 0..Len(wal)
  BY DaysThrough DEF FeedsInv, FeedsTypes
<1>2. Dates(daily, tr) = D /\ \A d \in D : daily[tr][d] = DayOn(wal, ToldDays, tr, d)
  BY DEF DailyInv, DaysHold, Dates
<1>3. IsFiniteSet(C) /\ C \subseteq 1..Len(wal)
  BY <1>1, ClosesFinite
<1>4. IsFiniteSet(D)
  BY <1>1, DaysFinite
<1>5. \A i \in C : one[i] = 1 /\ one[i] \in Int
  OBVIOUS
<1>6. \A i \in C : p[i] \in Int
  <2>1. \A i \in 1..Len(wal) : p[i] \in Int
    BY <1>1, SizesAre
  <2> QED
    BY <1>3, <2>1
<1>7. \A d \in D : At[d] = ClosesOn(wal, ToldDays, tr, d) /\ \A i : i \in At[d] <=> i \in C /\ k[i] = d
  BY DEF ClosesOn
<1>8. \A i \in C : k[i] \in D
  BY DEF DaysIn
<1>9. \A d \in D : trades[d] = daily[tr][d].trades /\ pnls[d] = daily[tr][d].pnl
  BY <1>2
<1> HIDE DEF C, D, k, one, p, At
<1>10. \A d \in D : trades[d] = SumFunctionOnSet(one, At[d]) /\ pnls[d] = SumFunctionOnSet(p, At[d])
  <2> TAKE d \in D
  <2>1. /\ DayOn(wal, ToldDays, tr, d).trades = Cardinality(At[d])
        /\ DayOn(wal, ToldDays, tr, d).pnl = SumFunctionOnSet(p, At[d])
    BY <1>7 DEF DayOn, p
  <2>2. trades[d] = Cardinality(At[d]) /\ pnls[d] = SumFunctionOnSet(p, At[d])
    BY <1>2, <1>9, <2>1
  <2>3. At[d] \in SUBSET C
    BY <1>7
  <2>4. IsFiniteSet(At[d]) /\ \A i \in At[d] : one[i] = 1
    BY <1>3, <1>5, <2>3, FS_Subset
  <2>5. SumFunctionOnSet(one, At[d]) = Cardinality(At[d])
    BY <2>4, SumOnes
  <2> QED
    BY <2>2, <2>5
<1>11. Parted(C, k, D, At) /\ SumsOf(trades, one, At, D) /\ SumsOf(pnls, p, At, D)
  BY <1>7, <1>8, <1>10 DEF Parted, SumsOf
<1>12. SumFunctionOnSet(trades, D) = SumFunctionOnSet(one, C)
  <2>1. \A i \in C : one[i] \in Int
    BY <1>5
  <2>2. IsFiniteSet(C) /\ Parted(C, k, D, At) /\ SumsOf(trades, one, At, D)
    BY <1>3, <1>11
  <2> QED
    BY <1>4, <2>1, <2>2, SumParts
<1>13. SumFunctionOnSet(pnls, D) = SumFunctionOnSet(p, C)
  <2>1. IsFiniteSet(C) /\ Parted(C, k, D, At) /\ SumsOf(pnls, p, At, D)
    BY <1>3, <1>11
  <2> QED
    BY <1>4, <1>6, <2>1, SumParts
<1>14. SumFunctionOnSet(one, C) = Cardinality(C)
  BY <1>3, <1>5, SumOnes
<1> QED
  BY <1>2, <1>12, <1>13, <1>14 DEF C, p

\* The traders of a day add up to all its closes.
LEMMA TradersAddUp ==
    ASSUME FeedsInv, DailyInv, NEW date \in AllDates, \A tr \in Trader : date \notin cut[tr]
    PROVE  /\ protocol_trades(date) = Cardinality(UNION {ClosesOn(wal, ToldDays, tr, date) : tr \in Trader})
           /\ unique_traders_on_date(date) = {tr \in Trader : ClosesOn(wal, ToldDays, tr, date) # {}}
<1> DEFINE On(tr) == ClosesOn(wal, ToldDays, tr, date)
           U == UNION {On(tr) : tr \in Trader}
           one == [i \in U |-> 1]
           k == [i \in U |-> wal[i].trader]
           g == [tr \in Trader |-> IF date \in Dates(daily, tr) THEN daily[tr][date].trades ELSE 0]
           Of == [tr \in Trader |-> {i \in U : k[i] = tr}]
<1>1. wal \in Seq(Logged) /\ ToldDays \in 0..Len(wal) /\ Len(wal) \in Nat /\ IsFiniteSet(Trader)
  BY DaysThrough, FeedsAssumption DEF FeedsInv, FeedsTypes
<1>2. \A tr \in Trader : /\ IsFiniteSet(On(tr)) /\ Cardinality(On(tr)) \in Nat /\ On(tr) \subseteq 1..Len(wal)
                         /\ \A i \in On(tr) : wal[i].trader = tr
  <2> TAKE tr \in Trader
  <2>1. \A i \in ClosesIn(wal, ToldDays, tr) : wal[i].trader = tr
    BY DEF ClosesIn
  <2> QED
    BY <1>1, <2>1, ClosesFinite
<1>3. \A tr \in Trader : /\ date \in Dates(daily, tr) => daily[tr][date].trades = Cardinality(On(tr))
                         /\ date \notin Dates(daily, tr) => On(tr) = {}
  <2> TAKE tr \in Trader
  <2>1. DayOn(wal, ToldDays, tr, date).trades = Cardinality(On(tr))
    BY DEF DayOn
  <2>2. IF date \notin Dates(daily, tr) THEN On(tr) = {} ELSE daily[tr][date] = DayOn(wal, ToldDays, tr, date)
    BY DayMatches
  <2> HIDE DEF On
  <2> QED
    BY <2>1, <2>2
<1> HIDE DEF On
<1>4. \A tr \in Trader : Of[tr] = On(tr) /\ \A i : i \in Of[tr] <=> i \in U /\ k[i] = tr
  BY <1>2
<1>5. IsFiniteSet(U)
  <2>1. 1 \in Int /\ Len(wal) \in Int
    BY <1>1
  <2>2. IsFiniteSet(1..Len(wal))
    BY <2>1, FS_Interval
  <2>3. U \in SUBSET (1..Len(wal))
    BY <1>2
  <2> HIDE DEF U
  <2> QED
    BY <2>2, <2>3, FS_Subset
<1>6. \A i \in U : one[i] = 1 /\ one[i] \in Int
  OBVIOUS
<1>7. \A i \in U : k[i] \in Trader
  BY <1>2
<1>8. \A tr \in Trader : g[tr] = Cardinality(On(tr))
  <2>1. Cardinality({}) = 0
    BY FS_EmptySet
  <2> QED
    BY <1>3, <2>1
<1>9. protocol_trades(date) = SumFunctionOnSet(g, Trader)
  BY DEF protocol_trades
<1> HIDE DEF U, one, k, g, Of
<1>10. \A tr \in Trader : g[tr] = SumFunctionOnSet(one, Of[tr])
  <2> TAKE tr \in Trader
  <2>1. Of[tr] \in SUBSET U
    BY <1>4
  <2>2. IsFiniteSet(Of[tr]) /\ \A i \in Of[tr] : one[i] = 1
    BY <1>5, <1>6, <2>1, FS_Subset
  <2>3. SumFunctionOnSet(one, Of[tr]) = Cardinality(Of[tr])
    BY <2>2, SumOnes
  <2> QED
    BY <1>4, <1>8, <2>3
<1>11. Parted(U, k, Trader, Of) /\ SumsOf(g, one, Of, Trader)
  BY <1>4, <1>7, <1>10 DEF Parted, SumsOf
<1>12. SumFunctionOnSet(g, Trader) = SumFunctionOnSet(one, U)
  BY <1>1, <1>5, <1>6, <1>11, SumParts
<1>13. SumFunctionOnSet(one, U) = Cardinality(U)
  BY <1>5, <1>6, SumOnes
<1>14. protocol_trades(date) = Cardinality(U)
  BY <1>9, <1>12, <1>13
<1>15. \A tr \in Trader : date \in Dates(daily, tr) /\ daily[tr][date].trades > 0 <=> On(tr) # {}
  <2> TAKE tr \in Trader
  <2>1. Cardinality(On(tr)) = 0 <=> On(tr) = {}
    BY <1>2, FS_EmptySet
  <2>2. Cardinality(On(tr)) \in Nat
    BY <1>2
  <2> QED
    BY <1>3, <2>1, <2>2
<1>16. unique_traders_on_date(date) = {tr \in Trader : On(tr) # {}}
  BY <1>15 DEF unique_traders_on_date
<1> QED
  BY <1>14, <1>16 DEF U, On

\* The invariant gives the property.
LEMMA DailyHolds == FeedsInv /\ DailyInv => DailyMatches
<1> SUFFICES ASSUME FeedsInv, DailyInv PROVE DailyMatches
  OBVIOUS
<1>1. SizeAt = SizesOf(wal) /\ PnlAt = PnlsOf(wal) /\ DOMAIN wal = 1..Len(wal)
  <2>1. DOMAIN wal = 1..Len(wal)
    BY LenProperties DEF FeedsInv, FeedsTypes
  <2> QED
    BY <2>1 DEF SizeAt, PnlAt, SizesOf, PnlsOf
<1>2. ASSUME NEW tr \in Trader, NEW date \in AllDates \ cut[tr]
      PROVE  IF date \notin Dates(daily, tr) THEN Closes(tr, date) = {}
             ELSE daily[tr][date] = [volume |-> SumFunctionOnSet(SizeAt, Closes(tr, date)),
                                     pnl |-> SumFunctionOnSet(PnlAt, Closes(tr, date)),
                                     trades |-> Cardinality(Closes(tr, date))]
  <2>1. Closes(tr, date) = ClosesOn(wal, ToldDays, tr, date)
    BY ClosesAre
  <2>2. IF date \notin Dates(daily, tr) THEN ClosesOn(wal, ToldDays, tr, date) = {}
        ELSE daily[tr][date] = DayOn(wal, ToldDays, tr, date)
    BY DayMatches
  <2> QED
    BY <1>1, <2>1, <2>2 DEF DayOn
<1>3. ASSUME NEW tr \in Trader, indexer = "idle", cut[tr] = {}, stats[tr] # None
      PROVE  LET s == stats[tr]
                 fines == SumFunctionOnSet(SizeAt, {i \in DOMAIN wal : wal[i].kind = "Liquidation" /\ wal[i].trader = tr})
                 trades == [d \in Dates(daily, tr) |-> daily[tr][d].trades]
                 pnls == [d \in Dates(daily, tr) |-> daily[tr][d].pnl] IN
             /\ s.trades = SumFunctionOnSet(trades, Dates(daily, tr)) + s.liquidations
             /\ s.pnl = SumFunctionOnSet(pnls, Dates(daily, tr)) - fines
             /\ s.wins + s.losses + s.liquidations = s.trades
  <2> DEFINE trades == [d \in Dates(daily, tr) |-> daily[tr][d].trades]
             pnls == [d \in Dates(daily, tr) |-> daily[tr][d].pnl]
  <2>1. ToldDays = Len(wal) /\ ToldStats = Len(wal)
    BY <1>3 DEF ToldDays, ToldStats
  <2>2. RowHolds(stats[tr], wal, Len(wal), tr)
    BY <1>3, <2>1 DEF DailyInv, StatsHold
  <2>3. {i \in DOMAIN wal : wal[i].kind = "Liquidation" /\ wal[i].trader = tr} = FinesIn(wal, Len(wal), tr)
    BY <1>1 DEF FinesIn
  <2>4. /\ SumFunctionOnSet(trades, Dates(daily, tr)) = Cardinality(ClosesIn(wal, Len(wal), tr))
        /\ SumFunctionOnSet(pnls, Dates(daily, tr)) = SumFunctionOnSet(PnlsOf(wal), ClosesIn(wal, Len(wal), tr))
    BY <1>3, <2>1, DaysAddUp
  <2> HIDE DEF trades, pnls
  <2>5. /\ stats[tr].trades = SumFunctionOnSet(trades, Dates(daily, tr)) + stats[tr].liquidations
        /\ stats[tr].pnl = SumFunctionOnSet(pnls, Dates(daily, tr)) - SumFunctionOnSet(SizeAt, FinesIn(wal, Len(wal), tr))
        /\ stats[tr].wins + stats[tr].losses + stats[tr].liquidations = stats[tr].trades
    BY <1>1, <2>2, <2>4 DEF RowHolds
  <2> QED
    BY <2>3, <2>5 DEF trades, pnls
<1>4. ASSUME NEW date \in AllDates, \A tr \in Trader : date \notin cut[tr]
      PROVE  /\ protocol_trades(date) = Cardinality(UNION {Closes(tr, date) : tr \in Trader})
             /\ unique_traders_on_date(date) = {tr \in Trader : Closes(tr, date) # {}}
  <2>1. \A tr \in Trader : Closes(tr, date) = ClosesOn(wal, ToldDays, tr, date)
    BY ClosesAre
  <2>2. /\ UNION {Closes(tr, date) : tr \in Trader} = UNION {ClosesOn(wal, ToldDays, tr, date) : tr \in Trader}
        /\ {tr \in Trader : Closes(tr, date) # {}} = {tr \in Trader : ClosesOn(wal, ToldDays, tr, date) # {}}
    BY <2>1
  <2> QED
    BY <1>4, <2>2, TradersAddUp
<1> QED
  BY <1>2, <1>3, <1>4 DEF DailyMatches

\* Through every interleaving, snapshot() and open(), the days of a trader are
\* exactly the closes of those days of the calendar, the lifetime statistics their
\* sum with the liquidations, and the protocol's day the sum over its traders.
THEOREM DailyExact == FeedsSpec => []DailyMatches
<1> QED
  BY FeedsInvariance, DailyInvariance, DailyHolds, PTL

=============================================================================
