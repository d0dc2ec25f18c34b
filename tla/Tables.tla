------------------------------- MODULE Tables -------------------------------
(***************************************************************************)
(* The tables of state/positions.rs, state/orders.rs and state/balances.rs *)
(* under concurrent callers.  Each keeps rows in a DashMap and ids in a     *)
(* second map, by user and for positions also by market; the order table   *)
(* adds a book of the active orders.  A call takes several locks one after *)
(* the other, and each stretch under one lock is a step here.              *)
(*                                                                         *)
(* A behaviour is about one of the three tables, variable table.  An index *)
(* key is a user or a market.  An order's place in the book is its market, *)
(* side and price, which no call changes: the book is how often each order *)
(* is at its place.  The id of a balance is its user and token.  The       *)
(* collateral events of engine.rs read a balance in one call and set it in *)
(* the next: deposits and withdrawals of one unit are callers here too.    *)
(***************************************************************************)
EXTENDS Naturals, Sequences, SequencesExt, Functions

CONSTANTS
    Thread,   \* callers that write
    Id,       \* row ids
    Owner,    \* id -> user
    Level,    \* id -> market of a position
    Kinds,    \* the tables to look at
    MaxCall,  \* bound: writing calls
    MaxRead   \* bound: calls of by_user(), by_market() and user_balances()

User == {Owner[id] : id \in Id}
Place == {Level[id] : id \in Id}
Key == User \cup Place

ASSUME TablesAssumption ==
    /\ Owner \in [Id -> User]
    /\ Level \in [Id -> Place]
    /\ User \cap Place = {}
    /\ Kinds \subseteq {"PositionTable", "OrderTable", "BalanceCache"}
    /\ MaxCall \in Nat
    /\ MaxRead \in Nat

VARIABLES
    table,     \* which of the three tables this is
    rows,      \* id -> "Absent", "Live" (open or active) or "Ended"
    index,     \* by_user, by_market, user_tokens: some keys -> set of ids
    book,      \* order -> how many copies of its id the book has
    amount,    \* balance -> its amount, 0 without a row
    holds,     \* thread -> the amount its call is about to set
    pc,        \* thread -> the steps its call has still to do
    guards,    \* keys whose index entry a caller keeps locked between steps
    reader,    \* the call of by_user() or by_market() under way
    raced,     \* history: keys and ids on which a removal, or the end of an order,
               \* overlapped another writing call
    replaced,  \* history: orders inserted again while the book held them, until the book
               \* has let go of them
    mixed,     \* history: balances on which two writing calls overlapped
    ledger,    \* history: what the calls so far come to, one after the other
    calls, reads  \* counters for the bounds

store == <<rows, index, book, amount>>
bounds == <<calls, reads>>
vars == <<table, store, holds, pc, guards, reader, raced, replaced, mixed, ledger, bounds>>

\* The index keys of a row, in the order the calls visit them.
KeysOf(id) == IF table = "PositionTable" THEN <<Owner[id], Level[id]>> ELSE <<Owner[id]>>

Idle(t) == pc[t] = <<>>
Step(t) == Head(pc[t]).step
Row(t) == Head(pc[t]).id
StepKey(t) == Head(pc[t]).key
NoKey == "none"
At(step, id) == [step |-> step, id |-> id, key |-> NoKey]
AtKey(step, id, k) == [step |-> step, id |-> id, key |-> k]
Proceed(t) == pc' = [pc EXCEPT ![t] = Tail(@)]

NoRead == [on |-> FALSE, key |-> NoKey, todo |-> {}, got |-> {}, must |-> {}]

Init ==
    /\ table \in Kinds
    /\ rows = [id \in Id |-> "Absent"]
    /\ index = [k \in {} |-> {}]
    /\ book = [id \in Id |-> 0]
    /\ amount = [id \in Id |-> 0] /\ ledger = [id \in Id |-> 0]
    /\ holds = [t \in Thread |-> 0]
    /\ pc = [t \in Thread |-> <<>>]
    /\ guards = {}
    /\ reader = NoRead
    /\ raced = {} /\ replaced = {} /\ mixed = {}
    /\ calls = 0 /\ reads = 0

-----------------------------------------------------------------------------
(* The calls, as the steps they are made of.                               *)

InsertKeys(id) == [i \in DOMAIN KeysOf(id) |-> AtKey("AddToIndex", id, KeysOf(id)[i])]
KeySteps(id, k) == <<AtKey("RemoveFromIndex", id, k), AtKey("RemoveKey", id, k)>>
IndexSteps(id) ==
    KeySteps(id, Owner[id]) \o (IF table = "PositionTable" THEN KeySteps(id, Level[id]) ELSE <<>>)

\* insert(): row, indexes, and for an active order the book.  set() of the
\* balance cache does the index first.
InsertSteps(id, status) ==
    CASE table = "PositionTable" -> <<At(status, id)>> \o InsertKeys(id)
      [] table = "OrderTable" -> <<At(status, id)>> \o InsertKeys(id)
                                 \o (IF status = "Live" THEN <<At("AddToBook", id)>> ELSE <<>>)
      [] table = "BalanceCache" -> InsertKeys(id) \o <<At(status, id)>>

\* remove(): what follows once the row is out, which had this status.
AfterRemove(id, status) ==
    IndexSteps(id) \o (IF table = "OrderTable" /\ status = "Live" THEN <<At("RemoveFromBook", id)>> ELSE <<>>)

\* What a call of t on row id touches, and what makes two calls a race: one
\* removes and they share an index key, or one removes or ends the row that
\* both are about.
Removal(t) == \E i \in DOMAIN pc[t] : pc[t][i].step \in {"RemoveRow", "RemoveFromIndex", "RemoveKey"}
Ending(t) == Removal(t) \/ \E i \in DOMAIN pc[t] : pc[t][i].step \in {"EndRow", "RemoveFromBook"}
Races(id, removes, ends) ==
    LET others == {u \in Thread : ~Idle(u)} IN
    (UNION {ToSet(KeysOf(id)) \cap ToSet(KeysOf(Row(u))) : u \in {v \in others : removes \/ Removal(v)}})
    \cup {Row(u) : u \in {v \in others : Row(v) = id /\ (ends \/ Ending(v))}}

Begin(t, id, steps, removes, ends) ==
    /\ Idle(t)
    /\ calls < MaxCall
    /\ calls' = calls + 1
    /\ pc' = [pc EXCEPT ![t] = steps]
    /\ raced' = raced \cup Races(id, removes, ends)
    /\ mixed' = IF table = "BalanceCache" /\ \E u \in Thread : ~Idle(u) /\ Row(u) = id
                THEN mixed \cup {id} ELSE mixed
    /\ UNCHANGED <<table, store, guards, reads>>

\* One unit comes or goes; a withdrawal stops at zero.
Moved(op, n) == CASE op = "deposit" -> n + 1 [] op = "withdraw" -> IF n = 0 THEN 0 ELSE n - 1

\* What a call comes to in the ledger.
Book(id, n) == ledger' = IF table = "BalanceCache" THEN [ledger EXCEPT ![id] = n] ELSE ledger

\* A row comes as live; only orders, restored from a snapshot, tell the difference.
Status == IF table = "OrderTable" THEN {"Live", "Ended"} ELSE {"Live"}

\* insert(), set() or set_raw() of a row with this status; a balance is set
\* to one unit.
insert(t, id, status) ==
    /\ Begin(t, id, InsertSteps(id, status), FALSE, FALSE)
    /\ replaced' = IF table = "OrderTable" /\ (\/ book[id] > 0
                                               \/ \E u \in Thread : ~Idle(u) /\ Row(u) = id)
                   THEN replaced \cup {id} ELSE replaced
    /\ holds' = IF table = "BalanceCache" THEN [holds EXCEPT ![t] = 1] ELSE holds
    /\ Book(id, 1)
    /\ UNCHANGED reader

\* process_event() of CollateralDeposited or CollateralWithdrawn: get(), then
\* set_raw().
transfer(t, id, op) ==
    /\ table = "BalanceCache"
    /\ Begin(t, id, <<At(op, id)>> \o InsertSteps(id, "Live"), FALSE, FALSE)
    /\ Book(id, Moved(op, ledger[id]))
    /\ UNCHANGED <<reader, replaced, holds>>

\* remove().  A read that is under way need not see the row any more.
remove(t, id) ==
    /\ Begin(t, id, <<At("RemoveRow", id)>>, TRUE, TRUE)
    /\ reader' = [reader EXCEPT !.must = @ \ {id}]
    /\ Book(id, 0)
    /\ UNCHANGED <<replaced, holds>>

\* cancel() and execute() of an order, update() of the other tables.
end(t, id) ==
    /\ Begin(t, id, <<At("EndRow", id)>>, FALSE, TRUE)
    /\ UNCHANGED <<reader, replaced, holds, ledger>>

-----------------------------------------------------------------------------
(* The steps of a writing call.                                            *)

\* What the index has under a key, and the index with another set there.
Listed(k) == IF k \in DOMAIN index THEN index[k] ELSE {}
WithSet(k, ids) == [j \in DOMAIN index \cup {k} |-> IF j = k THEN ids ELSE index[j]]

StepRest == <<table, reader, raced, mixed, ledger, bounds>>

\* Mutant: the user's balances are taken together.
MutReadBalance(t) ==
    /\ ~Idle(t) /\ Step(t) \in {"deposit", "withdraw"}
    /\ holds' = [holds EXCEPT ![t] = Moved(Step(t), SumFunctionOnSet(amount, {id \in Id : Owner[id] = Owner[Row(t)]}))]
    /\ Proceed(t)
    /\ UNCHANGED <<store, guards, replaced, StepRest>>

\* balances.get(), and the new amount; without a row a deposit starts from
\* zero and a withdrawal sets zero.
ReadBalance(t) ==
    /\ ~Idle(t) /\ Step(t) \in {"deposit", "withdraw"}
    /\ holds' = [holds EXCEPT ![t] = Moved(Step(t), amount[Row(t)])]
    /\ Proceed(t)
    /\ UNCHANGED <<store, guards, replaced, StepRest>>

\* positions.insert(), orders.insert(), balances.insert()
InsertRow(t) ==
    /\ ~Idle(t) /\ Step(t) \in {"Live", "Ended"}
    /\ rows' = [rows EXCEPT ![Row(t)] = Step(t)]
    /\ amount' = [amount EXCEPT ![Row(t)] = holds[t]]
    /\ holds' = [holds EXCEPT ![t] = 0]
    /\ Proceed(t)
    /\ UNCHANGED <<index, book, guards, replaced, StepRest>>

\* entry(key).or_insert_with(HashSet::new).insert(id)
AddToIndex(t) ==
    /\ ~Idle(t) /\ Step(t) = "AddToIndex"
    /\ StepKey(t) \notin guards
    /\ index' = WithSet(StepKey(t), Listed(StepKey(t)) \cup {Row(t)})
    /\ Proceed(t)
    /\ UNCHANGED <<rows, book, guards, amount, holds, replaced, StepRest>>

\* add_bid() and add_ask(): push.
AddToBook(t) ==
    /\ ~Idle(t) /\ Step(t) = "AddToBook"
    /\ book' = [book EXCEPT ![Row(t)] = @ + 1]
    /\ Proceed(t)
    /\ UNCHANGED <<rows, index, guards, amount, holds, replaced, StepRest>>

\* The row leaves its map; without one the call returns None.
RemoveRow(t) ==
    /\ ~Idle(t) /\ Step(t) = "RemoveRow"
    /\ rows' = [rows EXCEPT ![Row(t)] = "Absent"]
    /\ amount' = [amount EXCEPT ![Row(t)] = 0]
    /\ pc' = [pc EXCEPT ![t] = IF rows[Row(t)] = "Absent" THEN <<>>
                               ELSE AfterRemove(Row(t), rows[Row(t)])]
    /\ UNCHANGED <<index, book, guards, holds, replaced, StepRest>>

\* Mutant: the guard is not dropped before the key is removed.
MutKeepsGuard(t) ==
    LET k == StepKey(t)
        left == Listed(k) \ {Row(t)} IN
    /\ ~Idle(t) /\ Step(t) = "RemoveFromIndex"
    /\ k \notin guards
    /\ index' = IF k \in DOMAIN index THEN WithSet(k, left) ELSE index
    /\ pc' = [pc EXCEPT ![t] = IF k \in DOMAIN index /\ left = {} THEN Tail(@) ELSE Tail(Tail(@))]
    /\ guards' = IF k \in DOMAIN index /\ left = {} THEN guards \cup {k} ELSE guards
    /\ UNCHANGED <<rows, book, amount, holds, replaced, StepRest>>

\* Mutant: the key is removed whether or not its set is empty.
MutDropsAlways(t) ==
    LET k == StepKey(t) IN
    /\ ~Idle(t) /\ Step(t) = "RemoveFromIndex"
    /\ k \notin guards
    /\ index' = IF k \in DOMAIN index THEN WithSet(k, Listed(k) \ {Row(t)}) ELSE index
    /\ Proceed(t)
    /\ UNCHANGED <<rows, book, guards, amount, holds, replaced, StepRest>>

\* get_mut(key) and set.remove(id), when there is a set.  One that is now
\* empty is dropped by the next step, after the guard.
RemoveFromIndex(t) ==
    LET k == StepKey(t)
        left == Listed(k) \ {Row(t)} IN
    /\ ~Idle(t) /\ Step(t) = "RemoveFromIndex"
    /\ k \notin guards
    /\ index' = IF k \in DOMAIN index THEN WithSet(k, left) ELSE index
    /\ pc' = [pc EXCEPT ![t] = IF k \in DOMAIN index /\ left = {} THEN Tail(@) ELSE Tail(Tail(@))]
    /\ UNCHANGED <<rows, book, guards, amount, holds, replaced, StepRest>>

\* The key goes, with whatever its set holds by now.
RemoveKey(t) ==
    /\ ~Idle(t) /\ Step(t) = "RemoveKey"
    /\ StepKey(t) \notin guards
    /\ index' = [k \in DOMAIN index \ {StepKey(t)} |-> index[k]]
    /\ Proceed(t)
    /\ UNCHANGED <<rows, book, guards, amount, holds, replaced, StepRest>>

\* The new status under the lock of the row; the book only when the order
\* was active until now.
EndRow(t) ==
    /\ ~Idle(t) /\ Step(t) = "EndRow"
    /\ rows' = [rows EXCEPT ![Row(t)] = IF @ = "Absent" THEN @ ELSE "Ended"]
    /\ pc' = [pc EXCEPT ![t] = IF table = "OrderTable" /\ rows[Row(t)] = "Live"
                               THEN <<At("RemoveFromBook", Row(t))>> ELSE <<>>]
    /\ UNCHANGED <<index, book, amount, guards, holds, replaced, StepRest>>

\* Mutant: one copy is taken.
MutRemoveFromBook(t) ==
    /\ ~Idle(t) /\ Step(t) = "RemoveFromBook"
    /\ book' = [book EXCEPT ![Row(t)] = IF @ > 0 THEN @ - 1 ELSE 0]
    /\ replaced' = replaced \ {Row(t)}
    /\ Proceed(t)
    /\ UNCHANGED <<rows, index, guards, amount, holds, StepRest>>

\* remove_from_orderbook(): retain() takes every copy.
RemoveFromBook(t) ==
    /\ ~Idle(t) /\ Step(t) = "RemoveFromBook"
    /\ book' = [book EXCEPT ![Row(t)] = 0]
    /\ replaced' = replaced \ {Row(t)}
    /\ Proceed(t)
    /\ UNCHANGED <<rows, index, guards, amount, holds, StepRest>>

-----------------------------------------------------------------------------
(* A reader: by_user(), by_market(), user_balances().                      *)

Touches(t, k) == ~Idle(t) /\ k \in ToSet(KeysOf(Row(t)))
Members(k) == {id \in Id : rows[id] # "Absent" /\ k \in ToSet(KeysOf(id))}

\* index.get(key): the guard stays for the whole call.  The call must return
\* the rows whose insert was over, unless a removal comes.
BeginRead(k) ==
    /\ ~reader.on /\ reads < MaxRead
    /\ \E id \in Id : k \in ToSet(KeysOf(id))
    /\ k \notin guards
    /\ reader' = [on |-> TRUE, key |-> k, todo |-> Listed(k), got |-> {},
                  must |-> {id \in Members(k) : k \notin raced /\ \A t \in Thread : ~Idle(t) => Row(t) # id}]
    /\ guards' = guards \cup {k}
    /\ reads' = reads + 1
    /\ UNCHANGED <<table, store, holds, pc, raced, replaced, mixed, ledger, calls>>

\* Mutant: the first id without a row ends the iteration.
MutReadRow(id) ==
    /\ reader.on /\ id \in reader.todo
    /\ reader' = IF rows[id] = "Absent" THEN [reader EXCEPT !.todo = {}]
                 ELSE [reader EXCEPT !.todo = @ \ {id}, !.got = @ \cup {id}]
    /\ UNCHANGED <<table, store, holds, pc, guards, raced, replaced, mixed, ledger, bounds>>

\* The row of the next id, when it is there; filter_map() skips the others.
ReadRow(id) ==
    /\ reader.on /\ id \in reader.todo
    /\ reader' = [reader EXCEPT !.todo = @ \ {id},
                                !.got = IF rows[id] = "Absent" THEN @ ELSE @ \cup {id}]
    /\ UNCHANGED <<table, store, holds, pc, guards, raced, replaced, mixed, ledger, bounds>>

EndRead ==
    /\ reader.on /\ reader.todo = {}
    /\ reader' = NoRead
    /\ guards' = guards \ {reader.key}
    /\ UNCHANGED <<table, store, holds, pc, raced, replaced, mixed, ledger, bounds>>

Continue(t) ==
    \/ InsertRow(t) \/ AddToIndex(t) \/ AddToBook(t)
    \/ RemoveRow(t) \/ RemoveFromIndex(t) \/ RemoveKey(t)
    \/ EndRow(t) \/ RemoveFromBook(t)
    \/ ReadBalance(t)

Read == EndRead \/ \E id \in Id : ReadRow(id)

Next ==
    \/ \E t \in Thread, id \in Id :
         \/ \E status \in Status : insert(t, id, status)
         \/ \E op \in {"deposit", "withdraw"} : transfer(t, id, op)
         \/ remove(t, id)
         \/ end(t, id)
    \/ \E t \in Thread : Continue(t)
    \/ \E k \in Key : BeginRead(k)
    \/ Read

\* Every thread that is inside a call runs on: the locks are those of the
\* steps and the reader's guard, and no caller waits for anything else.
Fairness == WF_vars(Read) /\ \A t \in Thread : WF_vars(Continue(t))

Spec == Init /\ [][Next]_vars /\ Fairness

-----------------------------------------------------------------------------
(* Properties.                                                             *)

\* Every variable has its type, and the one guard held between two steps is
\* the reader's.
TypeOK ==
    /\ table \in Kinds
    /\ rows \in [Id -> {"Absent", "Live", "Ended"}]
    /\ DOMAIN index \subseteq Key /\ \A k \in DOMAIN index : index[k] \subseteq Id
    /\ book \in [Id -> Nat]
    /\ \A t \in Thread : ~Idle(t) => Row(t) \in Id /\ StepKey(t) \in Key \cup {NoKey}
    /\ guards = IF reader.on THEN {reader.key} ELSE {}
    /\ reader.todo \subseteq Id /\ reader.got \subseteq Id /\ reader.must \subseteq Id
    /\ raced \subseteq Key \cup Id /\ replaced \subseteq Id /\ mixed \subseteq Id
    /\ amount \in [Id -> Nat] /\ ledger \in [Id -> Nat] /\ holds \in [Thread -> Nat]
    /\ calls \in 0..MaxCall /\ reads \in 0..MaxRead

\* The indexes catch up with the rows: when nobody writes under a key, it
\* lists exactly the rows it should and no empty set is left behind (user_count()
\* counts the keys), unless a removal once overlapped another write under that
\* same key.  Calls under other keys, and inserts or updates
\* under this one, never disturb it.  (The index then never catches up, as
\* its comment says it does: IndexesCatchUp.)
IndexExact ==
    \A k \in Key \ raced : (\A t \in Thread : ~Touches(t, k)) =>
        Listed(k) = Members(k) /\ (k \in DOMAIN index => Members(k) # {})

\* The book holds each active order once and no other, when no call on the
\* order is under way; not so after a cancellation, execution or removal ran
\* into another call on the order.  An order that was inserted again while the
\* book had it is there more than once, but a cancellation, execution or removal
\* takes every copy and the book is exact from then on.
BookExact ==
    table = "OrderTable" =>
        \A id \in Id \ (raced \cup replaced) :
            (\A t \in Thread : ~Idle(t) => Row(t) # id) =>
                book[id] = IF rows[id] = "Live" THEN 1 ELSE 0

\* A balance is what its deposits, withdrawals and settings come to, when no
\* call on it is under way.  Reading and writing it back in two calls loses an
\* update only to another call on the same balance that it overlapped; calls
\* on the same user's other tokens, removals among them, never cost one.
BalanceExact ==
    table = "BalanceCache" =>
        \A id \in Id \ mixed : (\A t \in Thread : ~Idle(t) => Row(t) # id) => amount[id] = ledger[id]

\* A read returns every row that was completely there when it began and that
\* nobody removed before it ended, whatever is written meanwhile.
ReadComplete == reader.on /\ reader.todo = {} => reader.must \subseteq reader.got

\* Every call returns: no thread waits for a guard for ever.
CallsReturn == \A t \in Thread : ~Idle(t) ~> Idle(t)

-----------------------------------------------------------------------------
(* What the comments say, and the code does not keep.                      *)

\* PositionTable takes concurrent reads and writes without external
\* synchronization and calls its indexes eventually consistent.  An insert
\* that adds its id to a set that a removal has just found empty loses it when
\* the removal drops the set: the index never catches up.
IndexesCatchUp ==
    \A k \in Key : (\A t \in Thread : ~Touches(t, k)) => Listed(k) = Members(k)

=============================================================================
