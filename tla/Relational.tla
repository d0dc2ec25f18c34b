----------------------------- MODULE Relational -----------------------------
(***************************************************************************)
(* The stores of relational/ under concurrent callers: users.rs with the   *)
(* tiers of referrals.rs, alerts.rs, api_keys.rs and competitions.rs.      *)
(* Each keeps rows in a DashMap beside a map from a code to an id          *)
(* (by_referral_code, by_hash), lists of ids per user (by_user), or the    *)
(* entries of a competition, and a call visits them one after the other.   *)
(*                                                                         *)
(* A behaviour is about one store; about the user store there are two      *)
(* kinds, with the calls on codes and with the calls on referrals.  Each   *)
(* stretch under one lock is a step; a guard that a call keeps from one    *)
(* step to the next locks the whole map, as it does when all keys fall     *)
(* into one shard.                                                         *)
(***************************************************************************)
EXTENDS Naturals, Sequences, FiniteSets, SequencesExt, FiniteSetsExt

CONSTANTS
    Thread,   \* callers
    User,     \* addresses
    Code,     \* referral codes, or the hashes of API keys
    MaxId,    \* ids of alerts, API keys and competitions are 1..MaxId
    Stores,   \* the stores to look at
    Tiers,    \* tables of referral tiers that set_tiers() may bring
    None,     \* an Option without a value
    MaxCall,  \* bound: store -> calls
    MaxScan   \* bound: calls of referral_count()

ASSUME RelationalAssumption ==
    /\ Stores \subseteq {"UserStore", "Referrals", "AlertStore", "ApiKeyStore", "CompetitionStore"}
    /\ None \notin User \cup Code
    /\ None \notin [owner : User \cup {None}, code : Code \cup {None}, referred_by : User \cup {None}]
    /\ IsFiniteSet(User)
    /\ Tiers \subseteq Seq([min_referrals : Nat, min_volume : Nat])
    /\ {MaxId, MaxScan} \subseteq Nat /\ MaxCall \in [Stores -> Nat]

VARIABLES
    store,    \* which store this is
    rows,     \* users, primary, competitions: id -> row or None
    codes,    \* by_referral_code, by_hash: some codes -> id
    lists,    \* by_user: user -> id -> how often the user's list has it
    entries,  \* competition -> its entries in the order of joining
    next_id,  \* of the next alert
    tiers,    \* the table of ReferralEngine
    pc,       \* thread -> the steps its call has still to do
    shared, exclusive,  \* thread -> maps it keeps a read or write guard of
    scan,     \* the call of referral_count() under way
    given, reused,   \* history: ids inserted, and ids inserted again
    odd,      \* history: ids on which two writing calls overlapped
    stained,  \* history: codes that two calls, users or keys laid hands on, or that an
              \* insert took off a row
    calls, scans     \* counters for the bounds

maps == <<rows, codes, lists, entries>>
guards == <<shared, exclusive>>
history == <<given, reused, odd, stained>>
vars == <<store, maps, next_id, tiers, pc, guards, scan, history, calls, scans>>

Users == {"UserStore", "Referrals"}

Ids == IF store \in Users THEN User ELSE 1..MaxId

Row(owner, code) == [owner |-> owner, code |-> code, referred_by |-> None]

\* A step of a call: on this row, with this code and this user.
S(op, id, code, user) == [op |-> op, id |-> id, code |-> code, user |-> user]

NoScan == [on |-> FALSE, of |-> None, todo |-> {}, got |-> 0, must |-> {}, may |-> {}]

\* The tiers of a new ReferralEngine; volumes in 100k USD.
Tier(referrals, volume) == [min_referrals |-> referrals, min_volume |-> volume]
DEFAULT_TIERS == <<Tier(0, 0), Tier(5, 1), Tier(20, 10), Tier(50, 100)>>

Init ==
    /\ store \in Stores
    /\ rows = [id \in Ids |-> None]
    /\ codes = [c \in {} |-> None]
    /\ lists = [u \in User |-> [id \in Ids |-> 0]]
    /\ entries = [id \in Ids |-> <<>>]
    /\ next_id = 1
    /\ tiers = DEFAULT_TIERS
    /\ pc = [t \in Thread |-> <<>>]
    /\ shared = [t \in Thread |-> {}] /\ exclusive = [t \in Thread |-> {}]
    /\ scan = NoScan
    /\ given = {} /\ reused = {} /\ odd = {} /\ stained = {}
    /\ calls = 0 /\ scans = 0

-----------------------------------------------------------------------------
(* Locks, and the two histories of calls that overlap.                     *)

CanRead(m) == \A u \in Thread : m \notin exclusive[u]
CanWrite(m) == \A u \in Thread : m \notin exclusive[u] \cup shared[u]

CodesOf(steps) == {steps[i].code : i \in DOMAIN steps} \ {None}
Writing(steps) == steps # <<>> /\ Head(steps).op \notin {"LookUp", "LookUpList", "GetRow"}

Pairs(p) == {q \in Thread \X Thread : q[1] # q[2] /\ Writing(p[q[1]]) /\ Writing(p[q[2]])}
SameRow(p) == {q \in Pairs(p) : Head(p[q[1]]).id = Head(p[q[2]]).id}
OddIn(p) == {Head(p[q[1]]).id : q \in SameRow(p)}
StainedIn(p) ==
    (UNION {CodesOf(p[q[1]]) \cup {rows[id].code : id \in {j \in {Head(p[q[1]]).id} : rows[j] # None}} : q \in SameRow(p)})
    \cup (UNION {CodesOf(p[q[1]]) \cap CodesOf(p[q[2]]) : q \in Pairs(p)})

\* Thread t goes on with these steps; without any, it drops its guards.
Goto(t, steps) ==
    /\ pc' = [pc EXCEPT ![t] = steps]
    /\ odd' = odd \cup OddIn(pc')

DropGuards(t, steps) ==
    IF steps # <<>> THEN UNCHANGED guards
    ELSE shared' = [shared EXCEPT ![t] = {}] /\ exclusive' = [exclusive EXCEPT ![t] = {}]

Busy(t, op) == pc[t] # <<>> /\ Head(pc[t]).op = op
Arg(t) == Head(pc[t])

-----------------------------------------------------------------------------
(* The calls, as the steps they are made of.                               *)

CallRest == <<store, maps, tiers, guards, scan, scans>>

Begin(t, steps) ==
    /\ pc[t] = <<>> /\ calls < MaxCall[store]
    /\ calls' = calls + 1
    /\ Goto(t, steps)
    /\ stained' = stained \cup StainedIn(pc')
    /\ UNCHANGED CallRest

Give(id) ==
    /\ given' = given \cup {id}
    /\ reused' = IF id \in given THEN reused \cup {id} ELSE reused

\* A call that inserts no row of its own id.
Call(t, steps) == Begin(t, steps) /\ UNCHANGED <<given, reused, next_id>>

\* UserStore::upsert(): the code first, unless there is none.
upsert(t, u, c) ==
    /\ store = "UserStore"
    /\ Call(t, (IF c = None THEN <<>> ELSE <<S("AddCode", u, c, None)>>) \o <<S("PutRow", u, c, u)>>)

\* update(), of which set_referral_code() is the one that changes the code; an
\* empty code is None.
set_referral_code(t, u, c) ==
    /\ store = "UserStore" /\ Call(t, <<S("UpdateRow", u, c, None)>>)

ensure(t, u) ==
    /\ store \in Users /\ Call(t, <<S("EnsureRow", u, None, None), S("Touch", u, None, None)>>)

set_referred_by(t, u, r) ==
    /\ store = "Referrals" /\ Call(t, <<S("Refer", u, None, r)>>)

\* set_vault(), set_enabled(), update_triggered(), touch_last_used()
touch(t, id) ==
    /\ store \in {"AlertStore", "ApiKeyStore"} \cup Users /\ Call(t, <<S("Touch", id, None, None)>>)

\* AlertStore::insert(): fetch_add(), the row, the list.
insert_alert(t, u) ==
    /\ store = "AlertStore" /\ next_id <= MaxId
    /\ next_id' = next_id + 1
    /\ Give(next_id)
    /\ Begin(t, <<S("PutRow", next_id, None, u), S("Push", next_id, None, u)>>)

set_next_id(n) ==
    /\ store = "AlertStore" /\ calls < MaxCall[store]
    /\ calls' = calls + 1
    /\ next_id' = n
    /\ UNCHANGED <<CallRest, pc, history>>

\* ApiKeyStore::insert(): the hash, the list, and the row at last.
insert_key(t, id, u, c) ==
    /\ store = "ApiKeyStore"
    /\ Give(id)
    /\ Begin(t, <<S("AddCode", id, c, None), S("Push", id, None, u), S("PutRow", id, c, u)>>)
    /\ UNCHANGED next_id

insert_competition(t, id) ==
    /\ store = "CompetitionStore" /\ Call(t, <<S("PutRow", id, None, None)>>)

join(t, id, u) ==
    /\ store = "CompetitionStore" /\ Call(t, <<S("CheckRow", id, None, u)>>)

update_score(t, id, u) ==
    /\ store = "CompetitionStore" /\ Call(t, <<S("Score", id, None, u)>>)

\* remove() of the first three stores.
remove(t, id) ==
    /\ store # "CompetitionStore" /\ Call(t, <<S("RemoveRow", id, None, None)>>)

remove_by_user_and_id(t, u, id) ==
    /\ store \in {"AlertStore", "ApiKeyStore"} /\ Call(t, <<S("CheckOwner", id, None, u)>>)

\* by_referral_code(), get_by_hash(): the guard of the code stays for the row.
by_code(t, c) ==
    /\ store \in {"UserStore", "ApiKeyStore"} /\ Call(t, <<S("LookUp", None, c, None)>>)

\* by_user(): the guard of the list stays for the rows.
by_user(t, u) ==
    /\ store \in {"AlertStore", "ApiKeyStore"} /\ Call(t, <<S("LookUpList", None, None, u)>>)

-----------------------------------------------------------------------------
(* The steps of a call.                                                    *)

\* The step is done: the other steps follow, and nothing but the maps changes.
Then(t, steps) ==
    /\ Goto(t, steps)
    /\ DropGuards(t, steps)
    /\ UNCHANGED <<store, next_id, tiers, given, reused, calls, scans>>

NowStained(more) == stained' = stained \cup StainedIn(pc') \cup more

\* What referral_count() must and may still count, when row id changes.
Recount(id) ==
    scan' = IF scan.on THEN [scan EXCEPT !.must = IF rows'[id] # None /\ rows'[id].referred_by = scan.of THEN @ ELSE @ \ {id},
                                         !.may = IF rows'[id] # None /\ rows'[id].referred_by = scan.of THEN @ \cup {id} ELSE @]
            ELSE scan

\* users.insert(), primary.insert(), competitions.insert().  A code on the row
\* that was there stays in its map.
PutRow(t) ==
    LET a == Arg(t) IN
    /\ Busy(t, "PutRow") /\ CanWrite("rows")
    /\ rows' = [rows EXCEPT ![a.id] = Row(a.user, a.code)]
    /\ Recount(a.id)
    /\ Then(t, Tail(pc[t]))
    /\ NowStained({rows[id].code : id \in {j \in {a.id} : rows[j] # None}} \ {a.code, None})
    /\ UNCHANGED <<codes, lists, entries>>

\* A code that belongs to another row changes hands.
AddCode(t) ==
    LET a == Arg(t) IN
    /\ Busy(t, "AddCode") /\ CanWrite("codes")
    /\ codes' = [c \in DOMAIN codes \cup {a.code} |-> IF c = a.code THEN a.id ELSE codes[c]]
    /\ Then(t, Tail(pc[t]))
    /\ NowStained({c \in DOMAIN codes : c = a.code /\ codes[c] # a.id})
    /\ UNCHANGED <<rows, lists, entries, scan>>

DropCode(t) ==
    /\ Busy(t, "DropCode") /\ CanWrite("codes")
    /\ codes' = [c \in DOMAIN codes \ {Arg(t).code} |-> codes[c]]
    /\ Then(t, Tail(pc[t]))
    /\ NowStained({})
    /\ UNCHANGED <<rows, lists, entries, scan>>

\* The codes that follow a new code on a row.
CodeSteps(id, old, new) ==
    IF old = new THEN <<>>
    ELSE (IF old = None THEN <<>> ELSE <<S("DropCode", id, old, None)>>)
         \o (IF new = None THEN <<>> ELSE <<S("AddCode", id, new, None)>>)

\* update(): the row under its guard, which goes before the codes are touched.
UpdateRow(t) ==
    LET a == Arg(t) IN
    /\ Busy(t, "UpdateRow") /\ CanWrite("rows")
    /\ rows' = IF rows[a.id] = None THEN rows ELSE [rows EXCEPT ![a.id].code = a.code]
    /\ Then(t, IF rows[a.id] = None THEN <<>> ELSE CodeSteps(a.id, rows[a.id].code, a.code))
    /\ NowStained({})
    /\ UNCHANGED <<codes, lists, entries, scan>>

\* Mutant: the guard of the entry lives to the end of ensure(), which locks the
\* row once more.
MutEnsureRow(t) ==
    /\ Busy(t, "EnsureRow") /\ CanWrite("rows")
    /\ rows' = IF rows[Arg(t).id] = None THEN [rows EXCEPT ![Arg(t).id] = Row(Arg(t).id, None)] ELSE rows
    /\ Goto(t, Tail(pc[t]))
    /\ exclusive' = [exclusive EXCEPT ![t] = {"rows"}]
    /\ NowStained({})
    /\ UNCHANGED <<store, next_id, tiers, given, reused, calls, scans, shared, codes, lists, entries, scan>>

\* entry().or_insert_with(): its guard goes before get_mut() locks the row.
EnsureRow(t) ==
    /\ Busy(t, "EnsureRow") /\ CanWrite("rows")
    /\ rows' = IF rows[Arg(t).id] = None THEN [rows EXCEPT ![Arg(t).id] = Row(Arg(t).id, None)] ELSE rows
    /\ Then(t, Tail(pc[t]))
    /\ NowStained({})
    /\ UNCHANGED <<codes, lists, entries, scan>>

\* get_mut(), and a field of the row that no other state depends on.
Touch(t) ==
    /\ Busy(t, "Touch") /\ CanWrite("rows")
    /\ Then(t, Tail(pc[t]))
    /\ NowStained({})
    /\ UNCHANGED <<maps, scan>>

Refer(t) ==
    /\ Busy(t, "Refer") /\ CanWrite("rows")
    /\ rows' = IF rows[Arg(t).id] = None THEN rows ELSE [rows EXCEPT ![Arg(t).id].referred_by = Arg(t).user]
    /\ Recount(Arg(t).id)
    /\ Then(t, Tail(pc[t]))
    /\ NowStained({})
    /\ UNCHANGED <<codes, lists, entries>>

\* Mutant: the address is not compared.
MutCheckOwner(t) ==
    LET a == Arg(t) IN
    /\ Busy(t, "CheckOwner") /\ CanRead("rows")
    /\ Then(t, IF rows[a.id] # None THEN <<S("RemoveRow", a.id, None, a.user)>> ELSE <<>>)
    /\ NowStained({})
    /\ UNCHANGED <<maps, scan>>

\* remove_by_user_and_id(): the guard of the row goes before remove() is called.
CheckOwner(t) ==
    LET a == Arg(t) IN
    /\ Busy(t, "CheckOwner") /\ CanRead("rows")
    /\ Then(t, IF rows[a.id] # None /\ rows[a.id].owner = a.user THEN <<S("RemoveRow", a.id, None, a.user)>> ELSE <<>>)
    /\ NowStained({})
    /\ UNCHANGED <<maps, scan>>

\* Mutant: the hash of a removed key stays in its map.
MutAfterRemove(id, row) ==
    CASE store \in Users -> IF row.code = None THEN <<>> ELSE <<S("DropCode", id, row.code, None)>>
      [] store = "AlertStore" -> <<S("Retain", id, None, row.owner)>>
      [] store = "ApiKeyStore" -> <<S("Retain", id, None, row.owner)>>

\* What remove() does once the row is out.
AfterRemove(id, row) ==
    CASE store \in Users -> IF row.code = None THEN <<>> ELSE <<S("DropCode", id, row.code, None)>>
      [] store = "AlertStore" -> <<S("Retain", id, None, row.owner)>>
      [] store = "ApiKeyStore" -> <<S("DropCode", id, row.code, None), S("Retain", id, None, row.owner)>>

RemoveRow(t) ==
    LET id == Arg(t).id IN
    /\ Busy(t, "RemoveRow") /\ CanWrite("rows")
    /\ rows' = [rows EXCEPT ![id] = None]
    /\ Recount(id)
    /\ Then(t, IF rows[id] = None THEN <<>> ELSE AfterRemove(id, rows[id]))
    /\ NowStained({})
    /\ UNCHANGED <<codes, lists, entries>>

\* by_user.entry(user).or_default().push(id)
Push(t) ==
    /\ Busy(t, "Push") /\ CanWrite("lists")
    /\ lists' = [lists EXCEPT ![Arg(t).user][Arg(t).id] = @ + 1]
    /\ Then(t, Tail(pc[t]))
    /\ NowStained({})
    /\ UNCHANGED <<rows, codes, entries, scan>>

\* by_user.entry(user).and_modify(): retain() takes every copy.
Retain(t) ==
    /\ Busy(t, "Retain") /\ CanWrite("lists")
    /\ lists' = [lists EXCEPT ![Arg(t).user][Arg(t).id] = 0]
    /\ Then(t, Tail(pc[t]))
    /\ NowStained({})
    /\ UNCHANGED <<rows, codes, entries, scan>>

-----------------------------------------------------------------------------
(* Competitions.                                                           *)

\* competitions.contains_key()
CheckRow(t) ==
    LET a == Arg(t) IN
    /\ Busy(t, "CheckRow") /\ CanRead("rows")
    /\ Then(t, IF rows[a.id] = None THEN <<>>
               ELSE <<S("JoinEntry", a.id, None, a.user), S("Push", a.id, None, a.user)>>)
    /\ NowStained({})
    /\ UNCHANGED <<maps, scan>>

Joined(id, u) == \E i \in DOMAIN entries[id] : entries[id][i].user = u

\* Mutant: whether the user has joined is not looked at under the guard.
MutJoinEntry(t) ==
    LET a == Arg(t) IN
    /\ Busy(t, "JoinEntry") /\ CanWrite("entries")
    /\ entries' = [entries EXCEPT ![a.id] = Append(@, [user |-> a.user, score |-> 0])]
    /\ Goto(t, Tail(pc[t]))
    /\ exclusive' = [exclusive EXCEPT ![t] = {"entries"}]
    /\ NowStained({})
    /\ UNCHANGED <<store, next_id, tiers, given, reused, calls, scans, shared, rows, codes, lists, scan>>

\* The guard of the entries stays for the push to the user's list.
JoinEntry(t) ==
    LET a == Arg(t) IN
    /\ Busy(t, "JoinEntry") /\ CanWrite("entries")
    /\ IF Joined(a.id, a.user)
       THEN Goto(t, <<>>) /\ UNCHANGED <<entries, exclusive>>
       ELSE /\ entries' = [entries EXCEPT ![a.id] = Append(@, [user |-> a.user, score |-> 0])]
            /\ Goto(t, Tail(pc[t]))
            /\ exclusive' = [exclusive EXCEPT ![t] = {"entries"}]
    /\ NowStained({})
    /\ UNCHANGED <<store, next_id, tiers, given, reused, calls, scans, shared, rows, codes, lists, scan>>

\* iter_mut().find(): the user's entry, when there is one.
Score(t) ==
    LET a == Arg(t) IN
    /\ Busy(t, "Score") /\ CanWrite("entries")
    /\ entries' = [entries EXCEPT ![a.id] = [i \in DOMAIN @ |-> IF @[i].user = a.user THEN [@[i] EXCEPT !.score = 1] ELSE @[i]]]
    /\ Then(t, Tail(pc[t]))
    /\ NowStained({})
    /\ UNCHANGED <<rows, codes, lists, scan>>

-----------------------------------------------------------------------------
(* Reads that keep a guard.                                                *)

Look(t, m, ids) ==
    LET steps == [i \in DOMAIN ids |-> S("GetRow", ids[i], None, None)] IN
    /\ CanRead(m)
    /\ Goto(t, steps)
    /\ shared' = [shared EXCEPT ![t] = IF steps = <<>> THEN {} ELSE {m}]
    /\ NowStained({})
    /\ UNCHANGED <<store, next_id, tiers, given, reused, calls, scans, exclusive, maps, scan>>

LookUp(t) ==
    Busy(t, "LookUp") /\ Look(t, "codes", IF Arg(t).code \in DOMAIN codes THEN <<codes[Arg(t).code]>> ELSE <<>>)

LookUpList(t) ==
    Busy(t, "LookUpList") /\ Look(t, "lists", SetToSeq({id \in Ids : lists[Arg(t).user][id] > 0}))

GetRow(t) ==
    /\ Busy(t, "GetRow") /\ CanRead("rows")
    /\ Then(t, Tail(pc[t]))
    /\ NowStained({})
    /\ UNCHANGED <<maps, scan>>

-----------------------------------------------------------------------------
(* Referral tiers.                                                         *)

ScanRest == <<store, maps, next_id, pc, guards, history, calls>>

\* set_tiers() takes &mut self: nobody else holds the engine.
set_tiers(ts) ==
    /\ store = "Referrals" /\ ~scan.on
    /\ tiers' = ts
    /\ UNCHANGED <<ScanRest, scan, scans>>

\* referral_count() goes over the rows one by one.
BeginScan(r) ==
    /\ store = "Referrals" /\ ~scan.on /\ scans < MaxScan
    /\ scans' = scans + 1
    /\ LET now == {id \in Ids : rows[id] # None /\ rows[id].referred_by = r} IN
       scan' = [on |-> TRUE, of |-> r, todo |-> Ids, got |-> 0, must |-> now, may |-> now]
    /\ UNCHANGED <<ScanRest, tiers>>

ScanRow(id) ==
    /\ scan.on /\ id \in scan.todo /\ CanRead("rows")
    /\ scan' = [scan EXCEPT !.todo = @ \ {id},
                            !.got = IF rows[id] # None /\ rows[id].referred_by = scan.of THEN @ + 1 ELSE @]
    /\ UNCHANGED <<ScanRest, tiers, scans>>

EndScan ==
    /\ scan.on /\ scan.todo = {}
    /\ scan' = NoScan
    /\ UNCHANGED <<ScanRest, tiers, scans>>

Qualified(ts, n, v) == {i \in DOMAIN ts : n >= ts[i].min_referrals /\ v >= ts[i].min_volume}

\* Mutant: the table is walked from its start.
Mut_compute_tier(ts, n, v) == LET ok == Qualified(ts, n, v) IN ts[IF ok = {} THEN 1 ELSE Min(ok)]

\* The last tier the user qualifies for, or else the first of the table.
compute_tier(ts, n, v) == LET ok == Qualified(ts, n, v) IN ts[IF ok = {} THEN 1 ELSE Max(ok)]

-----------------------------------------------------------------------------
Continue(t) ==
    \/ PutRow(t) \/ AddCode(t) \/ DropCode(t) \/ UpdateRow(t) \/ EnsureRow(t) \/ Touch(t) \/ Refer(t)
    \/ CheckOwner(t) \/ RemoveRow(t) \/ Push(t) \/ Retain(t)
    \/ CheckRow(t) \/ JoinEntry(t) \/ Score(t)
    \/ LookUp(t) \/ LookUpList(t) \/ GetRow(t)

Scan == EndScan \/ \E id \in Ids : ScanRow(id)

Start(t) ==
    \/ \E u \in User :
         \/ \E c \in Code \cup {None} : upsert(t, u, c)
         \/ \E c \in Code \cup {None} : set_referral_code(t, u, c)
         \/ \E r \in User : set_referred_by(t, u, r)
         \/ ensure(t, u)
         \/ insert_alert(t, u)
         \/ \E id \in Ids : \/ \E c \in Code : insert_key(t, id, u, c)
                            \/ join(t, id, u) \/ update_score(t, id, u) \/ remove_by_user_and_id(t, u, id)
         \/ by_user(t, u)
    \/ \E id \in Ids : touch(t, id) \/ remove(t, id) \/ insert_competition(t, id)
    \/ \E c \in Code : by_code(t, c)

Next ==
    \/ \E t \in Thread : Start(t) \/ Continue(t)
    \/ \E n \in 1..MaxId : set_next_id(n)
    \/ \E ts \in Tiers : set_tiers(ts)
    \/ \E r \in User : BeginScan(r)
    \/ Scan

\* Every thread inside a call runs on.
Fairness == WF_vars(Scan) /\ \A t \in Thread : WF_vars(Continue(t))

Spec == Init /\ [][Next]_vars /\ Fairness

-----------------------------------------------------------------------------
(* Properties.                                                             *)

About(t, id) == Writing(pc[t]) /\ Arg(t).id = id
Has(id, c) == rows[id] # None /\ rows[id].code = c

\* A referral code or key hash leads to the row that carries it, and to no row
\* that does not, when no call about it is under way.  It does not hold for a
\* code that went to a second row, that upsert() or a repeated insert() took
\* off a row, or about which two calls overlapped: the map then may keep or
\* lose the code for good, against the comments of upsert() and of the store:
\* UpsertUpdatesIndex, CodesFindRows.
CodesExact ==
    \A c \in Code \ stained : (\A t \in Thread : c \notin CodesOf(pc[t])) =>
        {id \in Ids : Has(id, c)} = {codes[d] : d \in DOMAIN codes \cap {c}}

\* A user's list names each of the user's alerts or keys once and no other, and
\* each competition the user has an entry in once, when no call about it is
\* under way.  Alerts and keys are excepted whose id was used again or met
\* two overlapping calls; entries of competitions never are.
ListsExact ==
    \A id \in Ids, u \in User : (\A t \in Thread : ~About(t, id)) =>
        CASE store \in Users -> TRUE
          [] store = "CompetitionStore" ->
                lists[u][id] = Cardinality({i \in DOMAIN entries[id] : entries[id][i].user = u})
                /\ lists[u][id] <= 1
          [] OTHER -> id \in odd \cup reused
                      \/ lists[u][id] = IF rows[id] # None /\ rows[id].owner = u THEN 1 ELSE 0

\* remove_by_user_and_id() looks at the owner and removes in two calls, and
\* still removes nobody else's alert or key whatever comes in between, as long
\* as ids are not used again.
OwnerOnly ==
    \A t \in Thread : Busy(t, "RemoveRow") =>
        LET a == Arg(t) IN
        a.user = None \/ a.id \in reused \/ rows[a.id] = None \/ rows[a.id].owner = a.user

\* The referrals that a user has for certain, and could have, bound the tier:
\* counting row by row while users come, go and change their referrer gives
\* the best tier of some number between the two, for a volume at, below or
\* above each threshold.
TierBetween ==
    scan.on /\ scan.todo = {} =>
        \A v \in {tiers[i].min_volume : i \in DOMAIN tiers} \cup {0, 5, 200} : \E n \in Cardinality(scan.must)..Cardinality(scan.may) :
            LET best == {i \in Qualified(tiers, n, v) : \A j \in Qualified(tiers, n, v) : j <= i} IN
            compute_tier(tiers, scan.got, v) = tiers[CHOOSE i \in IF best = {} THEN {1} ELSE best : TRUE]

\* Every call returns.
CallsReturn == \A t \in Thread : pc[t] # <<>> ~> pc[t] = <<>>

-----------------------------------------------------------------------------
(* What the comments say, and the code does not keep.                      *)

AllBack == \A t \in Thread : pc[t] = <<>>

\* "Insert or replace a user. Updates referral code index.": between calls, a
\* code of the index leads to a row that carries it.  upsert() adds the new
\* code of a user and leaves the old one, which a single caller sees.
UpsertUpdatesIndex == AllBack => \A c \in DOMAIN codes : Has(codes[c], c)

\* "concurrent reads/writes without external synchronization": between calls,
\* the code of a row leads to the row.  upsert() writes the code before the row
\* and update() the row before the codes, each under a lock of its own: of two
\* calls on a user, one may write the row last and the other the codes, and the
\* code the row has is gone for good.  (For one user: a code that a second user
\* takes is another matter.)
CodesFindRows ==
    AllBack => \A id \in Ids : rows[id] # None /\ rows[id].code # None =>
        rows[id].code \in DOMAIN codes /\ codes[rows[id].code] = id

=============================================================================
