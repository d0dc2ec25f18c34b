-------------------------- MODULE RelationalProofs --------------------------
(* Proofs about Relational: owners, codes, lists and tiers under           *)
(* concurrent calls.                                                       *)
EXTENDS Relational, SequenceTheorems, FiniteSetTheorems, NaturalsInduction, WellFoundedInduction, TLAPS

-----------------------------------------------------------------------------
(* The plans: what a call can have left to do.                             *)

Kinds == {"UserStore", "Referrals", "AlertStore", "ApiKeyStore", "CompetitionStore"}
Own == {"AlertStore", "ApiKeyStore"}
Maps == {"rows", "codes", "lists", "entries"}

ReadOps == {"LookUp", "LookUpList", "GetRow"}
WriteOps == {"PutRow", "AddCode", "DropCode", "UpdateRow", "EnsureRow", "Touch", "Refer", "CheckOwner", "RemoveRow",
             "Push", "Retain", "CheckRow", "JoinEntry", "Score"}

\* The rows of this store.
Rows == [owner : IF store = "CompetitionStore" THEN {None} ELSE User,
         code : IF store \in Users THEN Code \cup {None} ELSE IF store = "ApiKeyStore" THEN Code ELSE {None},
         referred_by : User \cup {None}]

\* What an operation asks of its step.
Fits(s) ==
    /\ s.op = "PutRow" => Row(s.user, s.code) \in Rows
    /\ s.op \in {"AddCode", "DropCode"} => s.code \in Code
    /\ s.op \notin {"PutRow", "AddCode", "DropCode", "UpdateRow"} => s.code = None
    /\ s.op \in {"UpdateRow", "EnsureRow", "Refer"} => store \in Users
    /\ s.op \in {"Refer", "CheckOwner", "Push", "Retain", "CheckRow", "JoinEntry", "Score"} => s.user \in User
    /\ s.op \in {"CheckOwner", "Retain"} => store \in Own
    /\ s.op = "RemoveRow" => store # "CompetitionStore"
    /\ s.op = "RemoveRow" /\ s.user # None => store \in Own
    /\ s.op = "Push" => store \notin Users
    /\ s.op \in {"CheckRow", "JoinEntry", "Score"} => store = "CompetitionStore"

Steps == [op : WriteOps, id : Ids, code : Code \cup {None}, user : User \cup {None}]
StepsOn(id) == {s \in Steps : s.id = id /\ Fits(s)}

\* This step may be the last of its call; these two may.
Ends(s) == s.op \notin {"EnsureRow", "JoinEntry"} /\ ~(s.op = "PutRow" /\ store = "AlertStore")
EndPair(a, b) ==
    \/ a.op = "AddCode" /\ b.op = "PutRow" /\ a.code = b.code /\ store # "AlertStore"
    \/ a.op = "DropCode" /\ b.op = "AddCode" /\ a.code # b.code
    \/ a.op = "EnsureRow" /\ b.op = "Touch"
    \/ a.op = "PutRow" /\ b.op = "Push" /\ a.user = b.user /\ store = "AlertStore"
    \/ a.op = "Push" /\ b.op = "PutRow" /\ a.user = b.user /\ store = "ApiKeyStore"
    \/ a.op = "DropCode" /\ b.op = "Retain"
    \/ a.op = "JoinEntry" /\ b.op = "Push" /\ a.user = b.user
EndThree(a, b, c) ==
    /\ a.op = "AddCode" /\ b.op = "Push" /\ c.op = "PutRow"
    /\ a.code = c.code /\ b.user = c.user /\ store = "ApiKeyStore"

Plan(p, id) ==
    \/ \E a \in StepsOn(id) : Ends(a) /\ p = <<a>>
    \/ \E a, b \in StepsOn(id) : EndPair(a, b) /\ p = <<a, b>>
    \/ \E a, b, c \in StepsOn(id) : EndThree(a, b, c) /\ p = <<a, b, c>>

ReadSteps == [op : ReadOps, id : Ids \cup {None}, code : Code \cup {None}, user : User \cup {None}]

Plans == Seq(ReadSteps) \cup {p \in Seq(Steps) : \E id \in Ids : Plan(p, id)}

\* What thread t has still to write, in a state where p are the calls.
Work(p, t) == {s \in ToSet(p[t]) : s.op \in WriteOps}

-----------------------------------------------------------------------------
(* The inductive invariant.                                                *)

Entry == [user : User, score : {0, 1}]
Entries == Seq(Entry)
TierSet == [min_referrals : Nat, min_volume : Nat]
Scans == [on : BOOLEAN, of : User \cup {None}, todo : SUBSET Ids, got : Nat, must : SUBSET Ids, may : SUBSET Ids]

Types ==
    /\ store \in Kinds /\ store \in Stores
    /\ rows \in [Ids -> Rows \cup {None}]
    /\ DOMAIN codes \subseteq Code /\ \A c \in DOMAIN codes : codes[c] \in Ids
    /\ lists \in [User -> [Ids -> Nat]]
    /\ entries \in [Ids -> Entries]
    /\ next_id \in Nat \ {0}
    /\ tiers \in Seq(TierSet)
    /\ pc \in [Thread -> Plans]
    /\ exclusive \in [Thread -> SUBSET Maps]
    /\ scan \in Scans

\* An id never given has no row and no call that inserts it; one given once has
\* no row as long as the one call that inserts it has not done so.
Given ==
    \A id \in Ids \ given : rows[id] = None /\ \A t \in Thread : \A s \in Work(pc, t) : s.op = "PutRow" => s.id # id
Once ==
    \A id \in Ids \ reused, t \in Thread : \A s \in Work(pc, t) : s.op = "PutRow" /\ s.id = id =>
        /\ rows[id] = None
        /\ \A u \in Thread : \A r \in Work(pc, u) : r.op = "PutRow" /\ r.id = id => u = t

\* A row that a user is about to remove is the user's, or out already, and will
\* not be inserted.
Aimed ==
    \A t \in Thread : \A s \in Work(pc, t) : s.op = "RemoveRow" /\ s.user # None =>
        /\ s.id \in given
        /\ s.id \in reused \/ /\ rows[s.id] = None \/ rows[s.id].owner = s.user
                              /\ \A u \in Thread : \A r \in Work(pc, u) : r.op = "PutRow" => r.id # s.id

Owned == store \in Own => Given /\ Once /\ Aimed

\* What referral_count() has counted is some rows it has been to: with every
\* one of them that had to be counted, and none that could not be.
Now == {id \in Ids : rows[id] # None /\ rows[id].referred_by = scan.of}
Seen(seen) ==
    /\ seen \subseteq Ids \ scan.todo
    /\ Cardinality(seen) = scan.got
    /\ scan.must \ scan.todo \subseteq seen /\ seen \subseteq scan.may
Scanned ==
    scan.on => /\ store = "Referrals" /\ scan.of \in User
               /\ scan.must \subseteq Now /\ Now \subseteq scan.may
               /\ \E seen \in SUBSET Ids : Seen(seen)

\* Two calls on one row or one code leave it stained.
Apart ==
    \A t, u \in Thread : t # u => \A s \in Work(pc, t), r \in Work(pc, u) :
        /\ s.code = r.code => s.code \in stained \cup {None}
        /\ s.id = r.id => /\ s.code \in stained \cup {None}
                          /\ rows[s.id] = None \/ rows[s.id].code \in stained \cup {None}

\* The rows that carry a code, and the row its map names, by what the one call
\* on the code has still to do.
HasSet(c) == {id \in Ids : Has(id, c)}
CodeSet(c) == {codes[d] : d \in DOMAIN codes \cap {c}}
CodeBy(s, steps, has, named) ==
    /\ s.op = "UpdateRow" => has = named
    /\ s.op = "AddCode" /\ (\E r \in steps : r.op = "PutRow") => has = named
    /\ s.op = "AddCode" /\ (\A r \in steps : r.op # "PutRow") => has = named \cup {s.id}
    /\ s.op = "PutRow" /\ (\A r \in steps : r.op # "AddCode") => named = {s.id} /\ has \subseteq {s.id}
    /\ s.op = "DropCode" => has = {}
CodeAt(c) ==
    /\ (\A t \in Thread : \A s \in Work(pc, t) : s.code # c) => HasSet(c) = CodeSet(c)
    /\ \A t \in Thread : \A s \in Work(pc, t) : s.code = c => CodeBy(s, Work(pc, t), HasSet(c), CodeSet(c))

Coded == \A c \in Code \ stained : CodeAt(c)

\* A user who has joined a competition has it on the list, or a call that holds
\* the entries is about to put it there.
Pends(t, s) == s \in Work(pc, t) /\ s.op = "Push" /\ \A r \in Work(pc, t) : r.op # "JoinEntry"
OneEntry(id) == \A i, j \in DOMAIN entries[id] : entries[id][i].user = entries[id][j].user => i = j
Pending(id, u) == \E t \in Thread : \E s \in Work(pc, t) : Pends(t, s) /\ s.id = id /\ s.user = u
Holding ==
    \A t \in Thread : \A s \in Work(pc, t) : Pends(t, s) =>
        /\ "entries" \in exclusive[t] /\ Joined(s.id, s.user)
        /\ \A u \in Thread : \A r \in Work(pc, u) : Pends(u, r) => u = t
Joins ==
    store = "CompetitionStore" =>
        /\ \A id \in Ids : OneEntry(id)
        /\ Holding
        /\ \A id \in Ids, u \in User : lists[u][id] = IF Joined(id, u) /\ ~Pending(id, u) THEN 1 ELSE 0

\* Two calls on one row make it odd.
Single == \A t, u \in Thread : t # u => \A s \in Work(pc, t), r \in Work(pc, u) : s.id = r.id => s.id \in odd

\* Whose list has an id, by what the one call on it has still to do.
Column(id) == [u \in User |-> lists[u][id]]
OnlyIn(col, u) == \A v \in User : col[v] = IF v = u THEN 1 ELSE 0
NoList(col) == \A v \in User : col[v] = 0
Synced(row, col) == IF row = None THEN NoList(col) ELSE OnlyIn(col, row.owner)
ListBy(s, steps, row, col) ==
    /\ s.op = "PutRow" => row = None
    /\ s.op = "PutRow" /\ (\E r \in steps : r.op = "Push") => NoList(col)
    /\ s.op = "PutRow" /\ (\A r \in steps : r.op # "Push") => OnlyIn(col, s.user)
    /\ s.op = "Push" /\ (\A r \in steps : r.op # "PutRow") => row # None /\ row.owner = s.user /\ NoList(col)
    /\ s.op = "Retain" => row = None /\ OnlyIn(col, s.user)
Listing == {"Push", "Retain", "PutRow"}
ListAt(id) ==
    /\ (\A t \in Thread : \A s \in Work(pc, t) : s.id = id => s.op \notin Listing) => Synced(rows[id], Column(id))
    /\ \A t \in Thread : \A s \in Work(pc, t) : s.id = id => ListBy(s, Work(pc, t), rows[id], Column(id))

Listed == store \in Own => \A id \in Ids \ (odd \cup reused) : ListAt(id)

Inv == Types /\ Owned /\ Scanned /\ Apart /\ Coded /\ Joins /\ Single /\ Listed

-----------------------------------------------------------------------------
(* Plans and their steps.                                                  *)

\* One step, two or three.
LEMMA OneStep ==
    ASSUME NEW a
    PROVE  /\ Head(<<a>>) = a /\ Tail(<<a>>) = <<>> /\ <<a>> # <<>>
           /\ ToSet(<<a>>) = {a} /\ ToSet(<<>>) = {}
BY DEF ToSet

\* The same for two steps.
LEMMA TwoSteps ==
    ASSUME NEW a, NEW b
    PROVE  /\ Head(<<a, b>>) = a /\ Tail(<<a, b>>) = <<b>> /\ <<a, b>> # <<>>
           /\ ToSet(<<a, b>>) = {a, b}
BY DEF ToSet

\* The same for three steps.
LEMMA ThreeSteps ==
    ASSUME NEW a, NEW b, NEW c
    PROVE  /\ Head(<<a, b, c>>) = a /\ Tail(<<a, b, c>>) = <<b, c>> /\ <<a, b, c>> # <<>>
           /\ ToSet(<<a, b, c>>) = {a, b, c}
BY DEF ToSet

\* A step is what S() makes of its fields.
LEMMA StepIs ==
    ASSUME NEW op, NEW id, NEW code, NEW user
    PROVE  /\ S(op, id, code, user).op = op /\ S(op, id, code, user).id = id
           /\ S(op, id, code, user).code = code /\ S(op, id, code, user).user = user
           /\ id \in Ids /\ op \in WriteOps /\ code \in Code \cup {None} /\ user \in User \cup {None} =>
                S(op, id, code, user) \in Steps
BY DEF S, Steps

\* What the proofs need to know of a plan p on row id: its steps and where the
\* next one leaves it, and which steps can follow.
ShapeOf(p, id) ==
    /\ p # <<>> /\ Head(p) \in ToSet(p) /\ ToSet(p) \subseteq StepsOn(id)
    /\ Tail(p) = <<>> \/ Plan(Tail(p), id)
    /\ ToSet(Tail(p)) = ToSet(p) \ {Head(p)}

Followers(a, rest) ==
    /\ a.op \notin {"PutRow", "AddCode", "DropCode", "EnsureRow", "Push", "JoinEntry"} => rest = {}
    /\ a.op = "PutRow" /\ store # "AlertStore" => rest = {}
    /\ a.op = "PutRow" /\ store = "AlertStore" => \E s \in rest : s.op = "Push"
    /\ a.op = "JoinEntry" => \E s \in rest : s.op = "Push"
    /\ a.op = "Push" /\ store = "ApiKeyStore" => \A s \in rest : s.op = "PutRow" /\ s.user = a.user
    /\ \A s \in rest :
         /\ a.op = "PutRow" => s.op = "Push" /\ s.user = a.user
         /\ a.op = "AddCode" => s.op = "Push" \/ (s.op = "PutRow" /\ s.code = a.code)
         /\ a.op = "DropCode" => s.op = "Retain" \/ (s.op = "AddCode" /\ s.code # a.code)
         /\ a.op = "Push" => s.op = "PutRow" /\ store = "ApiKeyStore"
         /\ a.op = "EnsureRow" => s.op = "Touch"
         /\ a.op = "JoinEntry" => s.op = "Push" /\ s.user = a.user

PlanFacts(p, id) == ShapeOf(p, id) /\ Followers(Head(p), ToSet(Tail(p)))

\* A plan of one step.
LEMMA PlansOfOne ==
    ASSUME NEW id, NEW a \in StepsOn(id), Ends(a)
    PROVE  PlanFacts(<<a>>, id)
<1> DEFINE p == <<a>>
<1>1. p # <<>> /\ Head(p) = a /\ Tail(p) = <<>> /\ ToSet(p) = {a} /\ ToSet(Tail(p)) = {}
  BY OneStep
<1> HIDE DEF p
<1>2. ShapeOf(p, id)
  BY <1>1 DEF ShapeOf
<1>3. Followers(a, {})
  BY DEF Followers, Ends, StepsOn, Steps
<1> QED
  BY <1>1, <1>2, <1>3 DEF PlanFacts, p

\* A plan of two steps.
LEMMA PlansOfTwo ==
    ASSUME NEW id, NEW a \in StepsOn(id), NEW b \in StepsOn(id), EndPair(a, b)
    PROVE  PlanFacts(<<a, b>>, id)
<1> DEFINE p == <<a, b>>
           q == <<b>>
<1>1. p # <<>> /\ Head(p) = a /\ Tail(p) = q /\ ToSet(p) = {a, b} /\ ToSet(q) = {b}
  BY OneStep, TwoSteps
<1>2. Ends(b)
  BY DEF EndPair, Ends, StepsOn, Fits, Users, Kinds
<1>3. Plan(q, id)
  BY <1>2 DEF Plan
<1>4. a # b
  BY DEF EndPair
<1>5. Followers(a, {b})
  BY DEF Followers, EndPair, StepsOn, Fits, Users
<1> HIDE DEF p, q
<1>6. ShapeOf(p, id)
  BY <1>1, <1>3, <1>4 DEF ShapeOf
<1> QED
  BY <1>1, <1>5, <1>6 DEF PlanFacts, p

\* A plan of three steps: the insert of a key.
LEMMA PlansOfThree ==
    ASSUME NEW id, NEW a \in StepsOn(id), NEW b \in StepsOn(id), NEW c \in StepsOn(id), EndThree(a, b, c)
    PROVE  PlanFacts(<<a, b, c>>, id)
<1> DEFINE p == <<a, b, c>>
           q == <<b, c>>
<1>1. p # <<>> /\ Head(p) = a /\ Tail(p) = q /\ ToSet(p) = {a, b, c}
  BY ThreeSteps
<1>0. ToSet(q) = {b, c}
  BY TwoSteps
<1>2. Plan(q, id)
  BY DEF Plan, EndPair, EndThree
<1>3. a # b /\ a # c
  BY DEF EndThree
<1>4. Followers(a, {b, c})
  BY DEF Followers, EndThree
<1> HIDE DEF p, q
<1>5. ShapeOf(p, id)
  BY <1>0, <1>1, <1>2, <1>3 DEF ShapeOf
<1> QED
  BY <1>0, <1>1, <1>4, <1>5 DEF PlanFacts, p

\* Every plan has these facts.
LEMMA PlansAreGood ==
    ASSUME NEW id, NEW p, Plan(p, id)
    PROVE  PlanFacts(p, id)
BY PlansOfOne, PlansOfTwo, PlansOfThree DEF Plan

\* The operations that write are not those that read.
LEMMA OpsApart == ReadOps \cap WriteOps = {}
BY DEF ReadOps, WriteOps

\* A plan is a sequence of steps that write, all on its row.
LEMMA PlanIn ==
    ASSUME NEW id \in Ids, NEW p, Plan(p, id)
    PROVE  /\ p \in Plans /\ p # <<>>
           /\ \A s \in ToSet(p) : s \in StepsOn(id) /\ s.op \in WriteOps /\ s.id = id
           /\ {s \in ToSet(p) : s.op \in WriteOps} = ToSet(p)
<1>1. ShapeOf(p, id)
  BY PlansAreGood DEF PlanFacts
<1>2. \A s \in StepsOn(id) : s \in Steps /\ s.op \in WriteOps /\ s.id = id
  BY DEF StepsOn, Steps
<1>3. p \in Seq(Steps)
  <2>1. ASSUME NEW a \in StepsOn(id), p = <<a>> PROVE p \in Seq(Steps)
    BY <1>2, <2>1
  <2>2. ASSUME NEW a \in StepsOn(id), NEW b \in StepsOn(id), p = <<a, b>> PROVE p \in Seq(Steps)
    BY <1>2, <2>2
  <2>3. ASSUME NEW a \in StepsOn(id), NEW b \in StepsOn(id), NEW c \in StepsOn(id), p = <<a, b, c>>
        PROVE  p \in Seq(Steps)
    BY <1>2, <2>3
  <2> QED
    BY <2>1, <2>2, <2>3 DEF Plan
<1> QED
  BY <1>1, <1>2, <1>3 DEF ShapeOf, Plans

\* A call whose next step writes follows a plan.
LEMMA WritersPlan ==
    ASSUME NEW p \in Plans, p # <<>>, Head(p).op \notin ReadOps
    PROVE  \E id \in Ids : Plan(p, id)
<1>1. p \notin Seq(ReadSteps)
  <2> SUFFICES ASSUME p \in Seq(ReadSteps) PROVE FALSE
    OBVIOUS
  <2>1. Head(p) \in ReadSteps
    OBVIOUS
  <2> QED
    BY <2>1 DEF ReadSteps
<1> QED
  BY <1>1 DEF Plans

\* A call that reads, or that is over, has nothing left to write.
LEMMA ReadersWork ==
    ASSUME NEW p \in Plans, p = <<>> \/ Head(p).op \in ReadOps
    PROVE  p \in Seq(ReadSteps) /\ {s \in ToSet(p) : s.op \in WriteOps} = {}
<1>1. p \in Seq(ReadSteps)
  <2> SUFFICES ASSUME NEW id \in Ids, Plan(p, id) PROVE FALSE
    BY DEF Plans
  <2>1. p # <<>> /\ Head(p) \in ToSet(p) /\ \A s \in ToSet(p) : s.op \in WriteOps
    BY PlanIn, PlansAreGood DEF PlanFacts, ShapeOf
  <2> QED
    BY <2>1, OpsApart
<1>2. ASSUME NEW s \in ToSet(p) PROVE s.op \notin WriteOps
  <2>1. PICK i \in DOMAIN p : s = p[i]
    BY DEF ToSet
  <2>2. s \in ReadSteps
    BY <1>1, <2>1
  <2> QED
    BY <2>2, OpsApart DEF ReadSteps
<1> QED
  BY <1>1, <1>2

\* What is left to write by a thread that follows a plan.
LEMMA Worker ==
    ASSUME NEW p \in [Thread -> Plans], NEW t \in Thread, NEW s \in Work(p, t)
    PROVE  /\ p[t] # <<>> /\ Head(p[t]).op \notin ReadOps /\ Head(p[t]) \in Work(p, t)
           /\ s.id \in Ids /\ Plan(p[t], s.id) /\ Work(p, t) = ToSet(p[t])
           /\ \A r \in Work(p, t) : r \in StepsOn(s.id) /\ r.id = s.id
<1>0. p[t] \in Plans
  OBVIOUS
<1>1. p[t] # <<>> /\ Head(p[t]).op \notin ReadOps
  BY <1>0, ReadersWork DEF Work
<1>2. PICK id \in Ids : Plan(p[t], id)
  BY <1>0, <1>1, WritersPlan
<1>3. /\ \A r \in ToSet(p[t]) : r \in StepsOn(id) /\ r.id = id
      /\ Work(p, t) = ToSet(p[t])
  BY <1>2, PlanIn DEF Work
<1>4. s.id = id
  BY <1>3
<1>5. Head(p[t]) \in ToSet(p[t])
  BY <1>2, PlansAreGood DEF PlanFacts, ShapeOf
<1> QED
  BY <1>1, <1>2, <1>3, <1>4, <1>5

\* Two calls that overlap on a row or on a code are in the histories.
LEMMA Overlaps ==
    ASSUME NEW p \in [Thread -> Plans], NEW t \in Thread, NEW u \in Thread, t # u,
           NEW s \in Work(p, t), NEW r \in Work(p, u)
    PROVE  /\ s.code = r.code => s.code \in StainedIn(p) \cup {None}
           /\ s.id = r.id => /\ s.id \in OddIn(p)
                             /\ s.code \in StainedIn(p) \cup {None}
                             /\ rows[s.id] = None \/ rows[s.id].code \in StainedIn(p)
<1> DEFINE q == <<t, u>>
<1>1. /\ Writing(p[t]) /\ Writing(p[u])
      /\ Head(p[t]).id = s.id /\ Head(p[u]).id = r.id
  BY Worker DEF Writing, ReadOps
<1>2. q \in Thread \X Thread /\ q[1] = t /\ q[2] = u
  OBVIOUS
<1>3. q \in Pairs(p)
  BY <1>1, <1>2 DEF Pairs
<1>4. s.code \in CodesOf(p[t]) \cup {None} /\ r.code \in CodesOf(p[u]) \cup {None}
  BY DEF Work, ToSet, CodesOf
<1>5. ASSUME s.code = r.code, s.code # None PROVE s.code \in StainedIn(p)
  <2>1. s.code \in CodesOf(p[q[1]]) \cap CodesOf(p[q[2]])
    BY <1>2, <1>4, <1>5
  <2> QED
    BY <1>3, <2>1 DEF StainedIn
<1>6. ASSUME s.id = r.id
      PROVE  /\ s.id \in OddIn(p)
             /\ s.code \in StainedIn(p) \cup {None}
             /\ rows[s.id] = None \/ rows[s.id].code \in StainedIn(p)
  <2>1. q \in SameRow(p)
    BY <1>1, <1>2, <1>3, <1>6 DEF SameRow
  <2>2. s.id \in OddIn(p)
    BY <1>1, <1>2, <2>1 DEF OddIn
  <2>3. CodesOf(p[q[1]]) \subseteq StainedIn(p)
    BY <2>1 DEF StainedIn
  <2>4. {rows[id].code : id \in {j \in {Head(p[q[1]]).id} : rows[j] # None}} \subseteq StainedIn(p)
    BY <2>1 DEF StainedIn
  <2>5. rows[s.id] # None => rows[s.id].code \in StainedIn(p)
    BY <1>1, <1>2, <2>4
  <2> QED
    BY <1>2, <1>4, <2>2, <2>3, <2>5
<1> QED
  BY <1>5, <1>6

-----------------------------------------------------------------------------
(* What a step does to the calls.                                          *)

\* Thread t has this left to write after the step, the others what they had.
Goes(t, rest) ==
    /\ pc' \in [Thread -> Plans] /\ Work(pc', t) = rest
    /\ \A u \in Thread \ {t} : Work(pc', u) = Work(pc, u)

\* Thread t is at a step of this kind.
Doing(t, op) ==
    LET a == Arg(t) IN
    /\ a \in Work(pc, t) /\ a.op = op /\ a.id \in Ids /\ a \in StepsOn(a.id)
    /\ \A s \in Work(pc, t) : s.id = a.id
    /\ Followers(a, Work(pc, t) \ {a})

Remembers == odd' = odd \cup OddIn(pc') /\ stained \cup StainedIn(pc') \subseteq stained'
Rest == <<store, next_id, tiers, given, reused>>

\* A step of a call goes to what is left.
LEMMA Going ==
    ASSUME pc \in [Thread -> Plans], NEW t \in Thread, NEW p \in Plans, pc' = [pc EXCEPT ![t] = p]
    PROVE  Goes(t, {s \in ToSet(p) : s.op \in WriteOps})
<1>1. pc' \in [Thread -> Plans] /\ pc'[t] = p /\ \A u \in Thread \ {t} : pc'[u] = pc[u]
  OBVIOUS
<1> QED
  BY <1>1 DEF Goes, Work

\* A thread at a step that writes follows a plan.
LEMMA AtStep ==
    ASSUME pc \in [Thread -> Plans], NEW t \in Thread, NEW op \in WriteOps, Busy(t, op)
    PROVE  /\ Doing(t, op)
           /\ Tail(pc[t]) \in Plans
           /\ {s \in ToSet(Tail(pc[t])) : s.op \in WriteOps} = Work(pc, t) \ {Arg(t)}
<1>1. pc[t] \in Plans /\ pc[t] # <<>> /\ Arg(t).op = op /\ op \notin ReadOps
  BY OpsApart DEF Busy, Arg
<1>2. PICK id \in Ids : Plan(pc[t], id)
  BY <1>1, WritersPlan DEF Arg
<1>3. PlanFacts(pc[t], id)
  BY <1>2, PlansAreGood
<1>4. /\ \A s \in ToSet(pc[t]) : s \in StepsOn(id) /\ s.op \in WriteOps /\ s.id = id
      /\ Work(pc, t) = ToSet(pc[t])
  BY <1>2, PlanIn DEF Work
<1>5. /\ Arg(t) \in Work(pc, t) /\ Arg(t).id = id /\ Arg(t) \in StepsOn(id)
      /\ ToSet(Tail(pc[t])) = Work(pc, t) \ {Arg(t)}
      /\ Followers(Arg(t), Work(pc, t) \ {Arg(t)})
  BY <1>3, <1>4 DEF PlanFacts, ShapeOf, Arg
<1>6. Tail(pc[t]) \in Plans
  <2>1. <<>> \in Plans
    BY DEF Plans
  <2> QED
    BY <1>3, <2>1, PlanIn DEF PlanFacts, ShapeOf
<1> QED
  BY <1>1, <1>4, <1>5, <1>6 DEF Doing

\* A step after which its call goes on with plan p.
LEMMA ThenStep ==
    ASSUME Types, NEW t \in Thread, NEW p \in Plans, Then(t, p), NEW more, NowStained(more)
    PROVE  /\ Goes(t, {s \in ToSet(p) : s.op \in WriteOps})
           /\ Remembers /\ more \subseteq stained' /\ UNCHANGED Rest
           /\ exclusive' \in [Thread -> SUBSET Maps]
           /\ \A u \in Thread \ {t} : exclusive'[u] = exclusive[u]
           /\ p # <<>> => exclusive' = exclusive
<1>1. pc' = [pc EXCEPT ![t] = p] /\ odd' = odd \cup OddIn(pc')
  BY DEF Then, Goto
<1>2. Goes(t, {s \in ToSet(p) : s.op \in WriteOps})
  BY <1>1, Going DEF Types
<1>3. stained' = stained \cup StainedIn(pc') \cup more
  BY DEF NowStained
<1>4. UNCHANGED Rest
  BY DEF Then, Rest
<1>5. p # <<>> => exclusive' = exclusive
  BY DEF Then, DropGuards, guards
<1>6. p = <<>> => exclusive' = [exclusive EXCEPT ![t] = {}]
  BY DEF Then, DropGuards
<1>7. exclusive \in [Thread -> SUBSET Maps]
  BY DEF Types
<1> QED
  BY <1>1, <1>2, <1>3, <1>4, <1>5, <1>6, <1>7 DEF Remembers

\* A step after which its call goes on with the next.
LEMMA TailStep ==
    ASSUME Types, NEW t \in Thread, NEW op \in WriteOps, Busy(t, op), Then(t, Tail(pc[t])), NEW more, NowStained(more)
    PROVE  /\ Doing(t, op) /\ Goes(t, Work(pc, t) \ {Arg(t)})
           /\ Remembers /\ more \subseteq stained' /\ UNCHANGED Rest
           /\ exclusive' \in [Thread -> SUBSET Maps]
           /\ \A u \in Thread \ {t} : exclusive'[u] = exclusive[u]
           /\ Work(pc, t) \ {Arg(t)} # {} => exclusive' = exclusive
<1>1. Doing(t, op) /\ Tail(pc[t]) \in Plans
  BY AtStep DEF Types
<1>2. {s \in ToSet(Tail(pc[t])) : s.op \in WriteOps} = Work(pc, t) \ {Arg(t)}
  BY AtStep DEF Types
<1>3. Work(pc, t) \ {Arg(t)} # {} => Tail(pc[t]) # <<>>
  BY <1>2, OneStep
<1>4. Goes(t, {s \in ToSet(Tail(pc[t])) : s.op \in WriteOps})
  BY <1>1, ThenStep
<1>5. /\ Remembers /\ more \subseteq stained' /\ UNCHANGED Rest
      /\ exclusive' \in [Thread -> SUBSET Maps]
      /\ \A u \in Thread \ {t} : exclusive'[u] = exclusive[u]
      /\ Tail(pc[t]) # <<>> => exclusive' = exclusive
  BY <1>1, ThenStep
<1> QED
  BY <1>1, <1>2, <1>3, <1>4, <1>5

\* What all steps of calls that write have in common.
Moved(t, op, rest) ==
    /\ Doing(t, op) /\ Goes(t, rest)
    /\ Remembers /\ UNCHANGED Rest
    /\ exclusive' \in [Thread -> SUBSET Maps]
    /\ \A u \in Thread \ {t} : exclusive'[u] = exclusive[u]

\* Most of them take one step off the plan.
Passed(t, op) ==
    /\ Moved(t, op, Work(pc, t) \ {Arg(t)})
    /\ Work(pc, t) \ {Arg(t)} # {} => exclusive' = exclusive

\* They do when their action says Then() with the tail.
LEMMA PassedBy ==
    ASSUME Types, NEW t \in Thread, NEW op \in WriteOps, Busy(t, op), Then(t, Tail(pc[t])), NEW more, NowStained(more)
    PROVE  Passed(t, op) /\ more \subseteq stained'
BY TailStep DEF Passed, Moved

\* The stores that have each of these steps, by what the steps ask.
LEMMA StoresOf ==
    ASSUME Types, NEW t \in Thread, NEW op, Doing(t, op)
    PROVE  /\ op \in {"UpdateRow", "EnsureRow", "Refer"} => store \in Users
           /\ op \in {"CheckOwner", "Retain"} => store \in Own
           /\ op = "Push" => store \notin Users
           /\ op \in {"CheckRow", "JoinEntry", "Score"} => store = "CompetitionStore"
           /\ Arg(t).code \in Code \cup {None} /\ Arg(t).user \in User \cup {None}
           /\ op \in {"AddCode", "DropCode"} => Arg(t).code \in Code
           /\ op \notin {"PutRow", "AddCode", "DropCode", "UpdateRow"} => Arg(t).code = None
           /\ op \in {"Refer", "CheckOwner", "Push", "Retain", "CheckRow", "JoinEntry", "Score"} => Arg(t).user \in User
           /\ op = "PutRow" => Row(Arg(t).user, Arg(t).code) \in Rows
           /\ op = "RemoveRow" => store # "CompetitionStore"
BY DEF Doing, StepsOn, Steps, Fits

-----------------------------------------------------------------------------
(* The steps that take one step off their plan.                            *)

\* The row is in.
PutRowDone(t) ==
    LET a == Arg(t) IN
    /\ Passed(t, "PutRow")
    /\ rows' = [rows EXCEPT ![a.id] = Row(a.user, a.code)]
    /\ rows[a.id] = None \/ rows[a.id].code \in stained' \cup {a.code, None}
    /\ UNCHANGED <<codes, lists, entries>> /\ Recount(a.id)

\* The insert of a row.
LEMMA PutRowFacts ==
    ASSUME Types, NEW t \in Thread, PutRow(t)
    PROVE  PutRowDone(t)
<1> DEFINE a == Arg(t)
           more == {rows[id].code : id \in {j \in {a.id} : rows[j] # None}} \ {a.code, None}
<1>1. Busy(t, "PutRow") /\ Then(t, Tail(pc[t])) /\ NowStained(more)
  BY DEF PutRow
<1>2. Passed(t, "PutRow") /\ more \subseteq stained'
  BY <1>1, PassedBy DEF WriteOps
<1>3. rows[a.id] = None \/ rows[a.id].code \in more \cup {a.code, None}
  OBVIOUS
<1>4. /\ rows' = [rows EXCEPT ![a.id] = Row(a.user, a.code)]
      /\ UNCHANGED <<codes, lists, entries>> /\ Recount(a.id)
  BY DEF PutRow
<1> QED
  BY <1>2, <1>3, <1>4 DEF PutRowDone

\* The code leads to the row.
AddCodeDone(t) ==
    LET a == Arg(t) IN
    /\ Passed(t, "AddCode")
    /\ codes' = [c \in DOMAIN codes \cup {a.code} |-> IF c = a.code THEN a.id ELSE codes[c]]
    /\ a.code \in DOMAIN codes /\ codes[a.code] # a.id => a.code \in stained'
    /\ UNCHANGED <<rows, lists, entries, scan>>

\* The insert of a code.
LEMMA AddCodeFacts ==
    ASSUME Types, NEW t \in Thread, AddCode(t)
    PROVE  AddCodeDone(t)
<1> DEFINE a == Arg(t)
           more == {c \in DOMAIN codes : c = a.code /\ codes[c] # a.id}
<1>1. Busy(t, "AddCode") /\ Then(t, Tail(pc[t])) /\ NowStained(more)
  BY DEF AddCode
<1>2. Passed(t, "AddCode") /\ more \subseteq stained'
  BY <1>1, PassedBy DEF WriteOps
<1>3. a.code \in DOMAIN codes /\ codes[a.code] # a.id => a.code \in more
  OBVIOUS
<1>4. /\ codes' = [c \in DOMAIN codes \cup {a.code} |-> IF c = a.code THEN a.id ELSE codes[c]]
      /\ UNCHANGED <<rows, lists, entries, scan>>
  BY DEF AddCode
<1> QED
  BY <1>2, <1>3, <1>4 DEF AddCodeDone

\* The removal of a code.
LEMMA DropCodeFacts ==
    ASSUME Types, NEW t \in Thread, DropCode(t)
    PROVE  /\ Passed(t, "DropCode")
           /\ codes' = [c \in DOMAIN codes \ {Arg(t).code} |-> codes[c]]
           /\ UNCHANGED <<rows, lists, entries, scan>>
<1>1. Busy(t, "DropCode") /\ Then(t, Tail(pc[t])) /\ NowStained({})
  BY DEF DropCode
<1>2. Passed(t, "DropCode")
  BY <1>1, PassedBy DEF WriteOps
<1> QED
  BY <1>2 DEF DropCode

\* A row for a user without one.
LEMMA EnsureRowFacts ==
    ASSUME Types, NEW t \in Thread, EnsureRow(t)
    PROVE  /\ Passed(t, "EnsureRow")
           /\ rows' = IF rows[Arg(t).id] = None THEN [rows EXCEPT ![Arg(t).id] = Row(Arg(t).id, None)] ELSE rows
           /\ UNCHANGED <<codes, lists, entries, scan>>
<1>1. Busy(t, "EnsureRow") /\ Then(t, Tail(pc[t])) /\ NowStained({})
  BY DEF EnsureRow
<1>2. Passed(t, "EnsureRow")
  BY <1>1, PassedBy DEF WriteOps
<1> QED
  BY <1>2 DEF EnsureRow

\* A field that nothing depends on.
LEMMA TouchFacts ==
    ASSUME Types, NEW t \in Thread, Touch(t)
    PROVE  Passed(t, "Touch") /\ UNCHANGED <<rows, codes, lists, entries, scan>>
<1>1. Busy(t, "Touch") /\ Then(t, Tail(pc[t])) /\ NowStained({})
  BY DEF Touch
<1>2. Passed(t, "Touch")
  BY <1>1, PassedBy DEF WriteOps
<1> QED
  BY <1>2 DEF Touch, maps

\* A new referrer on a row.
LEMMA ReferFacts ==
    ASSUME Types, NEW t \in Thread, Refer(t)
    PROVE  /\ Passed(t, "Refer")
           /\ rows' = IF rows[Arg(t).id] = None THEN rows ELSE [rows EXCEPT ![Arg(t).id].referred_by = Arg(t).user]
           /\ UNCHANGED <<codes, lists, entries>> /\ Recount(Arg(t).id)
<1>1. Busy(t, "Refer") /\ Then(t, Tail(pc[t])) /\ NowStained({})
  BY DEF Refer
<1>2. Passed(t, "Refer")
  BY <1>1, PassedBy DEF WriteOps
<1> QED
  BY <1>2 DEF Refer

\* One more copy on a list.
LEMMA PushFacts ==
    ASSUME Types, NEW t \in Thread, Push(t)
    PROVE  /\ Passed(t, "Push")
           /\ lists' = [lists EXCEPT ![Arg(t).user][Arg(t).id] = @ + 1]
           /\ UNCHANGED <<rows, codes, entries, scan>>
<1>1. Busy(t, "Push") /\ Then(t, Tail(pc[t])) /\ NowStained({})
  BY DEF Push
<1>2. Passed(t, "Push")
  BY <1>1, PassedBy DEF WriteOps
<1> QED
  BY <1>2 DEF Push

\* Every copy off a list.
LEMMA RetainFacts ==
    ASSUME Types, NEW t \in Thread, Retain(t)
    PROVE  /\ Passed(t, "Retain")
           /\ lists' = [lists EXCEPT ![Arg(t).user][Arg(t).id] = 0]
           /\ UNCHANGED <<rows, codes, entries, scan>>
<1>1. Busy(t, "Retain") /\ Then(t, Tail(pc[t])) /\ NowStained({})
  BY DEF Retain
<1>2. Passed(t, "Retain")
  BY <1>1, PassedBy DEF WriteOps
<1> QED
  BY <1>2 DEF Retain

\* A score, on the entries the user has.
LEMMA ScoreFacts ==
    ASSUME Types, NEW t \in Thread, Score(t)
    PROVE  /\ Passed(t, "Score")
           /\ entries' = [entries EXCEPT ![Arg(t).id] =
                [i \in DOMAIN @ |-> IF @[i].user = Arg(t).user THEN [@[i] EXCEPT !.score = 1] ELSE @[i]]]
           /\ UNCHANGED <<rows, codes, lists, scan>>
<1>1. Busy(t, "Score") /\ Then(t, Tail(pc[t])) /\ NowStained({})
  BY DEF Score
<1>2. Passed(t, "Score")
  BY <1>1, PassedBy DEF WriteOps
<1> QED
  BY <1>2 DEF Score

-----------------------------------------------------------------------------
(* The steps that choose how their call goes on.                           *)

\* A call may be over.
LEMMA NoPlan == <<>> \in Plans /\ {s \in ToSet(<<>>) : s.op \in WriteOps} = {}
<1>1. <<>> \in Plans
  BY DEF Plans
<1>2. ToSet(<<>>) = {}
  BY OneStep
<1> QED
  BY <1>1, <1>2

\* A plan of one step is one to go on with.
LEMMA OnePlan ==
    ASSUME NEW id \in Ids, NEW a \in StepsOn(id), Ends(a)
    PROVE  <<a>> \in Plans /\ {s \in ToSet(<<a>>) : s.op \in WriteOps} = {a}
<1>1. Plan(<<a>>, id)
  BY DEF Plan
<1> QED
  BY <1>1, PlanIn, OneStep

\* So is a plan of two steps.
LEMMA PairPlan ==
    ASSUME NEW id \in Ids, NEW a \in StepsOn(id), NEW b \in StepsOn(id), EndPair(a, b)
    PROVE  <<a, b>> \in Plans /\ {s \in ToSet(<<a, b>>) : s.op \in WriteOps} = {a, b}
<1>1. Plan(<<a, b>>, id)
  BY DEF Plan
<1> QED
  BY <1>1, PlanIn, TwoSteps

\* Short plans put together.
LEMMA Joints ==
    ASSUME NEW a, NEW b
    PROVE  <<a>> \o <<b>> = <<a, b>> /\ <<>> \o <<b>> = <<b>> /\ <<a>> \o <<>> = <<a>>
<1>1. <<a>> \in Seq({a, b}) /\ <<b>> \in Seq({a, b})
  OBVIOUS
<1>2. <<a>> \o <<b>> = <<a, b>>
  <2> DEFINE s == <<a>> \o <<b>>
             r == <<a, b>>
  <2>1. s \in Seq({a, b}) /\ Len(s) = 2 /\ s[1] = a /\ s[2] = b
    BY <1>1, ConcatProperties
  <2>2. r \in Seq({a, b}) /\ Len(r) = 2 /\ r[1] = a /\ r[2] = b
    OBVIOUS
  <2> HIDE DEF s, r
  <2>3. \A i \in 1..Len(s) : s[i] = r[i]
    BY <2>1, <2>2
  <2>4. s = r
    BY <2>1, <2>2, <2>3, SeqEqual
  <2> QED
    BY <2>4 DEF s, r
<1>3. <<>> \o <<b>> = <<b>> /\ <<a>> \o <<>> = <<a>>
  BY <1>1, ConcatEmptySeq
<1> QED
  BY <1>2, <1>3

\* The steps on codes and lists fit their stores.
LEMMA StepsThatFit ==
    ASSUME NEW id \in Ids, NEW c \in Code
    PROVE  /\ S("DropCode", id, c, None) \in StepsOn(id) /\ Ends(S("DropCode", id, c, None))
           /\ S("AddCode", id, c, None) \in StepsOn(id) /\ Ends(S("AddCode", id, c, None))
           /\ \A u \in User : EndPair(S("DropCode", id, c, None), S("Retain", id, None, u))
           /\ \A d \in Code \ {c} : EndPair(S("DropCode", id, c, None), S("AddCode", id, d, None))
<1>1. S("DropCode", id, c, None) \in StepsOn(id) /\ Ends(S("DropCode", id, c, None))
  BY StepIs DEF StepsOn, Fits, Ends, WriteOps
<1>2. S("AddCode", id, c, None) \in StepsOn(id) /\ Ends(S("AddCode", id, c, None))
  BY StepIs DEF StepsOn, Fits, Ends, WriteOps
<1>3. \A u \in User : EndPair(S("DropCode", id, c, None), S("Retain", id, None, u))
  BY StepIs DEF EndPair
<1>4. \A d \in Code \ {c} : EndPair(S("DropCode", id, c, None), S("AddCode", id, d, None))
  BY StepIs DEF EndPair
<1> QED
  BY <1>1, <1>2, <1>3, <1>4

DropsOf(id, c) == {S("DropCode", id, d, None) : d \in {c} \ {None}}
AddsOf(id, c) == {S("AddCode", id, d, None) : d \in {c} \ {None}}
CodeWork(id, old, new) == IF old = new THEN {} ELSE DropsOf(id, old) \cup AddsOf(id, new)

\* The steps after a new code: off the old one, on the new one.
LEMMA CodeStepsWork ==
    ASSUME NEW id \in Ids, NEW old \in Code \cup {None}, NEW new \in Code \cup {None}
    PROVE  /\ CodeSteps(id, old, new) \in Plans
           /\ {s \in ToSet(CodeSteps(id, old, new)) : s.op \in WriteOps} = CodeWork(id, old, new)
<1>0. None \notin Code
  BY RelationalAssumption
<1>1. CASE old = new
  BY <1>1, NoPlan DEF CodeSteps, CodeWork
<1>2. CASE old = None /\ new # None
  <2> DEFINE a == S("AddCode", id, new, None)
  <2>1. CodeSteps(id, old, new) = <<a>>
    BY <1>2, Joints DEF CodeSteps
  <2>2. a \in StepsOn(id) /\ Ends(a)
    BY <1>2, StepsThatFit DEF Own
  <2>3. CodeWork(id, old, new) = {a}
    BY <1>2 DEF CodeWork, AddsOf, DropsOf
  <2> QED
    BY <2>1, <2>2, <2>3, OnePlan
<1>3. CASE old # None /\ new = None
  <2> DEFINE a == S("DropCode", id, old, None)
  <2>1. CodeSteps(id, old, new) = <<a>>
    BY <1>3, Joints DEF CodeSteps
  <2>2. a \in StepsOn(id) /\ Ends(a)
    BY <1>3, StepsThatFit DEF Own
  <2>3. CodeWork(id, old, new) = {a}
    BY <1>3 DEF CodeWork, AddsOf, DropsOf
  <2> QED
    BY <2>1, <2>2, <2>3, OnePlan
<1>4. CASE old # None /\ new # None /\ old # new
  <2> DEFINE a == S("DropCode", id, old, None)
             b == S("AddCode", id, new, None)
  <2>1. CodeSteps(id, old, new) = <<a, b>>
    BY <1>4, Joints DEF CodeSteps
  <2>2. a \in StepsOn(id) /\ b \in StepsOn(id) /\ EndPair(a, b)
    BY <1>0, <1>4, StepsThatFit
  <2>3. CodeWork(id, old, new) = {a, b}
    BY <1>4 DEF CodeWork, AddsOf, DropsOf
  <2> HIDE DEF a, b
  <2> QED
    BY <2>1, <2>2, <2>3, PairPlan
<1> QED
  BY <1>1, <1>2, <1>3, <1>4

RetainsOf(id, u) == IF store \in Own THEN {S("Retain", id, None, u)} ELSE {}
AfterWork(id, row) == DropsOf(id, row.code) \cup RetainsOf(id, row.owner)

\* The steps after a row is out: off its code, off its owner's list.
LEMMA AfterRemoveWork ==
    ASSUME Types, NEW id \in Ids, NEW row \in Rows, store # "CompetitionStore"
    PROVE  /\ AfterRemove(id, row) \in Plans
           /\ {s \in ToSet(AfterRemove(id, row)) : s.op \in WriteOps} = AfterWork(id, row)
<1>0. None \notin Code
  BY RelationalAssumption
<1> DEFINE a == S("DropCode", id, row.code, None)
           b == S("Retain", id, None, row.owner)
<1>1. CASE store \in Users
  <2>1. AfterRemove(id, row) = IF row.code = None THEN <<>> ELSE <<a>>
    BY <1>1 DEF AfterRemove, Users
  <2>2. AfterWork(id, row) = IF row.code = None THEN {} ELSE {a}
    BY <1>1 DEF AfterWork, DropsOf, RetainsOf, Own, Users
  <2>3. row.code # None => row.code \in Code
    BY <1>1 DEF Rows
  <2>4. row.code # None => a \in StepsOn(id) /\ Ends(a)
    BY <1>1, <2>3, StepsThatFit DEF Rows, Users
  <2>5. <<>> \in Plans /\ {s \in ToSet(<<>>) : s.op \in WriteOps} = {}
    BY NoPlan
  <2> QED
    BY <2>1, <2>2, <2>4, <2>5, OnePlan
<1>2. CASE store = "AlertStore"
  <2>1. AfterRemove(id, row) = <<b>>
    BY <1>2 DEF AfterRemove, Users
  <2>2. row.code = None /\ row.owner \in User
    BY <1>2 DEF Rows, Users
  <2>3. AfterWork(id, row) = {b}
    BY <1>2, <2>2 DEF AfterWork, DropsOf, RetainsOf, Own
  <2>4. b \in StepsOn(id) /\ Ends(b)
    BY <1>2, <2>2, StepIs DEF StepsOn, Fits, Ends, WriteOps, Own
  <2> QED
    BY <2>1, <2>3, <2>4, OnePlan
<1>3. CASE store = "ApiKeyStore"
  <2>1. AfterRemove(id, row) = <<a, b>>
    BY <1>3 DEF AfterRemove, Users
  <2>2. row.code \in Code /\ row.owner \in User
    BY <1>3 DEF Rows, Users
  <2>3. AfterWork(id, row) = {a, b}
    BY <1>0, <1>3, <2>2 DEF AfterWork, DropsOf, RetainsOf, Own
  <2>4. b \in StepsOn(id)
    BY <1>3, <2>2, StepIs DEF StepsOn, Fits, WriteOps, Own
  <2>5. a \in StepsOn(id) /\ EndPair(a, b)
    BY <2>2, StepsThatFit
  <2> QED
    BY <2>1, <2>3, <2>4, <2>5, PairPlan
<1> QED
  BY <1>1, <1>2, <1>3 DEF Types, Kinds, Users

\* The row takes the code, and the codes have to follow.
UpdateRowDone(t) ==
    LET a == Arg(t) IN
    /\ Moved(t, "UpdateRow", IF rows[a.id] = None THEN {} ELSE CodeWork(a.id, rows[a.id].code, a.code))
    /\ rows' = IF rows[a.id] = None THEN rows ELSE [rows EXCEPT ![a.id].code = a.code]
    /\ UNCHANGED <<codes, lists, entries, scan>>
    /\ Work(pc, t) = {a}

\* The update of a row.
LEMMA UpdateRowFacts ==
    ASSUME Types, NEW t \in Thread, UpdateRow(t)
    PROVE  UpdateRowDone(t)
<1> DEFINE a == Arg(t)
           p == IF rows[a.id] = None THEN <<>> ELSE CodeSteps(a.id, rows[a.id].code, a.code)
           rest == IF rows[a.id] = None THEN {} ELSE CodeWork(a.id, rows[a.id].code, a.code)
<1>1. Busy(t, "UpdateRow") /\ Then(t, p) /\ NowStained({})
  BY DEF UpdateRow
<1>2. Doing(t, "UpdateRow")
  BY <1>1, AtStep DEF WriteOps, Types
<1>3. Work(pc, t) = {a}
  BY <1>2 DEF Doing, Followers
<1>4. p \in Plans /\ {s \in ToSet(p) : s.op \in WriteOps} = rest
  <2>1. a.id \in Ids /\ a.code \in Code \cup {None} /\ store \in Users
    BY <1>2, StoresOf DEF Doing
  <2>2. rows[a.id] # None => rows[a.id].code \in Code \cup {None}
    BY <2>1 DEF Types, Rows
  <2>3. <<>> \in Plans /\ {s \in ToSet(<<>>) : s.op \in WriteOps} = {}
    BY NoPlan
  <2> QED
    BY <2>1, <2>2, <2>3, CodeStepsWork
<1>5. Moved(t, "UpdateRow", rest)
  BY <1>1, <1>2, <1>4, ThenStep DEF Moved
<1> QED
  BY <1>3, <1>5 DEF UpdateRowDone, UpdateRow

\* The row is out, and its code and list have to follow.
RemoveRowDone(t) ==
    LET a == Arg(t) IN
    /\ Moved(t, "RemoveRow", IF rows[a.id] = None THEN {} ELSE AfterWork(a.id, rows[a.id]))
    /\ rows' = [rows EXCEPT ![a.id] = None]
    /\ UNCHANGED <<codes, lists, entries>> /\ Recount(a.id)
    /\ Work(pc, t) = {a}

\* The removal of a row.
LEMMA RemoveRowFacts ==
    ASSUME Types, NEW t \in Thread, RemoveRow(t)
    PROVE  RemoveRowDone(t)
<1> DEFINE a == Arg(t)
           p == IF rows[a.id] = None THEN <<>> ELSE AfterRemove(a.id, rows[a.id])
           rest == IF rows[a.id] = None THEN {} ELSE AfterWork(a.id, rows[a.id])
<1>1. Busy(t, "RemoveRow") /\ Then(t, p) /\ NowStained({})
  BY DEF RemoveRow
<1>2. Doing(t, "RemoveRow")
  BY <1>1, AtStep DEF WriteOps, Types
<1>3. Work(pc, t) = {a}
  BY <1>2 DEF Doing, Followers
<1>4. p \in Plans /\ {s \in ToSet(p) : s.op \in WriteOps} = rest
  <2>1. a.id \in Ids /\ store # "CompetitionStore"
    BY <1>2, StoresOf DEF Doing
  <2>2. rows[a.id] # None => rows[a.id] \in Rows
    BY <2>1 DEF Types
  <2>3. <<>> \in Plans /\ {s \in ToSet(<<>>) : s.op \in WriteOps} = {}
    BY NoPlan
  <2> QED
    BY <2>1, <2>2, <2>3, AfterRemoveWork
<1>5. Moved(t, "RemoveRow", rest)
  BY <1>1, <1>2, <1>4, ThenStep DEF Moved
<1> QED
  BY <1>3, <1>5 DEF RemoveRowDone, RemoveRow

\* The owner is the one the caller names, or the call is over.
CheckOwnerDone(t) ==
    LET a == Arg(t)
        mine == rows[a.id] # None /\ rows[a.id].owner = a.user IN
    /\ Moved(t, "CheckOwner", IF mine THEN {S("RemoveRow", a.id, None, a.user)} ELSE {})
    /\ UNCHANGED <<rows, codes, lists, entries, scan>>

\* The first half of remove_by_user_and_id().
LEMMA CheckOwnerFacts ==
    ASSUME Types, NEW t \in Thread, CheckOwner(t)
    PROVE  CheckOwnerDone(t)
<1> DEFINE a == Arg(t)
           mine == rows[a.id] # None /\ rows[a.id].owner = a.user
           b == S("RemoveRow", a.id, None, a.user)
           p == IF mine THEN <<b>> ELSE <<>>
           rest == IF mine THEN {b} ELSE {}
<1>1. Busy(t, "CheckOwner") /\ Then(t, p) /\ NowStained({})
  BY DEF CheckOwner
<1>2. Doing(t, "CheckOwner")
  BY <1>1, AtStep DEF WriteOps, Types
<1>3. p \in Plans /\ {s \in ToSet(p) : s.op \in WriteOps} = rest
  <2>1. a.id \in Ids /\ a.user \in User /\ store \in Own
    BY <1>2, StoresOf DEF Doing
  <2>2. b \in StepsOn(a.id) /\ Ends(b)
    BY <2>1, StepIs DEF StepsOn, Fits, Ends, WriteOps, Own
  <2> QED
    BY <2>1, <2>2, NoPlan, OnePlan
<1>4. Moved(t, "CheckOwner", rest)
  BY <1>1, <1>2, <1>3, ThenStep DEF Moved
<1> QED
  BY <1>4 DEF CheckOwnerDone, CheckOwner, maps

\* The competition exists, or the call is over.
CheckRowDone(t) ==
    LET a == Arg(t) IN
    /\ Moved(t, "CheckRow", IF rows[a.id] = None THEN {}
                            ELSE {S("JoinEntry", a.id, None, a.user), S("Push", a.id, None, a.user)})
    /\ UNCHANGED <<rows, codes, lists, entries, scan>>

\* The first step of join().
LEMMA CheckRowFacts ==
    ASSUME Types, NEW t \in Thread, CheckRow(t)
    PROVE  CheckRowDone(t)
<1> DEFINE a == Arg(t)
           b == S("JoinEntry", a.id, None, a.user)
           c == S("Push", a.id, None, a.user)
           p == IF rows[a.id] = None THEN <<>> ELSE <<b, c>>
           rest == IF rows[a.id] = None THEN {} ELSE {b, c}
<1>1. Busy(t, "CheckRow") /\ Then(t, p) /\ NowStained({})
  BY DEF CheckRow
<1>2. Doing(t, "CheckRow")
  BY <1>1, AtStep DEF WriteOps, Types
<1>3. p \in Plans /\ {s \in ToSet(p) : s.op \in WriteOps} = rest
  <2>1. a.id \in Ids /\ a.user \in User /\ store = "CompetitionStore"
    BY <1>2, StoresOf DEF Doing
  <2>2. b \in StepsOn(a.id) /\ c \in StepsOn(a.id) /\ EndPair(b, c)
    BY <2>1, StepIs DEF StepsOn, Fits, EndPair, WriteOps, Own, Users
  <2>3. <<>> \in Plans /\ {s \in ToSet(<<>>) : s.op \in WriteOps} = {}
    BY NoPlan
  <2> QED
    BY <2>1, <2>2, <2>3, PairPlan
<1>4. Moved(t, "CheckRow", rest)
  BY <1>1, <1>2, <1>3, ThenStep DEF Moved
<1> QED
  BY <1>4 DEF CheckRowDone, CheckRow, maps

\* The entry is there, or is added and its list has to follow while the call
\* keeps the entries.
JoinEntryDone(t) ==
    LET a == Arg(t)
        rest == Work(pc, t) \ {a} IN
    /\ UNCHANGED <<rows, codes, lists, scan>>
    /\ CanWrite("entries")
    /\ \/ Joined(a.id, a.user) /\ Moved(t, "JoinEntry", {}) /\ entries' = entries
       \/ /\ ~Joined(a.id, a.user) /\ Moved(t, "JoinEntry", rest)
          /\ entries' = [entries EXCEPT ![a.id] = Append(@, [user |-> a.user, score |-> 0])]
          /\ "entries" \in exclusive'[t]

\* The second step of join().
LEMMA JoinEntryFacts ==
    ASSUME Types, NEW t \in Thread, JoinEntry(t)
    PROVE  JoinEntryDone(t)
<1> DEFINE a == Arg(t)
<1>0. Busy(t, "JoinEntry")
  BY DEF JoinEntry
<1>1. /\ Doing(t, "JoinEntry") /\ Tail(pc[t]) \in Plans
      /\ {s \in ToSet(Tail(pc[t])) : s.op \in WriteOps} = Work(pc, t) \ {a}
  BY <1>0, AtStep DEF WriteOps, Types
<1>2. <<>> \in Plans /\ {s \in ToSet(<<>>) : s.op \in WriteOps} = {}
  BY NoPlan
<1>3. /\ UNCHANGED Rest /\ UNCHANGED <<rows, codes, lists, scan>> /\ CanWrite("entries")
      /\ stained' = stained \cup StainedIn(pc') \cup {}
  BY DEF JoinEntry, Rest, NowStained
<1>4. exclusive \in [Thread -> SUBSET Maps] /\ pc \in [Thread -> Plans]
  BY DEF Types
<1>5. CASE Joined(a.id, a.user)
  <2>1. /\ pc' = [pc EXCEPT ![t] = <<>>] /\ odd' = odd \cup OddIn(pc')
        /\ entries' = entries /\ exclusive' = exclusive
    BY <1>5 DEF JoinEntry, Goto
  <2>2. Goes(t, {})
    BY <1>2, <1>4, <2>1, Going
  <2> QED
    BY <1>1, <1>3, <1>4, <1>5, <2>1, <2>2 DEF JoinEntryDone, Moved, Remembers
<1>6. CASE ~Joined(a.id, a.user)
  <2>1. /\ pc' = [pc EXCEPT ![t] = Tail(pc[t])] /\ odd' = odd \cup OddIn(pc')
        /\ entries' = [entries EXCEPT ![a.id] = Append(@, [user |-> a.user, score |-> 0])]
        /\ exclusive' = [exclusive EXCEPT ![t] = {"entries"}]
    BY <1>6 DEF JoinEntry, Goto
  <2>2. Goes(t, Work(pc, t) \ {a})
    BY <1>1, <1>4, <2>1, Going
  <2>3. /\ exclusive' \in [Thread -> SUBSET Maps] /\ exclusive'[t] = {"entries"}
        /\ \A u \in Thread \ {t} : exclusive'[u] = exclusive[u]
    BY <1>4, <2>1 DEF Maps
  <2> QED
    BY <1>1, <1>3, <1>6, <2>1, <2>2, <2>3 DEF JoinEntryDone, Moved, Remembers
<1> QED
  BY <1>5, <1>6

-----------------------------------------------------------------------------
(* The steps of calls that read.                                           *)

\* A thread whose call reads, or is over, goes on with nothing to write.
Looked(t) ==
    /\ Work(pc, t) = {} /\ Goes(t, {})
    /\ Remembers /\ UNCHANGED Rest
    /\ exclusive' \in [Thread -> SUBSET Maps]
    /\ \A u \in Thread \ {t} : exclusive'[u] = exclusive[u]
    /\ UNCHANGED <<rows, codes, lists, entries, scan>>

\* The ids are finitely many.
LEMMA IdsFinite == IsFiniteSet(Ids)
<1>1. IsFiniteSet(User) /\ MaxId \in Nat
  BY RelationalAssumption
<1>2. IsFiniteSet(1..MaxId)
  BY <1>1, FS_Interval
<1> QED
  BY <1>1, <1>2 DEF Ids

\* The ids on a list, in some order.
LEMMA SomeOrder ==
    ASSUME NEW X \in SUBSET Ids
    PROVE  SetToSeq(X) \in Seq(Ids)
<1>1. IsFiniteSet(X)
  BY IdsFinite, FS_Subset
<1>2. Cardinality(X) \in Nat /\ ExistsBijection(1..Cardinality(X), X)
  BY <1>1, FS_CardinalityType
<1> DEFINE n == Cardinality(X)
<1>3. PICK f \in Bijection(1..n, X) : TRUE
  BY <1>2 DEF ExistsBijection
<1>4. f \in [1..n -> X] /\ IsInjective(f)
  BY <1>3 DEF Bijection, Injection, IsInjective
<1>5. SetToSeq(X) \in [1..n -> X]
  BY <1>4 DEF SetToSeq
<1> HIDE DEF n
<1> QED
  BY <1>2, <1>5 DEF n

\* Steps that only read are one way for a call to go on.
LEMMA ReadPlans ==
    ASSUME NEW p \in Seq(ReadSteps)
    PROVE  p \in Plans /\ {s \in ToSet(p) : s.op \in WriteOps} = {}
<1>1. p \in Plans
  BY DEF Plans
<1>2. ASSUME p # <<>> PROVE Head(p).op \in ReadOps
  <2>1. Head(p) \in ReadSteps
    BY <1>2
  <2> QED
    BY <2>1 DEF ReadSteps
<1> QED
  BY <1>1, <1>2, ReadersWork

\* A call goes on to the rows.
LEMMA LookFacts ==
    ASSUME Types, NEW t \in Thread, NEW m, NEW ids \in Seq(Ids), pc[t] # <<>>, Arg(t).op \in ReadOps, Look(t, m, ids)
    PROVE  Looked(t)
<1> DEFINE p == [i \in DOMAIN ids |-> S("GetRow", ids[i], None, None)]
<1>1. pc' = [pc EXCEPT ![t] = p] /\ odd' = odd \cup OddIn(pc')
  BY DEF Look, Goto
<1>2. p \in Seq(ReadSteps)
  <2>1. \A i \in 1..Len(ids) : S("GetRow", ids[i], None, None) \in ReadSteps
    BY DEF ReadSteps, S, ReadOps
  <2>2. Len(ids) \in Nat /\ DOMAIN ids = 1..Len(ids)
    OBVIOUS
  <2> QED
    BY <2>1, <2>2
<1>3. p \in Plans /\ {s \in ToSet(p) : s.op \in WriteOps} = {}
  BY <1>2, ReadPlans
<1>4. Work(pc, t) = {}
  BY ReadersWork DEF Types, Work, Arg
<1>5. Goes(t, {})
  BY <1>1, <1>3, Going DEF Types
<1>6. /\ stained' = stained \cup StainedIn(pc') \cup {} /\ UNCHANGED Rest
      /\ exclusive' = exclusive /\ UNCHANGED <<rows, codes, lists, entries, scan>>
  BY DEF Look, NowStained, Rest, maps
<1>7. exclusive \in [Thread -> SUBSET Maps]
  BY DEF Types
<1> QED
  BY <1>1, <1>4, <1>5, <1>6, <1>7 DEF Looked, Remembers

\* The guard of the code stays.
LEMMA LookUpFacts ==
    ASSUME Types, NEW t \in Thread, LookUp(t)
    PROVE  Looked(t)
<1> DEFINE ids == IF Arg(t).code \in DOMAIN codes THEN <<codes[Arg(t).code]>> ELSE <<>>
<1>1. pc[t] # <<>> /\ Arg(t).op \in ReadOps /\ Look(t, "codes", ids)
  BY DEF LookUp, Busy, Arg, ReadOps
<1>2. ids \in Seq(Ids)
  BY DEF Types
<1> QED
  BY <1>1, <1>2, LookFacts

\* The guard of the list stays.
LEMMA LookUpListFacts ==
    ASSUME Types, NEW t \in Thread, LookUpList(t)
    PROVE  Looked(t)
<1> DEFINE ids == SetToSeq({id \in Ids : lists[Arg(t).user][id] > 0})
<1>1. pc[t] # <<>> /\ Arg(t).op \in ReadOps /\ Look(t, "lists", ids)
  BY DEF LookUpList, Busy, Arg, ReadOps
<1>2. ids \in Seq(Ids)
  BY SomeOrder
<1> QED
  BY <1>1, <1>2, LookFacts

\* One row is read.
LEMMA GetRowFacts ==
    ASSUME Types, NEW t \in Thread, GetRow(t)
    PROVE  Looked(t)
<1>1. pc[t] # <<>> /\ Arg(t).op \in ReadOps
  BY DEF GetRow, Busy, Arg, ReadOps
<1>2. pc[t] \in Seq(ReadSteps) /\ Work(pc, t) = {}
  BY <1>1, ReadersWork DEF Types, Work, Arg
<1>3. Tail(pc[t]) \in Seq(ReadSteps)
  BY <1>1, <1>2
<1>4. Tail(pc[t]) \in Plans /\ {s \in ToSet(Tail(pc[t])) : s.op \in WriteOps} = {}
  BY <1>3, ReadPlans
<1>5. Then(t, Tail(pc[t])) /\ NowStained({}) /\ UNCHANGED <<rows, codes, lists, entries, scan>>
  BY DEF GetRow, maps
<1> QED
  BY <1>2, <1>4, <1>5, ThenStep DEF Looked

-----------------------------------------------------------------------------
(* The calls.                                                              *)

\* The steps of a call that has just begun.
Fresh(steps) ==
    \A s \in steps :
        /\ s.op \notin {"DropCode", "Retain"}
        /\ s.op = "RemoveRow" => s.user = None
        /\ s.op = "AddCode" => \E r \in steps : r.op = "PutRow"
        /\ s.op = "PutRow" /\ s.code # None => \E r \in steps : r.op = "AddCode"
        /\ s.op = "PutRow" /\ store \in Own => \E r \in steps : r.op = "Push"
        /\ s.op = "Push" => store \in Own /\ \E r \in steps : r.op = "PutRow"

\* What all calls have in common as they begin.
Began(t, steps) ==
    /\ Work(pc, t) = {} /\ Goes(t, steps) /\ Fresh(steps)
    /\ Remembers /\ next_id' \in Nat \ {0}
    /\ UNCHANGED <<store, tiers, exclusive, rows, codes, lists, entries, scan>>

\* Only an insert gives an id.
Started(t) ==
    \/ /\ \E steps : Began(t, steps) /\ \A s \in steps : s.op = "PutRow" => store \notin Own
       /\ UNCHANGED <<given, reused>>
    \/ \E steps : \E id \in Ids : Began(t, steps) /\ (\A s \in steps : s.op = "PutRow" => s.id = id) /\ Give(id)

\* A call begins with a plan.
LEMMA BeginFacts ==
    ASSUME Types, NEW t \in Thread, NEW p \in Plans, NEW steps, steps = {s \in ToSet(p) : s.op \in WriteOps},
           Begin(t, p), Fresh(steps), next_id' \in Nat \ {0}
    PROVE  Began(t, steps)
<1>1. pc[t] = <<>> /\ pc' = [pc EXCEPT ![t] = p] /\ odd' = odd \cup OddIn(pc')
  BY DEF Begin, Goto
<1>2. Work(pc, t) = {}
  BY <1>1, NoPlan DEF Work
<1>3. Goes(t, steps)
  BY <1>1, Going DEF Types
<1>4. stained' = stained \cup StainedIn(pc')
  BY DEF Begin
<1>5. UNCHANGED <<store, tiers, exclusive, rows, codes, lists, entries, scan>>
  BY DEF Begin, CallRest, maps, guards
<1> QED
  BY <1>1, <1>2, <1>3, <1>4, <1>5 DEF Began, Remembers

\* A call that inserts no row of its own id begins.
LEMMA CallFacts ==
    ASSUME Types, NEW t \in Thread, NEW p \in Plans, NEW steps, steps = {s \in ToSet(p) : s.op \in WriteOps},
           Call(t, p), Fresh(steps), \A s \in steps : s.op = "PutRow" => store \notin Own
    PROVE  Started(t)
<1>1. Begin(t, p) /\ UNCHANGED <<given, reused>> /\ next_id' \in Nat \ {0}
  BY DEF Call, Types
<1>2. Began(t, steps)
  BY <1>1, BeginFacts
<1> QED
  BY <1>1, <1>2 DEF Started

\* A call of one step begins.
LEMMA SingleCall ==
    ASSUME Types, NEW t \in Thread, NEW id \in Ids, NEW a \in StepsOn(id), Ends(a), Call(t, <<a>>),
           a.op \notin {"AddCode", "DropCode", "Push", "Retain"},
           a.op = "RemoveRow" => a.user = None,
           a.op = "PutRow" => a.code = None /\ store \notin Own
    PROVE  Started(t)
<1>1. <<a>> \in Plans /\ {s \in ToSet(<<a>>) : s.op \in WriteOps} = {a}
  BY OnePlan
<1>2. Fresh({a})
  BY DEF Fresh
<1>3. \A s \in {a} : s.op = "PutRow" => store \notin Own
  OBVIOUS
<1> QED
  BY <1>1, <1>2, <1>3, CallFacts

\* A call that reads begins.
LEMMA ReadCall ==
    ASSUME Types, NEW t \in Thread, NEW a \in ReadSteps, Call(t, <<a>>)
    PROVE  Started(t)
<1>1. <<a>> \in Seq(ReadSteps)
  OBVIOUS
<1>2. <<a>> \in Plans /\ {s \in ToSet(<<a>>) : s.op \in WriteOps} = {}
  BY <1>1, ReadPlans
<1>3. Fresh({})
  BY DEF Fresh
<1> QED
  BY <1>2, <1>3, CallFacts

\* The insert of a user: the code, if any, and the row.
LEMMA upsertStarts ==
    ASSUME Types, NEW t \in Thread, NEW u \in User, NEW c \in Code \cup {None}, upsert(t, u, c)
    PROVE  Started(t)
<1> DEFINE a == S("AddCode", u, c, None)
           b == S("PutRow", u, c, u)
           p == (IF c = None THEN <<>> ELSE <<a>>) \o <<b>>
<1>0. store = "UserStore" /\ store \notin Own /\ u \in Ids /\ Call(t, p)
  BY DEF upsert, Ids, Users, Own
<1>1. b \in StepsOn(u) /\ Ends(b)
  <2>1. Row(u, c) \in Rows
    BY <1>0 DEF Row, Rows, Users
  <2> QED
    BY <1>0, <2>1, StepIs DEF StepsOn, Fits, Ends, WriteOps
<1>2. CASE c = None
  <2>1. p = <<b>>
    BY <1>2, Joints
  <2>2. b.code = None /\ b.op = "PutRow"
    BY <1>2, StepIs
  <2> HIDE DEF b, p
  <2> QED
    BY <1>0, <1>1, <2>1, <2>2, SingleCall
<1>3. CASE c # None
  <2>1. p = <<a, b>>
    BY <1>3, Joints
  <2>2. a \in StepsOn(u)
    BY <1>0, <1>3, StepsThatFit
  <2>3. /\ a.op = "AddCode" /\ b.op = "PutRow" /\ a.code = b.code
        /\ EndPair(a, b)
    BY <1>0, StepIs DEF EndPair
  <2> HIDE DEF a, b, p
  <2>4. p \in Plans /\ {s \in ToSet(p) : s.op \in WriteOps} = {a, b}
    BY <1>0, <1>1, <2>1, <2>2, <2>3, PairPlan
  <2>5. Fresh({a, b})
    BY <1>0, <2>3 DEF Fresh
  <2> QED
    BY <1>0, <2>4, <2>5, CallFacts
<1> QED
  BY <1>2, <1>3

\* The insert of a user with nothing but an address.
LEMMA ensureStarts ==
    ASSUME Types, NEW t \in Thread, NEW u \in User, ensure(t, u)
    PROVE  Started(t)
<1> DEFINE a == S("EnsureRow", u, None, None)
           b == S("Touch", u, None, None)
           p == <<a, b>>
<1>0. store \in Users /\ u \in Ids /\ Call(t, p)
  BY DEF ensure, Ids, Users
<1>1. a \in StepsOn(u) /\ b \in StepsOn(u)
  BY <1>0, StepIs DEF StepsOn, Fits, WriteOps
<1>2. a.op = "EnsureRow" /\ b.op = "Touch" /\ EndPair(a, b)
  BY StepIs DEF EndPair
<1> HIDE DEF a, b
<1>3. p \in Plans /\ {s \in ToSet(p) : s.op \in WriteOps} = {a, b}
  BY <1>0, <1>1, <1>2, PairPlan
<1>4. Fresh({a, b}) /\ \A s \in {a, b} : s.op = "PutRow" => store \notin Own
  BY <1>2 DEF Fresh
<1> HIDE DEF p
<1> QED
  BY <1>0, <1>3, <1>4, CallFacts

\* The insert of an alert under the next id: the row and the list.
LEMMA insert_alertStarts ==
    ASSUME Types, NEW t \in Thread, NEW u \in User, insert_alert(t, u)
    PROVE  Started(t)
<1> DEFINE a == S("PutRow", next_id, None, u)
           b == S("Push", next_id, None, u)
           p == <<a, b>>
<1>0. /\ store = "AlertStore" /\ store \in Own /\ next_id \in Ids /\ Begin(t, p) /\ Give(next_id)
      /\ next_id' \in Nat \ {0}
  BY RelationalAssumption DEF insert_alert, Ids, Users, Own, Types
<1>1. a \in StepsOn(next_id) /\ b \in StepsOn(next_id)
  <2>1. Row(u, None) \in Rows
    BY <1>0 DEF Row, Rows, Users
  <2> QED
    BY <1>0, <2>1, StepIs DEF StepsOn, Fits, WriteOps, Users
<1>2. /\ a.op = "PutRow" /\ b.op = "Push" /\ a.code = None /\ a.id = next_id /\ b.id = next_id
      /\ EndPair(a, b)
  BY <1>0, StepIs DEF EndPair
<1> HIDE DEF a, b
<1>3. p \in Plans /\ {s \in ToSet(p) : s.op \in WriteOps} = {a, b}
  BY <1>0, <1>1, <1>2, PairPlan
<1>4. Fresh({a, b})
  BY <1>0, <1>2 DEF Fresh
<1>5. \A s \in {a, b} : s.op = "PutRow" => s.id = next_id
  BY <1>2
<1> HIDE DEF p
<1>6. Began(t, {a, b})
  BY <1>0, <1>3, <1>4, BeginFacts
<1> QED
  BY <1>0, <1>5, <1>6 DEF Started

\* The insert of a key: the hash, the list and the row.
LEMMA insert_keyStarts ==
    ASSUME Types, NEW t \in Thread, NEW id \in Ids, NEW u \in User, NEW c \in Code, insert_key(t, id, u, c)
    PROVE  Started(t)
<1> DEFINE a == S("AddCode", id, c, None)
           b == S("Push", id, None, u)
           d == S("PutRow", id, c, u)
           p == <<a, b, d>>
<1>0. store = "ApiKeyStore" /\ store \in Own /\ Begin(t, p) /\ Give(id) /\ next_id' \in Nat \ {0}
  BY DEF insert_key, Own, Types
<1>1. a \in StepsOn(id) /\ b \in StepsOn(id) /\ d \in StepsOn(id)
  <2>1. Row(u, c) \in Rows
    BY <1>0 DEF Row, Rows, Users
  <2>2. b \in StepsOn(id)
    BY <1>0, StepIs DEF StepsOn, Fits, WriteOps, Users
  <2>3. d \in StepsOn(id)
    BY <1>0, <2>1, StepIs DEF StepsOn, Fits, WriteOps
  <2> QED
    BY <2>2, <2>3, StepsThatFit
<1>2. /\ a.op = "AddCode" /\ b.op = "Push" /\ d.op = "PutRow" /\ d.id = id
      /\ EndThree(a, b, d)
  BY <1>0, StepIs DEF EndThree
<1> HIDE DEF a, b, d
<1>3. Plan(p, id) /\ ToSet(p) = {a, b, d}
  <2>1. Plan(p, id)
    BY <1>1, <1>2 DEF Plan
  <2>2. ToSet(p) = {a, b, d}
    BY ThreeSteps
  <2> QED
    BY <2>1, <2>2
<1>4. Fresh({a, b, d})
  BY <1>0, <1>2 DEF Fresh
<1>5. \A s \in {a, b, d} : s.op = "PutRow" => s.id = id
  BY <1>2
<1> HIDE DEF p
<1>6. p \in Plans /\ {s \in ToSet(p) : s.op \in WriteOps} = {a, b, d}
  BY <1>3, PlanIn
<1>7. Began(t, {a, b, d})
  BY <1>0, <1>4, <1>6, BeginFacts
<1> QED
  BY <1>0, <1>5, <1>7 DEF Started

\* Every call begins so.
LEMMA StartFacts ==
    ASSUME Types, NEW t \in Thread, Start(t)
    PROVE  Started(t)
<1>1. ASSUME NEW u \in User, NEW c \in Code \cup {None}, set_referral_code(t, u, c) PROVE Started(t)
  <2> DEFINE a == S("UpdateRow", u, c, None)
  <2>1. store \in Users /\ u \in Ids /\ Call(t, <<a>>)
    BY <1>1 DEF set_referral_code, Users, Ids
  <2>2. a \in StepsOn(u) /\ Ends(a) /\ a.op = "UpdateRow"
    BY <2>1, StepIs DEF StepsOn, Fits, Ends, WriteOps
  <2> HIDE DEF a
  <2> QED
    BY <2>1, <2>2, SingleCall
<1>2. ASSUME NEW u \in User, NEW r \in User, set_referred_by(t, u, r) PROVE Started(t)
  <2> DEFINE a == S("Refer", u, None, r)
  <2>1. store \in Users /\ u \in Ids /\ Call(t, <<a>>)
    BY <1>2 DEF set_referred_by, Users, Ids
  <2>2. a \in StepsOn(u) /\ Ends(a) /\ a.op = "Refer"
    BY <2>1, StepIs DEF StepsOn, Fits, Ends, WriteOps
  <2> HIDE DEF a
  <2> QED
    BY <2>1, <2>2, SingleCall
<1>3. ASSUME NEW u \in User, NEW id \in Ids, join(t, id, u) PROVE Started(t)
  <2> DEFINE a == S("CheckRow", id, None, u)
  <2>1. store = "CompetitionStore" /\ Call(t, <<a>>)
    BY <1>3 DEF join
  <2>2. a \in StepsOn(id) /\ Ends(a) /\ a.op = "CheckRow"
    BY <2>1, StepIs DEF StepsOn, Fits, Ends, WriteOps
  <2> HIDE DEF a
  <2> QED
    BY <2>1, <2>2, SingleCall
<1>4. ASSUME NEW u \in User, NEW id \in Ids, update_score(t, id, u) PROVE Started(t)
  <2> DEFINE a == S("Score", id, None, u)
  <2>1. store = "CompetitionStore" /\ Call(t, <<a>>)
    BY <1>4 DEF update_score
  <2>2. a \in StepsOn(id) /\ Ends(a) /\ a.op = "Score"
    BY <2>1, StepIs DEF StepsOn, Fits, Ends, WriteOps
  <2> HIDE DEF a
  <2> QED
    BY <2>1, <2>2, SingleCall
<1>5. ASSUME NEW u \in User, NEW id \in Ids, remove_by_user_and_id(t, u, id) PROVE Started(t)
  <2> DEFINE a == S("CheckOwner", id, None, u)
  <2>1. store \in Own /\ Call(t, <<a>>)
    BY <1>5 DEF remove_by_user_and_id, Own
  <2>2. a \in StepsOn(id) /\ Ends(a) /\ a.op = "CheckOwner"
    BY <2>1, StepIs DEF StepsOn, Fits, Ends, WriteOps
  <2> HIDE DEF a
  <2> QED
    BY <2>1, <2>2, SingleCall
<1>6. ASSUME NEW id \in Ids, touch(t, id) PROVE Started(t)
  <2> DEFINE a == S("Touch", id, None, None)
  <2>1. Call(t, <<a>>)
    BY <1>6 DEF touch
  <2>2. a \in StepsOn(id) /\ Ends(a) /\ a.op = "Touch"
    BY <2>1, StepIs DEF StepsOn, Fits, Ends, WriteOps
  <2> HIDE DEF a
  <2> QED
    BY <2>1, <2>2, SingleCall
<1>7. ASSUME NEW id \in Ids, remove(t, id) PROVE Started(t)
  <2> DEFINE a == S("RemoveRow", id, None, None)
  <2>1. store # "CompetitionStore" /\ Call(t, <<a>>)
    BY <1>7 DEF remove
  <2>2. a \in StepsOn(id) /\ Ends(a) /\ a.op = "RemoveRow" /\ a.user = None
    BY <2>1, StepIs DEF StepsOn, Fits, Ends, WriteOps
  <2> HIDE DEF a
  <2> QED
    BY <2>1, <2>2, SingleCall
<1>8. ASSUME NEW id \in Ids, insert_competition(t, id) PROVE Started(t)
  <2> DEFINE a == S("PutRow", id, None, None)
  <2>1. store = "CompetitionStore" /\ store \notin Own /\ Call(t, <<a>>)
    BY <1>8 DEF insert_competition, Own
  <2>2. Row(None, None) \in Rows
    BY <2>1 DEF Row, Rows, Users
  <2>3. a \in StepsOn(id) /\ Ends(a) /\ a.op = "PutRow" /\ a.code = None
    BY <2>1, <2>2, StepIs DEF StepsOn, Fits, Ends, WriteOps
  <2> HIDE DEF a
  <2> QED
    BY <2>1, <2>3, SingleCall
<1>9. ASSUME NEW c \in Code, by_code(t, c) PROVE Started(t)
  <2>1. Call(t, <<S("LookUp", None, c, None)>>) /\ S("LookUp", None, c, None) \in ReadSteps
    BY <1>9 DEF by_code, S, ReadSteps, ReadOps
  <2> QED
    BY <2>1, ReadCall
<1>10. ASSUME NEW u \in User, by_user(t, u) PROVE Started(t)
  <2>1. Call(t, <<S("LookUpList", None, None, u)>>) /\ S("LookUpList", None, None, u) \in ReadSteps
    BY <1>10 DEF by_user, S, ReadSteps, ReadOps
  <2> QED
    BY <2>1, ReadCall
<1> QED
  BY <1>1, <1>2, <1>3, <1>4, <1>5, <1>6, <1>7, <1>8, <1>9, <1>10,
     upsertStarts, ensureStarts, insert_alertStarts, insert_keyStarts DEF Start

-----------------------------------------------------------------------------
(* The types.                                                              *)

\* A behaviour stays about one store, with its ids, rows and plans.
LEMMA SameStore ==
    ASSUME store' = store
    PROVE  Ids' = Ids /\ Rows' = Rows /\ Plans' = Plans /\ Scans' = Scans
<1>1. Ids' = Ids /\ Rows' = Rows
  BY DEF Ids, Rows
<1>2. Steps' = Steps /\ ReadSteps' = ReadSteps /\ Scans' = Scans
  BY <1>1 DEF Steps, ReadSteps, Scans
<1>3. ASSUME NEW s PROVE Fits(s)' = Fits(s)
  BY <1>1 DEF Fits
<1>4. ASSUME NEW id PROVE StepsOn(id)' = StepsOn(id)
  BY <1>2, <1>3 DEF StepsOn
<1>5. ASSUME NEW p, NEW id PROVE Plan(p, id)' = Plan(p, id)
  <2>1. StepsOn(id)' = StepsOn(id)
    BY <1>4
  <2>2. ASSUME NEW a, NEW b, NEW c
        PROVE  /\ Ends(a)' = Ends(a) /\ EndPair(a, b)' = EndPair(a, b)
               /\ EndThree(a, b, c)' = EndThree(a, b, c)
    BY DEF Ends, EndPair, EndThree
  <2> QED
    BY <2>1, <2>2 DEF Plan
<1> QED
  BY <1>1, <1>2, <1>5 DEF Plans

\* Types hold after a step that leaves maps and calls with theirs.
LEMMA TypesAfter ==
    ASSUME Types, UNCHANGED <<store, tiers>>, next_id' \in Nat \ {0}, pc' \in [Thread -> Plans],
           exclusive' \in [Thread -> SUBSET Maps],
           rows' \in [Ids -> Rows \cup {None}],
           DOMAIN codes' \subseteq Code, \A c \in DOMAIN codes' : codes'[c] \in Ids,
           lists' \in [User -> [Ids -> Nat]], entries' \in [Ids -> Entries], scan' \in Scans
    PROVE  Types'
BY SameStore DEF Types

\* A step of a call leaves what is no map with its type.
LEMMA TypesMoved ==
    ASSUME Types, NEW t \in Thread, NEW op, NEW rest, Moved(t, op, rest),
           rows' \in [Ids -> Rows \cup {None}],
           DOMAIN codes' \subseteq Code, \A c \in DOMAIN codes' : codes'[c] \in Ids,
           lists' \in [User -> [Ids -> Nat]], entries' \in [Ids -> Entries], scan' \in Scans
    PROVE  Types'
<1>1. UNCHANGED <<store, tiers>> /\ next_id' \in Nat \ {0}
  BY DEF Moved, Rest, Types
<1>2. pc' \in [Thread -> Plans] /\ exclusive' \in [Thread -> SUBSET Maps]
  BY DEF Moved, Goes
<1> QED
  BY <1>1, <1>2, TypesAfter

\* A row changes under a referral_count().
LEMMA RecountType ==
    ASSUME Types, NEW id \in Ids, Recount(id)
    PROVE  scan' \in Scans
<1>1. scan \in Scans
  BY DEF Types
<1> QED
  BY <1>1 DEF Recount, Scans

\* What the maps are.
LEMMA MapsTyped ==
    ASSUME Types
    PROVE  /\ rows \in [Ids -> Rows \cup {None}]
           /\ DOMAIN codes \subseteq Code /\ \A c \in DOMAIN codes : codes[c] \in Ids
           /\ lists \in [User -> [Ids -> Nat]] /\ entries \in [Ids -> Entries] /\ scan \in Scans
BY DEF Types

\* The steps of calls keep the types.
LEMMA TypesContinue ==
    ASSUME Types, NEW t \in Thread, Continue(t)
    PROVE  Types'
<1> DEFINE a == Arg(t)
<1>0. /\ rows \in [Ids -> Rows \cup {None}]
      /\ DOMAIN codes \subseteq Code /\ \A c \in DOMAIN codes : codes[c] \in Ids
      /\ lists \in [User -> [Ids -> Nat]] /\ entries \in [Ids -> Entries] /\ scan \in Scans
  BY MapsTyped
<1>1. CASE PutRow(t)
  <2>1. PutRowDone(t)
    BY <1>1, PutRowFacts
  <2>2. Moved(t, "PutRow", Work(pc, t) \ {a}) /\ a.id \in Ids /\ Row(a.user, a.code) \in Rows
    BY <2>1, StoresOf DEF PutRowDone, Passed, Moved, Doing
  <2>3. rows' \in [Ids -> Rows \cup {None}]
    BY <1>0, <2>1, <2>2 DEF PutRowDone
  <2>4. scan' \in Scans
    BY <2>1, <2>2, RecountType DEF PutRowDone
  <2> QED
    BY <1>0, <2>1, <2>2, <2>3, <2>4, TypesMoved DEF PutRowDone
<1>2. CASE AddCode(t)
  <2>1. AddCodeDone(t)
    BY <1>2, AddCodeFacts
  <2>2. Moved(t, "AddCode", Work(pc, t) \ {a}) /\ a.id \in Ids /\ a.code \in Code
    BY <2>1, StoresOf DEF AddCodeDone, Passed, Moved, Doing
  <2>3. DOMAIN codes' \subseteq Code /\ \A c \in DOMAIN codes' : codes'[c] \in Ids
    BY <1>0, <2>1, <2>2 DEF AddCodeDone
  <2> QED
    BY <1>0, <2>1, <2>2, <2>3, TypesMoved DEF AddCodeDone
<1>3. CASE DropCode(t)
  <2>1. /\ Moved(t, "DropCode", Work(pc, t) \ {a})
        /\ codes' = [c \in DOMAIN codes \ {a.code} |-> codes[c]]
        /\ UNCHANGED <<rows, lists, entries, scan>>
    BY <1>3, DropCodeFacts DEF Passed
  <2>2. DOMAIN codes' \subseteq Code /\ \A c \in DOMAIN codes' : codes'[c] \in Ids
    BY <1>0, <2>1
  <2> QED
    BY <1>0, <2>1, <2>2, TypesMoved
<1>4. CASE UpdateRow(t)
  <2>1. UpdateRowDone(t)
    BY <1>4, UpdateRowFacts
  <2>2. PICK rest : Moved(t, "UpdateRow", rest)
    BY <2>1 DEF UpdateRowDone
  <2>3. store \in Users /\ a.id \in Ids /\ a.code \in Code \cup {None}
    BY <2>2, StoresOf DEF Moved, Doing
  <2>4. rows' \in [Ids -> Rows \cup {None}]
    <3>1. \A row \in Rows : [row EXCEPT !.code = a.code] \in Rows
      BY <2>3 DEF Rows
    <3> QED
      BY <1>0, <2>1, <2>3, <3>1 DEF UpdateRowDone
  <2> QED
    BY <1>0, <2>1, <2>2, <2>4, TypesMoved DEF UpdateRowDone
<1>5. CASE EnsureRow(t)
  <2>1. /\ Moved(t, "EnsureRow", Work(pc, t) \ {a})
        /\ rows' = IF rows[a.id] = None THEN [rows EXCEPT ![a.id] = Row(a.id, None)] ELSE rows
        /\ UNCHANGED <<codes, lists, entries, scan>>
    BY <1>5, EnsureRowFacts DEF Passed
  <2>2. store \in Users /\ a.id \in Ids
    BY <2>1, StoresOf DEF Moved, Doing
  <2>3. Row(a.id, None) \in Rows
    BY <2>2 DEF Rows, Row, Ids, Users
  <2>4. rows' \in [Ids -> Rows \cup {None}]
    BY <1>0, <2>1, <2>2, <2>3
  <2> QED
    BY <1>0, <2>1, <2>4, TypesMoved
<1>6. CASE Touch(t)
  BY <1>0, <1>6, TouchFacts, TypesMoved DEF Passed
<1>7. CASE Refer(t)
  <2>1. /\ Moved(t, "Refer", Work(pc, t) \ {a})
        /\ rows' = IF rows[a.id] = None THEN rows ELSE [rows EXCEPT ![a.id].referred_by = a.user]
        /\ UNCHANGED <<codes, lists, entries>> /\ Recount(a.id)
    BY <1>7, ReferFacts DEF Passed
  <2>2. a.user \in User /\ a.id \in Ids
    BY <2>1, StoresOf DEF Moved, Doing
  <2>3. rows' \in [Ids -> Rows \cup {None}]
    <3>1. \A row \in Rows : [row EXCEPT !.referred_by = a.user] \in Rows
      BY <2>2 DEF Rows
    <3> QED
      BY <1>0, <2>1, <2>2, <3>1
  <2>4. scan' \in Scans
    BY <2>1, <2>2, RecountType
  <2> QED
    BY <1>0, <2>1, <2>3, <2>4, TypesMoved
<1>8. CASE CheckOwner(t)
  <2>1. CheckOwnerDone(t)
    BY <1>8, CheckOwnerFacts
  <2>2. PICK rest : Moved(t, "CheckOwner", rest)
    BY <2>1 DEF CheckOwnerDone
  <2> QED
    BY <1>0, <2>1, <2>2, TypesMoved DEF CheckOwnerDone
<1>9. CASE RemoveRow(t)
  <2>1. RemoveRowDone(t)
    BY <1>9, RemoveRowFacts
  <2>2. PICK rest : Moved(t, "RemoveRow", rest)
    BY <2>1 DEF RemoveRowDone
  <2>3. a.id \in Ids
    BY <2>2 DEF Moved, Doing
  <2>4. rows' \in [Ids -> Rows \cup {None}] /\ scan' \in Scans
    BY <1>0, <2>1, <2>3, RecountType DEF RemoveRowDone
  <2> QED
    BY <1>0, <2>1, <2>2, <2>4, TypesMoved DEF RemoveRowDone
<1>10. CASE Push(t)
  <2>1. /\ Moved(t, "Push", Work(pc, t) \ {a})
        /\ lists' = [lists EXCEPT ![a.user][a.id] = @ + 1]
        /\ UNCHANGED <<rows, codes, entries, scan>>
    BY <1>10, PushFacts DEF Passed
  <2>2. a.user \in User /\ a.id \in Ids
    BY <2>1, StoresOf DEF Moved, Doing
  <2>3. lists' \in [User -> [Ids -> Nat]]
    BY <1>0, <2>1, <2>2
  <2> QED
    BY <1>0, <2>1, <2>3, TypesMoved
<1>11. CASE Retain(t)
  <2>1. /\ Moved(t, "Retain", Work(pc, t) \ {a})
        /\ lists' = [lists EXCEPT ![a.user][a.id] = 0]
        /\ UNCHANGED <<rows, codes, entries, scan>>
    BY <1>11, RetainFacts DEF Passed
  <2>2. a.user \in User /\ a.id \in Ids
    BY <2>1, StoresOf DEF Moved, Doing
  <2>3. lists' \in [User -> [Ids -> Nat]]
    BY <1>0, <2>1, <2>2
  <2> QED
    BY <1>0, <2>1, <2>3, TypesMoved
<1>12. CASE CheckRow(t)
  <2>1. CheckRowDone(t)
    BY <1>12, CheckRowFacts
  <2>2. PICK rest : Moved(t, "CheckRow", rest)
    BY <2>1 DEF CheckRowDone
  <2> QED
    BY <1>0, <2>1, <2>2, TypesMoved DEF CheckRowDone
<1>13. CASE JoinEntry(t)
  <2>1. JoinEntryDone(t)
    BY <1>13, JoinEntryFacts
  <2>2. PICK rest : Moved(t, "JoinEntry", rest)
    BY <2>1 DEF JoinEntryDone
  <2>3. a.user \in User /\ a.id \in Ids
    BY <2>2, StoresOf DEF Moved, Doing
  <2>4. entries' \in [Ids -> Entries]
    <3> DEFINE more == [user |-> a.user, score |-> 0]
    <3>1. more \in Entry
      BY <2>3 DEF Entry
    <3>2. entries' = entries \/ entries' = [entries EXCEPT ![a.id] = Append(@, more)]
      BY <2>1 DEF JoinEntryDone
    <3> HIDE DEF more
    <3> DEFINE new == Append(entries[a.id], more)
    <3>3. entries[a.id] \in Entries
      BY <1>0, <2>3
    <3>4. new \in Entries
      BY <3>1, <3>3 DEF Entries
    <3>5. entries' = entries \/ entries' = [entries EXCEPT ![a.id] = new]
      BY <1>0, <2>3, <3>2
    <3> HIDE DEF new
    <3> QED
      BY <1>0, <2>3, <3>4, <3>5
  <2> QED
    BY <1>0, <2>1, <2>2, <2>4, TypesMoved DEF JoinEntryDone
<1>14. CASE Score(t)
  <2> DEFINE F(e) == [i \in DOMAIN e |-> IF e[i].user = a.user THEN [e[i] EXCEPT !.score = 1] ELSE e[i]]
  <2>1. /\ Moved(t, "Score", Work(pc, t) \ {a})
        /\ entries' = [entries EXCEPT ![a.id] = F(@)]
        /\ UNCHANGED <<rows, codes, lists, scan>>
    BY <1>14, ScoreFacts DEF Passed
  <2>2. a.id \in Ids
    BY <2>1 DEF Moved, Doing
  <2>3. \A e \in Entries : F(e) \in Entries
    <3> TAKE e \in Entries
    <3>1. Len(e) \in Nat /\ DOMAIN e = 1..Len(e)
      BY DEF Entries
    <3>2. \A i \in 1..Len(e) : e[i] \in Entry
      BY DEF Entries
    <3>3. \A i \in 1..Len(e) : (IF e[i].user = a.user THEN [e[i] EXCEPT !.score = 1] ELSE e[i]) \in Entry
      BY <3>2 DEF Entry
    <3> QED
      BY <3>1, <3>3 DEF Entries
  <2>4. entries' \in [Ids -> Entries]
    <3> HIDE DEF F
    <3> QED
      BY <1>0, <2>1, <2>2, <2>3
  <2> QED
    BY <1>0, <2>1, <2>4, TypesMoved
<1>15. CASE LookUp(t) \/ LookUpList(t) \/ GetRow(t)
  <2>1. Looked(t)
    BY <1>15, LookUpFacts, LookUpListFacts, GetRowFacts
  <2>2. UNCHANGED <<store, tiers>> /\ next_id' \in Nat \ {0}
    BY <2>1 DEF Looked, Rest, Types
  <2> QED
    BY <1>0, <2>1, <2>2, TypesAfter DEF Looked, Goes
<1> QED
  BY <1>1, <1>2, <1>3, <1>4, <1>5, <1>6, <1>7, <1>8, <1>9, <1>10, <1>11, <1>12, <1>13, <1>14, <1>15 DEF Continue

\* The table of tiers is one, from the start or from set_tiers().
LEMMA TablesOfTiers == DEFAULT_TIERS \in Seq(TierSet) /\ Tiers \subseteq Seq(TierSet)
<1>1. \A m, n \in Nat : Tier(m, n) \in TierSet
  BY DEF Tier, TierSet
<1>2. DEFAULT_TIERS \in Seq(TierSet)
  <2>1. Tier(0, 0) \in TierSet /\ Tier(5, 1) \in TierSet /\ Tier(20, 10) \in TierSet /\ Tier(50, 100) \in TierSet
    BY <1>1
  <2> QED
    BY <2>1 DEF DEFAULT_TIERS
<1> QED
  BY <1>2, RelationalAssumption DEF TierSet

\* The types hold at the start.
LEMMA TypesInit ==
    ASSUME Init
    PROVE  Types
<1>1. store \in Kinds /\ store \in Stores
  BY RelationalAssumption DEF Init, Kinds
<1>2. entries \in [Ids -> Entries] /\ rows \in [Ids -> Rows \cup {None}] /\ lists \in [User -> [Ids -> Nat]]
  BY DEF Init, Entries
<1>3. DOMAIN codes \subseteq Code /\ \A c \in DOMAIN codes : codes[c] \in Ids
  BY DEF Init
<1>4. pc \in [Thread -> Plans] /\ exclusive \in [Thread -> SUBSET Maps]
  BY NoPlan DEF Init
<1>5. next_id \in Nat \ {0} /\ tiers \in Seq(TierSet)
  BY TablesOfTiers DEF Init
<1>6. scan \in Scans
  BY DEF Init, NoScan, Scans
<1> QED
  BY <1>1, <1>2, <1>3, <1>4, <1>5, <1>6 DEF Types

\* What is no step of a call leaves rows, lists and calls alone.
Aside == UNCHANGED <<store, rows, codes, lists, entries, pc, exclusive, given, reused, odd, stained>>

\* What the counting of referrals and the tables leave alone.
LEMMA ScanAside ==
    ASSUME Scan \/ (\E ts \in Tiers : set_tiers(ts)) \/ (\E r \in User : BeginScan(r))
           \/ (\E n \in 1..MaxId : set_next_id(n))
    PROVE  Aside
<1>1. ASSUME NEW id \in Ids, ScanRow(id) PROVE Aside
  BY <1>1 DEF ScanRow, ScanRest, maps, guards, history, Aside
<1>2. CASE EndScan
  BY <1>2 DEF EndScan, ScanRest, maps, guards, history, Aside
<1>3. ASSUME NEW ts \in Tiers, set_tiers(ts) PROVE Aside
  BY <1>3 DEF set_tiers, ScanRest, maps, guards, history, Aside
<1>4. ASSUME NEW r \in User, BeginScan(r) PROVE Aside
  BY <1>4 DEF BeginScan, ScanRest, maps, guards, history, Aside
<1>5. ASSUME NEW n \in 1..MaxId, set_next_id(n) PROVE Aside
  BY <1>5 DEF set_next_id, CallRest, maps, guards, history, Aside
<1> QED
  BY <1>1, <1>2, <1>3, <1>4, <1>5 DEF Scan

\* Every step keeps the types.
LEMMA TypesNext ==
    ASSUME Types, Next
    PROVE  Types'
<1>0. /\ rows \in [Ids -> Rows \cup {None}]
      /\ DOMAIN codes \subseteq Code /\ \A c \in DOMAIN codes : codes[c] \in Ids
      /\ lists \in [User -> [Ids -> Nat]] /\ entries \in [Ids -> Entries] /\ scan \in Scans
      /\ next_id \in Nat \ {0} /\ pc \in [Thread -> Plans] /\ exclusive \in [Thread -> SUBSET Maps]
      /\ tiers \in Seq(TierSet) /\ store \in Kinds /\ store \in Stores
  BY DEF Types
<1>1. ASSUME NEW t \in Thread, Start(t) PROVE Types'
  <2>1. PICK steps : Began(t, steps)
    BY <1>1, StartFacts DEF Started
  <2> QED
    BY <1>0, <2>1, TypesAfter DEF Began, Goes
<1>2. ASSUME NEW n \in 1..MaxId, set_next_id(n) PROVE Types'
  <2>1. Aside
    BY <1>2, ScanAside
  <2>2. next_id' \in Nat \ {0} /\ UNCHANGED <<tiers, scan>>
    BY <1>2, RelationalAssumption DEF set_next_id, CallRest
  <2> QED
    BY <1>0, <2>1, <2>2, TypesAfter DEF Aside
<1>3. ASSUME NEW ts \in Tiers, set_tiers(ts) PROVE Types'
  <2>1. Aside
    BY <1>3, ScanAside
  <2>2. UNCHANGED <<next_id, scan>> /\ tiers' \in Seq(TierSet)
    BY <1>3, TablesOfTiers DEF set_tiers, ScanRest
  <2>3. store' = store
    BY <2>1 DEF Aside
  <2> QED
    BY <1>0, <2>1, <2>2, SameStore DEF Aside, Types
<1>4. ASSUME NEW r \in User, BeginScan(r) PROVE Types'
  <2>1. Aside
    BY <1>4, ScanAside
  <2>2. UNCHANGED <<next_id, tiers>> /\ scan' \in Scans
    BY <1>4 DEF BeginScan, ScanRest, Scans
  <2> QED
    BY <1>0, <2>1, <2>2, TypesAfter DEF Aside
<1>5. CASE Scan
  <2>1. Aside
    BY <1>5, ScanAside
  <2>2. UNCHANGED <<next_id, tiers>> /\ scan' \in Scans
    <3>1. CASE EndScan
      BY <3>1 DEF EndScan, ScanRest, NoScan, Scans
    <3>2. ASSUME NEW id \in Ids, ScanRow(id) PROVE UNCHANGED <<next_id, tiers>> /\ scan' \in Scans
      <4> DEFINE d == scan.todo \ {id}
                 n == IF rows[id] # None /\ rows[id].referred_by = scan.of THEN scan.got + 1 ELSE scan.got
      <4>1. UNCHANGED <<next_id, tiers>> /\ scan' = [scan EXCEPT !.todo = d, !.got = n]
        BY <3>2 DEF ScanRow, ScanRest
      <4>2. d \in SUBSET Ids /\ n \in Nat
        BY <1>0 DEF Scans
      <4> HIDE DEF d, n
      <4> QED
        BY <1>0, <4>1, <4>2 DEF Scans
    <3> QED
      BY <1>5, <3>1, <3>2 DEF Scan
  <2> QED
    BY <1>0, <2>1, <2>2, TypesAfter DEF Aside
<1>6. ASSUME NEW t \in Thread, Continue(t) PROVE Types'
  BY <1>6, TypesContinue
<1> QED
  BY <1>1, <1>2, <1>3, <1>4, <1>5, <1>6 DEF Next

-----------------------------------------------------------------------------
(* Owners.                                                                 *)

\* No row comes in, no insert begins, and who is about to remove a row has
\* just seen that it is his.
LEMMA OwnedKept ==
    ASSUME Types, Owned, NEW t \in Thread, NEW rest, Goes(t, rest), UNCHANGED <<store, given, reused>>,
           \A s \in rest : s.op = "PutRow" => s \in Work(pc, t),
           \A s \in rest : s.op = "RemoveRow" /\ s.user # None =>
               \/ s \in Work(pc, t)
               \/ s.id \in Ids /\ rows[s.id] # None /\ rows[s.id].owner = s.user,
           \A id \in Ids : rows'[id] \in {rows[id], None}
    PROVE  Owned'
<1> SUFFICES ASSUME store \in Own PROVE (Given /\ Once /\ Aimed)'
  BY DEF Owned
<1>0. Given /\ Once /\ Aimed /\ Ids' = Ids
  BY SameStore DEF Owned
<1>1. \A u \in Thread : \A s \in Work(pc', u) : s.op = "PutRow" => s \in Work(pc, u)
  BY DEF Goes
<1>2. Given'
  BY <1>0, <1>1 DEF Given
<1>3. Once'
  BY <1>0, <1>1 DEF Once
<1>4. Aimed'
  <2> SUFFICES ASSUME NEW u \in Thread, NEW s \in Work(pc', u), s.op = "RemoveRow", s.user # None
               PROVE  /\ s.id \in given
                      /\ s.id \in reused \/ /\ rows'[s.id] = None \/ rows'[s.id].owner = s.user
                                            /\ \A v \in Thread : \A r \in Work(pc', v) : r.op = "PutRow" => r.id # s.id
    BY DEF Aimed
  <2>1. CASE s \in Work(pc, u)
    <3>1. s.id \in Ids
      BY <2>1, Worker DEF Types
    <3> QED
      BY <1>0, <1>1, <2>1, <3>1 DEF Aimed
  <2>2. CASE s \notin Work(pc, u)
    <3>1. u = t /\ s.id \in Ids /\ rows[s.id] # None /\ rows[s.id].owner = s.user
      BY <2>2 DEF Goes
    <3>2. s.id \in given
      BY <1>0, <3>1 DEF Given
    <3>3. s.id \in reused \/ \A v \in Thread : \A r \in Work(pc, v) : r.op = "PutRow" => r.id # s.id
      BY <1>0, <3>1 DEF Once
    <3> QED
      BY <1>1, <3>1, <3>2, <3>3
  <2> QED
    BY <2>1, <2>2
<1> QED
  BY <1>2, <1>3, <1>4

\* The one row of an insert comes in.
LEMMA OwnedPut ==
    ASSUME Types, Owned, NEW t \in Thread, PutRowDone(t)
    PROVE  Owned'
<1> DEFINE a == Arg(t)
<1> SUFFICES ASSUME store' \in Own PROVE (Given /\ Once /\ Aimed)'
  BY DEF Owned
<1>1. /\ UNCHANGED <<store, given, reused>> /\ Goes(t, Work(pc, t) \ {a}) /\ Doing(t, "PutRow")
      /\ rows' = [rows EXCEPT ![a.id] = Row(a.user, a.code)]
  BY DEF PutRowDone, Passed, Moved, Rest
<1>2. Given /\ Once /\ Aimed /\ Ids' = Ids
  BY <1>1, SameStore DEF Owned
<1>3. a \in Work(pc, t) /\ a.op = "PutRow" /\ a.id \in Ids
  BY <1>1 DEF Doing
<1>4. \A s \in Work(pc, t) \ {a} : s.op # "PutRow"
  BY <1>1, <1>3 DEF Doing, Followers
<1>5. \A u \in Thread : \A s \in Work(pc', u) : s \in Work(pc, u) /\ (u = t => s # a)
  BY <1>1 DEF Goes
<1>6. \A id \in Ids \ {a.id} : rows'[id] = rows[id]
  BY <1>1 DEF Types
<1>7. Given'
  <2>1. a.id \in given
    BY <1>2, <1>3 DEF Given
  <2> QED
    BY <1>1, <1>2, <1>5, <1>6, <2>1 DEF Given
<1>8. Once'
  <2> SUFFICES ASSUME NEW id \in Ids \ reused, NEW u \in Thread, NEW s \in Work(pc', u), s.op = "PutRow", s.id = id
               PROVE  /\ rows'[id] = None
                      /\ \A v \in Thread : \A r \in Work(pc', v) : r.op = "PutRow" /\ r.id = id => v = u
    BY <1>1, <1>2 DEF Once
  <2>1. id # a.id
    BY <1>2, <1>3, <1>4, <1>5 DEF Once
  <2> QED
    BY <1>2, <1>5, <1>6, <2>1 DEF Once
<1>9. Aimed'
  <2> SUFFICES ASSUME NEW u \in Thread, NEW s \in Work(pc', u), s.op = "RemoveRow", s.user # None
               PROVE  /\ s.id \in given
                      /\ s.id \in reused \/ /\ rows'[s.id] = None \/ rows'[s.id].owner = s.user
                                            /\ \A v \in Thread : \A r \in Work(pc', v) : r.op = "PutRow" => r.id # s.id
    BY <1>1 DEF Aimed
  <2>1. s \in Work(pc, u) /\ s.id \in Ids
    BY <1>5, Worker DEF Types
  <2>2. s.id \in reused \/ s.id # a.id
    BY <1>2, <1>3, <2>1 DEF Aimed
  <2> QED
    BY <1>2, <1>5, <1>6, <2>1, <2>2 DEF Aimed
<1> QED
  BY <1>7, <1>8, <1>9

\* A call begins; an insert gives its id.
LEMMA OwnedStart ==
    ASSUME Types, Owned, NEW t \in Thread, Started(t)
    PROVE  Owned'
<1>1. ASSUME NEW steps, Began(t, steps), \A s \in steps : s.op = "PutRow" => store \notin Own, UNCHANGED <<given, reused>>
      PROVE  Owned'
  <2>1. Goes(t, steps) /\ Fresh(steps) /\ UNCHANGED <<store, rows>>
    BY <1>1 DEF Began
  <2>2. CASE store \in Own
    <3>1. \A s \in steps : s.op # "PutRow" /\ (s.op = "RemoveRow" => s.user = None)
      BY <1>1, <2>1, <2>2 DEF Fresh
    <3> QED
      BY <1>1, <2>1, <3>1, OwnedKept
  <2>3. CASE store \notin Own
    BY <2>1, <2>3 DEF Owned
  <2> QED
    BY <2>2, <2>3
<1>2. ASSUME NEW steps, NEW id \in Ids, Began(t, steps), \A s \in steps : s.op = "PutRow" => s.id = id, Give(id)
      PROVE  Owned'
  <2>1. Goes(t, steps) /\ Fresh(steps) /\ UNCHANGED <<store, rows>>
    BY <1>2 DEF Began
  <2> SUFFICES ASSUME store' \in Own PROVE (Given /\ Once /\ Aimed)'
    BY DEF Owned
  <2>2. Given /\ Once /\ Aimed /\ Ids' = Ids
    BY <2>1, SameStore DEF Owned
  <2>3. given' = given \cup {id} /\ reused' = IF id \in given THEN reused \cup {id} ELSE reused
    BY <1>2 DEF Give
  <2>4. \A s \in steps : (s.op = "RemoveRow" => s.user = None) /\ (s.op = "PutRow" => s.id = id)
    BY <1>2, <2>1 DEF Fresh
  <2>5. \A u \in Thread \ {t} : Work(pc', u) = Work(pc, u)
    BY <2>1 DEF Goes
  <2>6. Work(pc', t) = steps
    BY <2>1 DEF Goes
  <2>7. Given'
    BY <2>1, <2>2, <2>3, <2>4, <2>5, <2>6 DEF Given
  <2>8. Once'
    <3> SUFFICES ASSUME NEW j \in Ids \ reused', NEW u \in Thread, NEW s \in Work(pc', u), s.op = "PutRow", s.id = j
                 PROVE  /\ rows[j] = None
                        /\ \A v \in Thread : \A r \in Work(pc', v) : r.op = "PutRow" /\ r.id = j => v = u
      BY <2>1, <2>2 DEF Once
    <3>1. CASE j = id
      <4>1. id \notin given
        BY <2>3, <3>1
      <4>2. rows[id] = None /\ \A v \in Thread : \A r \in Work(pc, v) : r.op = "PutRow" => r.id # id
        BY <2>2, <4>1 DEF Given
      <4> QED
        BY <2>5, <3>1, <4>2
    <3>2. CASE j # id
      <4>1. u # t /\ s \in Work(pc, u) /\ j \notin reused
        BY <2>3, <2>4, <2>5, <2>6, <3>2
      <4> QED
        BY <2>2, <2>4, <2>5, <2>6, <3>2, <4>1 DEF Once
    <3> QED
      BY <3>1, <3>2
  <2>9. Aimed'
    <3> SUFFICES ASSUME NEW u \in Thread, NEW s \in Work(pc', u), s.op = "RemoveRow", s.user # None
                 PROVE  /\ s.id \in given'
                        /\ s.id \in reused' \/ /\ rows[s.id] = None \/ rows[s.id].owner = s.user
                                               /\ \A v \in Thread : \A r \in Work(pc', v) : r.op = "PutRow" => r.id # s.id
      BY <2>1 DEF Aimed
    <3>1. u # t /\ s \in Work(pc, u)
      BY <2>4, <2>5, <2>6
    <3>2. s.id \in given /\ (s.id \in reused' \/ (s.id # id /\ s.id \notin reused))
      BY <2>2, <2>3, <3>1 DEF Aimed
    <3> QED
      BY <2>2, <2>3, <2>4, <2>5, <2>6, <3>1, <3>2 DEF Aimed
  <2> QED
    BY <2>7, <2>8, <2>9
<1> QED
  BY <1>1, <1>2 DEF Started

\* A step of a call that takes one step off its plan and leaves the rows.
LEMMA OwnedPassed ==
    ASSUME Types, Owned, NEW t \in Thread, NEW op, Passed(t, op), rows' = rows
    PROVE  Owned'
<1>1. Goes(t, Work(pc, t) \ {Arg(t)}) /\ UNCHANGED <<store, given, reused>>
  BY DEF Passed, Moved, Rest
<1> QED
  BY <1>1, OwnedKept

\* The stores without owners.
LEMMA OwnedElsewhere ==
    ASSUME store' = store, store \notin Own
    PROVE  Owned'
BY DEF Owned

\* The steps of calls keep rows with their owners.
LEMMA OwnedContinue ==
    ASSUME Types, Owned, NEW t \in Thread, Continue(t)
    PROVE  Owned'
<1> DEFINE a == Arg(t)
<1>0. Users \cap Own = {} /\ "CompetitionStore" \notin Own
  BY DEF Users, Own
<1>1. CASE PutRow(t)
  BY <1>1, PutRowFacts, OwnedPut
<1>2. CASE AddCode(t)
  BY <1>2, AddCodeFacts, OwnedPassed DEF AddCodeDone
<1>3. CASE DropCode(t)
  BY <1>3, DropCodeFacts, OwnedPassed
<1>4. CASE UpdateRow(t)
  <2>1. PICK rest : Moved(t, "UpdateRow", rest)
    BY <1>4, UpdateRowFacts DEF UpdateRowDone
  <2> QED
    BY <1>0, <2>1, StoresOf, OwnedElsewhere DEF Moved, Rest
<1>5. CASE EnsureRow(t)
  <2>1. Doing(t, "EnsureRow") /\ store' = store
    BY <1>5, EnsureRowFacts DEF Passed, Moved, Rest
  <2> QED
    BY <1>0, <2>1, StoresOf, OwnedElsewhere
<1>6. CASE Touch(t)
  BY <1>6, TouchFacts, OwnedPassed
<1>7. CASE Refer(t)
  <2>1. Doing(t, "Refer") /\ store' = store
    BY <1>7, ReferFacts DEF Passed, Moved, Rest
  <2> QED
    BY <1>0, <2>1, StoresOf, OwnedElsewhere
<1>8. CASE CheckOwner(t)
  <2> DEFINE b == S("RemoveRow", a.id, None, a.user)
             mine == rows[a.id] # None /\ rows[a.id].owner = a.user
             rest == IF mine THEN {b} ELSE {}
  <2>1. Moved(t, "CheckOwner", rest) /\ rows' = rows
    BY <1>8, CheckOwnerFacts DEF CheckOwnerDone
  <2>2. a.id \in Ids /\ Goes(t, rest) /\ UNCHANGED <<store, given, reused>>
    BY <2>1 DEF Moved, Doing, Rest
  <2>3. b.op = "RemoveRow" /\ b.id = a.id /\ b.user = a.user
    BY StepIs
  <2> HIDE DEF b
  <2>4. \A s \in rest : s.op # "PutRow" /\ s.id \in Ids /\ rows[s.id] # None /\ rows[s.id].owner = s.user
    BY <2>2, <2>3
  <2> HIDE DEF rest
  <2> QED
    BY <2>1, <2>2, <2>4, OwnedKept
<1>9. CASE RemoveRow(t)
  <2> DEFINE rest == IF rows[a.id] = None THEN {} ELSE AfterWork(a.id, rows[a.id])
  <2>1. Moved(t, "RemoveRow", rest) /\ rows' = [rows EXCEPT ![a.id] = None]
    BY <1>9, RemoveRowFacts DEF RemoveRowDone
  <2>2. Goes(t, rest) /\ UNCHANGED <<store, given, reused>>
    BY <2>1 DEF Moved, Rest
  <2>3. \A s \in rest : s.op \in {"DropCode", "Retain"}
    BY StepIs DEF AfterWork, DropsOf, RetainsOf
  <2>4. \A id \in Ids : rows'[id] \in {rows[id], None}
    BY <2>1 DEF Types
  <2> HIDE DEF rest
  <2> QED
    BY <2>2, <2>3, <2>4, OwnedKept
<1>10. CASE Push(t)
  BY <1>10, PushFacts, OwnedPassed
<1>11. CASE Retain(t)
  BY <1>11, RetainFacts, OwnedPassed
<1>12. CASE CheckRow(t)
  <2>1. PICK rest : Moved(t, "CheckRow", rest)
    BY <1>12, CheckRowFacts DEF CheckRowDone
  <2> QED
    BY <1>0, <2>1, StoresOf, OwnedElsewhere DEF Moved, Rest
<1>13. CASE JoinEntry(t)
  <2>1. PICK rest : Moved(t, "JoinEntry", rest)
    BY <1>13, JoinEntryFacts DEF JoinEntryDone
  <2> QED
    BY <1>0, <2>1, StoresOf, OwnedElsewhere DEF Moved, Rest
<1>14. CASE Score(t)
  BY <1>14, ScoreFacts, OwnedPassed
<1>15. CASE LookUp(t) \/ LookUpList(t) \/ GetRow(t)
  <2>1. Looked(t)
    BY <1>15, LookUpFacts, LookUpListFacts, GetRowFacts
  <2> QED
    BY <2>1, OwnedKept DEF Looked, Rest
<1> QED
  BY <1>1, <1>2, <1>3, <1>4, <1>5, <1>6, <1>7, <1>8, <1>9, <1>10, <1>11, <1>12, <1>13, <1>14, <1>15 DEF Continue

-----------------------------------------------------------------------------
(* Tiers.                                                                  *)

\* Nobody's referrer changes.
LEMMA ScannedKept ==
    ASSUME Scanned, UNCHANGED <<store, scan>>,
           \A id \in Ids, r \in User : (rows'[id] # None /\ rows'[id].referred_by = r)
                                         <=> (rows[id] # None /\ rows[id].referred_by = r)
    PROVE  Scanned'
<1> SUFFICES ASSUME scan.on PROVE Scanned'
  BY DEF Scanned
<1>1. Ids' = Ids
  BY SameStore
<1>2. store = "Referrals" /\ scan.of \in User
  BY DEF Scanned
<1>3. Now' = Now
  BY <1>1, <1>2 DEF Now
<1>4. \A seen : Seen(seen)' = Seen(seen)
  BY <1>1 DEF Seen
<1> QED
  BY <1>1, <1>3, <1>4 DEF Scanned

\* A row changes, and what must and may be counted with it.
LEMMA ScannedRecount ==
    ASSUME Types, Scanned, store' = store, NEW id \in Ids, \A j \in Ids \ {id} : rows'[j] = rows[j], Recount(id)
    PROVE  Scanned'
<1> DEFINE yes == rows'[id] # None /\ rows'[id].referred_by = scan.of
<1>1. CASE ~scan.on
  BY <1>1 DEF Scanned, Recount
<1>2. CASE scan.on
  <2>0. scan \in Scans
    BY DEF Types
  <2>1. /\ scan'.on = scan.on /\ scan'.of = scan.of /\ scan'.todo = scan.todo /\ scan'.got = scan.got
        /\ scan'.must = (IF yes THEN scan.must ELSE scan.must \ {id})
        /\ scan'.may = (IF yes THEN scan.may \cup {id} ELSE scan.may)
    BY <1>2, <2>0 DEF Recount, Scans
  <2>2. Ids' = Ids
    BY SameStore
  <2>3. Now' = IF yes THEN Now \cup {id} ELSE Now \ {id}
    BY <2>1, <2>2 DEF Now
  <2>4. store = "Referrals" /\ scan.of \in User /\ scan.must \subseteq Now /\ Now \subseteq scan.may
    BY <1>2 DEF Scanned
  <2>5. PICK seen \in SUBSET Ids : Seen(seen)
    BY <1>2 DEF Scanned
  <2>6. Seen(seen)'
    BY <2>1, <2>2, <2>5 DEF Seen
  <2>7. scan'.must \subseteq Now' /\ Now' \subseteq scan'.may
    BY <2>1, <2>3, <2>4
  <2> QED
    BY <1>2, <2>1, <2>2, <2>4, <2>5, <2>6, <2>7 DEF Scanned
<1> QED
  BY <1>1, <1>2

\* The rows do not change.
LEMMA ScannedSame ==
    ASSUME Scanned, UNCHANGED <<store, scan, rows>>
    PROVE  Scanned'
BY ScannedKept

\* The steps of calls keep the count between its bounds.
LEMMA ScannedContinue ==
    ASSUME Types, Scanned, NEW t \in Thread, Continue(t)
    PROVE  Scanned'
<1> DEFINE a == Arg(t)
<1>0. rows \in [Ids -> Rows \cup {None}] /\ None \notin User
  BY RelationalAssumption DEF Types
<1>1. CASE PutRow(t)
  <2>1. PutRowDone(t) /\ store' = store /\ a.id \in Ids
    BY <1>1, PutRowFacts DEF PutRowDone, Passed, Moved, Rest, Doing
  <2> QED
    BY <1>0, <2>1, ScannedRecount DEF PutRowDone
<1>2. CASE AddCode(t)
  BY <1>2, AddCodeFacts, ScannedSame DEF AddCodeDone, Passed, Moved, Rest
<1>3. CASE DropCode(t)
  BY <1>3, DropCodeFacts, ScannedSame DEF Passed, Moved, Rest
<1>4. CASE UpdateRow(t)
  <2>1. UpdateRowDone(t) /\ store' = store /\ a.id \in Ids /\ scan' = scan
    BY <1>4, UpdateRowFacts DEF UpdateRowDone, Moved, Rest, Doing
  <2>2. CASE rows[a.id] = None
    BY <2>1, <2>2, ScannedSame DEF UpdateRowDone
  <2>3. CASE rows[a.id] # None
    <3>1. rows' = [rows EXCEPT ![a.id].code = a.code]
      BY <2>1, <2>3 DEF UpdateRowDone
    <3>2. rows'[a.id] = [rows[a.id] EXCEPT !.code = a.code] /\ \A j \in Ids \ {a.id} : rows'[j] = rows[j]
      BY <1>0, <2>1, <3>1
    <3>3. rows[a.id] \in Rows
      BY <1>0, <2>1, <2>3
    <3>4. rows'[a.id] # None /\ rows'[a.id].referred_by = rows[a.id].referred_by
      <4>1. rows'[a.id].referred_by = rows[a.id].referred_by
        BY <3>2, <3>3 DEF Rows
      <4>2. rows'[a.id] \in [owner : User \cup {None}, code : Code \cup {None}, referred_by : User \cup {None}]
        <5>1. a.code \in Code \cup {None}
          BY <2>1, StoresOf DEF UpdateRowDone, Moved
        <5> QED
          BY <3>2, <3>3, <5>1 DEF Rows
      <4> QED
        BY <4>1, <4>2, RelationalAssumption
    <3> QED
      BY <2>1, <2>3, <3>2, <3>4, ScannedKept
  <2> QED
    BY <2>2, <2>3
<1>5. CASE EnsureRow(t)
  <2>1. /\ store' = store /\ scan' = scan /\ a.id \in Ids
        /\ rows' = IF rows[a.id] = None THEN [rows EXCEPT ![a.id] = Row(a.id, None)] ELSE rows
    BY <1>5, EnsureRowFacts DEF Passed, Moved, Rest, Doing
  <2>2. Row(a.id, None).referred_by = None
    BY DEF Row
  <2>3. ASSUME rows[a.id] = None PROVE rows'[a.id].referred_by = None /\ \A j \in Ids \ {a.id} : rows'[j] = rows[j]
    BY <1>0, <2>1, <2>2, <2>3
  <2> QED
    BY <1>0, <2>1, <2>3, ScannedKept
<1>6. CASE Touch(t)
  BY <1>6, TouchFacts, ScannedSame DEF Passed, Moved, Rest
<1>7. CASE Refer(t)
  <2>1. /\ store' = store /\ a.id \in Ids /\ Recount(a.id)
        /\ rows' = IF rows[a.id] = None THEN rows ELSE [rows EXCEPT ![a.id].referred_by = a.user]
    BY <1>7, ReferFacts DEF Passed, Moved, Rest, Doing
  <2>2. \A j \in Ids \ {a.id} : rows'[j] = rows[j]
    BY <1>0, <2>1
  <2> QED
    BY <2>1, <2>2, ScannedRecount
<1>8. CASE CheckOwner(t)
  BY <1>8, CheckOwnerFacts, ScannedSame DEF CheckOwnerDone, Moved, Rest
<1>9. CASE RemoveRow(t)
  <2>1. /\ store' = store /\ a.id \in Ids /\ Recount(a.id) /\ rows' = [rows EXCEPT ![a.id] = None]
    BY <1>9, RemoveRowFacts DEF RemoveRowDone, Moved, Rest, Doing
  <2>2. \A j \in Ids \ {a.id} : rows'[j] = rows[j]
    BY <1>0, <2>1
  <2> QED
    BY <2>1, <2>2, ScannedRecount
<1>10. CASE Push(t)
  BY <1>10, PushFacts, ScannedSame DEF Passed, Moved, Rest
<1>11. CASE Retain(t)
  BY <1>11, RetainFacts, ScannedSame DEF Passed, Moved, Rest
<1>12. CASE CheckRow(t)
  BY <1>12, CheckRowFacts, ScannedSame DEF CheckRowDone, Moved, Rest
<1>13. CASE JoinEntry(t)
  BY <1>13, JoinEntryFacts, ScannedSame DEF JoinEntryDone, Moved, Rest
<1>14. CASE Score(t)
  BY <1>14, ScoreFacts, ScannedSame DEF Passed, Moved, Rest
<1>15. CASE LookUp(t) \/ LookUpList(t) \/ GetRow(t)
  <2>1. Looked(t)
    BY <1>15, LookUpFacts, LookUpListFacts, GetRowFacts
  <2> QED
    BY <2>1, ScannedSame DEF Looked, Rest
<1> QED
  BY <1>1, <1>2, <1>3, <1>4, <1>5, <1>6, <1>7, <1>8, <1>9, <1>10, <1>11, <1>12, <1>13, <1>14, <1>15 DEF Continue

\* A count begins with nothing, and with all rows to go.
LEMMA ScannedBegin ==
    ASSUME Types, NEW r \in User, BeginScan(r)
    PROVE  Scanned'
<1> DEFINE now == {id \in Ids : rows[id] # None /\ rows[id].referred_by = r}
<1>1. /\ store = "Referrals" /\ Aside
      /\ scan' = [on |-> TRUE, of |-> r, todo |-> Ids, got |-> 0, must |-> now, may |-> now]
  BY ScanAside DEF BeginScan
<1>2. Ids' = Ids /\ rows' = rows /\ store' = store
  BY <1>1, SameStore DEF Aside
<1>3. Now' = now
  BY <1>1, <1>2 DEF Now
<1>4. Seen({})'
  BY <1>1, <1>2, FS_EmptySet DEF Seen
<1> QED
  BY <1>1, <1>2, <1>3, <1>4 DEF Scanned

\* The count goes to one more row.
LEMMA ScannedRow ==
    ASSUME Types, Scanned, NEW id \in Ids, ScanRow(id)
    PROVE  Scanned'
<1> DEFINE yes == rows[id] # None /\ rows[id].referred_by = scan.of
<1>0. scan \in Scans /\ scan.on /\ id \in scan.todo /\ Aside
  BY ScanAside DEF Types, ScanRow, Scan
<1>1. /\ scan'.on = scan.on /\ scan'.of = scan.of /\ scan'.must = scan.must /\ scan'.may = scan.may
      /\ scan'.todo = scan.todo \ {id} /\ scan'.got = IF yes THEN scan.got + 1 ELSE scan.got
  BY <1>0 DEF ScanRow, Scans
<1>2. Ids' = Ids /\ rows' = rows /\ store' = store
  BY <1>0, SameStore DEF Aside
<1>3. Now' = Now
  BY <1>1, <1>2 DEF Now
<1>4. store = "Referrals" /\ scan.of \in User /\ scan.must \subseteq Now /\ Now \subseteq scan.may
  BY <1>0 DEF Scanned
<1>5. PICK seen \in SUBSET Ids : Seen(seen)
  BY <1>0 DEF Scanned
<1>6. id \in Now <=> yes
  BY DEF Now
<1>7. \E more \in SUBSET Ids : Seen(more)'
  <2>1. CASE yes
    <3>1. IsFiniteSet(seen) /\ id \notin seen
      BY <1>0, <1>5, IdsFinite, FS_Subset DEF Seen
    <3>2. Cardinality(seen \cup {id}) = Cardinality(seen) + 1
      BY <3>1, FS_AddElement
    <3>3. Seen(seen \cup {id})'
      BY <1>0, <1>1, <1>2, <1>4, <1>5, <1>6, <2>1, <3>2 DEF Seen
    <3> QED
      BY <1>5, <3>3
  <2>2. CASE ~yes
    <3>1. Seen(seen)'
      BY <1>0, <1>1, <1>2, <1>4, <1>5, <1>6, <2>2 DEF Seen
    <3> QED
      BY <1>5, <3>1
  <2> QED
    BY <2>1, <2>2
<1> QED
  BY <1>0, <1>1, <1>2, <1>3, <1>4, <1>7 DEF Scanned

\* Every step keeps the count between its bounds.
LEMMA ScannedNext ==
    ASSUME Types, Scanned, Next
    PROVE  Scanned'
<1>1. ASSUME NEW t \in Thread, Start(t) PROVE Scanned'
  <2>1. PICK steps : Began(t, steps)
    BY <1>1, StartFacts DEF Started
  <2> QED
    BY <2>1, ScannedSame DEF Began
<1>2. ASSUME NEW n \in 1..MaxId, set_next_id(n) PROVE Scanned'
  BY <1>2, ScanAside, ScannedSame DEF Aside, set_next_id, CallRest
<1>3. ASSUME NEW ts \in Tiers, set_tiers(ts) PROVE Scanned'
  BY <1>3, ScanAside, ScannedSame DEF Aside, set_tiers
<1>4. CASE EndScan
  BY <1>4 DEF EndScan, NoScan, Scanned
<1> QED
  BY <1>1, <1>2, <1>3, <1>4, ScannedBegin, ScannedRow, ScannedContinue DEF Next, Scan

-----------------------------------------------------------------------------
(* Calls that overlap.                                                     *)

\* The code that a row has after a step of t: none, the one it had, or one that
\* t was about to give it.
RowCodes(t) ==
    \A id \in Ids :
        \/ rows'[id] = None \/ rows'[id].code = None
        \/ rows[id] # None /\ rows'[id].code = rows[id].code
        \/ \E a \in Work(pc, t) : a.id = id /\ a.code = rows'[id].code

\* What every step of a call does.
Common(t) ==
    \E rest : Goes(t, rest) /\ Remembers /\ store' = store /\ RowCodes(t)

\* Rows that do not change keep their codes.
LEMMA SameRowCodes ==
    ASSUME NEW t, rows' = rows
    PROVE  RowCodes(t)
BY DEF RowCodes

\* Every step of a call does this.
LEMMA ContinueCommon ==
    ASSUME Types, NEW t \in Thread, Continue(t)
    PROVE  Common(t)
<1> DEFINE a == Arg(t)
<1>0. rows \in [Ids -> Rows \cup {None}]
  BY DEF Types
<1>1. CASE PutRow(t)
  <2>1. PutRowDone(t)
    BY <1>1, PutRowFacts
  <2>2. a \in Work(pc, t) /\ a.id \in Ids /\ Row(a.user, a.code).code = a.code
    BY <2>1 DEF PutRowDone, Passed, Moved, Doing, Row
  <2>3. RowCodes(t)
    BY <1>0, <2>1, <2>2 DEF RowCodes, PutRowDone
  <2> QED
    BY <2>1, <2>3 DEF PutRowDone, Passed, Moved, Rest, Common
<1>2. CASE AddCode(t)
  BY <1>2, AddCodeFacts, SameRowCodes DEF AddCodeDone, Passed, Moved, Rest, Common
<1>3. CASE DropCode(t)
  BY <1>3, DropCodeFacts, SameRowCodes DEF Passed, Moved, Rest, Common
<1>4. CASE UpdateRow(t)
  <2>1. UpdateRowDone(t)
    BY <1>4, UpdateRowFacts
  <2>2. PICK rest : Moved(t, "UpdateRow", rest)
    BY <2>1 DEF UpdateRowDone
  <2>3. a \in Work(pc, t) /\ a.id \in Ids
    BY <2>2 DEF Moved, Doing
  <2>4. RowCodes(t)
    <3>1. CASE rows[a.id] = None
      BY <2>1, <3>1, SameRowCodes DEF UpdateRowDone
    <3>2. CASE rows[a.id] # None
      <4>1. rows' = [rows EXCEPT ![a.id] = [rows[a.id] EXCEPT !.code = a.code]] /\ rows[a.id] \in Rows
        BY <1>0, <2>1, <2>3, <3>2 DEF UpdateRowDone
      <4>2. rows'[a.id].code = a.code /\ \A id \in Ids \ {a.id} : rows'[id] = rows[id]
        BY <1>0, <2>3, <4>1 DEF Rows
      <4> QED
        BY <2>3, <4>2 DEF RowCodes
    <3> QED
      BY <3>1, <3>2
  <2> QED
    BY <2>2, <2>4 DEF Moved, Rest, Common
<1>5. CASE EnsureRow(t)
  <2>1. /\ Passed(t, "EnsureRow")
        /\ rows' = IF rows[a.id] = None THEN [rows EXCEPT ![a.id] = Row(a.id, None)] ELSE rows
    BY <1>5, EnsureRowFacts
  <2>2. RowCodes(t)
    <3>1. Row(a.id, None).code = None
      BY DEF Row
    <3> QED
      BY <1>0, <2>1, <3>1 DEF RowCodes
  <2> QED
    BY <2>1, <2>2 DEF Passed, Moved, Rest, Common
<1>6. CASE Touch(t)
  BY <1>6, TouchFacts, SameRowCodes DEF Passed, Moved, Rest, Common
<1>7. CASE Refer(t)
  <2>1. /\ Passed(t, "Refer")
        /\ rows' = IF rows[a.id] = None THEN rows ELSE [rows EXCEPT ![a.id].referred_by = a.user]
    BY <1>7, ReferFacts
  <2>2. a.id \in Ids
    BY <2>1 DEF Passed, Moved, Doing
  <2>3. RowCodes(t)
    <3>1. CASE rows[a.id] = None
      BY <2>1, <3>1, SameRowCodes
    <3>2. CASE rows[a.id] # None
      <4>1. rows' = [rows EXCEPT ![a.id] = [rows[a.id] EXCEPT !.referred_by = a.user]] /\ rows[a.id] \in Rows
        BY <1>0, <2>1, <2>2, <3>2
      <4>2. rows'[a.id].code = rows[a.id].code /\ \A id \in Ids \ {a.id} : rows'[id] = rows[id]
        BY <1>0, <2>2, <4>1 DEF Rows
      <4> QED
        BY <3>2, <4>2 DEF RowCodes
    <3> QED
      BY <3>1, <3>2
  <2> QED
    BY <2>1, <2>3 DEF Passed, Moved, Rest, Common
<1>8. CASE CheckOwner(t)
  BY <1>8, CheckOwnerFacts, SameRowCodes DEF CheckOwnerDone, Moved, Rest, Common
<1>9. CASE RemoveRow(t)
  <2>1. RemoveRowDone(t)
    BY <1>9, RemoveRowFacts
  <2>2. RowCodes(t)
    BY <1>0, <2>1 DEF RowCodes, RemoveRowDone
  <2> QED
    BY <2>1, <2>2 DEF RemoveRowDone, Moved, Rest, Common
<1>10. CASE Push(t)
  BY <1>10, PushFacts, SameRowCodes DEF Passed, Moved, Rest, Common
<1>11. CASE Retain(t)
  BY <1>11, RetainFacts, SameRowCodes DEF Passed, Moved, Rest, Common
<1>12. CASE CheckRow(t)
  BY <1>12, CheckRowFacts, SameRowCodes DEF CheckRowDone, Moved, Rest, Common
<1>13. CASE JoinEntry(t)
  BY <1>13, JoinEntryFacts, SameRowCodes DEF JoinEntryDone, Moved, Rest, Common
<1>14. CASE Score(t)
  BY <1>14, ScoreFacts, SameRowCodes DEF Passed, Moved, Rest, Common
<1>15. CASE LookUp(t) \/ LookUpList(t) \/ GetRow(t)
  <2>1. Looked(t)
    BY <1>15, LookUpFacts, LookUpListFacts, GetRowFacts
  <2> QED
    BY <2>1, SameRowCodes DEF Looked, Rest, Common
<1> QED
  BY <1>1, <1>2, <1>3, <1>4, <1>5, <1>6, <1>7, <1>8, <1>9, <1>10, <1>11, <1>12, <1>13, <1>14, <1>15 DEF Continue

\* So does a call as it begins.
LEMMA StartCommon ==
    ASSUME Types, NEW t \in Thread, Start(t)
    PROVE  Common(t)
<1>1. PICK steps : Began(t, steps)
  BY StartFacts DEF Started
<1> QED
  BY <1>1, SameRowCodes DEF Began, Common

\* The histories know of every overlap after the step.
LEMMA OverlapsNext ==
    ASSUME Types, Apart, Single, NEW t \in Thread, Common(t)
    PROVE  Apart' /\ Single'
<1>1. PICK rest : Goes(t, rest) /\ Remembers /\ store' = store /\ RowCodes(t)
  BY DEF Common
<1>2. /\ pc' \in [Thread -> Plans] /\ \A u \in Thread \ {t} : Work(pc', u) = Work(pc, u)
      /\ odd' = odd \cup OddIn(pc') /\ stained \subseteq stained' /\ StainedIn(pc') \subseteq stained'
  BY <1>1 DEF Goes, Remembers
<1>3. Single'
  BY <1>2, Overlaps DEF Single
<1>4. ASSUME NEW v \in Thread, NEW w \in Thread, v # w, NEW s \in Work(pc', v), NEW r \in Work(pc', w)
      PROVE  /\ s.code = r.code => s.code \in stained' \cup {None}
             /\ s.id = r.id => /\ s.code \in stained' \cup {None}
                               /\ rows'[s.id] = None \/ rows'[s.id].code \in stained' \cup {None}
  <2>1. /\ s.code = r.code => s.code \in stained' \cup {None}
        /\ s.id = r.id => s.code \in stained' \cup {None}
        /\ s.id = r.id => rows[s.id] = None \/ rows[s.id].code \in stained'
    BY <1>2, <1>4, Overlaps
  <2>2. ASSUME s.id = r.id, rows'[s.id] # None PROVE rows'[s.id].code \in stained' \cup {None}
    <3>1. s.id \in Ids
      BY <1>2, Worker
    <3>2. ASSUME NEW a \in Work(pc, t), a.id = s.id, a.code = rows'[s.id].code
          PROVE  rows'[s.id].code \in stained' \cup {None}
      <4>1. v # t \/ w # t
        BY <1>4
      <4>2. CASE v # t
        BY <1>2, <3>2, <4>2 DEF Apart
      <4>3. CASE w # t
        BY <1>2, <2>2, <3>2, <4>3 DEF Apart
      <4> QED
        BY <4>1, <4>2, <4>3
    <3> QED
      BY <1>1, <2>1, <2>2, <3>1, <3>2 DEF RowCodes
  <2> QED
    BY <2>1, <2>2
<1>5. Apart'
  BY <1>4 DEF Apart
<1> QED
  BY <1>3, <1>5


-----------------------------------------------------------------------------
(* Codes.                                                                  *)

\* The rows that carry a code after the step, and the row its map names then.
NewHas(c) == {id \in Ids : rows'[id] # None /\ rows'[id].code = c}
NewNamed(c) == {codes'[d] : d \in DOMAIN codes' \cap {c}}

\* A step on a code that leaves it clean.
Clean(t, rest, c) ==
    /\ Types /\ Coded /\ Apart /\ Apart'
    /\ t \in Thread /\ Goes(t, rest) /\ store' = store
    /\ stained \subseteq stained' /\ c \in Code /\ c \notin stained'

\* What is known of the code before the step, and what is to be shown after.
LEMMA CodeBefore ==
    ASSUME NEW t, NEW rest, NEW c, Clean(t, rest, c)
    PROVE  /\ (\A u \in Thread : \A s \in Work(pc, u) : s.code # c) => HasSet(c) = CodeSet(c)
           /\ \A u \in Thread : \A s \in Work(pc, u) : s.code = c => CodeBy(s, Work(pc, u), HasSet(c), CodeSet(c))
           /\ Work(pc', t) = rest /\ \A u \in Thread \ {t} : Work(pc', u) = Work(pc, u)
           /\ t \in Thread /\ c \in Code /\ c # None
           /\ \A s \in Work(pc, t) \cup rest : s.code = c =>
                \A u \in Thread \ {t} : \A r \in Work(pc, u) : r.code # c
<1>1. CodeAt(c)
  BY DEF Clean, Coded
<1>2. Work(pc', t) = rest /\ \A u \in Thread \ {t} : Work(pc', u) = Work(pc, u)
  BY DEF Clean, Goes
<1>3. c # None
  BY RelationalAssumption DEF Clean
<1>4. ASSUME NEW s \in Work(pc, t), s.code = c, NEW u \in Thread \ {t}, NEW r \in Work(pc, u)
      PROVE  r.code # c
  BY <1>3, <1>4 DEF Clean, Apart
<1>5. ASSUME NEW s \in rest, s.code = c, NEW u \in Thread \ {t}, NEW r \in Work(pc, u)
      PROVE  r.code # c
  <2>1. s \in Work(pc', t) /\ r \in Work(pc', u)
    BY <1>2, <1>5
  <2> QED
    BY <1>3, <1>5, <2>1 DEF Clean, Apart
<1> QED
  BY <1>1, <1>2, <1>3, <1>4, <1>5 DEF CodeAt, Clean

\* After the step, in terms of the new rows and codes.
LEMMA CodeAfter ==
    ASSUME NEW t, NEW rest, NEW c, Clean(t, rest, c),
           (\A u \in Thread : \A s \in Work(pc', u) : s.code # c) => NewHas(c) = NewNamed(c),
           \A u \in Thread : \A s \in Work(pc', u) : s.code = c => CodeBy(s, Work(pc', u), NewHas(c), NewNamed(c))
    PROVE  CodeAt(c)'
<1>1. HasSet(c)' = NewHas(c)
  BY SameStore DEF HasSet, NewHas, Has, Clean
<1>2. CodeSet(c)' = NewNamed(c)
  BY DEF CodeSet, NewNamed
<1> QED
  BY <1>1, <1>2 DEF CodeAt

\* A step of a call that has nothing to do with the code.
LEMMA CodeIdle ==
    ASSUME NEW t, NEW rest, NEW c, Clean(t, rest, c), NewHas(c) = HasSet(c), NewNamed(c) = CodeSet(c),
           \A s \in Work(pc, t) \cup rest : s.code # c
    PROVE  CodeAt(c)'
<1>1. /\ (\A u \in Thread : \A s \in Work(pc, u) : s.code # c) => HasSet(c) = CodeSet(c)
      /\ \A u \in Thread : \A s \in Work(pc, u) : s.code = c => CodeBy(s, Work(pc, u), HasSet(c), CodeSet(c))
      /\ Work(pc', t) = rest /\ \A u \in Thread \ {t} : Work(pc', u) = Work(pc, u)
      /\ t \in Thread
  BY CodeBefore
<1>2. (\A u \in Thread : \A s \in Work(pc', u) : s.code # c) => NewHas(c) = NewNamed(c)
  BY <1>1
<1>3. ASSUME NEW u \in Thread, NEW s \in Work(pc', u), s.code = c
      PROVE  CodeBy(s, Work(pc', u), NewHas(c), NewNamed(c))
  <2>1. u # t /\ Work(pc', u) = Work(pc, u)
    BY <1>1, <1>3
  <2> QED
    BY <1>1, <1>3, <2>1
<1> QED
  BY <1>2, <1>3, CodeAfter

\* A step of the one call on the code.
LEMMA CodeMine ==
    ASSUME NEW t, NEW rest, NEW c, Clean(t, rest, c), \E s \in Work(pc, t) \cup rest : s.code = c,
           (\A s \in rest : s.code # c) => NewHas(c) = NewNamed(c),
           \A s \in rest : s.code = c => CodeBy(s, rest, NewHas(c), NewNamed(c))
    PROVE  CodeAt(c)'
<1>1. /\ Work(pc', t) = rest /\ \A u \in Thread \ {t} : Work(pc', u) = Work(pc, u)
      /\ t \in Thread
      /\ \A u \in Thread \ {t} : \A r \in Work(pc, u) : r.code # c
  BY CodeBefore
<1>2. (\A u \in Thread : \A s \in Work(pc', u) : s.code # c) => NewHas(c) = NewNamed(c)
  BY <1>1
<1>3. \A u \in Thread : \A s \in Work(pc', u) : s.code = c => CodeBy(s, Work(pc', u), NewHas(c), NewNamed(c))
  BY <1>1
<1> QED
  BY <1>2, <1>3, CodeAfter

\* The code is in order when a call on it begins.
LEMMA CodeSettled ==
    ASSUME NEW t, NEW rest, NEW c, Clean(t, rest, c), \E s \in rest : s.code = c, \A s \in Work(pc, t) : s.code # c
    PROVE  HasSet(c) = CodeSet(c)
BY CodeBefore

\* A step that takes itself off a plan, and touches no row or code.
LEMMA CodeQuiet ==
    ASSUME NEW t, NEW rest, NEW c, Clean(t, rest, c), NewHas(c) = HasSet(c), NewNamed(c) = CodeSet(c),
           NEW a, rest = Work(pc, t) \ {a}, a.code # c, a.op \notin {"PutRow", "AddCode"}
    PROVE  CodeAt(c)'
<1>1. CASE \A s \in Work(pc, t) : s.code # c
  BY <1>1, CodeIdle
<1>2. CASE \E s \in Work(pc, t) : s.code = c
  <2>1. ASSUME NEW s \in rest, s.code = c PROVE CodeBy(s, rest, NewHas(c), NewNamed(c))
    <3>1. s \in Work(pc, t) /\ t \in Thread
      BY DEF Clean
    <3>2. CodeBy(s, Work(pc, t), HasSet(c), CodeSet(c))
      BY <2>1, <3>1, CodeBefore
    <3>3. /\ (\E r \in rest : r.op = "PutRow") <=> (\E r \in Work(pc, t) : r.op = "PutRow")
          /\ (\E r \in rest : r.op = "AddCode") <=> (\E r \in Work(pc, t) : r.op = "AddCode")
      OBVIOUS
    <3> QED
      BY <3>2, <3>3 DEF CodeBy
  <2>2. \E s \in rest : s.code = c
    BY <1>2
  <2> QED
    BY <2>1, <2>2, CodeMine
<1> QED
  BY <1>1, <1>2

\* Rows and codes that do not change.
LEMMA CodeSame ==
    ASSUME NEW c
    PROVE  /\ (\A id \in Ids : rows'[id] = rows[id]) => NewHas(c) = HasSet(c)
           /\ codes' = codes => NewNamed(c) = CodeSet(c)
BY DEF NewHas, HasSet, NewNamed, CodeSet, Has

\* Steps of most kinds have no code.
LEMMA NoCode ==
    ASSUME Types, NEW t \in Thread, NEW s \in Work(pc, t), s.op \notin {"PutRow", "AddCode", "DropCode", "UpdateRow"}
    PROVE  s.code = None
BY Worker DEF StepsOn, Fits, Types

\* A row comes in with its code, after the code.
LEMMA CodePutRow ==
    ASSUME NEW t \in Thread, PutRowDone(t), NEW c, Clean(t, Work(pc, t) \ {Arg(t)}, c)
    PROVE  CodeAt(c)'
<1> DEFINE a == Arg(t)
           rest == Work(pc, t) \ {a}
<1>1. /\ Doing(t, "PutRow") /\ rows' = [rows EXCEPT ![a.id] = Row(a.user, a.code)] /\ codes' = codes
      /\ rows[a.id] = None \/ rows[a.id].code \in stained' \cup {a.code, None}
  BY DEF PutRowDone, Passed, Moved
<1>2. a \in Work(pc, t) /\ a.op = "PutRow" /\ a.id \in Ids /\ \A s \in rest : s.op = "Push" /\ s \in Work(pc, t)
  BY <1>1 DEF Doing, Followers
<1>3. \A s \in rest : s.code # c
  BY <1>2, NoCode, CodeBefore DEF Clean
<1>4. /\ \A id \in Ids \ {a.id} : rows'[id] = rows[id]
      /\ rows'[a.id] = Row(a.user, a.code) /\ rows'[a.id] # None
  <2>1. Row(a.user, a.code) \in Rows /\ rows \in [Ids -> Rows \cup {None}]
    BY <1>1, StoresOf DEF Clean, Types
  <2>2. \A r \in Rows : r # None
    BY RelationalAssumption DEF Rows
  <2> QED
    BY <1>1, <1>2, <2>1, <2>2
<1>5. rows'[a.id].code = a.code
  BY <1>4 DEF Row
<1>6. NewNamed(c) = CodeSet(c)
  BY <1>1, CodeSame
<1>7. CASE a.code # c
  <2>1. rows[a.id] = None \/ rows[a.id].code # c
    BY <1>1, <1>7, CodeBefore DEF Clean
  <2>2. NewHas(c) = HasSet(c)
    BY <1>4, <1>5, <1>7, <2>1 DEF NewHas, HasSet, Has
  <2> QED
    BY <1>3, <1>6, <1>7, <2>2, CodeIdle
<1>8. CASE a.code = c
  <2>1. CodeBy(a, Work(pc, t), HasSet(c), CodeSet(c))
    BY <1>2, <1>8, CodeBefore
  <2>2. CodeSet(c) = {a.id} /\ HasSet(c) \subseteq {a.id}
    BY <1>2, <2>1 DEF CodeBy
  <2>3. NewHas(c) = {a.id}
    BY <1>2, <1>4, <1>5, <1>8, <2>2 DEF NewHas, HasSet, Has
  <2> QED
    BY <1>2, <1>3, <1>6, <1>8, <2>2, <2>3, CodeMine
<1> QED
  BY <1>7, <1>8

\* A code comes in, before its row or after.
LEMMA CodeAddCode ==
    ASSUME NEW t \in Thread, AddCodeDone(t), NEW c, Clean(t, Work(pc, t) \ {Arg(t)}, c)
    PROVE  CodeAt(c)'
<1> DEFINE a == Arg(t)
           rest == Work(pc, t) \ {a}
<1>1. /\ Doing(t, "AddCode") /\ rows' = rows
      /\ codes' = [d \in DOMAIN codes \cup {a.code} |-> IF d = a.code THEN a.id ELSE codes[d]]
      /\ a.code \in DOMAIN codes /\ codes[a.code] # a.id => a.code \in stained'
  BY DEF AddCodeDone, Passed, Moved
<1>2. /\ a \in Work(pc, t) /\ a.op = "AddCode"
      /\ \A s \in rest : s \in Work(pc, t) /\ s.id = a.id /\ (s.op = "Push" \/ (s.op = "PutRow" /\ s.code = a.code))
  BY <1>1 DEF Doing, Followers
<1>3. \A s \in rest : s.op = "Push" => s.code # c
  BY <1>2, NoCode, CodeBefore DEF Clean
<1>4. NewHas(c) = HasSet(c)
  BY <1>1, CodeSame
<1>5. CASE a.code # c
  <2>1. NewNamed(c) = CodeSet(c)
    BY <1>1, <1>5 DEF NewNamed, CodeSet
  <2> QED
    BY <1>2, <1>3, <1>4, <1>5, <2>1, CodeIdle
<1>6. CASE a.code = c
  <2>1. CodeBy(a, Work(pc, t), HasSet(c), CodeSet(c))
    BY <1>2, <1>6, CodeBefore
  <2>2. NewNamed(c) = {a.id}
    BY <1>1, <1>6 DEF NewNamed
  <2>3. CodeSet(c) \subseteq {a.id}
    BY <1>1, <1>6 DEF CodeSet, Clean
  <2>4. CASE \E s \in Work(pc, t) : s.op = "PutRow"
    <3>1. HasSet(c) \subseteq {a.id}
      BY <1>2, <2>1, <2>3, <2>4 DEF CodeBy
    <3>2. \E s \in rest : s.code = c
      BY <1>2, <1>6, <2>4
    <3>3. ASSUME NEW s \in rest, s.code = c PROVE CodeBy(s, rest, NewHas(c), NewNamed(c))
      BY <1>2, <1>3, <1>4, <2>2, <3>1, <3>3 DEF CodeBy
    <3> QED
      BY <3>2, <3>3, CodeMine
  <2>5. CASE \A s \in Work(pc, t) : s.op # "PutRow"
    <3>1. HasSet(c) = {a.id}
      BY <1>2, <2>1, <2>3, <2>5 DEF CodeBy
    <3>2. \A s \in rest : s.code # c
      BY <1>2, <1>3, <2>5
    <3> QED
      BY <1>2, <1>4, <1>6, <2>2, <3>1, <3>2, CodeMine
  <2> QED
    BY <2>4, <2>5
<1> QED
  BY <1>5, <1>6

\* A code goes out, after its row.
LEMMA CodeDropCode ==
    ASSUME NEW t \in Thread, DropCode(t), NEW c, Clean(t, Work(pc, t) \ {Arg(t)}, c)
    PROVE  CodeAt(c)'
<1> DEFINE a == Arg(t)
           rest == Work(pc, t) \ {a}
<1>1. Doing(t, "DropCode") /\ rows' = rows /\ codes' = [d \in DOMAIN codes \ {a.code} |-> codes[d]]
  BY DropCodeFacts DEF Passed, Moved, Clean
<1>2. /\ a \in Work(pc, t) /\ a.op = "DropCode"
      /\ \A s \in rest : s \in Work(pc, t) /\ (s.op = "Retain" \/ (s.op = "AddCode" /\ s.code # a.code))
  BY <1>1 DEF Doing, Followers
<1>3. NewHas(c) = HasSet(c)
  BY <1>1, CodeSame
<1>4. CASE a.code # c
  <2>1. NewNamed(c) = CodeSet(c)
    BY <1>1, <1>4 DEF NewNamed, CodeSet
  <2> QED
    BY <1>2, <1>3, <1>4, <2>1, CodeQuiet
<1>5. CASE a.code = c
  <2>1. CodeBy(a, Work(pc, t), HasSet(c), CodeSet(c))
    BY <1>2, <1>5, CodeBefore
  <2>2. HasSet(c) = {}
    BY <1>2, <2>1 DEF CodeBy
  <2>3. NewNamed(c) = {}
    BY <1>1, <1>5 DEF NewNamed
  <2>4. \A s \in rest : s.code # c
    BY <1>2, <1>5, NoCode, CodeBefore DEF Clean
  <2>5. NewHas(c) = NewNamed(c) /\ \E s \in Work(pc, t) \cup rest : s.code = c
    BY <1>2, <1>3, <1>5, <2>2, <2>3
  <2>6. Clean(t, rest, c)
    OBVIOUS
  <2> HIDE DEF rest
  <2> QED
    BY <2>4, <2>5, <2>6, CodeMine
<1> QED
  BY <1>4, <1>5

\* The code leaves the row it was on: the map named that row.
LEMMA CodeLeaves ==
    ASSUME NEW t, NEW rest, NEW c, Clean(t, rest, c), NEW id \in Ids, Has(id, c), \A s \in Work(pc, t) : s.code # c,
           NewHas(c) = HasSet(c) \ {id}, NewNamed(c) = CodeSet(c),
           NEW d \in rest, d.code = c,
           \A s \in rest : s.code = c => s.op = "DropCode"
    PROVE  CodeAt(c)'
<1>1. HasSet(c) = CodeSet(c) /\ id \in HasSet(c)
  BY CodeSettled DEF HasSet
<1>2. CodeSet(c) \subseteq {codes[c]}
  BY DEF CodeSet
<1>3. NewHas(c) = {}
  BY <1>1, <1>2
<1>4. \A s \in rest : s.code = c => CodeBy(s, rest, NewHas(c), NewNamed(c))
  BY <1>3 DEF CodeBy
<1> QED
  BY <1>4, CodeMine

\* A row takes a new code.
LEMMA CodeUpdateRow ==
    ASSUME NEW t \in Thread, UpdateRowDone(t), NEW c, NEW rest, Moved(t, "UpdateRow", rest), Clean(t, rest, c),
           rest = IF rows[Arg(t).id] = None THEN {} ELSE CodeWork(Arg(t).id, rows[Arg(t).id].code, Arg(t).code)
    PROVE  CodeAt(c)'
<1> DEFINE a == Arg(t)
           old == rows[a.id].code
<1>1. /\ codes' = codes /\ Work(pc, t) = {a}
      /\ rows' = IF rows[a.id] = None THEN rows ELSE [rows EXCEPT ![a.id].code = a.code]
  BY DEF UpdateRowDone
<1>2. a.op = "UpdateRow" /\ a.id \in Ids
  BY DEF Moved, Doing
<1>3. NewNamed(c) = CodeSet(c)
  BY <1>1, CodeSame
<1>4. a.code = c => HasSet(c) = CodeSet(c)
  BY <1>1, <1>2, CodeBefore DEF CodeBy
<1>5. CASE rows[a.id] = None
  <2>1. NewHas(c) = HasSet(c) /\ rest = {}
    BY <1>1, <1>5, CodeSame
  <2>2. CASE a.code = c
    BY <1>1, <1>3, <1>4, <2>1, <2>2, CodeMine
  <2>3. CASE a.code # c
    BY <1>1, <1>3, <2>1, <2>3, CodeIdle
  <2> QED
    BY <2>2, <2>3
<1>6. CASE rows[a.id] # None
  <2>1. rows \in [Ids -> Rows \cup {None}] /\ rows[a.id] \in Rows
    BY <1>2, <1>6 DEF Clean, Types
  <2>2. rows' = [rows EXCEPT ![a.id] = [rows[a.id] EXCEPT !.code = a.code]]
    BY <1>1, <1>2, <1>6, <2>1
  <2>3. \A id \in Ids \ {a.id} : rows'[id] = rows[id]
    BY <1>2, <2>1, <2>2
  <2>4. rows'[a.id].code = a.code /\ rows'[a.id] # None
    <3>1. rows'[a.id] = [rows[a.id] EXCEPT !.code = a.code]
      BY <1>2, <2>1, <2>2
    <3>2. rows'[a.id] \in [owner : User \cup {None}, code : Code \cup {None}, referred_by : User \cup {None}]
      <4>1. rows[a.id] \in [owner : User \cup {None}, code : Code \cup {None}, referred_by : User \cup {None}]
        BY <2>1 DEF Rows
      <4>2. a.code \in Code \cup {None}
        BY StoresOf DEF Moved, Clean
      <4> QED
        BY <3>1, <4>1, <4>2
    <3> QED
      BY <2>1, <3>1, <3>2, RelationalAssumption DEF Rows
  <2>5. rest = CodeWork(a.id, old, a.code)
    BY <1>6
  <2>6. ASSUME NEW s \in rest
        PROVE  /\ \/ s.code = old /\ s.op = "DropCode"
                  \/ s.code = a.code /\ s.op = "AddCode"
               /\ s.id = a.id /\ old # a.code
    <3>1. old # a.code /\ s \in DropsOf(a.id, old) \cup AddsOf(a.id, a.code)
      BY <2>5 DEF CodeWork
    <3>2. s = S("DropCode", a.id, old, None) \/ s = S("AddCode", a.id, a.code, None)
      BY <3>1 DEF DropsOf, AddsOf
    <3> QED
      BY <3>1, <3>2, StepIs
  <2>7. CASE old = a.code
    <3>1. rest = {}
      BY <2>5, <2>7 DEF CodeWork
    <3>2. NewHas(c) = HasSet(c)
      BY <1>6, <2>3, <2>4, <2>7 DEF NewHas, HasSet, Has
    <3> QED
      BY <1>1, <1>3, <1>4, <3>1, <3>2, CodeMine, CodeIdle
  <2>8. CASE old # a.code /\ a.code = c
    <3>1. NewHas(c) = HasSet(c) \cup {a.id}
      BY <1>2, <2>3, <2>4, <2>8 DEF NewHas, HasSet, Has
    <3>2. S("AddCode", a.id, c, None) \in rest /\ S("AddCode", a.id, c, None).code = c
      BY <2>5, <2>8, StepIs, CodeBefore DEF CodeWork, AddsOf
    <3>3. ASSUME NEW s \in rest, s.code = c PROVE CodeBy(s, rest, NewHas(c), NewNamed(c))
      <4>1. s.op = "AddCode" /\ s.id = a.id /\ \A r \in rest : r.op # "PutRow"
        BY <2>6, <2>8, <3>3
      <4> QED
        BY <1>3, <1>4, <2>8, <3>1, <4>1 DEF CodeBy
    <3> QED
      BY <3>2, <3>3, CodeMine
  <2>9. CASE old # a.code /\ old = c
    <3>1. NewHas(c) = HasSet(c) \ {a.id}
      BY <1>2, <2>3, <2>4, <2>9 DEF NewHas, HasSet, Has
    <3>2. S("DropCode", a.id, c, None) \in rest /\ S("DropCode", a.id, c, None).code = c
      <4>1. DropsOf(a.id, c) \subseteq rest /\ c # None
        BY <2>5, <2>9, CodeBefore DEF CodeWork
      <4> QED
        BY <4>1, StepIs DEF DropsOf
    <3>3. \A s \in rest : s.code = c => s.op = "DropCode"
      BY <2>6, <2>9
    <3>4. Has(a.id, c) /\ \A s \in Work(pc, t) : s.code # c
      BY <1>1, <1>6, <2>9 DEF Has
    <3> QED
      BY <1>2, <1>3, <3>1, <3>2, <3>3, <3>4, CodeLeaves
  <2>10. CASE old # c /\ a.code # c
    <3>1. NewHas(c) = HasSet(c)
      BY <2>3, <2>4, <2>10 DEF NewHas, HasSet, Has
    <3>2. \A s \in Work(pc, t) \cup rest : s.code # c
      BY <1>1, <2>6, <2>10
    <3> QED
      BY <1>3, <3>1, <3>2, CodeIdle
  <2> QED
    BY <2>7, <2>8, <2>9, <2>10
<1> QED
  BY <1>5, <1>6

\* A row goes out, before its code.
LEMMA CodeRemoveRow ==
    ASSUME NEW t \in Thread, RemoveRowDone(t), NEW c, NEW rest, Moved(t, "RemoveRow", rest), Clean(t, rest, c),
           rest = IF rows[Arg(t).id] = None THEN {} ELSE AfterWork(Arg(t).id, rows[Arg(t).id])
    PROVE  CodeAt(c)'
<1> DEFINE a == Arg(t)
           old == rows[a.id].code
<1>1. codes' = codes /\ Work(pc, t) = {a} /\ rows' = [rows EXCEPT ![a.id] = None]
  BY DEF RemoveRowDone
<1>2. a.op = "RemoveRow" /\ a.id \in Ids /\ a \in Work(pc, t) /\ rows \in [Ids -> Rows \cup {None}]
  BY DEF Moved, Doing, Clean, Types
<1>3. NewNamed(c) = CodeSet(c)
  BY <1>1, CodeSame
<1>4. \A s \in Work(pc, t) : s.code # c
  BY <1>1, <1>2, NoCode, CodeBefore DEF Clean
<1>5. NewHas(c) = HasSet(c) \ {a.id}
  BY <1>1, <1>2 DEF NewHas, HasSet, Has
<1>6. CASE ~Has(a.id, c)
  <2>1. NewHas(c) = HasSet(c)
    BY <1>5, <1>6 DEF HasSet
  <2>2. \A s \in rest : s.code # c
    BY <1>6, StepIs, CodeBefore DEF AfterWork, DropsOf, RetainsOf, Has
  <2> QED
    BY <1>3, <1>4, <2>1, <2>2, CodeIdle
<1>7. CASE Has(a.id, c)
  <2>1. rest = AfterWork(a.id, rows[a.id]) /\ old = c
    BY <1>7 DEF Has
  <2>2. S("DropCode", a.id, c, None) \in rest /\ S("DropCode", a.id, c, None).code = c
    <3>1. DropsOf(a.id, c) \subseteq rest /\ c # None
      BY <2>1, CodeBefore DEF AfterWork
    <3> QED
      BY <3>1, StepIs DEF DropsOf
  <2>3. \A s \in rest : s.code = c => s.op = "DropCode"
    BY <2>1, StepIs, CodeBefore DEF AfterWork, DropsOf, RetainsOf
  <2> QED
    BY <1>2, <1>3, <1>4, <1>5, <1>7, <2>2, <2>3, CodeLeaves
<1> QED
  BY <1>6, <1>7

\* What a step leaves clean was clean.
LEMMA CleanAfter ==
    ASSUME Types, Coded, Apart, Apart', NEW t \in Thread, NEW rest, Goes(t, rest), store' = store, Remembers,
           \A c : Clean(t, rest, c) => CodeAt(c)'
    PROVE  Coded'
<1>1. ASSUME NEW c \in Code, c \notin stained' PROVE CodeAt(c)'
  BY <1>1 DEF Clean, Remembers
<1> QED
  BY <1>1 DEF Coded

\* Steps of plans without codes, that touch no code.
LEMMA CodeAside ==
    ASSUME NEW t, NEW rest, NEW c, Clean(t, rest, c), UNCHANGED <<rows, codes>>,
           \A s \in Work(pc, t) \cup rest : s.code = None
    PROVE  CodeAt(c)'
<1>1. NewHas(c) = HasSet(c) /\ NewNamed(c) = CodeSet(c)
  BY CodeSame
<1>2. c # None
  BY CodeBefore
<1> QED
  BY <1>1, <1>2, CodeIdle

\* Steps without a code that take themselves off a plan, and touch no code.
LEMMA CodePassed ==
    ASSUME NEW t \in Thread, NEW op, Passed(t, op), op \notin {"PutRow", "AddCode", "DropCode", "UpdateRow"},
           NEW c, Clean(t, Work(pc, t) \ {Arg(t)}, c), codes' = codes,
           \A id \in Ids : rows'[id] # rows[id] =>
               (rows'[id] # None /\ rows'[id].code = c <=> rows[id] # None /\ rows[id].code = c)
    PROVE  CodeAt(c)'
<1> DEFINE a == Arg(t)
           rest == Work(pc, t) \ {a}
<1>1. a \in Work(pc, t) /\ a.op = op
  BY DEF Passed, Moved, Doing
<1>2. a.code # c
  BY <1>1, NoCode, CodeBefore DEF Clean
<1>3. NewHas(c) = HasSet(c) /\ NewNamed(c) = CodeSet(c)
  <2>1. \A id \in Ids : (rows'[id] # None /\ rows'[id].code = c <=> rows[id] # None /\ rows[id].code = c)
    OBVIOUS
  <2> QED
    BY <2>1, CodeSame DEF NewHas, HasSet, Has
<1>4. Clean(t, rest, c) /\ rest = Work(pc, t) \ {a}
  OBVIOUS
<1> HIDE DEF rest
<1> QED
  BY <1>1, <1>2, <1>3, <1>4, CodeQuiet

\* The steps of calls keep codes and rows together.
LEMMA CodedContinue ==
    ASSUME Types, Coded, Apart, Apart', NEW t \in Thread, Continue(t)
    PROVE  Coded'
<1> DEFINE a == Arg(t)
           less == Work(pc, t) \ {a}
<1>0. rows \in [Ids -> Rows \cup {None}]
  BY DEF Types
<1>1. CASE PutRow(t)
  <2>1. PutRowDone(t)
    BY <1>1, PutRowFacts
  <2>2. Goes(t, less) /\ store' = store /\ Remembers
    BY <2>1 DEF PutRowDone, Passed, Moved, Rest
  <2>3. \A c : Clean(t, less, c) => CodeAt(c)'
    BY <2>1, CodePutRow
  <2> QED
    BY <2>2, <2>3, CleanAfter
<1>2. CASE AddCode(t)
  <2>1. AddCodeDone(t)
    BY <1>2, AddCodeFacts
  <2>2. Goes(t, less) /\ store' = store /\ Remembers
    BY <2>1 DEF AddCodeDone, Passed, Moved, Rest
  <2>3. \A c : Clean(t, less, c) => CodeAt(c)'
    BY <2>1, CodeAddCode
  <2> QED
    BY <2>2, <2>3, CleanAfter
<1>3. CASE DropCode(t)
  <2>1. Goes(t, less) /\ store' = store /\ Remembers
    BY <1>3, DropCodeFacts DEF Passed, Moved, Rest
  <2>2. \A c : Clean(t, less, c) => CodeAt(c)'
    BY <1>3, CodeDropCode
  <2> QED
    BY <2>1, <2>2, CleanAfter
<1>4. CASE UpdateRow(t)
  <2>1. UpdateRowDone(t)
    BY <1>4, UpdateRowFacts
  <2> DEFINE rest == IF rows[a.id] = None THEN {} ELSE CodeWork(a.id, rows[a.id].code, a.code)
  <2>2. Moved(t, "UpdateRow", rest)
    BY <2>1 DEF UpdateRowDone
  <2>3. \A c : Clean(t, rest, c) => CodeAt(c)'
    BY <2>1, <2>2, CodeUpdateRow
  <2> HIDE DEF rest
  <2> QED
    BY <2>2, <2>3, CleanAfter DEF Moved, Rest
<1>5. CASE RemoveRow(t)
  <2>1. RemoveRowDone(t)
    BY <1>5, RemoveRowFacts
  <2> DEFINE rest == IF rows[a.id] = None THEN {} ELSE AfterWork(a.id, rows[a.id])
  <2>2. Moved(t, "RemoveRow", rest)
    BY <2>1 DEF RemoveRowDone
  <2>3. \A c : Clean(t, rest, c) => CodeAt(c)'
    BY <2>1, <2>2, CodeRemoveRow
  <2> HIDE DEF rest
  <2> QED
    BY <2>2, <2>3, CleanAfter DEF Moved, Rest
<1>6. CASE EnsureRow(t)
  <2>1. /\ Passed(t, "EnsureRow") /\ codes' = codes
        /\ rows' = IF rows[a.id] = None THEN [rows EXCEPT ![a.id] = Row(a.id, None)] ELSE rows
    BY <1>6, EnsureRowFacts
  <2>2. Goes(t, less) /\ store' = store /\ Remembers
    BY <2>1 DEF Passed, Moved, Rest
  <2>3. ASSUME NEW id \in Ids, rows'[id] # rows[id] PROVE rows[id] = None /\ rows'[id].code = None
    BY <1>0, <2>1, <2>3 DEF Row
  <2>4. ASSUME NEW c, Clean(t, less, c) PROVE CodeAt(c)'
    <3>1. c # None
      BY <2>4, CodeBefore
    <3>2. \A id \in Ids : rows'[id] # rows[id] =>
               (rows'[id] # None /\ rows'[id].code = c <=> rows[id] # None /\ rows[id].code = c)
      BY <2>3, <3>1
    <3> QED
      BY <2>1, <2>4, <3>2, CodePassed
  <2> QED
    BY <2>2, <2>4, CleanAfter
<1>7. CASE Refer(t)
  <2>1. /\ Passed(t, "Refer") /\ codes' = codes
        /\ rows' = IF rows[a.id] = None THEN rows ELSE [rows EXCEPT ![a.id].referred_by = a.user]
    BY <1>7, ReferFacts
  <2>2. Goes(t, less) /\ store' = store /\ Remembers /\ a.id \in Ids
    BY <2>1 DEF Passed, Moved, Rest, Doing
  <2>3. ASSUME NEW id \in Ids, rows'[id] # rows[id]
        PROVE  rows[id] # None /\ rows'[id] # None /\ rows'[id].code = rows[id].code
    <3>1. id = a.id /\ rows[a.id] # None
      BY <1>0, <2>1, <2>2, <2>3
    <3>2. rows'[id] = [rows[id] EXCEPT !.referred_by = a.user] /\ rows[id] \in Rows
      BY <1>0, <2>1, <2>2, <3>1
    <3>3. a.user \in User
      BY <2>1, StoresOf DEF Passed, Moved
    <3>4. rows'[id] \in [owner : User \cup {None}, code : Code \cup {None}, referred_by : User \cup {None}]
      BY <3>2, <3>3 DEF Rows
    <3>5. rows'[id].code = rows[id].code
      BY <3>2 DEF Rows
    <3> QED
      BY <3>1, <3>4, <3>5, RelationalAssumption
  <2>4. ASSUME NEW c, Clean(t, less, c) PROVE CodeAt(c)'
    <3>1. \A id \in Ids : rows'[id] # rows[id] =>
               (rows'[id] # None /\ rows'[id].code = c <=> rows[id] # None /\ rows[id].code = c)
      BY <2>3
    <3> QED
      BY <2>1, <2>4, <3>1, CodePassed
  <2> QED
    BY <2>2, <2>4, CleanAfter
<1>8. CASE Touch(t) \/ Push(t) \/ Retain(t) \/ Score(t)
  <2>1. PICK op \in {"Touch", "Push", "Retain", "Score"} : Passed(t, op) /\ UNCHANGED <<rows, codes>>
    BY <1>8, TouchFacts, PushFacts, RetainFacts, ScoreFacts
  <2>2. Goes(t, less) /\ store' = store /\ Remembers
    BY <2>1 DEF Passed, Moved, Rest
  <2>3. ASSUME NEW c, Clean(t, less, c) PROVE CodeAt(c)'
    BY <2>1, <2>3, CodePassed
  <2> QED
    BY <2>2, <2>3, CleanAfter
<1>9. CASE CheckOwner(t) \/ CheckRow(t) \/ JoinEntry(t)
  <2>1. PICK op, rest : /\ op \in {"CheckOwner", "CheckRow", "JoinEntry"} /\ Moved(t, op, rest)
                        /\ UNCHANGED <<rows, codes>> /\ \A s \in rest : s.code = None \/ s \in Work(pc, t) \ {a}
    <3>1. CASE CheckOwner(t)
      <4> DEFINE rest == IF rows[a.id] # None /\ rows[a.id].owner = a.user THEN {S("RemoveRow", a.id, None, a.user)} ELSE {}
      <4>1. Moved(t, "CheckOwner", rest) /\ UNCHANGED <<rows, codes>>
        BY <3>1, CheckOwnerFacts DEF CheckOwnerDone
      <4>2. \A s \in rest : s.code = None
        BY StepIs
      <4> HIDE DEF rest
      <4> QED
        BY <4>1, <4>2
    <3>2. CASE CheckRow(t)
      <4> DEFINE rest == IF rows[a.id] = None THEN {}
                         ELSE {S("JoinEntry", a.id, None, a.user), S("Push", a.id, None, a.user)}
      <4>1. Moved(t, "CheckRow", rest) /\ UNCHANGED <<rows, codes>>
        BY <3>2, CheckRowFacts DEF CheckRowDone
      <4>2. \A s \in rest : s.code = None
        BY StepIs
      <4> HIDE DEF rest
      <4> QED
        BY <4>1, <4>2
    <3>3. CASE JoinEntry(t)
      <4>1. /\ Moved(t, "JoinEntry", {}) \/ Moved(t, "JoinEntry", less)
            /\ UNCHANGED <<rows, codes>>
        BY <3>3, JoinEntryFacts DEF JoinEntryDone
      <4> QED
        BY <4>1
    <3> QED
      BY <1>9, <3>1, <3>2, <3>3
  <2>2. Goes(t, rest) /\ store' = store /\ Remembers /\ Doing(t, op)
    BY <2>1 DEF Moved, Rest
  <2>3. \A s \in Work(pc, t) : s.code = None
    <3>1. a.op = op /\ a \in Work(pc, t) /\ Followers(a, less)
      BY <2>2 DEF Doing
    <3>2. \A s \in Work(pc, t) : s = a \/ s.op = "Push"
      BY <2>1, <3>1 DEF Followers
    <3> QED
      BY <2>1, <3>1, <3>2, NoCode
  <2>4. \A s \in Work(pc, t) \cup rest : s.code = None
    BY <2>1, <2>3
  <2>5. ASSUME NEW c, Clean(t, rest, c) PROVE CodeAt(c)'
    BY <2>1, <2>4, <2>5, CodeAside
  <2> QED
    BY <2>2, <2>5, CleanAfter
<1>10. CASE LookUp(t) \/ LookUpList(t) \/ GetRow(t)
  <2>1. Looked(t)
    BY <1>10, LookUpFacts, LookUpListFacts, GetRowFacts
  <2>2. /\ Work(pc, t) = {} /\ Goes(t, {}) /\ store' = store /\ Remembers /\ UNCHANGED <<rows, codes>>
    BY <2>1 DEF Looked, Rest
  <2>3. ASSUME NEW c, Clean(t, {}, c) PROVE CodeAt(c)'
    BY <2>2, <2>3, CodeAside
  <2> QED
    BY <2>2, <2>3, CleanAfter
<1> QED
  BY <1>1, <1>2, <1>3, <1>4, <1>5, <1>6, <1>7, <1>8, <1>9, <1>10 DEF Continue

\* A call begins on a code that is in order, or on none.
LEMMA CodedStart ==
    ASSUME Types, Coded, Apart, Apart', NEW t \in Thread, Start(t)
    PROVE  Coded'
<1>1. PICK steps : Began(t, steps)
  BY StartFacts DEF Started
<1>2. Work(pc, t) = {} /\ Goes(t, steps) /\ Fresh(steps) /\ Remembers /\ UNCHANGED <<store, rows, codes>>
  BY <1>1 DEF Began
<1>3. ASSUME NEW c, Clean(t, steps, c) PROVE CodeAt(c)'
  <2>1. NewHas(c) = HasSet(c) /\ NewNamed(c) = CodeSet(c) /\ c # None
    BY <1>2, <1>3, CodeSame, CodeBefore
  <2>2. CASE \A s \in steps : s.code # c
    BY <1>2, <1>3, <2>1, <2>2, CodeIdle
  <2>3. CASE \E s \in steps : s.code = c
    <3>1. HasSet(c) = CodeSet(c)
      BY <1>2, <1>3, <2>3, CodeSettled
    <3>2. \A s \in steps : s.code = c => CodeBy(s, steps, NewHas(c), NewNamed(c))
      BY <1>2, <2>1, <3>1 DEF CodeBy, Fresh
    <3> QED
      BY <1>3, <2>1, <2>3, <3>1, <3>2, CodeMine
  <2> QED
    BY <2>2, <2>3
<1> QED
  BY <1>2, <1>3, CleanAfter

-----------------------------------------------------------------------------
(* Entries of competitions.                                                *)

\* The stores without entries.
LEMMA JoinsElsewhere ==
    ASSUME store' = store, store # "CompetitionStore"
    PROVE  Joins'
BY DEF Joins

\* The users who have entries are the same after the step.
SameEntrants ==
    \A id \in Ids : /\ DOMAIN entries'[id] = DOMAIN entries[id]
                    /\ \A i \in DOMAIN entries[id] : entries'[id][i].user = entries[id][i].user

\* A step that changes no entrant, no list and no call about to push.
LEMMA JoinsKept ==
    ASSUME Types, Joins, NEW t \in Thread, NEW rest, Goes(t, rest), UNCHANGED <<store, lists>>, SameEntrants,
           \A s : Pends(t, s)' <=> Pends(t, s),
           (\E s : Pends(t, s)) => exclusive' = exclusive,
           \A u \in Thread \ {t} : exclusive'[u] = exclusive[u]
    PROVE  Joins'
<1> SUFFICES ASSUME store = "CompetitionStore"
             PROVE  (/\ \A id \in Ids : OneEntry(id)
                     /\ Holding
                     /\ \A id \in Ids, u \in User : lists[u][id] = IF Joined(id, u) /\ ~Pending(id, u) THEN 1 ELSE 0)'
  BY DEF Joins
<1>1. /\ \A id \in Ids : OneEntry(id)
      /\ Holding
      /\ \A id \in Ids, u \in User : lists[u][id] = IF Joined(id, u) /\ ~Pending(id, u) THEN 1 ELSE 0
      /\ Ids' = Ids
  BY SameStore DEF Joins
<1>2. \A u \in Thread : \A s : Pends(u, s)' <=> Pends(u, s)
  BY DEF Goes, Pends
<1>3. \A id \in Ids : \A u : Joined(id, u)' <=> Joined(id, u)
  BY DEF SameEntrants, Joined
<1>4. \A id \in Ids : OneEntry(id)'
  BY <1>1 DEF SameEntrants, OneEntry
<1>5. Holding'
  <2> SUFFICES ASSUME NEW u \in Thread, NEW s \in Work(pc', u), Pends(u, s)'
               PROVE  /\ "entries" \in exclusive'[u] /\ Joined(s.id, s.user)'
                      /\ \A v \in Thread : \A r \in Work(pc', v) : Pends(v, r)' => v = u
    BY DEF Holding
  <2>1. Pends(u, s) /\ s \in Work(pc, u)
    BY <1>2 DEF Pends
  <2>2. /\ "entries" \in exclusive[u] /\ Joined(s.id, s.user)
        /\ \A v \in Thread : \A r \in Work(pc, v) : Pends(v, r) => v = u
    BY <1>1, <2>1 DEF Holding
  <2>3. s.id \in Ids
    BY <2>1, Worker DEF Types
  <2>4. exclusive'[u] = exclusive[u]
    BY <2>1
  <2>5. \A v \in Thread : \A r : Pends(v, r)' => Pends(v, r) /\ r \in Work(pc, v)
    BY <1>2 DEF Pends
  <2> QED
    BY <1>3, <2>2, <2>3, <2>4, <2>5
<1>6. \A id \in Ids : \A u : Pending(id, u)' <=> Pending(id, u)
  BY <1>2 DEF Pending, Pends
<1>7. \A id \in Ids, u \in User : lists'[u][id] = IF Joined(id, u)' /\ ~Pending(id, u)' THEN 1 ELSE 0
  BY <1>1, <1>3, <1>6
<1> QED
  BY <1>1, <1>4, <1>5, <1>7

\* A step that takes itself off its plan and is not about entries.
LEMMA JoinsPassed ==
    ASSUME Types, Joins, NEW t \in Thread, NEW op, Passed(t, op), op \notin {"Push", "JoinEntry"},
           UNCHANGED lists, SameEntrants
    PROVE  Joins'
<1> DEFINE rest == Work(pc, t) \ {Arg(t)}
<1>1. /\ Goes(t, rest) /\ store' = store /\ (rest # {} => exclusive' = exclusive)
      /\ \A u \in Thread \ {t} : exclusive'[u] = exclusive[u]
      /\ Arg(t).op = op
  BY DEF Passed, Moved, Rest, Doing
<1>2. \A s : Pends(t, s)' <=> Pends(t, s)
  BY <1>1 DEF Pends, Goes
<1>3. (\E s : Pends(t, s)) => exclusive' = exclusive
  BY <1>1 DEF Pends
<1> HIDE DEF rest
<1> QED
  BY <1>1, <1>2, <1>3, JoinsKept

\* The user joins: the list has to follow, and nobody else is about to push.
LEMMA JoinsEntry ==
    ASSUME Types, Joins, NEW t \in Thread, JoinEntryDone(t)
    PROVE  Joins'
<1> DEFINE a == Arg(t)
           less == Work(pc, t) \ {a}
<1>1. CASE Joined(a.id, a.user)
  <2>1. /\ Moved(t, "JoinEntry", {}) /\ UNCHANGED <<entries, lists>>
    BY <1>1 DEF JoinEntryDone
  <2>2. /\ Goes(t, {}) /\ store' = store /\ \A u \in Thread \ {t} : exclusive'[u] = exclusive[u]
        /\ a \in Work(pc, t) /\ a.op = "JoinEntry"
    BY <2>1 DEF Moved, Rest, Doing
  <2>3. \A s : (Pends(t, s)' <=> Pends(t, s)) /\ ~Pends(t, s)
    BY <2>2 DEF Pends, Goes
  <2>4. SameEntrants
    BY <2>1 DEF SameEntrants
  <2> QED
    BY <2>1, <2>2, <2>3, <2>4, JoinsKept
<1>2. CASE ~Joined(a.id, a.user)
  <2> DEFINE e == [user |-> a.user, score |-> 0]
             E == entries[a.id]
  <2>1. /\ Moved(t, "JoinEntry", less) /\ lists' = lists /\ CanWrite("entries")
        /\ entries' = [entries EXCEPT ![a.id] = Append(E, e)]
        /\ "entries" \in exclusive'[t]
    BY <1>2 DEF JoinEntryDone
  <2>2. /\ Goes(t, less) /\ store' = store /\ \A u \in Thread \ {t} : exclusive'[u] = exclusive[u]
        /\ a \in Work(pc, t) /\ a.op = "JoinEntry" /\ a.id \in Ids /\ store = "CompetitionStore"
        /\ \A s \in less : s.op = "Push" /\ s.user = a.user /\ s.id = a.id
        /\ \E s \in less : s.op = "Push"
    BY <2>1, StoresOf DEF Moved, Rest, Doing, Followers
  <2>3. /\ \A id \in Ids : OneEntry(id)
        /\ Holding
        /\ \A id \in Ids, u \in User : lists[u][id] = IF Joined(id, u) /\ ~Pending(id, u) THEN 1 ELSE 0
        /\ Ids' = Ids
    BY <2>2, SameStore DEF Joins
  <2>4. \A u \in Thread : \A s : ~Pends(u, s)
    BY <2>1, <2>3 DEF Holding, CanWrite, Pends
  <2>5. \A u \in Thread : \A s : Pends(u, s)' <=> u = t /\ s \in less
    <3>1. ASSUME NEW u \in Thread, u # t, NEW s PROVE ~Pends(u, s)'
      BY <2>2, <2>4, <3>1 DEF Pends, Goes
    <3>2. ASSUME NEW s PROVE Pends(t, s)' <=> s \in less
      BY <2>2 DEF Pends, Goes
    <3> QED
      BY <3>1, <3>2
  <2>6. E \in Seq(Entry) /\ entries \in [Ids -> Entries]
    BY <2>2 DEF Types, Entries
  <2>7. entries'[a.id] = Append(E, e) /\ \A id \in Ids \ {a.id} : entries'[id] = entries[id]
    BY <2>1, <2>2, <2>6
  <2>8. /\ Len(E) \in Nat /\ DOMAIN E = 1..Len(E) /\ DOMAIN Append(E, e) = 1..(Len(E) + 1)
        /\ \A i \in 1..Len(E) : Append(E, e)[i] = E[i]
        /\ Append(E, e)[Len(E) + 1] = e /\ e.user = a.user
    BY <2>6
  <2> HIDE DEF e, E
  <2>0. PICK k \in Ids : k = a.id
    BY <2>2
  <2>9. \A u : Joined(k, u)' <=> Joined(k, u) \/ u = a.user
    <3>1. ASSUME NEW u PROVE Joined(k, u)' <=> \E i \in 1..(Len(E) + 1) : Append(E, e)[i].user = u
      BY <2>0, <2>7, <2>8 DEF Joined
    <3>2. ASSUME NEW u PROVE Joined(k, u) <=> \E i \in 1..Len(E) : E[i].user = u
      BY <2>0, <2>8 DEF Joined, E
    <3>3. ASSUME NEW u PROVE (\E i \in 1..(Len(E) + 1) : Append(E, e)[i].user = u) <=> (\E i \in 1..Len(E) : E[i].user = u) \/ u = a.user
      <4>1. \A i \in 1..(Len(E) + 1) : i \in 1..Len(E) \/ i = Len(E) + 1
        BY <2>8
      <4>2. Len(E) + 1 \in 1..(Len(E) + 1) /\ 1..Len(E) \subseteq 1..(Len(E) + 1)
        BY <2>8
      <4> QED
        BY <2>8, <4>1, <4>2
    <3> QED
      BY <3>1, <3>2, <3>3
  <2>10. \A id \in Ids \ {k} : \A u : Joined(id, u)' <=> Joined(id, u)
    BY <2>0, <2>7 DEF Joined
  <2>11. \A id \in Ids : OneEntry(id)'
    <3>1. \A id \in Ids \ {k} : OneEntry(id)'
      BY <2>0, <2>3, <2>7 DEF OneEntry
    <3>2. OneEntry(k)'
      <4> SUFFICES ASSUME NEW i \in 1..(Len(E) + 1), NEW j \in 1..(Len(E) + 1),
                          Append(E, e)[i].user = Append(E, e)[j].user
                   PROVE  i = j
        BY <2>0, <2>7, <2>8 DEF OneEntry
      <4>1. \A n \in 1..Len(E) : E[n].user # a.user
        BY <1>2, <2>8 DEF Joined, E
      <4>2. \A n \in 1..(Len(E) + 1) : n \in 1..Len(E) \/ n = Len(E) + 1
        BY <2>8
      <4>3. CASE i \in 1..Len(E) /\ j \in 1..Len(E)
        BY <2>2, <2>3, <2>8, <4>3 DEF OneEntry, E
      <4>4. CASE i = Len(E) + 1 \/ j = Len(E) + 1
        BY <2>8, <4>1, <4>2, <4>4
      <4> QED
        BY <4>2, <4>3, <4>4
    <3> QED
      BY <3>1, <3>2
  <2>12. Holding'
    <3> SUFFICES ASSUME NEW u \in Thread, NEW s \in Work(pc', u), Pends(u, s)'
                 PROVE  /\ "entries" \in exclusive'[u] /\ Joined(s.id, s.user)'
                        /\ \A v \in Thread : \A r \in Work(pc', v) : Pends(v, r)' => v = u
      BY DEF Holding
    <3>1. u = t /\ s.id = a.id /\ s.user = a.user
      BY <2>0, <2>2, <2>5
    <3> QED
      BY <2>0, <2>1, <2>5, <2>9, <3>1
  <2>13. ASSUME NEW id \in Ids, NEW u \in User
         PROVE  lists'[u][id] = IF Joined(id, u)' /\ ~Pending(id, u)' THEN 1 ELSE 0
    <3>1. Pending(id, u)' <=> id = a.id /\ u = a.user
      BY <2>2, <2>5 DEF Pending, Goes
    <3>2. ~Pending(id, u)
      BY <2>4 DEF Pending
    <3>3. lists'[u][id] = IF Joined(id, u) THEN 1 ELSE 0
      BY <2>1, <2>3, <3>2
    <3> QED
      BY <1>2, <2>0, <2>9, <2>10, <3>1, <3>3
  <2> QED
    BY <2>2, <2>3, <2>11, <2>12, <2>13 DEF Joins
<1> QED
  BY <1>1, <1>2

\* The list follows the entry.
LEMMA JoinsPush ==
    ASSUME Types, Joins, NEW t \in Thread, Push(t)
    PROVE  Joins'
<1> DEFINE a == Arg(t)
<1>1. Passed(t, "Push") /\ lists' = [lists EXCEPT ![a.user][a.id] = @ + 1] /\ entries' = entries
  BY PushFacts
<1>2. /\ Goes(t, Work(pc, t) \ {a}) /\ store' = store /\ Doing(t, "Push")
      /\ a \in Work(pc, t) /\ a.op = "Push" /\ a.id \in Ids
  BY <1>1 DEF Passed, Moved, Rest, Doing
<1> SUFFICES ASSUME store = "CompetitionStore" PROVE Joins'
  BY <1>2, JoinsElsewhere
<1>3. Work(pc, t) = {a}
  BY <1>2 DEF Doing, Followers
<1>4. a.user \in User
  BY <1>2, StoresOf
<1>5. /\ \A id \in Ids : OneEntry(id)
      /\ Holding
      /\ \A id \in Ids, u \in User : lists[u][id] = IF Joined(id, u) /\ ~Pending(id, u) THEN 1 ELSE 0
      /\ Ids' = Ids
  BY <1>2, SameStore DEF Joins
<1>6. Pends(t, a)
  BY <1>2, <1>3 DEF Pends
<1>7. Joined(a.id, a.user) /\ \A u \in Thread : \A s : Pends(u, s) => u = t /\ s = a
  <2>1. Joined(a.id, a.user) /\ \A u \in Thread : \A r \in Work(pc, u) : Pends(u, r) => u = t
    BY <1>2, <1>5, <1>6 DEF Holding
  <2> QED
    BY <1>3, <2>1 DEF Pends
<1>8. \A u \in Thread : \A s : ~Pends(u, s)'
  <2>1. Work(pc', t) = {} /\ \A u \in Thread \ {t} : Work(pc', u) = Work(pc, u)
    BY <1>2, <1>3 DEF Goes
  <2> QED
    BY <1>7, <2>1 DEF Pends
<1>9. \A id : \A u : (Joined(id, u)' <=> Joined(id, u)) /\ (OneEntry(id)' <=> OneEntry(id))
  BY <1>1 DEF Joined, OneEntry
<1>10. Holding'
  BY <1>8 DEF Holding
<1>11. ASSUME NEW id \in Ids, NEW u \in User
       PROVE  lists'[u][id] = IF Joined(id, u)' /\ ~Pending(id, u)' THEN 1 ELSE 0
  <2>1. ~Pending(id, u)' /\ (Pending(id, u) <=> id = a.id /\ u = a.user)
    BY <1>2, <1>6, <1>7, <1>8 DEF Pending
  <2>2. lists \in [User -> [Ids -> Nat]]
    BY DEF Types
  <2>3. lists'[u][id] = IF u = a.user /\ id = a.id THEN lists[u][id] + 1 ELSE lists[u][id]
    BY <1>1, <1>2, <1>4, <2>2
  <2>4. lists[u][id] = IF Joined(id, u) /\ ~Pending(id, u) THEN 1 ELSE 0
    BY <1>5
  <2> QED
    BY <1>7, <1>9, <2>1, <2>3, <2>4
<1> QED
  BY <1>2, <1>5, <1>9, <1>10, <1>11 DEF Joins

\* A score leaves the entrants as they are.
LEMMA ScoreEntrants ==
    ASSUME Types, NEW t \in Thread, Score(t)
    PROVE  SameEntrants
<1> DEFINE a == Arg(t)
           E == entries[a.id]
           F == [i \in DOMAIN E |-> IF E[i].user = a.user THEN [E[i] EXCEPT !.score = 1] ELSE E[i]]
<1>1. entries' = [entries EXCEPT ![a.id] = F] /\ a.id \in Ids
  BY ScoreFacts DEF Passed, Moved, Doing
<1>2. entries \in [Ids -> Entries] /\ E \in Seq(Entry)
  BY <1>1 DEF Types, Entries
<1>3. DOMAIN F = DOMAIN E /\ \A i \in DOMAIN E : F[i].user = E[i].user
  BY <1>2 DEF Entry
<1> HIDE DEF F
<1> QED
  BY <1>1, <1>2, <1>3 DEF SameEntrants

\* The steps of calls keep entries and lists together.
LEMMA JoinsContinue ==
    ASSUME Types, Joins, NEW t \in Thread, Continue(t)
    PROVE  Joins'
<1> DEFINE a == Arg(t)
<1>0. entries' = entries => SameEntrants
  BY DEF SameEntrants
<1>1. CASE PutRow(t)
  BY <1>0, <1>1, PutRowFacts, JoinsPassed DEF PutRowDone
<1>2. CASE AddCode(t)
  BY <1>0, <1>2, AddCodeFacts, JoinsPassed DEF AddCodeDone
<1>3. CASE DropCode(t)
  BY <1>0, <1>3, DropCodeFacts, JoinsPassed
<1>4. CASE UpdateRow(t) \/ RemoveRow(t) \/ CheckOwner(t)
  <2>1. \A op, rest : Moved(t, op, rest) => Doing(t, op) /\ store' = store
    BY DEF Moved, Rest
  <2>2. PICK op \in {"UpdateRow", "RemoveRow", "CheckOwner"} : Doing(t, op) /\ store' = store
    <3>1. CASE UpdateRow(t)
      BY <2>1, <3>1, UpdateRowFacts DEF UpdateRowDone
    <3>2. CASE RemoveRow(t)
      BY <2>1, <3>2, RemoveRowFacts DEF RemoveRowDone
    <3>3. CASE CheckOwner(t)
      BY <2>1, <3>3, CheckOwnerFacts DEF CheckOwnerDone
    <3> QED
      BY <1>4, <3>1, <3>2, <3>3
  <2>3. store # "CompetitionStore"
    BY <2>2, StoresOf DEF Users, Own
  <2> QED
    BY <2>2, <2>3, JoinsElsewhere
<1>5. CASE EnsureRow(t)
  BY <1>0, <1>5, EnsureRowFacts, JoinsPassed
<1>6. CASE Touch(t)
  BY <1>0, <1>6, TouchFacts, JoinsPassed
<1>7. CASE Refer(t)
  BY <1>0, <1>7, ReferFacts, JoinsPassed
<1>8. CASE Push(t)
  BY <1>8, JoinsPush
<1>9. CASE Retain(t)
  <2>1. Doing(t, "Retain") /\ store' = store
    BY <1>9, RetainFacts DEF Passed, Moved, Rest
  <2>2. store # "CompetitionStore"
    BY <2>1, StoresOf DEF Own
  <2> QED
    BY <2>1, <2>2, JoinsElsewhere
<1>10. CASE CheckRow(t)
  <2> DEFINE rest == IF rows[a.id] = None THEN {}
                     ELSE {S("JoinEntry", a.id, None, a.user), S("Push", a.id, None, a.user)}
  <2>1. Moved(t, "CheckRow", rest) /\ UNCHANGED <<lists, entries>>
    BY <1>10, CheckRowFacts DEF CheckRowDone
  <2>2. /\ Goes(t, rest) /\ store' = store /\ \A u \in Thread \ {t} : exclusive'[u] = exclusive[u]
        /\ Doing(t, "CheckRow")
    BY <2>1 DEF Moved, Rest
  <2>3. \A s : ~Pends(t, s)
    <3>1. Work(pc, t) = {a} /\ a.op = "CheckRow"
      BY <2>2 DEF Doing, Followers
    <3> QED
      BY <3>1 DEF Pends
  <2>4. \A s : ~Pends(t, s)'
    <3>1. rest = {} \/ \E r \in rest : r.op = "JoinEntry"
      BY StepIs
    <3> HIDE DEF rest
    <3> QED
      BY <2>2, <3>1 DEF Pends, Goes
  <2> HIDE DEF rest
  <2> QED
    BY <1>0, <2>1, <2>2, <2>3, <2>4, JoinsKept
<1>11. CASE JoinEntry(t)
  BY <1>11, JoinEntryFacts, JoinsEntry
<1>12. CASE Score(t)
  BY <1>12, ScoreFacts, ScoreEntrants, JoinsPassed
<1>13. CASE LookUp(t) \/ LookUpList(t) \/ GetRow(t)
  <2>1. Looked(t)
    BY <1>13, LookUpFacts, LookUpListFacts, GetRowFacts
  <2>2. /\ Work(pc, t) = {} /\ Goes(t, {}) /\ UNCHANGED <<store, lists, entries>>
        /\ \A u \in Thread \ {t} : exclusive'[u] = exclusive[u]
    BY <2>1 DEF Looked, Rest
  <2>3. \A s : (Pends(t, s)' <=> Pends(t, s)) /\ ~Pends(t, s)
    BY <2>2 DEF Pends, Goes
  <2> QED
    BY <1>0, <2>2, <2>3, JoinsKept
<1> QED
  BY <1>1, <1>2, <1>3, <1>4, <1>5, <1>6, <1>7, <1>8, <1>9, <1>10, <1>11, <1>12, <1>13 DEF Continue

\* No call begins about to push.
LEMMA JoinsStart ==
    ASSUME Types, Joins, NEW t \in Thread, Start(t)
    PROVE  Joins'
<1>1. PICK steps : Began(t, steps)
  BY StartFacts DEF Started
<1>2. /\ Work(pc, t) = {} /\ Goes(t, steps) /\ Fresh(steps) /\ UNCHANGED <<store, lists, entries, exclusive>>
  BY <1>1 DEF Began
<1> SUFFICES ASSUME store = "CompetitionStore" PROVE Joins'
  BY <1>2, JoinsElsewhere
<1>3. \A s \in steps : s.op # "Push"
  BY <1>2 DEF Fresh, Own
<1>4. \A s : Pends(t, s)' <=> Pends(t, s)
  BY <1>2, <1>3 DEF Pends, Goes
<1>5. SameEntrants
  BY <1>2 DEF SameEntrants
<1> QED
  BY <1>2, <1>4, <1>5, JoinsKept

-----------------------------------------------------------------------------
(* Lists of alerts and keys.                                               *)

\* Whose lists have the id after the step.
NewColumn(id) == [u \in User |-> lists'[u][id]]

\* A step that leaves the id one of the ordinary ones.
Tidy(t, rest, id) ==
    /\ Types /\ Listed /\ Owned /\ Single /\ Single'
    /\ t \in Thread /\ Goes(t, rest) /\ store' = store /\ store \in Own
    /\ odd \subseteq odd' /\ reused \subseteq reused'
    /\ id \in Ids /\ id \notin odd' \cup reused'

\* What is known of the id before the step.
LEMMA ListBefore ==
    ASSUME NEW t, NEW rest, NEW id, Tidy(t, rest, id)
    PROVE  /\ (\A u \in Thread : \A s \in Work(pc, u) : s.id = id => s.op \notin Listing) => Synced(rows[id], Column(id))
           /\ \A u \in Thread : \A s \in Work(pc, u) : s.id = id => ListBy(s, Work(pc, u), rows[id], Column(id))
           /\ Work(pc', t) = rest /\ \A u \in Thread \ {t} : Work(pc', u) = Work(pc, u)
           /\ t \in Thread
           /\ \A s \in Work(pc, t) \cup rest : s.id = id =>
                \A u \in Thread \ {t} : \A r \in Work(pc, u) : r.id # id
<1>1. ListAt(id)
  BY DEF Tidy, Listed
<1>2. Work(pc', t) = rest /\ \A u \in Thread \ {t} : Work(pc', u) = Work(pc, u)
  BY DEF Tidy, Goes
<1>3. ASSUME NEW s \in Work(pc, t), s.id = id, NEW u \in Thread \ {t}, NEW r \in Work(pc, u)
      PROVE  r.id # id
  BY <1>3 DEF Tidy, Single
<1>4. ASSUME NEW s \in rest, s.id = id, NEW u \in Thread \ {t}, NEW r \in Work(pc, u)
      PROVE  r.id # id
  <2>1. s \in Work(pc', t) /\ r \in Work(pc', u)
    BY <1>2, <1>4
  <2> QED
    BY <1>4, <2>1 DEF Tidy, Single
<1> QED
  BY <1>1, <1>2, <1>3, <1>4 DEF ListAt, Tidy

\* What is to be shown after it.
LEMMA ListAfter ==
    ASSUME NEW id,
           (\A u \in Thread : \A s \in Work(pc', u) : s.id = id => s.op \notin Listing) => Synced(rows'[id], NewColumn(id)),
           \A u \in Thread : \A s \in Work(pc', u) : s.id = id => ListBy(s, Work(pc', u), rows'[id], NewColumn(id))
    PROVE  ListAt(id)'
<1>1. Column(id)' = NewColumn(id)
  BY DEF Column, NewColumn
<1> QED
  BY <1>1 DEF ListAt

\* A step of a call on another row.
LEMMA ListIdle ==
    ASSUME NEW t, NEW rest, NEW id, Tidy(t, rest, id), rows'[id] = rows[id], NewColumn(id) = Column(id),
           \A s \in Work(pc, t) \cup rest : s.id # id
    PROVE  ListAt(id)'
<1>1. /\ (\A u \in Thread : \A s \in Work(pc, u) : s.id = id => s.op \notin Listing) => Synced(rows[id], Column(id))
      /\ \A u \in Thread : \A s \in Work(pc, u) : s.id = id => ListBy(s, Work(pc, u), rows[id], Column(id))
      /\ Work(pc', t) = rest /\ \A u \in Thread \ {t} : Work(pc', u) = Work(pc, u)
      /\ t \in Thread
  BY ListBefore
<1>2. (\A u \in Thread : \A s \in Work(pc', u) : s.id = id => s.op \notin Listing) => Synced(rows'[id], NewColumn(id))
  BY <1>1
<1>3. ASSUME NEW u \in Thread, NEW s \in Work(pc', u), s.id = id
      PROVE  ListBy(s, Work(pc', u), rows'[id], NewColumn(id))
  <2>1. u # t /\ Work(pc', u) = Work(pc, u)
    BY <1>1, <1>3
  <2> QED
    BY <1>1, <1>3, <2>1
<1> QED
  BY <1>2, <1>3, ListAfter

\* A step of the one call on the row.
LEMMA ListMine ==
    ASSUME NEW t, NEW rest, NEW id, Tidy(t, rest, id), \E s \in Work(pc, t) \cup rest : s.id = id,
           (\A s \in rest : s.op \notin Listing) => Synced(rows'[id], NewColumn(id)),
           \A s \in rest : s.id = id /\ ListBy(s, rest, rows'[id], NewColumn(id))
    PROVE  ListAt(id)'
<1>1. /\ Work(pc', t) = rest /\ \A u \in Thread \ {t} : Work(pc', u) = Work(pc, u)
      /\ t \in Thread
      /\ \A u \in Thread \ {t} : \A r \in Work(pc, u) : r.id # id
  BY ListBefore
<1>2. (\A u \in Thread : \A s \in Work(pc', u) : s.id = id => s.op \notin Listing) => Synced(rows'[id], NewColumn(id))
  BY <1>1
<1>3. \A u \in Thread : \A s \in Work(pc', u) : s.id = id => ListBy(s, Work(pc', u), rows'[id], NewColumn(id))
  BY <1>1
<1> QED
  BY <1>2, <1>3, ListAfter

\* The lists are in order when the call has begun no change of them.
LEMMA ListSettled ==
    ASSUME NEW t, NEW rest, NEW id, Tidy(t, rest, id), \E s \in Work(pc, t) \cup rest : s.id = id,
           \A s \in Work(pc, t) : s.op \notin Listing
    PROVE  Synced(rows[id], Column(id))
BY ListBefore

\* A step that takes itself off a plan, and touches no row and no list.
LEMMA ListQuiet ==
    ASSUME NEW t \in Thread, NEW op, Doing(t, op), op \notin Listing, NEW id, NEW rest, rest = Work(pc, t) \ {Arg(t)},
           Tidy(t, rest, id), UNCHANGED <<rows, lists>>
    PROVE  ListAt(id)'
<1> DEFINE a == Arg(t)
<1>1. a \in Work(pc, t) /\ a.op = op /\ \A s \in Work(pc, t) : s.id = a.id
  BY DEF Doing
<1>2. rows'[id] = rows[id] /\ NewColumn(id) = Column(id)
  BY DEF NewColumn, Column
<1>3. CASE a.id # id
  BY <1>1, <1>2, <1>3, ListIdle
<1>4. CASE a.id = id
  <2>1. ASSUME NEW s \in rest PROVE s.id = id /\ ListBy(s, rest, rows'[id], NewColumn(id))
    <3>1. s.id = id /\ ListBy(s, Work(pc, t), rows[id], Column(id))
      BY <1>1, <1>4, ListBefore
    <3>2. /\ (\E r \in rest : r.op = "PutRow") <=> (\E r \in Work(pc, t) : r.op = "PutRow")
          /\ (\E r \in rest : r.op = "Push") <=> (\E r \in Work(pc, t) : r.op = "Push")
      BY <1>1 DEF Listing
    <3> QED
      BY <1>2, <3>1, <3>2 DEF ListBy
  <2>2. (\A s \in rest : s.op \notin Listing) => Synced(rows'[id], NewColumn(id))
    <3> SUFFICES ASSUME \A s \in rest : s.op \notin Listing PROVE Synced(rows[id], Column(id))
      BY <1>2
    <3>1. \A s \in Work(pc, t) : s.op \notin Listing
      BY <1>1
    <3> QED
      BY <1>1, <1>4, <3>1, ListSettled
  <2>3. \E s \in Work(pc, t) \cup rest : s.id = id
    BY <1>1, <1>4
  <2> QED
    BY <2>1, <2>2, <2>3, ListMine
<1> QED
  BY <1>3, <1>4

\* The row of an insert comes in.
LEMMA ListPutRow ==
    ASSUME NEW t \in Thread, PutRowDone(t), NEW id, NEW rest, rest = Work(pc, t) \ {Arg(t)}, Tidy(t, rest, id)
    PROVE  ListAt(id)'
<1> DEFINE a == Arg(t)
<1>1. Doing(t, "PutRow") /\ rows' = [rows EXCEPT ![a.id] = Row(a.user, a.code)] /\ lists' = lists
  BY DEF PutRowDone, Passed, Moved
<1>2. /\ a \in Work(pc, t) /\ a.op = "PutRow" /\ a.id \in Ids /\ \A s \in Work(pc, t) : s.id = a.id
      /\ Followers(a, rest) /\ rows \in [Ids -> Rows \cup {None}]
  BY <1>1 DEF Doing, Tidy, Types
<1>3. NewColumn(id) = Column(id)
  BY <1>1 DEF NewColumn, Column
<1>4. CASE a.id # id
  <2>1. rows'[id] = rows[id]
    BY <1>1, <1>2, <1>4 DEF Tidy
  <2>2. \A s \in Work(pc, t) \cup rest : s.id # id
    BY <1>2, <1>4
  <2> QED
    BY <1>3, <2>1, <2>2, ListIdle
<1>5. CASE a.id = id
  <2>1. rows'[id] = Row(a.user, a.code) /\ rows'[id].owner = a.user
    BY <1>1, <1>2, <1>5 DEF Row
  <2>2. rows'[id] # None
    <3>1. Row(a.user, a.code) \in Rows
      BY <1>1, StoresOf DEF Tidy
    <3> QED
      BY <2>1, <3>1, RelationalAssumption DEF Rows
  <2>3. ListBy(a, Work(pc, t), rows[id], Column(id))
    BY <1>2, <1>5, ListBefore
  <2>4. \E s \in Work(pc, t) \cup rest : s.id = id
    BY <1>2, <1>5
  <2>5. CASE store = "AlertStore"
    <3>1. (\E s \in rest : s.op = "Push") /\ \A s \in rest : s.op = "Push" /\ s.user = a.user /\ s.id = id
      BY <1>2, <1>5, <2>5 DEF Followers
    <3>2. NoList(Column(id))
      BY <1>2, <2>3, <3>1 DEF ListBy
    <3>3. \A s \in rest : s.id = id /\ ListBy(s, rest, rows'[id], NewColumn(id))
      BY <1>3, <2>1, <2>2, <3>1, <3>2 DEF ListBy
    <3>4. ~ \A s \in rest : s.op \notin Listing
      BY <3>1 DEF Listing
    <3> QED
      BY <2>4, <3>3, <3>4, ListMine
  <2>6. CASE store = "ApiKeyStore"
    <3>1. rest = {} /\ Work(pc, t) = {a}
      BY <1>2, <2>6 DEF Followers
    <3>2. OnlyIn(Column(id), a.user)
      BY <1>2, <2>3, <3>1 DEF ListBy
    <3>3. Synced(rows'[id], NewColumn(id))
      BY <1>3, <2>1, <2>2, <3>2 DEF Synced
    <3> QED
      BY <2>4, <3>1, <3>3, ListMine
  <2> QED
    BY <2>5, <2>6 DEF Tidy, Own
<1> QED
  BY <1>4, <1>5

\* The list takes the id, after the row or before.
LEMMA ListPush ==
    ASSUME NEW t \in Thread, Push(t), NEW id, NEW rest, rest = Work(pc, t) \ {Arg(t)}, Tidy(t, rest, id)
    PROVE  ListAt(id)'
<1> DEFINE a == Arg(t)
<1>1. Doing(t, "Push") /\ rows' = rows /\ lists' = [lists EXCEPT ![a.user][a.id] = @ + 1]
  BY PushFacts DEF Passed, Moved, Tidy
<1>2. /\ a \in Work(pc, t) /\ a.op = "Push" /\ a.id \in Ids /\ \A s \in Work(pc, t) : s.id = a.id
      /\ Followers(a, rest) /\ a.user \in User /\ id \in Ids
  BY <1>1, StoresOf DEF Doing, Tidy
<1> DEFINE n == lists[a.user][a.id] + 1
<1>3. \A v \in User, i \in Ids : lists'[v][i] = IF v = a.user /\ i = a.id THEN n ELSE lists[v][i]
  BY <1>1, <1>2 DEF Tidy, Types
<1>4. CASE a.id # id
  <2>1. NewColumn(id) = Column(id)
    BY <1>2, <1>3, <1>4 DEF NewColumn, Column
  <2>2. \A s \in Work(pc, t) \cup rest : s.id # id
    BY <1>2, <1>4
  <2> QED
    BY <1>1, <2>1, <2>2, ListIdle
<1>5. CASE a.id = id
  <2>1. NewColumn(id) = [Column(id) EXCEPT ![a.user] = n]
    BY <1>2, <1>3, <1>5 DEF NewColumn, Column
  <2>2. n = Column(id)[a.user] + 1 /\ Column(id) = [u \in User |-> Column(id)[u]]
    BY <1>2, <1>5 DEF Column
  <2> HIDE DEF n
  <2>3. NoList(Column(id)) => OnlyIn(NewColumn(id), a.user)
    BY <1>2, <2>1, <2>2 DEF NoList, OnlyIn
  <2>4. \E s \in Work(pc, t) \cup rest : s.id = id
    BY <1>2, <1>5
  <2>5. CASE rest = {}
    <3>1. Work(pc, t) = {a}
      BY <1>2, <2>5
    <3>2. ListBy(a, Work(pc, t), rows[id], Column(id))
      BY <1>2, <1>5, ListBefore
    <3>3. rows[id] # None /\ rows[id].owner = a.user /\ NoList(Column(id))
      BY <1>2, <3>1, <3>2 DEF ListBy
    <3>4. Synced(rows'[id], NewColumn(id))
      BY <1>1, <2>3, <3>3 DEF Synced
    <3> QED
      BY <2>4, <2>5, <3>4, ListMine
  <2>6. CASE rest # {}
    <3>1. \A s \in rest : s.op = "PutRow" /\ s.user = a.user /\ s.id = id
      BY <1>2, <1>5 DEF Followers
    <3>2. PICK s \in rest : TRUE
      BY <2>6
    <3>3. ListBy(s, Work(pc, t), rows[id], Column(id))
      BY <3>1, ListBefore
    <3>4. rows[id] = None /\ NoList(Column(id))
      BY <1>2, <3>1, <3>3 DEF ListBy
    <3>5. \A r \in rest : r.id = id /\ ListBy(r, rest, rows'[id], NewColumn(id))
      BY <1>1, <2>3, <3>1, <3>4 DEF ListBy
    <3>6. ~ \A r \in rest : r.op \notin Listing
      BY <3>1, <3>2 DEF Listing
    <3> QED
      BY <2>4, <3>5, <3>6, ListMine
  <2> QED
    BY <2>5, <2>6
<1> QED
  BY <1>4, <1>5

\* The list loses the id, after the row.
LEMMA ListRetain ==
    ASSUME NEW t \in Thread, Retain(t), NEW id, NEW rest, rest = Work(pc, t) \ {Arg(t)}, Tidy(t, rest, id)
    PROVE  ListAt(id)'
<1> DEFINE a == Arg(t)
<1>1. Doing(t, "Retain") /\ rows' = rows /\ lists' = [lists EXCEPT ![a.user][a.id] = 0]
  BY RetainFacts DEF Passed, Moved, Tidy
<1>2. /\ a \in Work(pc, t) /\ a.op = "Retain" /\ a.id \in Ids /\ \A s \in Work(pc, t) : s.id = a.id
      /\ rest = {} /\ a.user \in User /\ id \in Ids
  BY <1>1, StoresOf DEF Doing, Tidy, Followers
<1>0. \A v \in User, i \in Ids : lists'[v][i] = IF v = a.user /\ i = a.id THEN 0 ELSE lists[v][i]
  BY <1>1, <1>2 DEF Tidy, Types
<1>3. CASE a.id # id
  <2>1. NewColumn(id) = Column(id)
    BY <1>0, <1>2, <1>3 DEF NewColumn, Column
  <2>2. \A s \in Work(pc, t) \cup rest : s.id # id
    BY <1>2, <1>3
  <2> QED
    BY <1>1, <2>1, <2>2, ListIdle
<1>4. CASE a.id = id
  <2>1. NewColumn(id) = [Column(id) EXCEPT ![a.user] = 0] /\ Column(id) = [u \in User |-> Column(id)[u]]
    <3>1. NewColumn(id) = [Column(id) EXCEPT ![a.user] = 0]
      BY <1>0, <1>2, <1>4 DEF NewColumn, Column
    <3> QED
      BY <3>1 DEF Column
  <2>2. ListBy(a, Work(pc, t), rows[id], Column(id))
    BY <1>2, <1>4, ListBefore
  <2>3. rows[id] = None /\ OnlyIn(Column(id), a.user)
    BY <1>2, <2>2 DEF ListBy
  <2>4. NoList(NewColumn(id))
    BY <1>2, <2>1, <2>3 DEF NoList, OnlyIn
  <2>5. Synced(rows'[id], NewColumn(id))
    BY <1>1, <2>3, <2>4 DEF Synced
  <2> QED
    BY <1>2, <1>4, <2>5, ListMine
<1> QED
  BY <1>3, <1>4

\* The row goes out, and the list of its owner has to follow.
LEMMA ListRemoveRow ==
    ASSUME NEW t \in Thread, RemoveRowDone(t), NEW id, NEW rest, Moved(t, "RemoveRow", rest), Tidy(t, rest, id),
           rest = IF rows[Arg(t).id] = None THEN {} ELSE AfterWork(Arg(t).id, rows[Arg(t).id])
    PROVE  ListAt(id)'
<1> DEFINE a == Arg(t)
<1>1. lists' = lists /\ Work(pc, t) = {a} /\ rows' = [rows EXCEPT ![a.id] = None]
  BY DEF RemoveRowDone
<1>2. a.op = "RemoveRow" /\ a.id \in Ids /\ id \in Ids /\ rows \in [Ids -> Rows \cup {None}]
  BY DEF Moved, Doing, Tidy, Types
<1>3. NewColumn(id) = Column(id)
  BY <1>1 DEF NewColumn, Column
<1>4. \A s \in rest : s.id = a.id
  BY StepIs DEF AfterWork, DropsOf, RetainsOf
<1>5. CASE a.id # id
  BY <1>1, <1>2, <1>3, <1>4, <1>5, ListIdle
<1>6. CASE a.id = id
  <2>1. Synced(rows[id], Column(id))
    BY <1>1, <1>2, <1>6, ListSettled DEF Listing
  <2>2. rows'[id] = None
    BY <1>1, <1>2, <1>6
  <2>3. CASE rows[id] = None
    BY <1>1, <1>3, <1>6, <2>1, <2>2, <2>3, ListMine
  <2>4. CASE rows[id] # None
    <3> DEFINE b == S("Retain", a.id, None, rows[a.id].owner)
    <3>1. OnlyIn(Column(id), rows[id].owner)
      BY <2>1, <2>4 DEF Synced
    <3>2. rest = DropsOf(a.id, rows[a.id].code) \cup {b}
      BY <1>6, <2>4 DEF AfterWork, RetainsOf, Tidy
    <3>3. b.op = "Retain" /\ b.user = rows[id].owner
      BY <1>6, StepIs
    <3>4. \A s \in rest : s.op = "DropCode" \/ s = b
      BY <3>2, StepIs DEF DropsOf
    <3>5. b \in rest
      BY <3>2
    <3> HIDE DEF b
    <3>6. \A s \in rest : s.id = id /\ ListBy(s, rest, rows'[id], NewColumn(id))
      BY <1>3, <1>4, <1>6, <2>2, <3>1, <3>3, <3>4 DEF ListBy
    <3>7. ~ \A s \in rest : s.op \notin Listing
      BY <3>3, <3>5 DEF Listing
    <3> QED
      BY <3>5, <3>6, <3>7, ListMine
  <2> QED
    BY <2>3, <2>4
<1> QED
  BY <1>5, <1>6

\* The owner is looked at.
LEMMA ListCheckOwner ==
    ASSUME NEW t \in Thread, Doing(t, "CheckOwner"), UNCHANGED <<rows, lists>>, NEW id, NEW rest, Tidy(t, rest, id),
           \A s \in rest : s.op = "RemoveRow" /\ s.id = Arg(t).id
    PROVE  ListAt(id)'
<1> DEFINE a == Arg(t)
<1>1. Work(pc, t) = {a} /\ a.op = "CheckOwner"
  BY DEF Doing, Followers
<1>2. rows'[id] = rows[id] /\ NewColumn(id) = Column(id)
  BY DEF NewColumn, Column
<1>3. CASE a.id # id
  BY <1>1, <1>2, <1>3, ListIdle
<1>4. CASE a.id = id
  <2>1. Synced(rows[id], Column(id))
    BY <1>1, <1>4, ListSettled DEF Listing
  <2>2. \A s \in rest : s.id = id /\ ListBy(s, rest, rows'[id], NewColumn(id))
    BY <1>4 DEF ListBy
  <2>3. \E s \in Work(pc, t) \cup rest : s.id = id
    BY <1>1, <1>4
  <2> QED
    BY <1>2, <2>1, <2>2, <2>3, ListMine
<1> QED
  BY <1>3, <1>4

\* The stores without lists of their rows.
LEMMA ListedElsewhere ==
    ASSUME store' = store, store \notin Own
    PROVE  Listed'
BY DEF Listed

\* What a step leaves in order was in order.
LEMMA TidyAfter ==
    ASSUME Types, Listed, Owned, Single, Single', NEW t \in Thread, NEW rest, Goes(t, rest), store' = store,
           Remembers, reused \subseteq reused',
           \A id : Tidy(t, rest, id) => ListAt(id)'
    PROVE  Listed'
<1>1. Ids' = Ids
  BY SameStore
<1>2. ASSUME store \in Own, NEW id \in Ids, id \notin odd' \cup reused' PROVE ListAt(id)'
  BY <1>2 DEF Tidy, Remembers
<1> QED
  BY <1>1, <1>2 DEF Listed

\* Steps that take themselves off a plan, and touch no row and no list.
LEMMA ListedQuiet ==
    ASSUME Types, Listed, Owned, Single, Single', NEW t \in Thread, NEW op, Passed(t, op), op \notin Listing,
           UNCHANGED <<rows, lists>>
    PROVE  Listed'
<1> DEFINE rest == Work(pc, t) \ {Arg(t)}
<1>1. Goes(t, rest) /\ UNCHANGED <<store, reused>> /\ Remembers /\ Doing(t, op)
  BY DEF Passed, Moved, Rest
<1>2. rest = Work(pc, t) \ {Arg(t)}
  OBVIOUS
<1> HIDE DEF rest
<1>3. \A id : Tidy(t, rest, id) => ListAt(id)'
  BY <1>1, <1>2, ListQuiet
<1> QED
  BY <1>1, <1>3, TidyAfter

\* The steps of calls keep lists and rows together.
LEMMA ListedContinue ==
    ASSUME Types, Listed, Owned, Single, Single', NEW t \in Thread, Continue(t)
    PROVE  Listed'
<1> DEFINE a == Arg(t)
           less == Work(pc, t) \ {a}
<1>0. \A op : Passed(t, op) => Goes(t, less) /\ UNCHANGED <<store, reused>> /\ Remembers /\ Doing(t, op)
  BY DEF Passed, Moved, Rest
<1>1. CASE PutRow(t)
  <2>1. PutRowDone(t)
    BY <1>1, PutRowFacts
  <2>2. Goes(t, less) /\ UNCHANGED <<store, reused>> /\ Remembers
    BY <1>0, <2>1 DEF PutRowDone
  <2>3. \A id : Tidy(t, less, id) => ListAt(id)'
    BY <2>1, ListPutRow
  <2> QED
    BY <2>2, <2>3, TidyAfter
<1>2. CASE Push(t)
  <2>1. Goes(t, less) /\ UNCHANGED <<store, reused>> /\ Remembers
    BY <1>0, <1>2, PushFacts
  <2>2. \A id : Tidy(t, less, id) => ListAt(id)'
    BY <1>2, ListPush
  <2> QED
    BY <2>1, <2>2, TidyAfter
<1>3. CASE Retain(t)
  <2>1. Goes(t, less) /\ UNCHANGED <<store, reused>> /\ Remembers
    BY <1>0, <1>3, RetainFacts
  <2>2. \A id : Tidy(t, less, id) => ListAt(id)'
    BY <1>3, ListRetain
  <2> QED
    BY <2>1, <2>2, TidyAfter
<1>4. CASE RemoveRow(t)
  <2>1. RemoveRowDone(t)
    BY <1>4, RemoveRowFacts
  <2> DEFINE rest == IF rows[a.id] = None THEN {} ELSE AfterWork(a.id, rows[a.id])
  <2>2. Moved(t, "RemoveRow", rest)
    BY <2>1 DEF RemoveRowDone
  <2>3. \A id : Tidy(t, rest, id) => ListAt(id)'
    BY <2>1, <2>2, ListRemoveRow
  <2> HIDE DEF rest
  <2> QED
    BY <2>2, <2>3, TidyAfter DEF Moved, Rest
<1>5. CASE CheckOwner(t)
  <2> DEFINE rest == IF rows[a.id] # None /\ rows[a.id].owner = a.user THEN {S("RemoveRow", a.id, None, a.user)} ELSE {}
  <2>1. Moved(t, "CheckOwner", rest) /\ UNCHANGED <<rows, lists>>
    BY <1>5, CheckOwnerFacts DEF CheckOwnerDone
  <2>2. \A s \in rest : s.op = "RemoveRow" /\ s.id = a.id
    BY StepIs
  <2> HIDE DEF rest
  <2>3. \A id : Tidy(t, rest, id) => ListAt(id)'
    BY <2>1, <2>2, ListCheckOwner DEF Moved
  <2> QED
    BY <2>1, <2>3, TidyAfter DEF Moved, Rest
<1>6. CASE AddCode(t) \/ DropCode(t) \/ Touch(t)
  <2>1. PICK op \in {"AddCode", "DropCode", "Touch"} : Passed(t, op) /\ UNCHANGED <<rows, lists>>
    BY <1>6, AddCodeFacts, DropCodeFacts, TouchFacts DEF AddCodeDone
  <2>2. op \notin Listing
    BY DEF Listing
  <2> QED
    BY <2>1, <2>2, ListedQuiet
<1>7. CASE UpdateRow(t) \/ EnsureRow(t) \/ Refer(t) \/ CheckRow(t) \/ JoinEntry(t) \/ Score(t)
  <2>1. \A op, rest : Moved(t, op, rest) => Doing(t, op) /\ store' = store
    BY DEF Moved, Rest
  <2>2. PICK op \in {"UpdateRow", "EnsureRow", "Refer", "CheckRow", "JoinEntry", "Score"} : Doing(t, op) /\ store' = store
    <3>1. CASE UpdateRow(t)
      BY <2>1, <3>1, UpdateRowFacts DEF UpdateRowDone
    <3>2. CASE EnsureRow(t) \/ Refer(t) \/ Score(t)
      BY <1>0, <3>2, EnsureRowFacts, ReferFacts, ScoreFacts
    <3>3. CASE CheckRow(t)
      BY <2>1, <3>3, CheckRowFacts DEF CheckRowDone
    <3>4. CASE JoinEntry(t)
      BY <2>1, <3>4, JoinEntryFacts DEF JoinEntryDone
    <3> QED
      BY <1>7, <3>1, <3>2, <3>3, <3>4
  <2>3. store \notin Own
    BY <2>2, StoresOf DEF Users, Own
  <2> QED
    BY <2>2, <2>3, ListedElsewhere
<1>8. CASE LookUp(t) \/ LookUpList(t) \/ GetRow(t)
  <2>1. Looked(t)
    BY <1>8, LookUpFacts, LookUpListFacts, GetRowFacts
  <2>2. Work(pc, t) = {} /\ Goes(t, {}) /\ UNCHANGED <<store, reused, rows, lists>> /\ Remembers
    BY <2>1 DEF Looked, Rest
  <2>3. ASSUME NEW id, Tidy(t, {}, id) PROVE ListAt(id)'
    <3>1. NewColumn(id) = Column(id)
      BY <2>2 DEF NewColumn, Column
    <3> QED
      BY <2>2, <2>3, <3>1, ListIdle
  <2> QED
    BY <2>2, <2>3, TidyAfter
<1> QED
  BY <1>1, <1>2, <1>3, <1>4, <1>5, <1>6, <1>7, <1>8 DEF Continue

\* A call begins on an id whose lists are in order; an insert on an id that
\* has none.
LEMMA ListedStart ==
    ASSUME Types, Listed, Owned, Single, Single', NEW t \in Thread, Start(t)
    PROVE  Listed'
<1>1. Started(t)
  BY StartFacts
<1>2. PICK steps : /\ Began(t, steps) /\ reused \subseteq reused'
                   /\ store \in Own => \A s \in steps : s.op = "PutRow" =>
                        s.id \in reused' \/ (s.id \in Ids /\ s.id \notin given)
  <2>1. ASSUME NEW steps, NEW id \in Ids, Began(t, steps), \A s \in steps : s.op = "PutRow" => s.id = id, Give(id)
        PROVE  /\ reused \subseteq reused'
               /\ \A s \in steps : s.op = "PutRow" => s.id \in reused' \/ (s.id \in Ids /\ s.id \notin given)
    BY <2>1 DEF Give
  <2> QED
    BY <1>1, <2>1 DEF Started
<1>3. Work(pc, t) = {} /\ Goes(t, steps) /\ Fresh(steps) /\ Remembers /\ UNCHANGED <<store, rows, lists>>
  BY <1>2 DEF Began
<1>4. ASSUME NEW id, Tidy(t, steps, id) PROVE ListAt(id)'
  <2>1. rows'[id] = rows[id] /\ NewColumn(id) = Column(id) /\ store \in Own /\ id \notin reused' /\ id \in Ids
    BY <1>3, <1>4 DEF NewColumn, Column, Tidy
  <2>2. CASE \A s \in steps : s.id # id
    BY <1>3, <1>4, <2>1, <2>2, ListIdle
  <2>3. CASE \E s \in steps : s.id = id
    <3>1. Synced(rows[id], Column(id))
      BY <1>3, <1>4, <2>3, ListSettled
    <3>2. \A s \in steps : s.id = id
      <4>1. pc' \in [Thread -> Plans] /\ Work(pc', t) = steps
        BY <1>3 DEF Goes
      <4> QED
        BY <2>3, <4>1, Worker
    <3>3. ASSUME NEW s \in steps, s.op = "PutRow" PROVE rows[id] = None /\ NoList(Column(id))
      <4>1. id \notin given
        BY <1>2, <2>1, <3>2, <3>3
      <4>2. rows[id] = None
        BY <1>4, <2>1, <4>1 DEF Tidy, Owned, Given
      <4> QED
        BY <3>1, <4>2 DEF Synced
    <3>4. ASSUME NEW s \in steps PROVE s.id = id /\ ListBy(s, steps, rows'[id], NewColumn(id))
      BY <1>3, <2>1, <3>2, <3>3 DEF ListBy, Fresh
    <3> QED
      BY <1>4, <2>1, <2>3, <3>1, <3>4, ListMine
  <2> QED
    BY <2>2, <2>3
<1> QED
  BY <1>2, <1>3, <1>4, TidyAfter

-----------------------------------------------------------------------------
(* The invariant.                                                          *)

\* Nothing is under way at the start.
LEMMA InitInv ==
    ASSUME Init
    PROVE  Inv
<1>1. Types
  BY TypesInit
<1>2. \A t \in Thread : Work(pc, t) = {}
  <2>1. \A t \in Thread : pc[t] = <<>>
    BY DEF Init
  <2> QED
    BY <2>1, NoPlan DEF Work
<1>3. /\ \A id \in Ids : rows[id] = None /\ entries[id] = <<>>
      /\ DOMAIN codes = {}
      /\ \A u \in User, id \in Ids : lists[u][id] = 0
      /\ scan.on = FALSE
  BY DEF Init, NoScan
<1>4. Owned /\ Scanned /\ Apart /\ Single
  BY <1>2, <1>3 DEF Owned, Given, Once, Aimed, Scanned, Apart, Single
<1>5. Coded
  <2>1. \A c : HasSet(c) = {} /\ CodeSet(c) = {}
    BY <1>3 DEF HasSet, CodeSet, Has
  <2> QED
    BY <1>2, <2>1 DEF Coded, CodeAt
<1>6. Joins
  <2>1. \A id \in Ids : OneEntry(id) /\ \A u \in User : ~Joined(id, u)
    BY <1>3 DEF OneEntry, Joined
  <2> QED
    BY <1>2, <1>3, <2>1 DEF Joins, Holding
<1>7. Listed
  <2>1. \A id \in Ids : Synced(rows[id], Column(id))
    BY <1>3 DEF Synced, Column, NoList
  <2> QED
    BY <1>2, <2>1 DEF Listed, ListAt
<1> QED
  BY <1>1, <1>4, <1>5, <1>6, <1>7 DEF Inv

\* What leaves rows, lists and calls alone keeps what is said of them.
LEMMA AsideKeeps ==
    ASSUME Owned, Apart, Coded, Joins, Single, Listed, Aside
    PROVE  (Owned /\ Apart /\ Coded /\ Joins /\ Single /\ Listed)'
<1>1. UNCHANGED <<store, rows, codes, lists, entries, pc, exclusive, given, reused, odd, stained>>
  BY DEF Aside
<1>2. Ids' = Ids
  BY <1>1, SameStore
<1>3. Owned'
  BY <1>1, <1>2 DEF Owned, Given, Once, Aimed
<1>4. Apart' /\ Single'
  BY <1>1 DEF Apart, Single
<1>5. Coded'
  BY <1>1, <1>2 DEF Coded, CodeAt, HasSet, CodeSet, Has
<1>6. Joins'
  BY <1>1, <1>2 DEF Joins, OneEntry, Holding, Pends, Pending, Joined
<1>7. Listed'
  BY <1>1, <1>2 DEF Listed, ListAt, Column
<1> QED
  BY <1>3, <1>4, <1>5, <1>6, <1>7

\* Every step keeps the invariant.
LEMMA NextInv ==
    ASSUME Inv, [Next]_vars
    PROVE  Inv'
<1>0. Types /\ Owned /\ Scanned /\ Apart /\ Coded /\ Joins /\ Single /\ Listed
  BY DEF Inv
<1>1. CASE Next
  <2>1. Types' /\ Scanned'
    BY <1>0, <1>1, TypesNext, ScannedNext
  <2>2. ASSUME NEW t \in Thread, Start(t) PROVE Inv'
    <3>1. Apart' /\ Single'
      BY <1>0, <2>2, StartCommon, OverlapsNext
    <3>2. Owned'
      BY <1>0, <2>2, StartFacts, OwnedStart
    <3>3. Coded' /\ Joins' /\ Listed'
      BY <1>0, <2>2, <3>1, CodedStart, JoinsStart, ListedStart
    <3> QED
      BY <2>1, <3>1, <3>2, <3>3 DEF Inv
  <2>3. ASSUME NEW t \in Thread, Continue(t) PROVE Inv'
    <3>1. Apart' /\ Single'
      BY <1>0, <2>3, ContinueCommon, OverlapsNext
    <3>2. Owned'
      BY <1>0, <2>3, OwnedContinue
    <3>3. Coded' /\ Joins' /\ Listed'
      BY <1>0, <2>3, <3>1, CodedContinue, JoinsContinue, ListedContinue
    <3> QED
      BY <2>1, <3>1, <3>2, <3>3 DEF Inv
  <2>4. CASE Scan \/ (\E ts \in Tiers : set_tiers(ts)) \/ (\E r \in User : BeginScan(r))
             \/ (\E n \in 1..MaxId : set_next_id(n))
    BY <1>0, <2>1, <2>4, ScanAside, AsideKeeps DEF Inv
  <2> QED
    BY <1>1, <2>2, <2>3, <2>4 DEF Next
<1>2. CASE UNCHANGED vars
  <2>1. Aside /\ UNCHANGED <<next_id, tiers, scan>>
    BY <1>2 DEF vars, maps, guards, history, Aside
  <2>2. UNCHANGED <<store, rows, codes, lists, entries, pc, exclusive>>
    BY <2>1 DEF Aside
  <2>3. Types'
    BY <1>0, <2>1, <2>2, SameStore DEF Types
  <2>4. Scanned'
    BY <1>0, <2>1, <2>2, ScannedSame
  <2> QED
    BY <1>0, <2>1, <2>3, <2>4, AsideKeeps DEF Inv
<1> QED
  BY <1>1, <1>2

-----------------------------------------------------------------------------
(* What the invariant says of the properties.                              *)

\* Of remove_by_user_and_id().
LEMMA OwnersStay ==
    ASSUME Inv
    PROVE  OwnerOnly
<1>1. Types /\ Owned
  BY DEF Inv
<1> SUFFICES ASSUME NEW t \in Thread, Busy(t, "RemoveRow"), Arg(t).user # None
             PROVE  LET a == Arg(t) IN a.id \in reused \/ rows[a.id] = None \/ rows[a.id].owner = a.user
  BY DEF OwnerOnly
<1> DEFINE a == Arg(t)
<1>2. a \in Work(pc, t) /\ a.op = "RemoveRow" /\ a \in StepsOn(a.id)
  BY <1>1, AtStep DEF Types, Doing, WriteOps
<1>3. store \in Own
  BY <1>2 DEF StepsOn, Fits
<1>4. Aimed
  BY <1>1, <1>3 DEF Owned
<1> QED
  BY <1>2, <1>4 DEF Aimed

\* Of codes.
LEMMA CodesAgree ==
    ASSUME Inv
    PROVE  CodesExact
<1>1. Types /\ Coded
  BY DEF Inv
<1> SUFFICES ASSUME NEW c \in Code \ stained, \A t \in Thread : c \notin CodesOf(pc[t])
             PROVE  HasSet(c) = CodeSet(c)
  BY DEF CodesExact, HasSet, CodeSet
<1>2. \A t \in Thread : \A s \in Work(pc, t) : s.code # c
  <2> SUFFICES ASSUME NEW t \in Thread, NEW s \in Work(pc, t), s.code = c PROVE FALSE
    OBVIOUS
  <2>1. c # None
    BY RelationalAssumption
  <2>2. PICK i \in DOMAIN pc[t] : s = pc[t][i]
    BY DEF Work, ToSet
  <2> QED
    BY <2>1, <2>2 DEF CodesOf
<1> QED
  BY <1>1, <1>2 DEF Coded, CodeAt

\* Of lists.
LEMMA ListsAgree ==
    ASSUME Inv
    PROVE  ListsExact
<1>1. Types /\ Joins /\ Listed
  BY DEF Inv
<1> SUFFICES ASSUME NEW id \in Ids, NEW u \in User, \A t \in Thread : ~About(t, id)
             PROVE  /\ store = "CompetitionStore" =>
                         /\ lists[u][id] = Cardinality({i \in DOMAIN entries[id] : entries[id][i].user = u})
                         /\ lists[u][id] <= 1
                    /\ store \in Own => \/ id \in odd \cup reused
                                        \/ lists[u][id] = IF rows[id] # None /\ rows[id].owner = u THEN 1 ELSE 0
  BY <1>1 DEF ListsExact, Types, Kinds, Own, Users
<1>2. \A t \in Thread : \A s \in Work(pc, t) : s.id # id
  <2> SUFFICES ASSUME NEW t \in Thread, NEW s \in Work(pc, t), s.id = id PROVE FALSE
    OBVIOUS
  <2>1. pc[t] # <<>> /\ Head(pc[t]).op \notin ReadOps /\ Head(pc[t]).id = id
    BY <1>1, Worker DEF Types
  <2> QED
    BY <2>1 DEF About, Writing, Arg, ReadOps
<1>3. ASSUME store = "CompetitionStore"
      PROVE  /\ lists[u][id] = Cardinality({i \in DOMAIN entries[id] : entries[id][i].user = u})
             /\ lists[u][id] <= 1
  <2> DEFINE X == {i \in DOMAIN entries[id] : entries[id][i].user = u}
  <2>1. OneEntry(id) /\ lists[u][id] = IF Joined(id, u) THEN 1 ELSE 0
    BY <1>1, <1>2, <1>3 DEF Joins, Pending
  <2>2. CASE Joined(id, u)
    <3>1. PICK i \in DOMAIN entries[id] : entries[id][i].user = u
      BY <2>2 DEF Joined
    <3>2. X = {i}
      BY <2>1, <3>1 DEF OneEntry
    <3> HIDE DEF X
    <3> QED
      BY <2>1, <2>2, <3>2, FS_Singleton DEF X
  <2>3. CASE ~Joined(id, u)
    <3>1. X = {}
      BY <2>3 DEF Joined
    <3>2. Cardinality(X) = 0
      BY <3>1, FS_EmptySet
    <3> HIDE DEF X
    <3> QED
      BY <2>1, <2>3, <3>2 DEF X
  <2> QED
    BY <2>2, <2>3
<1>4. ASSUME store \in Own, id \notin odd \cup reused
      PROVE  lists[u][id] = IF rows[id] # None /\ rows[id].owner = u THEN 1 ELSE 0
  <2>1. Synced(rows[id], Column(id))
    BY <1>1, <1>2, <1>4 DEF Listed, ListAt
  <2>2. Column(id)[u] = lists[u][id]
    BY DEF Column
  <2> QED
    BY <2>1, <2>2 DEF Synced, NoList, OnlyIn
<1> QED
  BY <1>3, <1>4

\* A set of numbers has a least one.
LEMMA Least ==
    ASSUME NEW X \in SUBSET Nat, X # {}
    PROVE  \E x \in X : \A y \in X : x <= y
<1>1. PICK x \in X : \A y \in X : ~ (<<y, x>> \in OpToRel(<, Nat))
  BY NatLessThanWellFounded, WFMin
<1>2. \A m \in Nat, n \in Nat : m < n => <<m, n>> \in OpToRel(<, Nat)
  BY Zenon DEF OpToRel
<1>3. \A y \in X : ~ (y < x)
  BY <1>1, <1>2
<1> QED
  BY <1>3

\* A set of places in a table has a greatest one.
LEMMA LastPlace ==
    \A N \in Nat : \A X \in SUBSET (1..N) : X # {} => \E x \in X : \A y \in X : x >= y
<1> SUFFICES ASSUME NEW N \in Nat, NEW X \in SUBSET (1..N), X # {}
             PROVE  \E x \in X : \A y \in X : x >= y
  OBVIOUS
<1> DEFINE D == {N - x : x \in X}
<1>1. \A y \in X : y \in Nat /\ N - y \in Nat
  <2>1. \A y \in X : y \in 1..N
    OBVIOUS
  <2> QED
    BY <2>1
<1>2. D \in SUBSET Nat /\ D # {}
  BY <1>1
<1>3. PICK d \in D : \A e \in D : d <= e
  BY <1>2, Least
<1>4. PICK x \in X : d = N - x
  OBVIOUS
<1>5. \A y \in X : N - x <= N - y
  BY <1>3, <1>4
<1>6. \A y \in X : x >= y
  BY <1>1, <1>5
<1> QED
  BY <1>6

\* The tier of a number of referrals and a volume.
BestTier(ts, n, v) ==
    LET best == {i \in Qualified(ts, n, v) : \A j \in Qualified(ts, n, v) : j <= i} IN
    compute_tier(ts, n, v) = ts[CHOOSE i \in IF best = {} THEN {1} ELSE best : TRUE]

\* compute_tier() finds it in every table.
LEMMA TierIsBest ==
    ASSUME NEW ts \in Seq(TierSet), NEW n, NEW v
    PROVE  BestTier(ts, n, v)
<1> DEFINE Q == Qualified(ts, n, v)
           best == {i \in Q : \A j \in Q : j <= i}
<1>1. Len(ts) \in Nat /\ Q \in SUBSET (1..Len(ts))
  BY DEF Qualified
<1>2. compute_tier(ts, n, v) = ts[IF Q = {} THEN 1 ELSE Max(Q)]
  BY DEF compute_tier
<1> HIDE DEF Q
<1>3. (CHOOSE i \in IF best = {} THEN {1} ELSE best : TRUE) = IF Q = {} THEN 1 ELSE Max(Q)
  <2>1. CASE Q = {}
    <3>1. best = {}
      BY <2>1
    <3>2. (CHOOSE i \in {1} : TRUE) = 1
      OBVIOUS
    <3> QED
      BY <2>1, <3>1, <3>2
  <2>2. CASE Q # {}
    <3>1. \E x \in Q : \A y \in Q : x >= y
      BY <1>1, <2>2, LastPlace
    <3>2. Max(Q) \in Q /\ \A y \in Q : Max(Q) >= y
      BY <3>1 DEF Max
    <3>3. \A y \in Q : y \in Nat
      BY <1>1
    <3>4. best = {Max(Q)}
      BY <3>2, <3>3
    <3>5. (CHOOSE i \in {Max(Q)} : TRUE) = Max(Q)
      OBVIOUS
    <3> QED
      BY <2>2, <3>4, <3>5
  <2> QED
    BY <2>1, <2>2
<1> QED
  BY <1>2, <1>3 DEF BestTier, Q

\* Of tiers.
LEMMA TiersFit ==
    ASSUME Inv
    PROVE  TierBetween
<1>1. Types /\ Scanned
  BY DEF Inv
<1> SUFFICES ASSUME scan.on, scan.todo = {},
                    NEW v \in {tiers[i].min_volume : i \in DOMAIN tiers} \cup {0, 5, 200}
             PROVE  \E n \in Cardinality(scan.must)..Cardinality(scan.may) :
                        LET best == {i \in Qualified(tiers, n, v) : \A j \in Qualified(tiers, n, v) : j <= i} IN
                        compute_tier(tiers, scan.got, v) = tiers[CHOOSE i \in IF best = {} THEN {1} ELSE best : TRUE]
  BY DEF TierBetween
<1>2. scan.got \in Cardinality(scan.must)..Cardinality(scan.may)
  <2>1. PICK seen \in SUBSET Ids : Seen(seen)
    BY <1>1 DEF Scanned
  <2>2. scan.may \in SUBSET Ids /\ scan.must \in SUBSET Ids
    BY <1>1 DEF Types, Scans
  <2>3. scan.must \in SUBSET seen /\ seen \in SUBSET scan.may /\ Cardinality(seen) = scan.got
    BY <2>1, <2>2 DEF Seen
  <2>4. IsFiniteSet(seen) /\ IsFiniteSet(scan.may) /\ IsFiniteSet(scan.must)
    BY <2>2, IdsFinite, FS_Subset
  <2>5. Cardinality(scan.must) <= scan.got /\ scan.got <= Cardinality(scan.may)
    BY <2>3, <2>4, FS_Subset
  <2>6. Cardinality(scan.must) \in Nat /\ Cardinality(scan.may) \in Nat /\ scan.got \in Nat
    BY <2>3, <2>4, FS_CardinalityType
  <2> QED
    BY <2>5, <2>6
<1>3. BestTier(tiers, scan.got, v)
  BY <1>1, TierIsBest DEF Types
<1> QED
  BY <1>2, <1>3 DEF BestTier

-----------------------------------------------------------------------------
(* The theorems.                                                           *)

\* The inductive invariant holds of every behaviour of a store under
\* concurrent calls.
THEOREM Invariance == Spec => []Inv
<1>1. Init => Inv
  BY InitInv
<1>2. Inv /\ [Next]_vars => Inv'
  BY NextInv
<1> QED
  BY <1>1, <1>2, PTL DEF Spec

\* remove_by_user_and_id() looks at the owner under one guard and removes under
\* another, and removes no row of another owner as long as ids are not used
\* again: an id that is gone stays without a row.
THEOREM OwnersOnly == Spec => []OwnerOnly
<1>1. Inv => OwnerOnly
  BY OwnersStay
<1> QED
  BY <1>1, Invariance, PTL

\* upsert(), update(), remove() and insert() visit the rows and the codes one
\* after the other: a code that only one call at a time is about leads to the
\* row that carries it once that call is over.
THEOREM CodesAreExact == Spec => []CodesExact
<1>1. Inv => CodesExact
  BY CodesAgree
<1> QED
  BY <1>1, Invariance, PTL

\* The lists of alerts, keys and competitions follow the rows and the entries;
\* join() keeps the guard of the entries until the list has it, and so never
\* adds a user twice.
THEOREM ListsAreExact == Spec => []ListsExact
<1>1. Inv => ListsExact
  BY ListsAgree
<1> QED
  BY <1>1, Invariance, PTL

\* referral_count() goes over the rows while they change: it counts no fewer
\* than the referrals that stayed and no more than those that were there at
\* some moment, and compute_tier() gives the best tier of that number.
THEOREM TiersBetween == Spec => []TierBetween
<1>1. Inv => TierBetween
  BY TiersFit
<1> QED
  BY <1>1, Invariance, PTL

=============================================================================
