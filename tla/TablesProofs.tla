---------------------------- MODULE TablesProofs ----------------------------
(* Proofs about Tables: what the interleaved calls leave in indexes, book  *)
(* and balances.                                                           *)
EXTENDS Tables, SequenceTheorems, TLAPS

-----------------------------------------------------------------------------
(* The plans: what a call can have left to do.                             *)

Add(id, k) == AtKey("AddToIndex", id, k)
Find(id, k) == AtKey("RemoveFromIndex", id, k)
Drop(id, k) == AtKey("RemoveKey", id, k)

PositionPlans(id) ==
    {<<At("Live", id), Add(id, Owner[id]), Add(id, Level[id])>>,
     <<Add(id, Owner[id]), Add(id, Level[id])>>,
     <<Add(id, Level[id])>>,
     <<At("RemoveRow", id)>>,
     <<Find(id, Owner[id]), Drop(id, Owner[id]), Find(id, Level[id]), Drop(id, Level[id])>>,
     <<Drop(id, Owner[id]), Find(id, Level[id]), Drop(id, Level[id])>>,
     <<Find(id, Level[id]), Drop(id, Level[id])>>,
     <<Drop(id, Level[id])>>,
     <<At("EndRow", id)>>}

OrderPlans(id) ==
    {<<At("Live", id), Add(id, Owner[id]), At("AddToBook", id)>>,
     <<Add(id, Owner[id]), At("AddToBook", id)>>,
     <<At("AddToBook", id)>>,
     <<At("Ended", id), Add(id, Owner[id])>>,
     <<Add(id, Owner[id])>>,
     <<At("RemoveRow", id)>>,
     <<Find(id, Owner[id]), Drop(id, Owner[id])>>,
     <<Drop(id, Owner[id])>>,
     <<Find(id, Owner[id]), Drop(id, Owner[id]), At("RemoveFromBook", id)>>,
     <<Drop(id, Owner[id]), At("RemoveFromBook", id)>>,
     <<At("RemoveFromBook", id)>>,
     <<At("EndRow", id)>>}

BalancePlans(id) ==
    {<<At("deposit", id), Add(id, Owner[id]), At("Live", id)>>,
     <<At("withdraw", id), Add(id, Owner[id]), At("Live", id)>>,
     <<Add(id, Owner[id]), At("Live", id)>>,
     <<At("Live", id)>>,
     <<At("RemoveRow", id)>>,
     <<Find(id, Owner[id]), Drop(id, Owner[id])>>,
     <<Drop(id, Owner[id])>>,
     <<At("EndRow", id)>>}

Plans(id) ==
    CASE table = "PositionTable" -> PositionPlans(id)
      [] table = "OrderTable" -> OrderPlans(id)
      [] table = "BalanceCache" -> BalancePlans(id)

-----------------------------------------------------------------------------
(* The inductive invariant.                                                *)

Keys(id) == ToSet(KeysOf(id))
Left(t) == ToSet(pc[t])
PutIn(id, steps) == At("Live", id) \in steps \/ At("Ended", id) \in steps
Clears(t, k) == ~Idle(t) /\ Step(t) = "RemoveKey" /\ StepKey(t) = k

Types ==
    /\ table \in {"PositionTable", "OrderTable", "BalanceCache"} /\ table \in Kinds
    /\ rows \in [Id -> {"Absent", "Live", "Ended"}]
    /\ DOMAIN index \subseteq Key
    /\ \A k \in DOMAIN index : index[k] \subseteq {id \in Id : k \in Keys(id)}
    /\ book \in [Id -> Nat]
    /\ amount \in [Id -> Nat] /\ ledger \in [Id -> Nat] /\ holds \in [Thread -> Nat]
    /\ pc \in [Thread -> {<<>>} \cup UNION {Plans(id) : id \in Id}]
    /\ reader \in [on : BOOLEAN, key : Key \cup {NoKey}, todo : SUBSET Id, got : SUBSET Id, must : SUBSET Id]
    /\ guards = IF reader.on THEN {reader.key} ELSE {}
    /\ raced \subseteq Key \cup Id /\ replaced \subseteq Id /\ mixed \subseteq Id
    /\ calls \in 0..MaxCall /\ reads \in 0..MaxRead

\* What the index lacks or has too much under a key is what some call has
\* still to add, to insert or to find.
NoneMissing(k) == \A id \in Members(k) : id \in Listed(k) \/ \E t \in Thread : Add(id, k) \in Left(t)
NoneExtra(k) ==
    \A id \in Listed(k) : id \in Members(k) \/ \E t \in Thread : PutIn(id, Left(t)) \/ Find(id, k) \in Left(t)

\* An empty set is about to be dropped, and what is about to be dropped is
\* empty.
EmptyIsDropped(k) == k \in DOMAIN index /\ index[k] = {} => \E t \in Thread : Clears(t, k)
DroppedIsEmpty(k) == \A t \in Thread : Clears(t, k) => Listed(k) = {}

\* A removal has its keys for itself.
Alone(k) == \A t, u \in Thread : t # u /\ Removal(t) /\ Touches(t, k) => ~Touches(u, k)

\* A removal looks for a row that is out; an insert that has added its id has
\* still to put the row in, or has done so.
FoundIsOut(k) == \A t \in Thread, id \in Id : Find(id, k) \in Left(t) => rows[id] = "Absent"
PutIsListed(k) ==
    \A t \in Thread, id \in Id :
        k \in Keys(id) /\ PutIn(id, Left(t)) /\ Add(id, k) \notin Left(t) => id \in Listed(k)
AddedIsIn(k) ==
    \A t \in Thread, id \in Id : Add(id, k) \in Left(t) /\ ~PutIn(id, Left(t)) => rows[id] # "Absent"

\* The index under a key on which no removal met another call.
IndexAt(k) ==
    /\ NoneMissing(k) /\ NoneExtra(k)
    /\ EmptyIsDropped(k) /\ DroppedIsEmpty(k)
    /\ Alone(k)
    /\ FoundIsOut(k) /\ PutIsListed(k) /\ AddedIsIn(k)

Indexed == \A k \in Key \ raced : IndexAt(k)

On(t, id) == ~Idle(t) /\ Row(t) = id
Single(id) == \A t, u \in Thread : On(t, id) /\ On(u, id) => t = u

\* What the book has of an order, by what the one call on it has still to do.
BookBy(steps, id) ==
    IF At("AddToBook", id) \in steps THEN book[id] = 0 /\ (rows[id] = "Live" \/ PutIn(id, steps))
    ELSE IF At("RemoveFromBook", id) \in steps THEN rows[id] # "Live"
    ELSE IF PutIn(id, steps) THEN book[id] = 0
    ELSE book[id] = IF rows[id] = "Live" THEN 1 ELSE 0

BookAt(id) ==
    /\ Single(id)
    /\ \A t \in Thread : On(t, id) => BookBy(Left(t), id)
    /\ (\A t \in Thread : ~On(t, id)) => BookBy({}, id)

Booked == table = "OrderTable" => \A id \in Id \ (raced \cup replaced) : BookAt(id)

\* The end or removal of a row has the row for itself, and what is about to
\* leave the book is not active any more.
EndsBy(steps) == \E s \in steps : s.step \in {"RemoveRow", "RemoveFromIndex", "RemoveKey", "EndRow", "RemoveFromBook"}
EndAt(id) ==
    /\ \A t, u \in Thread : On(t, id) /\ EndsBy(Left(t)) /\ On(u, id) => u = t
    /\ \A t \in Thread : At("RemoveFromBook", id) \in Left(t) => rows[id] # "Live"

EndsAlone == \A id \in Id \ raced : EndAt(id)

\* What a balance comes to once the one call on it, which holds n, is over.
Outcome(steps, id, n) ==
    IF At("deposit", id) \in steps THEN Moved("deposit", amount[id])
    ELSE IF At("withdraw", id) \in steps THEN Moved("withdraw", amount[id])
    ELSE IF PutIn(id, steps) THEN n
    ELSE IF At("RemoveRow", id) \in steps THEN 0
    ELSE amount[id]

BalanceAt(id) ==
    /\ Single(id)
    /\ \A t \in Thread : On(t, id) => ledger[id] = Outcome(Left(t), id, holds[t])
    /\ (\A t \in Thread : ~On(t, id)) => ledger[id] = Outcome({}, id, 0)

Balanced == table = "BalanceCache" => \A id \in Id \ mixed : BalanceAt(id)

\* A row that a read must return is there, and still to be read or read.
Reading ==
    \A id \in reader.must :
        /\ reader.on /\ id \in reader.todo \cup reader.got
        /\ rows[id] # "Absent"
        /\ \A t \in Thread : At("RemoveRow", id) \notin Left(t)

Inv == Types /\ Indexed /\ EndsAlone /\ Booked /\ Balanced /\ Reading

-----------------------------------------------------------------------------
(* Plans and their steps.                                                  *)

Keyed == {"AddToIndex", "RemoveFromIndex", "RemoveKey"}
Removing == {"RemoveRow", "RemoveFromIndex", "RemoveKey"}
Ops == {"deposit", "withdraw"}
Puts == {"Live", "Ended"}

\* What the proofs need to know of a plan p on row id.
StepsOf(p, id) ==
    \A s \in ToSet(p) :
        /\ s.id = id /\ s = AtKey(s.step, id, s.key)
        /\ s.key \in (IF s.step \in Keyed THEN Keys(id) ELSE {NoKey})

ShapeOf(p, id) ==
    /\ p # <<>> /\ Head(p) \in ToSet(p)
    /\ Tail(p) = <<>> \/ Tail(p) \in Plans(id)
    /\ ToSet(Tail(p)) = ToSet(p) \ {Head(p)}
    /\ Head(p).step \in {"RemoveRow", "EndRow", "AddToBook", "RemoveFromBook"} => Tail(p) = <<>>
    /\ Head(p).step = "RemoveFromIndex" => Tail(p) # <<>> /\ Head(Tail(p)) = Drop(id, Head(p).key)
    /\ Head(p).step # "RemoveFromIndex" => Tail(p) = <<>> \/ Head(Tail(p)).step # "RemoveKey"

PartsOf(p, id) ==
    /\ (\E s \in ToSet(p) : s.step \in Removing) => \A s \in ToSet(p) : s.step \in Removing \cup {"RemoveFromBook"}
    /\ At("RemoveRow", id) \in ToSet(p) => ToSet(p) = {At("RemoveRow", id)}
    /\ Head(p).step \in Puts => ~PutIn(id, ToSet(Tail(p)))
    /\ PutIn(id, ToSet(p)) => At("RemoveFromBook", id) \notin ToSet(p) /\ At("EndRow", id) \notin ToSet(p)
    /\ Head(p).step \in Ops => table = "BalanceCache" /\ At("Live", id) \in ToSet(p)
    /\ \A s \in ToSet(Tail(p)) : s.step \notin Ops
    /\ Head(p) = At("Ended", id) => At("AddToBook", id) \notin ToSet(p)
    /\ table = "OrderTable" /\ Head(p) = At("Live", id) => At("AddToBook", id) \in ToSet(p)

PlanFacts(p, id) == StepsOf(p, id) /\ ShapeOf(p, id) /\ PartsOf(p, id)

\* Short sequences: head, tail and what is in them.
LEMMA OneStep ==
    ASSUME NEW a
    PROVE  /\ Head(<<a>>) = a /\ Tail(<<a>>) = <<>> /\ <<a>> # <<>>
           /\ ToSet(<<a>>) = {a} /\ ToSet(<<>>) = {}
BY DEF ToSet

\* The same for two steps.
LEMMA TwoSteps ==
    ASSUME NEW a, NEW b
    PROVE  /\ Head(<<a, b>>) = a /\ Tail(<<a, b>>) = <<b>> /\ <<a, b>> # <<>>
           /\ ToSet(<<a, b>>) = {a, b}
BY DEF ToSet

\* The same for three steps.
LEMMA ThreeSteps ==
    ASSUME NEW a, NEW b, NEW c
    PROVE  /\ Head(<<a, b, c>>) = a /\ Tail(<<a, b, c>>) = <<b, c>> /\ <<a, b, c>> # <<>>
           /\ ToSet(<<a, b, c>>) = {a, b, c}
BY DEF ToSet

\* The same for four steps.
LEMMA FourSteps ==
    ASSUME NEW a, NEW b, NEW c, NEW d
    PROVE  /\ Head(<<a, b, c, d>>) = a /\ Tail(<<a, b, c, d>>) = <<b, c, d>> /\ <<a, b, c, d>> # <<>>
           /\ ToSet(<<a, b, c, d>>) = {a, b, c, d}
BY DEF ToSet

\* The fields of a step.
LEMMA StepFields ==
    ASSUME NEW x, NEW id, NEW k
    PROVE  /\ AtKey(x, id, k).step = x /\ AtKey(x, id, k).id = id /\ AtKey(x, id, k).key = k
           /\ At(x, id) = AtKey(x, id, NoKey)
BY DEF At, AtKey

\* The names of the steps without a key tell them apart.
LEMMA PlainSteps ==
    ASSUME NEW id
    PROVE  /\ At("Live", id).step = "Live" /\ At("Ended", id).step = "Ended"
           /\ At("RemoveRow", id).step = "RemoveRow" /\ At("EndRow", id).step = "EndRow"
           /\ At("AddToBook", id).step = "AddToBook" /\ At("RemoveFromBook", id).step = "RemoveFromBook"
           /\ At("deposit", id).step = "deposit" /\ At("withdraw", id).step = "withdraw"
BY DEF At, AtKey

\* The index keys of a row: its user, and for a position its market.
LEMMA KeySets ==
    ASSUME NEW id \in Id
    PROVE  /\ Keys(id) = IF table = "PositionTable" THEN {Owner[id], Level[id]} ELSE {Owner[id]}
           /\ Owner[id] # Level[id] /\ Keys(id) \subseteq Key
<1>1. Keys(id) = IF table = "PositionTable" THEN {Owner[id], Level[id]} ELSE {Owner[id]}
  BY OneStep, TwoSteps DEF Keys, KeysOf
<1>2. Owner[id] \in User /\ Level[id] \in Place
  BY DEF User, Place
<1>3. User \cap Place = {}
  BY TablesAssumption
<1> QED
  BY <1>1, <1>2, <1>3 DEF Key

\* What a call on a position can have left.
LEMMA PositionPlanFacts ==
    ASSUME table = "PositionTable", NEW id \in Id, NEW p \in PositionPlans(id)
    PROVE  PlanFacts(p, id)
<1>0. /\ Keys(id) = {Owner[id], Level[id]} /\ Owner[id] # Level[id]
      /\ Plans(id) = PositionPlans(id)
  BY KeySets DEF Plans
<1>1. CASE p = <<At("Live", id), Add(id, Owner[id]), Add(id, Level[id])>>
  <2> DEFINE a == At("Live", id)
             b == Add(id, Owner[id])
             c == Add(id, Level[id])
             q == <<b, c>>
  <2>1. p # <<>> /\ Head(p) = a /\ ToSet(p) = {a, b, c} /\ Tail(p) = q
    BY <1>1, ThreeSteps
  <2>2. q # <<>> /\ Head(q) = b /\ ToSet(q) = {b, c}
    BY TwoSteps
  <2>3. /\ a.step = "Live" /\ a.id = id /\ a.key = NoKey /\ a = AtKey("Live", id, NoKey) /\ a = At("Live", id)
        /\ b.step = "AddToIndex" /\ b.id = id /\ b.key = Owner[id] /\ b = AtKey("AddToIndex", id, Owner[id])
        /\ c.step = "AddToIndex" /\ c.id = id /\ c.key = Level[id] /\ c = AtKey("AddToIndex", id, Level[id])
    BY DEF At, AtKey, Add, Find, Drop
  <2>4. q \in Plans(id)
    BY <1>0 DEF PositionPlans
  <2> HIDE DEF a, b, c, q
  <2>5. StepsOf(p, id)
    BY <1>0, <2>1, <2>3 DEF StepsOf, Keyed
  <2>6. ShapeOf(p, id)
    BY <1>0, <2>1, <2>2, <2>3, <2>4 DEF ShapeOf, Drop
  <2>7. PartsOf(p, id)
    BY <2>1, <2>2, <2>3, PlainSteps DEF PartsOf, PutIn, Removing, Ops, Puts
  <2> QED
    BY <2>5, <2>6, <2>7 DEF PlanFacts
<1>2. CASE p = <<Add(id, Owner[id]), Add(id, Level[id])>>
  BY <1>0, <1>2, OneStep, TwoSteps
     DEF PlanFacts, StepsOf, ShapeOf, PartsOf, PositionPlans, Keyed, Removing, Ops, Puts, PutIn, At, AtKey, Add, Find, Drop
<1>3. CASE p = <<Add(id, Level[id])>>
  BY <1>0, <1>3, OneStep
     DEF PlanFacts, StepsOf, ShapeOf, PartsOf, PositionPlans, Keyed, Removing, Ops, Puts, PutIn, At, AtKey, Add, Find, Drop
<1>4. CASE p = <<At("RemoveRow", id)>>
  BY <1>0, <1>4, OneStep
     DEF PlanFacts, StepsOf, ShapeOf, PartsOf, PositionPlans, Keyed, Removing, Ops, Puts, PutIn, At, AtKey, Add, Find, Drop
<1>5. CASE p = <<Find(id, Owner[id]), Drop(id, Owner[id]), Find(id, Level[id]), Drop(id, Level[id])>>
  <2> DEFINE a == Find(id, Owner[id])
             b == Drop(id, Owner[id])
             c == Find(id, Level[id])
             d == Drop(id, Level[id])
             q == <<b, c, d>>
  <2>1. p # <<>> /\ Head(p) = a /\ ToSet(p) = {a, b, c, d} /\ Tail(p) = q
    BY <1>5, FourSteps
  <2>2. q # <<>> /\ Head(q) = b /\ ToSet(q) = {b, c, d}
    BY ThreeSteps
  <2>3. /\ a.step = "RemoveFromIndex" /\ a.id = id /\ a.key = Owner[id] /\ a = AtKey("RemoveFromIndex", id, Owner[id])
        /\ b.step = "RemoveKey" /\ b.id = id /\ b.key = Owner[id] /\ b = AtKey("RemoveKey", id, Owner[id])
        /\ c.step = "RemoveFromIndex" /\ c.id = id /\ c.key = Level[id] /\ c = AtKey("RemoveFromIndex", id, Level[id])
        /\ d.step = "RemoveKey" /\ d.id = id /\ d.key = Level[id] /\ d = AtKey("RemoveKey", id, Level[id])
    BY DEF At, AtKey, Add, Find, Drop
  <2>4. q \in Plans(id)
    BY <1>0 DEF PositionPlans
  <2> HIDE DEF a, b, c, d, q
  <2>5. StepsOf(p, id)
    BY <1>0, <2>1, <2>3 DEF StepsOf, Keyed
  <2>6. ShapeOf(p, id)
    BY <1>0, <2>1, <2>2, <2>3, <2>4 DEF ShapeOf, Drop
  <2>7. PartsOf(p, id)
    BY <2>1, <2>2, <2>3, PlainSteps DEF PartsOf, PutIn, Removing, Ops, Puts
  <2> QED
    BY <2>5, <2>6, <2>7 DEF PlanFacts
<1>6. CASE p = <<Drop(id, Owner[id]), Find(id, Level[id]), Drop(id, Level[id])>>
  <2> DEFINE a == Drop(id, Owner[id])
             b == Find(id, Level[id])
             c == Drop(id, Level[id])
             q == <<b, c>>
  <2>1. p # <<>> /\ Head(p) = a /\ ToSet(p) = {a, b, c} /\ Tail(p) = q
    BY <1>6, ThreeSteps
  <2>2. q # <<>> /\ Head(q) = b /\ ToSet(q) = {b, c}
    BY TwoSteps
  <2>3. /\ a.step = "RemoveKey" /\ a.id = id /\ a.key = Owner[id] /\ a = AtKey("RemoveKey", id, Owner[id])
        /\ b.step = "RemoveFromIndex" /\ b.id = id /\ b.key = Level[id] /\ b = AtKey("RemoveFromIndex", id, Level[id])
        /\ c.step = "RemoveKey" /\ c.id = id /\ c.key = Level[id] /\ c = AtKey("RemoveKey", id, Level[id])
    BY DEF At, AtKey, Add, Find, Drop
  <2>4. q \in Plans(id)
    BY <1>0 DEF PositionPlans
  <2> HIDE DEF a, b, c, q
  <2>5. StepsOf(p, id)
    BY <1>0, <2>1, <2>3 DEF StepsOf, Keyed
  <2>6. ShapeOf(p, id)
    BY <1>0, <2>1, <2>2, <2>3, <2>4 DEF ShapeOf, Drop
  <2>7. PartsOf(p, id)
    BY <2>1, <2>2, <2>3, PlainSteps DEF PartsOf, PutIn, Removing, Ops, Puts
  <2> QED
    BY <2>5, <2>6, <2>7 DEF PlanFacts
<1>7. CASE p = <<Find(id, Level[id]), Drop(id, Level[id])>>
  BY <1>0, <1>7, OneStep, TwoSteps
     DEF PlanFacts, StepsOf, ShapeOf, PartsOf, PositionPlans, Keyed, Removing, Ops, Puts, PutIn, At, AtKey, Add, Find, Drop
<1>8. CASE p = <<Drop(id, Level[id])>>
  BY <1>0, <1>8, OneStep
     DEF PlanFacts, StepsOf, ShapeOf, PartsOf, PositionPlans, Keyed, Removing, Ops, Puts, PutIn, At, AtKey, Add, Find, Drop
<1>9. CASE p = <<At("EndRow", id)>>
  BY <1>0, <1>9, OneStep
     DEF PlanFacts, StepsOf, ShapeOf, PartsOf, PositionPlans, Keyed, Removing, Ops, Puts, PutIn, At, AtKey, Add, Find, Drop
<1> QED
  BY <1>1, <1>2, <1>3, <1>4, <1>5, <1>6, <1>7, <1>8, <1>9 DEF PositionPlans

\* What a call on an order can have left.
LEMMA OrderPlanFacts ==
    ASSUME table = "OrderTable", NEW id \in Id, NEW p \in OrderPlans(id)
    PROVE  PlanFacts(p, id)
<1>0. /\ Keys(id) = {Owner[id]} /\ Owner[id] # Level[id]
      /\ Plans(id) = OrderPlans(id)
  BY KeySets DEF Plans
<1>1. CASE p = <<At("Live", id), Add(id, Owner[id]), At("AddToBook", id)>>
  <2> DEFINE a == At("Live", id)
             b == Add(id, Owner[id])
             c == At("AddToBook", id)
             q == <<b, c>>
  <2>1. p # <<>> /\ Head(p) = a /\ ToSet(p) = {a, b, c} /\ Tail(p) = q
    BY <1>1, ThreeSteps
  <2>2. q # <<>> /\ Head(q) = b /\ ToSet(q) = {b, c}
    BY TwoSteps
  <2>3. /\ a.step = "Live" /\ a.id = id /\ a.key = NoKey /\ a = AtKey("Live", id, NoKey) /\ a = At("Live", id)
        /\ b.step = "AddToIndex" /\ b.id = id /\ b.key = Owner[id] /\ b = AtKey("AddToIndex", id, Owner[id])
        /\ c.step = "AddToBook" /\ c.id = id /\ c.key = NoKey /\ c = AtKey("AddToBook", id, NoKey) /\ c = At("AddToBook", id)
    BY DEF At, AtKey, Add, Find, Drop
  <2>4. q \in Plans(id)
    BY <1>0 DEF OrderPlans
  <2> HIDE DEF a, b, c, q
  <2>5. StepsOf(p, id)
    BY <1>0, <2>1, <2>3 DEF StepsOf, Keyed
  <2>6. ShapeOf(p, id)
    BY <1>0, <2>1, <2>2, <2>3, <2>4 DEF ShapeOf, Drop
  <2>7. PartsOf(p, id)
    BY <2>1, <2>2, <2>3, PlainSteps DEF PartsOf, PutIn, Removing, Ops, Puts
  <2> QED
    BY <2>5, <2>6, <2>7 DEF PlanFacts
<1>2. CASE p = <<Add(id, Owner[id]), At("AddToBook", id)>>
  BY <1>0, <1>2, OneStep, TwoSteps
     DEF PlanFacts, StepsOf, ShapeOf, PartsOf, OrderPlans, Keyed, Removing, Ops, Puts, PutIn, At, AtKey, Add, Find, Drop
<1>3. CASE p = <<At("AddToBook", id)>>
  BY <1>0, <1>3, OneStep
     DEF PlanFacts, StepsOf, ShapeOf, PartsOf, OrderPlans, Keyed, Removing, Ops, Puts, PutIn, At, AtKey, Add, Find, Drop
<1>4. CASE p = <<At("Ended", id), Add(id, Owner[id])>>
  BY <1>0, <1>4, OneStep, TwoSteps
     DEF PlanFacts, StepsOf, ShapeOf, PartsOf, OrderPlans, Keyed, Removing, Ops, Puts, PutIn, At, AtKey, Add, Find, Drop
<1>5. CASE p = <<Add(id, Owner[id])>>
  BY <1>0, <1>5, OneStep
     DEF PlanFacts, StepsOf, ShapeOf, PartsOf, OrderPlans, Keyed, Removing, Ops, Puts, PutIn, At, AtKey, Add, Find, Drop
<1>6. CASE p = <<At("RemoveRow", id)>>
  BY <1>0, <1>6, OneStep
     DEF PlanFacts, StepsOf, ShapeOf, PartsOf, OrderPlans, Keyed, Removing, Ops, Puts, PutIn, At, AtKey, Add, Find, Drop
<1>7. CASE p = <<Find(id, Owner[id]), Drop(id, Owner[id])>>
  BY <1>0, <1>7, OneStep, TwoSteps
     DEF PlanFacts, StepsOf, ShapeOf, PartsOf, OrderPlans, Keyed, Removing, Ops, Puts, PutIn, At, AtKey, Add, Find, Drop
<1>8. CASE p = <<Drop(id, Owner[id])>>
  BY <1>0, <1>8, OneStep
     DEF PlanFacts, StepsOf, ShapeOf, PartsOf, OrderPlans, Keyed, Removing, Ops, Puts, PutIn, At, AtKey, Add, Find, Drop
<1>9. CASE p = <<Find(id, Owner[id]), Drop(id, Owner[id]), At("RemoveFromBook", id)>>
  <2> DEFINE a == Find(id, Owner[id])
             b == Drop(id, Owner[id])
             c == At("RemoveFromBook", id)
             q == <<b, c>>
  <2>1. p # <<>> /\ Head(p) = a /\ ToSet(p) = {a, b, c} /\ Tail(p) = q
    BY <1>9, ThreeSteps
  <2>2. q # <<>> /\ Head(q) = b /\ ToSet(q) = {b, c}
    BY TwoSteps
  <2>3. /\ a.step = "RemoveFromIndex" /\ a.id = id /\ a.key = Owner[id] /\ a = AtKey("RemoveFromIndex", id, Owner[id])
        /\ b.step = "RemoveKey" /\ b.id = id /\ b.key = Owner[id] /\ b = AtKey("RemoveKey", id, Owner[id])
        /\ c.step = "RemoveFromBook" /\ c.id = id /\ c.key = NoKey /\ c = AtKey("RemoveFromBook", id, NoKey) /\ c = At("RemoveFromBook", id)
    BY DEF At, AtKey, Add, Find, Drop
  <2>4. q \in Plans(id)
    BY <1>0 DEF OrderPlans
  <2> HIDE DEF a, b, c, q
  <2>5. StepsOf(p, id)
    BY <1>0, <2>1, <2>3 DEF StepsOf, Keyed
  <2>6. ShapeOf(p, id)
    BY <1>0, <2>1, <2>2, <2>3, <2>4 DEF ShapeOf, Drop
  <2>7. PartsOf(p, id)
    BY <2>1, <2>2, <2>3, PlainSteps DEF PartsOf, PutIn, Removing, Ops, Puts
  <2> QED
    BY <2>5, <2>6, <2>7 DEF PlanFacts
<1>10. CASE p = <<Drop(id, Owner[id]), At("RemoveFromBook", id)>>
  BY <1>0, <1>10, OneStep, TwoSteps
     DEF PlanFacts, StepsOf, ShapeOf, PartsOf, OrderPlans, Keyed, Removing, Ops, Puts, PutIn, At, AtKey, Add, Find, Drop
<1>11. CASE p = <<At("RemoveFromBook", id)>>
  BY <1>0, <1>11, OneStep
     DEF PlanFacts, StepsOf, ShapeOf, PartsOf, OrderPlans, Keyed, Removing, Ops, Puts, PutIn, At, AtKey, Add, Find, Drop
<1>12. CASE p = <<At("EndRow", id)>>
  BY <1>0, <1>12, OneStep
     DEF PlanFacts, StepsOf, ShapeOf, PartsOf, OrderPlans, Keyed, Removing, Ops, Puts, PutIn, At, AtKey, Add, Find, Drop
<1> QED
  BY <1>1, <1>2, <1>3, <1>4, <1>5, <1>6, <1>7, <1>8, <1>9, <1>10, <1>11, <1>12 DEF OrderPlans

\* What a call on a balance can have left.
LEMMA BalancePlanFacts ==
    ASSUME table = "BalanceCache", NEW id \in Id, NEW p \in BalancePlans(id)
    PROVE  PlanFacts(p, id)
<1>0. /\ Keys(id) = {Owner[id]} /\ Owner[id] # Level[id]
      /\ Plans(id) = BalancePlans(id)
  BY KeySets DEF Plans
<1>1. CASE p = <<At("deposit", id), Add(id, Owner[id]), At("Live", id)>>
  <2> DEFINE a == At("deposit", id)
             b == Add(id, Owner[id])
             c == At("Live", id)
             q == <<b, c>>
  <2>1. p # <<>> /\ Head(p) = a /\ ToSet(p) = {a, b, c} /\ Tail(p) = q
    BY <1>1, ThreeSteps
  <2>2. q # <<>> /\ Head(q) = b /\ ToSet(q) = {b, c}
    BY TwoSteps
  <2>3. /\ a.step = "deposit" /\ a.id = id /\ a.key = NoKey /\ a = AtKey("deposit", id, NoKey) /\ a = At("deposit", id)
        /\ b.step = "AddToIndex" /\ b.id = id /\ b.key = Owner[id] /\ b = AtKey("AddToIndex", id, Owner[id])
        /\ c.step = "Live" /\ c.id = id /\ c.key = NoKey /\ c = AtKey("Live", id, NoKey) /\ c = At("Live", id)
    BY DEF At, AtKey, Add, Find, Drop
  <2>4. q \in Plans(id)
    BY <1>0 DEF BalancePlans
  <2> HIDE DEF a, b, c, q
  <2>5. StepsOf(p, id)
    BY <1>0, <2>1, <2>3 DEF StepsOf, Keyed
  <2>6. ShapeOf(p, id)
    BY <1>0, <2>1, <2>2, <2>3, <2>4 DEF ShapeOf, Drop
  <2>7. PartsOf(p, id)
    BY <2>1, <2>2, <2>3, PlainSteps DEF PartsOf, PutIn, Removing, Ops, Puts
  <2> QED
    BY <2>5, <2>6, <2>7 DEF PlanFacts
<1>2. CASE p = <<At("withdraw", id), Add(id, Owner[id]), At("Live", id)>>
  <2> DEFINE a == At("withdraw", id)
             b == Add(id, Owner[id])
             c == At("Live", id)
             q == <<b, c>>
  <2>1. p # <<>> /\ Head(p) = a /\ ToSet(p) = {a, b, c} /\ Tail(p) = q
    BY <1>2, ThreeSteps
  <2>2. q # <<>> /\ Head(q) = b /\ ToSet(q) = {b, c}
    BY TwoSteps
  <2>3. /\ a.step = "withdraw" /\ a.id = id /\ a.key = NoKey /\ a = AtKey("withdraw", id, NoKey) /\ a = At("withdraw", id)
        /\ b.step = "AddToIndex" /\ b.id = id /\ b.key = Owner[id] /\ b = AtKey("AddToIndex", id, Owner[id])
        /\ c.step = "Live" /\ c.id = id /\ c.key = NoKey /\ c = AtKey("Live", id, NoKey) /\ c = At("Live", id)
    BY DEF At, AtKey, Add, Find, Drop
  <2>4. q \in Plans(id)
    BY <1>0 DEF BalancePlans
  <2> HIDE DEF a, b, c, q
  <2>5. StepsOf(p, id)
    BY <1>0, <2>1, <2>3 DEF StepsOf, Keyed
  <2>6. ShapeOf(p, id)
    BY <1>0, <2>1, <2>2, <2>3, <2>4 DEF ShapeOf, Drop
  <2>7. PartsOf(p, id)
    BY <2>1, <2>2, <2>3, PlainSteps DEF PartsOf, PutIn, Removing, Ops, Puts
  <2> QED
    BY <2>5, <2>6, <2>7 DEF PlanFacts
<1>3. CASE p = <<Add(id, Owner[id]), At("Live", id)>>
  BY <1>0, <1>3, OneStep, TwoSteps
     DEF PlanFacts, StepsOf, ShapeOf, PartsOf, BalancePlans, Keyed, Removing, Ops, Puts, PutIn, At, AtKey, Add, Find, Drop
<1>4. CASE p = <<At("Live", id)>>
  BY <1>0, <1>4, OneStep
     DEF PlanFacts, StepsOf, ShapeOf, PartsOf, BalancePlans, Keyed, Removing, Ops, Puts, PutIn, At, AtKey, Add, Find, Drop
<1>5. CASE p = <<At("RemoveRow", id)>>
  BY <1>0, <1>5, OneStep
     DEF PlanFacts, StepsOf, ShapeOf, PartsOf, BalancePlans, Keyed, Removing, Ops, Puts, PutIn, At, AtKey, Add, Find, Drop
<1>6. CASE p = <<Find(id, Owner[id]), Drop(id, Owner[id])>>
  BY <1>0, <1>6, OneStep, TwoSteps
     DEF PlanFacts, StepsOf, ShapeOf, PartsOf, BalancePlans, Keyed, Removing, Ops, Puts, PutIn, At, AtKey, Add, Find, Drop
<1>7. CASE p = <<Drop(id, Owner[id])>>
  BY <1>0, <1>7, OneStep
     DEF PlanFacts, StepsOf, ShapeOf, PartsOf, BalancePlans, Keyed, Removing, Ops, Puts, PutIn, At, AtKey, Add, Find, Drop
<1>8. CASE p = <<At("EndRow", id)>>
  BY <1>0, <1>8, OneStep
     DEF PlanFacts, StepsOf, ShapeOf, PartsOf, BalancePlans, Keyed, Removing, Ops, Puts, PutIn, At, AtKey, Add, Find, Drop
<1> QED
  BY <1>1, <1>2, <1>3, <1>4, <1>5, <1>6, <1>7, <1>8 DEF BalancePlans

\* Every plan, whatever the table, has the facts the proofs use.
LEMMA PlansAreGood ==
    ASSUME Types, NEW id \in Id, NEW p \in Plans(id)
    PROVE  PlanFacts(p, id)
BY PositionPlanFacts, OrderPlanFacts, BalancePlanFacts DEF Types, Plans

-----------------------------------------------------------------------------
(* The plans that calls begin with, and that follow once a row is out.     *)

\* Short sequences put together.
LEMMA OneAndOne ==
    ASSUME NEW a, NEW b
    PROVE  <<a>> \o <<b>> = <<a, b>>
<1> DEFINE S == {a, b}
           s == <<a>>
           r == <<b>>
           q == s \o r
<1>1. s \in Seq(S) /\ r \in Seq(S) /\ Len(s) = 1 /\ Len(r) = 1
  OBVIOUS
<1>2. s[1] = a /\ r[1] = b
  OBVIOUS
<1> HIDE DEF S, s, r
<1>3. q \in Seq(S) /\ Len(q) = Len(s) + Len(r)
      /\ \A i \in 1..Len(s) + Len(r) : q[i] = IF i <= Len(s) THEN s[i] ELSE r[i - Len(s)]
  BY <1>1, ConcatProperties
<1> HIDE DEF q
<1>4. Len(q) = 2 /\ q[1] = a /\ q[2] = b
  BY <1>1, <1>2, <1>3
<1>5. q \in Seq(S) /\ Len(q) = 2
  BY <1>3, <1>4
<1>6. q = <<q[1], q[2]>>
  BY <1>5
<1> QED
  BY <1>4, <1>6 DEF q, s, r

\* One step, then two.
LEMMA OneAndTwo ==
    ASSUME NEW a, NEW b, NEW c
    PROVE  <<a>> \o <<b, c>> = <<a, b, c>>
<1> DEFINE S == {a, b, c}
           s == <<a>>
           r == <<b, c>>
           q == s \o r
<1>1. s \in Seq(S) /\ r \in Seq(S) /\ Len(s) = 1 /\ Len(r) = 2
  OBVIOUS
<1>2. s[1] = a /\ r[1] = b /\ r[2] = c
  OBVIOUS
<1> HIDE DEF S, s, r
<1>3. q \in Seq(S) /\ Len(q) = Len(s) + Len(r)
      /\ \A i \in 1..Len(s) + Len(r) : q[i] = IF i <= Len(s) THEN s[i] ELSE r[i - Len(s)]
  BY <1>1, ConcatProperties
<1> HIDE DEF q
<1>4. Len(q) = 3 /\ q[1] = a /\ q[2] = b /\ q[3] = c
  BY <1>1, <1>2, <1>3
<1>5. q \in Seq(S) /\ Len(q) = 3
  BY <1>3, <1>4
<1>6. q = <<q[1], q[2], q[3]>>
  BY <1>5
<1> QED
  BY <1>4, <1>6 DEF q, s, r

\* Two steps, then one.
LEMMA TwoAndOne ==
    ASSUME NEW a, NEW b, NEW c
    PROVE  <<a, b>> \o <<c>> = <<a, b, c>>
<1> DEFINE S == {a, b, c}
           s == <<a, b>>
           r == <<c>>
           q == s \o r
<1>1. s \in Seq(S) /\ r \in Seq(S) /\ Len(s) = 2 /\ Len(r) = 1
  OBVIOUS
<1>2. s[1] = a /\ s[2] = b /\ r[1] = c
  OBVIOUS
<1> HIDE DEF S, s, r
<1>3. q \in Seq(S) /\ Len(q) = Len(s) + Len(r)
      /\ \A i \in 1..Len(s) + Len(r) : q[i] = IF i <= Len(s) THEN s[i] ELSE r[i - Len(s)]
  BY <1>1, ConcatProperties
<1> HIDE DEF q
<1>4. Len(q) = 3 /\ q[1] = a /\ q[2] = b /\ q[3] = c
  BY <1>1, <1>2, <1>3
<1>5. q \in Seq(S) /\ Len(q) = 3
  BY <1>3, <1>4
<1>6. q = <<q[1], q[2], q[3]>>
  BY <1>5
<1> QED
  BY <1>4, <1>6 DEF q, s, r

\* Two steps, then two.
LEMMA TwoAndTwo ==
    ASSUME NEW a, NEW b, NEW c, NEW d
    PROVE  <<a, b>> \o <<c, d>> = <<a, b, c, d>>
<1> DEFINE S == {a, b, c, d}
           s == <<a, b>>
           r == <<c, d>>
           q == s \o r
<1>1. s \in Seq(S) /\ r \in Seq(S) /\ Len(s) = 2 /\ Len(r) = 2
  OBVIOUS
<1>2. s[1] = a /\ s[2] = b /\ r[1] = c /\ r[2] = d
  OBVIOUS
<1> HIDE DEF S, s, r
<1>3. q \in Seq(S) /\ Len(q) = Len(s) + Len(r)
      /\ \A i \in 1..Len(s) + Len(r) : q[i] = IF i <= Len(s) THEN s[i] ELSE r[i - Len(s)]
  BY <1>1, ConcatProperties
<1> HIDE DEF q
<1>4. Len(q) = 4 /\ q[1] = a /\ q[2] = b /\ q[3] = c /\ q[4] = d
  BY <1>1, <1>2, <1>3
<1>5. q \in Seq(S) /\ Len(q) = 4
  BY <1>3, <1>4
<1>6. q = <<q[1], q[2], q[3], q[4]>>
  BY <1>5
<1> QED
  BY <1>4, <1>6 DEF q, s, r

\* Steps followed by none.
LEMMA AndNothing ==
    ASSUME NEW a, NEW b, NEW c, NEW d
    PROVE  <<a, b>> \o <<>> = <<a, b>> /\ <<a, b, c, d>> \o <<>> = <<a, b, c, d>>
OBVIOUS

\* The index part of insert(), written out.
LEMMA InsertKeysIs ==
    ASSUME NEW id \in Id
    PROVE  InsertKeys(id) = IF table = "PositionTable" THEN <<Add(id, Owner[id]), Add(id, Level[id])>>
                            ELSE <<Add(id, Owner[id])>>
BY DEF InsertKeys, KeysOf, Add

\* insert(): the row, its keys and perhaps the book.
LEMMA InsertPlan ==
    ASSUME Types, NEW id \in Id, NEW status \in Status
    PROVE  /\ InsertSteps(id, status) \in Plans(id)
           /\ InsertSteps(id, status) =
                CASE table = "PositionTable" -> <<At("Live", id), Add(id, Owner[id]), Add(id, Level[id])>>
                  [] table = "OrderTable" /\ status = "Live" -> <<At("Live", id), Add(id, Owner[id]), At("AddToBook", id)>>
                  [] table = "OrderTable" /\ status = "Ended" -> <<At("Ended", id), Add(id, Owner[id])>>
                  [] table = "BalanceCache" -> <<Add(id, Owner[id]), At("Live", id)>>
<1>1. CASE table = "PositionTable"
  <2>1. status = "Live" /\ InsertSteps(id, status) = <<At("Live", id)>> \o InsertKeys(id)
    BY <1>1 DEF InsertSteps, Status
  <2>2. InsertSteps(id, status) = <<At("Live", id), Add(id, Owner[id]), Add(id, Level[id])>>
    BY <1>1, <2>1, InsertKeysIs, OneAndTwo
  <2> QED
    BY <1>1, <2>2 DEF Plans, PositionPlans
<1>2. CASE table = "OrderTable" /\ status = "Live"
  <2>1. InsertSteps(id, status) = <<At("Live", id)>> \o InsertKeys(id) \o <<At("AddToBook", id)>>
    BY <1>2 DEF InsertSteps
  <2>2. InsertSteps(id, status) = <<At("Live", id), Add(id, Owner[id]), At("AddToBook", id)>>
    <3>1. <<At("Live", id)>> \o InsertKeys(id) = <<At("Live", id), Add(id, Owner[id])>>
      BY <1>2, InsertKeysIs, OneAndOne
    <3> QED
      BY <2>1, <3>1, TwoAndOne
  <2> QED
    BY <1>2, <2>2 DEF Plans, OrderPlans
<1>3. CASE table = "OrderTable" /\ status = "Ended"
  <2>1. InsertSteps(id, status) = <<At("Ended", id)>> \o InsertKeys(id) \o <<>>
    BY <1>3 DEF InsertSteps
  <2>2. InsertSteps(id, status) = <<At("Ended", id), Add(id, Owner[id])>>
    BY <1>3, <2>1, InsertKeysIs, OneAndOne, AndNothing
  <2> QED
    BY <1>3, <2>2 DEF Plans, OrderPlans
<1>4. CASE table = "BalanceCache"
  <2>1. status = "Live" /\ InsertSteps(id, status) = InsertKeys(id) \o <<At("Live", id)>>
    BY <1>4 DEF InsertSteps, Status
  <2>2. InsertSteps(id, status) = <<Add(id, Owner[id]), At("Live", id)>>
    BY <1>4, <2>1, InsertKeysIs, OneAndOne
  <2> QED
    BY <1>4, <2>2 DEF Plans, BalancePlans
<1> QED
  BY <1>1, <1>2, <1>3, <1>4 DEF Types, Status

\* Such a plan puts the row in and adds it under all its keys, and takes
\* nothing away.
Fills(p, id) ==
    /\ PutIn(id, ToSet(p)) /\ \A k \in Keys(id) : Add(id, k) \in ToSet(p)
    /\ \A s \in ToSet(p) : s.step \notin Removing \cup {"RemoveFromBook", "EndRow"}
    /\ Head(p).step # "RemoveKey"

\* What insert() begins with fills in the row and all its keys.
LEMMA InsertFills ==
    ASSUME Types, NEW id \in Id, NEW status \in Status
    PROVE  Fills(InsertSteps(id, status), id) /\ Head(InsertSteps(id, status)).step \notin Ops
<1> DEFINE p == InsertSteps(id, status)
<1>0. /\ Keys(id) = IF table = "PositionTable" THEN {Owner[id], Level[id]} ELSE {Owner[id]}
      /\ \A k : Add(id, k).step = "AddToIndex"
  BY KeySets DEF Add, AtKey
<1>1. CASE table = "PositionTable"
  <2> DEFINE a == At("Live", id)
             b == Add(id, Owner[id])
             c == Add(id, Level[id])
  <2>1. p = <<a, b, c>>
    BY <1>1, InsertPlan
  <2> HIDE DEF p, a, b, c
  <2>2. Head(p) = a /\ ToSet(p) = {a, b, c}
    BY <2>1, ThreeSteps
  <2> QED
    BY <1>0, <1>1, <2>2, PlainSteps DEF p, a, b, c, Fills, PutIn, Removing, Ops
<1>2. CASE table = "OrderTable" /\ status = "Live"
  <2> DEFINE a == At("Live", id)
             b == Add(id, Owner[id])
             c == At("AddToBook", id)
  <2>1. p = <<a, b, c>>
    BY <1>2, InsertPlan
  <2> HIDE DEF p, a, b, c
  <2>2. Head(p) = a /\ ToSet(p) = {a, b, c}
    BY <2>1, ThreeSteps
  <2> QED
    BY <1>0, <1>2, <2>2, PlainSteps DEF p, a, b, c, Fills, PutIn, Removing, Ops
<1>3. CASE table = "OrderTable" /\ status = "Ended"
  <2> DEFINE a == At("Ended", id)
             b == Add(id, Owner[id])
  <2>1. p = <<a, b>>
    BY <1>3, InsertPlan
  <2> HIDE DEF p, a, b
  <2>2. Head(p) = a /\ ToSet(p) = {a, b}
    BY <2>1, TwoSteps
  <2> QED
    BY <1>0, <1>3, <2>2, PlainSteps DEF p, a, b, Fills, PutIn, Removing, Ops
<1>4. CASE table = "BalanceCache"
  <2> DEFINE a == Add(id, Owner[id])
             b == At("Live", id)
  <2>1. p = <<a, b>>
    BY <1>4, InsertPlan
  <2> HIDE DEF p, a, b
  <2>2. Head(p) = a /\ ToSet(p) = {a, b}
    BY <2>1, TwoSteps
  <2> QED
    BY <1>0, <1>4, <2>2, PlainSteps DEF p, a, b, Fills, PutIn, Removing, Ops
<1> QED
  BY <1>1, <1>2, <1>3, <1>4 DEF Types, Status

\* A collateral event reads first.
LEMMA TransferPlan ==
    ASSUME Types, table = "BalanceCache", NEW id \in Id, NEW op \in Ops
    PROVE  /\ <<At(op, id)>> \o InsertSteps(id, "Live") \in Plans(id)
           /\ Fills(<<At(op, id)>> \o InsertSteps(id, "Live"), id)
           /\ Head(<<At(op, id)>> \o InsertSteps(id, "Live")) = At(op, id)
<1> DEFINE a == At(op, id)
           b == Add(id, Owner[id])
           c == At("Live", id)
           p == <<a>> \o InsertSteps(id, "Live")
<1>1. InsertSteps(id, "Live") = <<b, c>>
  BY InsertPlan DEF Status
<1>2. p = <<a, b, c>>
  BY <1>1, OneAndTwo
<1> HIDE DEF a, b, c, p
<1>3. Head(p) = a /\ ToSet(p) = {a, b, c}
  BY <1>2, ThreeSteps
<1>4. Keys(id) = {Owner[id]} /\ b.step = "AddToIndex" /\ a.step = op /\ c.step = "Live"
  BY KeySets, PlainSteps DEF a, b, c, Add, AtKey, At
<1>5. p \in Plans(id)
  BY <1>2 DEF a, b, c, Plans, BalancePlans, Ops
<1>6. Fills(p, id)
  BY <1>3, <1>4 DEF b, c, Fills, PutIn, Removing, Ops
<1> QED
  BY <1>3, <1>5, <1>6 DEF p, a

\* remove() and cancel() begin with one step.
LEMMA ShortPlans ==
    ASSUME Types, NEW id \in Id
    PROVE  <<At("RemoveRow", id)>> \in Plans(id) /\ <<At("EndRow", id)>> \in Plans(id)
BY DEF Types, Plans, PositionPlans, OrderPlans, BalancePlans

\* What follows once the row is out: the row is taken from all its keys, and
\* from the book when it was active.
LEMMA AfterRemovePlan ==
    ASSUME Types, NEW id \in Id, NEW status
    PROVE  LET p == AfterRemove(id, status) IN
           /\ p \in Plans(id)
           /\ \A k \in Keys(id) : Find(id, k) \in ToSet(p)
           /\ Head(p).step = "RemoveFromIndex"
           /\ \A s \in ToSet(p) : s.step \in {"RemoveFromIndex", "RemoveKey", "RemoveFromBook"}
           /\ table = "OrderTable" => (At("RemoveFromBook", id) \in ToSet(p) <=> status = "Live")
<1> DEFINE p == AfterRemove(id, status)
           a == Find(id, Owner[id])
           b == Drop(id, Owner[id])
<1>0. /\ Keys(id) = IF table = "PositionTable" THEN {Owner[id], Level[id]} ELSE {Owner[id]}
      /\ \A k : Find(id, k).step = "RemoveFromIndex" /\ Drop(id, k).step = "RemoveKey"
      /\ At("RemoveFromBook", id).step = "RemoveFromBook"
  BY KeySets, PlainSteps DEF Find, Drop, AtKey
<1>1. CASE table = "PositionTable"
  <2> DEFINE c == Find(id, Level[id])
             d == Drop(id, Level[id])
  <2>1. p = (<<a, b>> \o <<c, d>>) \o <<>>
    BY <1>1 DEF AfterRemove, IndexSteps, KeySteps, Find, Drop
  <2>2. p = <<a, b, c, d>>
    BY <2>1, TwoAndTwo, AndNothing
  <2> HIDE DEF p, a, b, c, d
  <2>3. Head(p) = a /\ ToSet(p) = {a, b, c, d}
    <3>1. Head(<<a, b, c, d>>) = a /\ ToSet(<<a, b, c, d>>) = {a, b, c, d}
      BY DEF ToSet
    <3> QED
      BY <2>2, <3>1
  <2>4. p \in Plans(id)
    BY <1>1, <2>2 DEF a, b, c, d, Plans, PositionPlans
  <2> QED
    BY <1>0, <1>1, <2>3, <2>4 DEF p, a, b, c, d
<1>2. CASE table = "OrderTable" /\ status = "Live"
  <2> DEFINE c == At("RemoveFromBook", id)
  <2>1. p = (<<a, b>> \o <<>>) \o <<c>>
    BY <1>2 DEF AfterRemove, IndexSteps, KeySteps, Find, Drop
  <2>2. p = <<a, b, c>>
    BY <2>1, TwoAndOne, AndNothing
  <2> HIDE DEF p, a, b, c
  <2>3. Head(p) = a /\ ToSet(p) = {a, b, c}
    BY <2>2, ThreeSteps
  <2>4. p \in Plans(id)
    BY <1>2, <2>2 DEF a, b, c, Plans, OrderPlans
  <2> QED
    BY <1>0, <1>2, <2>3, <2>4 DEF p, a, b, c
<1>3. CASE table = "BalanceCache" \/ (table = "OrderTable" /\ status # "Live")
  <2>1. p = (<<a, b>> \o <<>>) \o <<>>
    BY <1>3 DEF AfterRemove, IndexSteps, KeySteps, Find, Drop
  <2>2. p = <<a, b>>
    BY <2>1, AndNothing
  <2> HIDE DEF p, a, b
  <2>3. Head(p) = a /\ ToSet(p) = {a, b}
    BY <2>2, TwoSteps
  <2>4. p \in Plans(id)
    BY <1>3, <2>2 DEF a, b, Plans, OrderPlans, BalancePlans
  <2> QED
    BY <1>0, <1>3, <2>3, <2>4 DEF p, a, b
<1> QED
  BY <1>1, <1>2, <1>3 DEF Types

-----------------------------------------------------------------------------
(* Threads: what a call has left, and what a step leaves of it.            *)

\* The plan of a call is one for its row.
LEMMA CallFacts ==
    ASSUME Types, NEW t \in Thread, ~Idle(t)
    PROVE  Row(t) \in Id /\ pc[t] \in Plans(Row(t)) /\ PlanFacts(pc[t], Row(t))
<1>1. PICK id \in Id : pc[t] \in Plans(id)
  BY DEF Types, Idle
<1>2. PlanFacts(pc[t], id)
  BY <1>1, PlansAreGood
<1>3. Row(t) = id
  BY <1>2 DEF PlanFacts, StepsOf, ShapeOf, Row
<1> QED
  BY <1>1, <1>2, <1>3

\* What a call may remove, add and look for, it does to its row.
LEMMA LeftFacts ==
    ASSUME Types, NEW u \in Thread
    PROVE  /\ Idle(u) => Left(u) = {}
           /\ ~Idle(u) => \A s \in Left(u) :
                /\ s.id = Row(u) /\ s = AtKey(s.step, Row(u), s.key)
                /\ s.key \in (IF s.step \in Keyed THEN Keys(Row(u)) ELSE {NoKey})
           /\ Removal(u) <=> \E s \in Left(u) : s.step \in Removing
<1>1. Idle(u) => Left(u) = {}
  BY OneStep DEF Idle, Left
<1>2. ~Idle(u) => StepsOf(pc[u], Row(u))
  BY CallFacts DEF PlanFacts
<1>3. Removal(u) <=> \E s \in Left(u) : s.step \in Removing
  BY DEF Removal, Removing, Left, ToSet
<1> QED
  BY <1>1, <1>2, <1>3 DEF StepsOf, Left

\* The names, rows and keys of the steps.
LEMMA StepNames ==
    ASSUME NEW id, NEW k
    PROVE  /\ Add(id, k).step = "AddToIndex" /\ Add(id, k).id = id /\ Add(id, k).key = k
           /\ Find(id, k).step = "RemoveFromIndex" /\ Find(id, k).id = id /\ Find(id, k).key = k
           /\ Drop(id, k).step = "RemoveKey" /\ Drop(id, k).id = id /\ Drop(id, k).key = k
           /\ At("Live", id).id = id /\ At("Ended", id).id = id /\ At("RemoveRow", id).id = id
           /\ At("AddToBook", id).id = id /\ At("RemoveFromBook", id).id = id
BY DEF Add, Find, Drop, At, AtKey

\* Two index steps are the same only on the same row and key.
LEMMA SameSteps ==
    ASSUME NEW i, NEW j, NEW k, NEW l
    PROVE  /\ Add(i, k) = Add(j, l) => i = j /\ k = l
           /\ Find(i, k) = Find(j, l) => i = j /\ k = l
           /\ Drop(i, k) = Drop(j, l) => i = j /\ k = l
BY DEF Add, Find, Drop, AtKey

\* Whose steps they are: a call that has a step on a row left is on that row,
\* and touches the keys it has steps for.
LEMMA OwnSteps ==
    ASSUME Types, NEW u \in Thread, NEW id, NEW k
    PROVE  /\ Add(id, k) \in Left(u) => On(u, id) /\ Touches(u, k) /\ id \in Id /\ k \in Keys(id)
           /\ Find(id, k) \in Left(u) => On(u, id) /\ Touches(u, k) /\ Removal(u) /\ id \in Id /\ k \in Keys(id)
           /\ PutIn(id, Left(u)) => On(u, id)
           /\ At("RemoveRow", id) \in Left(u) => On(u, id) /\ Removal(u)
           /\ At("AddToBook", id) \in Left(u) => On(u, id)
           /\ At("RemoveFromBook", id) \in Left(u) => On(u, id)
           /\ Clears(u, k) => Touches(u, k) /\ Removal(u) /\ k \in Keys(Row(u))
           /\ Touches(u, k) <=> ~Idle(u) /\ k \in Keys(Row(u))
           /\ ~Idle(u) => Row(u) \in Id
<1>1. Touches(u, k) <=> ~Idle(u) /\ k \in Keys(Row(u))
  BY DEF Touches, Keys
<1>2. ~Idle(u) => Row(u) \in Id /\ Head(pc[u]) \in Left(u)
  BY CallFacts DEF PlanFacts, ShapeOf, Left
<1>3. \A s \in Left(u) : ~Idle(u) /\ s.id = Row(u) /\ s.key \in (IF s.step \in Keyed THEN Keys(Row(u)) ELSE {NoKey})
  BY LeftFacts
<1>4. Add(id, k) \in Left(u) => On(u, id) /\ Touches(u, k) /\ id \in Id /\ k \in Keys(id)
  BY <1>1, <1>2, <1>3, StepNames DEF On, Keyed
<1>5. Find(id, k) \in Left(u) => On(u, id) /\ Touches(u, k) /\ Removal(u) /\ id \in Id /\ k \in Keys(id)
  BY <1>1, <1>2, <1>3, LeftFacts, StepNames DEF On, Keyed, Removing
<1>6. PutIn(id, Left(u)) => On(u, id)
  BY <1>3, StepNames DEF On, PutIn
<1>7. At("RemoveRow", id) \in Left(u) => On(u, id) /\ Removal(u)
  BY <1>3, LeftFacts, StepNames, PlainSteps DEF On, Removing
<1>8. /\ At("AddToBook", id) \in Left(u) => On(u, id)
      /\ At("RemoveFromBook", id) \in Left(u) => On(u, id)
  BY <1>3, StepNames DEF On
<1>9. Clears(u, k) => Touches(u, k) /\ Removal(u) /\ k \in Keys(Row(u))
  BY <1>1, <1>2, <1>3, LeftFacts DEF Clears, Step, StepKey, Keyed, Removing
<1> QED
  BY <1>1, <1>2, <1>4, <1>5, <1>6, <1>7, <1>8, <1>9

\* A step of t, or the begin of a call, leaves t with the plan q on row id.
Moves(t, id, q) ==
    /\ t \in Thread /\ id \in Id
    /\ q = <<>> \/ q \in Plans(id)
    /\ pc' = [pc EXCEPT ![t] = q]
    /\ table' = table

\* A step that keeps the table keeps the keys and plans of every row.
LEMMA SameTable ==
    ASSUME table' = table, NEW id
    PROVE  Keys(id)' = Keys(id) /\ KeysOf(id)' = KeysOf(id) /\ Plans(id)' = Plans(id)
BY DEF Keys, KeysOf, Plans

\* What a move of t changes, and that it changes nothing of the other callers.
LEMMA AfterMove ==
    ASSUME Types, NEW t, NEW id, NEW q, Moves(t, id, q)
    PROVE  /\ Left(t)' = ToSet(q)
           /\ Idle(t)' <=> q = <<>>
           /\ q # <<>> => Row(t)' = id /\ Step(t)' = Head(q).step /\ StepKey(t)' = Head(q).key
           /\ Removal(t)' <=> \E s \in ToSet(q) : s.step \in Removing
           /\ \A k : Touches(t, k)' <=> q # <<>> /\ k \in Keys(id)
           /\ \A i : On(t, i)' <=> q # <<>> /\ i = id
           /\ \A u \in Thread \ {t} :
                /\ Left(u)' = Left(u) /\ (Idle(u)' <=> Idle(u)) /\ Row(u)' = Row(u)
                /\ Step(u)' = Step(u) /\ StepKey(u)' = StepKey(u)
                /\ Removal(u)' <=> Removal(u)
                /\ \A k : (Touches(u, k)' <=> Touches(u, k)) /\ (Clears(u, k)' <=> Clears(u, k))
                /\ \A i : On(u, i)' <=> On(u, i)
<1>1. pc'[t] = q /\ \A u \in Thread \ {t} : pc'[u] = pc[u]
  BY DEF Moves, Types
<1>2. \A i : KeysOf(i)' = KeysOf(i)
  BY SameTable DEF Moves
<1>3. Left(t)' = ToSet(q) /\ (Idle(t)' <=> q = <<>>)
  BY <1>1 DEF Left, Idle
<1>4. q # <<>> => Row(t)' = id /\ Step(t)' = Head(q).step /\ StepKey(t)' = Head(q).key
  <2> SUFFICES ASSUME q # <<>> PROVE Row(t)' = id /\ Step(t)' = Head(q).step /\ StepKey(t)' = Head(q).key
    OBVIOUS
  <2>1. PlanFacts(q, id)
    BY PlansAreGood DEF Moves
  <2>2. Head(q).id = id
    BY <2>1 DEF PlanFacts, StepsOf, ShapeOf
  <2> QED
    BY <1>1, <2>2 DEF Row, Step, StepKey
<1>5. Removal(t)' <=> \E s \in ToSet(q) : s.step \in Removing
  BY <1>1 DEF Removal, Removing, ToSet
<1>6. \A k : Touches(t, k)' <=> q # <<>> /\ k \in Keys(id)
  BY <1>2, <1>3, <1>4 DEF Touches, Keys
<1>7. \A i : On(t, i)' <=> q # <<>> /\ i = id
  BY <1>3, <1>4 DEF On
<1>8. ASSUME NEW u \in Thread \ {t}
      PROVE  /\ Left(u)' = Left(u) /\ (Idle(u)' <=> Idle(u)) /\ Row(u)' = Row(u)
             /\ Step(u)' = Step(u) /\ StepKey(u)' = StepKey(u)
             /\ Removal(u)' <=> Removal(u)
             /\ \A k : (Touches(u, k)' <=> Touches(u, k)) /\ (Clears(u, k)' <=> Clears(u, k))
             /\ \A i : On(u, i)' <=> On(u, i)
  BY <1>1, <1>2 DEF Left, Idle, Row, Step, StepKey, Removal, Touches, Clears, On
<1> QED
  BY <1>3, <1>4, <1>5, <1>6, <1>7, <1>8

-----------------------------------------------------------------------------
(* Types.                                                                  *)

\* A move leaves every caller with a plan.
LEMMA PcTypes ==
    ASSUME Types, NEW t, NEW id, NEW q, Moves(t, id, q)
    PROVE  (pc \in [Thread -> {<<>>} \cup UNION {Plans(i) : i \in Id}])'
<1>1. \A i : Plans(i)' = Plans(i)
  BY SameTable DEF Moves
<1>2. pc' \in [Thread -> {<<>>} \cup UNION {Plans(i) : i \in Id}]
  BY DEF Types, Moves
<1> QED
  BY <1>1, <1>2

\* A step of a writing call.
LEMMA StepTypes ==
    ASSUME Types, NEW t, NEW id, NEW q, Moves(t, id, q),
           rows' \in [Id -> {"Absent", "Live", "Ended"}],
           DOMAIN index' \subseteq Key, \A k \in DOMAIN index' : index'[k] \subseteq {i \in Id : k \in Keys(i)},
           book' \in [Id -> Nat], amount' \in [Id -> Nat], holds' \in [Thread -> Nat],
           replaced' \subseteq replaced,
           UNCHANGED <<guards, StepRest>>
    PROVE  Types'
<1>1. \A i : Keys(i)' = Keys(i)
  BY SameTable DEF Moves
<1>2. (\A k \in DOMAIN index : index[k] \subseteq {i \in Id : k \in Keys(i)})'
  BY <1>1
<1> QED
  BY <1>2, PcTypes DEF Types, StepRest, bounds

\* Going on to the next step is a move.
LEMMA ProceedMoves ==
    ASSUME Types, NEW t \in Thread, ~Idle(t), Proceed(t), table' = table
    PROVE  Moves(t, Row(t), Tail(pc[t]))
BY CallFacts DEF PlanFacts, ShapeOf, Moves, Proceed, Types

\* Another set under a key keeps the index well-formed.
LEMMA IndexTypes ==
    ASSUME Types, NEW k \in Key, NEW ids, ids \subseteq {i \in Id : k \in Keys(i)}
    PROVE  /\ DOMAIN WithSet(k, ids) \subseteq Key
           /\ \A j \in DOMAIN WithSet(k, ids) : WithSet(k, ids)[j] \subseteq {i \in Id : j \in Keys(i)}
           /\ Listed(k) \subseteq {i \in Id : k \in Keys(i)}
BY DEF Types, WithSet, Listed

\* The step at the head of a plan: its row and key.
LEMMA HeadFacts ==
    ASSUME Types, NEW t \in Thread, ~Idle(t)
    PROVE  /\ Head(pc[t]) \in Left(t) /\ Head(pc[t]) = AtKey(Step(t), Row(t), StepKey(t))
           /\ Step(t) \in Keyed => StepKey(t) \in Keys(Row(t)) /\ StepKey(t) \in Key
           /\ Step(t) \notin Keyed => Head(pc[t]) = At(Step(t), Row(t))
           /\ ToSet(Tail(pc[t])) = Left(t) \ {Head(pc[t])}
<1>1. Row(t) \in Id /\ PlanFacts(pc[t], Row(t))
  BY CallFacts
<1>2. Keys(Row(t)) \subseteq Key
  BY <1>1, KeySets
<1>3. Head(pc[t]) \in Left(t) /\ ToSet(Tail(pc[t])) = Left(t) \ {Head(pc[t])}
  BY <1>1 DEF PlanFacts, ShapeOf, Left
<1>4. /\ Head(pc[t]) = AtKey(Step(t), Row(t), StepKey(t))
      /\ StepKey(t) \in (IF Step(t) \in Keyed THEN Keys(Row(t)) ELSE {NoKey})
  BY <1>1 DEF PlanFacts, ShapeOf, StepsOf, Step, StepKey
<1> QED
  BY <1>2, <1>3, <1>4 DEF At, AtKey

\* An amount stays a natural number.
LEMMA MovedTypes ==
    ASSUME NEW n \in Nat, NEW op \in Ops
    PROVE  Moved(op, n) \in Nat
BY DEF Moved, Ops

\* Every step of a writing call preserves the types.
LEMMA ContinueTypes ==
    ASSUME Types, NEW t \in Thread, Continue(t)
    PROVE  Types'
<1>0. ~Idle(t) /\ Row(t) \in Id /\ UNCHANGED <<guards, StepRest>> /\ table' = table /\ replaced' \subseteq replaced
  BY CallFacts DEF Continue, InsertRow, AddToIndex, AddToBook, RemoveRow, RemoveFromIndex, RemoveKey, EndRow,
     RemoveFromBook, ReadBalance, StepRest
<1>1. Proceed(t) => Moves(t, Row(t), Tail(pc[t]))
  BY <1>0, ProceedMoves
<1>2. /\ rows \in [Id -> {"Absent", "Live", "Ended"}] /\ DOMAIN index \subseteq Key
      /\ \A k \in DOMAIN index : index[k] \subseteq {i \in Id : k \in Keys(i)}
      /\ book \in [Id -> Nat] /\ amount \in [Id -> Nat] /\ holds \in [Thread -> Nat]
  BY DEF Types
<1>3. CASE InsertRow(t)
  <2>1. /\ rows' \in [Id -> {"Absent", "Live", "Ended"}] /\ amount' \in [Id -> Nat] /\ holds' \in [Thread -> Nat]
        /\ Proceed(t) /\ UNCHANGED <<index, book>>
    BY <1>0, <1>2, <1>3 DEF InsertRow
  <2> QED
    BY <1>0, <1>1, <1>2, <2>1, StepTypes
<1>4. CASE AddToIndex(t)
  <2>1. StepKey(t) \in Keys(Row(t)) /\ StepKey(t) \in Key
    BY <1>0, <1>4, HeadFacts DEF AddToIndex, Keyed
  <2>2. Listed(StepKey(t)) \cup {Row(t)} \subseteq {i \in Id : StepKey(t) \in Keys(i)}
    BY <1>0, <2>1 DEF Types, Listed
  <2>3. DOMAIN index' \subseteq Key /\ \A k \in DOMAIN index' : index'[k] \subseteq {i \in Id : k \in Keys(i)}
    BY <1>4, <2>1, <2>2, IndexTypes DEF AddToIndex
  <2>4. Proceed(t) /\ UNCHANGED <<rows, book, amount, holds>>
    BY <1>4 DEF AddToIndex
  <2> QED
    BY <1>0, <1>1, <1>2, <2>3, <2>4, StepTypes
<1>5. CASE AddToBook(t)
  <2>1. Proceed(t) /\ UNCHANGED <<rows, index, amount, holds>> /\ book' \in [Id -> Nat]
    BY <1>0, <1>2, <1>5 DEF AddToBook
  <2> QED
    BY <1>0, <1>1, <1>2, <2>1, StepTypes
<1>6. CASE RemoveRow(t)
  <2> DEFINE q == IF rows[Row(t)] = "Absent" THEN <<>> ELSE AfterRemove(Row(t), rows[Row(t)])
  <2>1. /\ rows' \in [Id -> {"Absent", "Live", "Ended"}] /\ amount' \in [Id -> Nat] /\ UNCHANGED <<index, book, holds>>
        /\ pc' = [pc EXCEPT ![t] = q]
    BY <1>0, <1>2, <1>6 DEF RemoveRow
  <2>2. q = <<>> \/ q \in Plans(Row(t))
    BY <1>0, AfterRemovePlan
  <2> HIDE DEF q
  <2>3. Moves(t, Row(t), q)
    BY <1>0, <2>1, <2>2 DEF Moves
  <2> QED
    BY <1>0, <1>2, <2>1, <2>3, StepTypes
<1>7. CASE RemoveFromIndex(t)
  <2> DEFINE k == StepKey(t)
             left == Listed(k) \ {Row(t)}
             p == pc[t]
             q == IF k \in DOMAIN index /\ left = {} THEN Tail(p) ELSE Tail(Tail(p))
  <2>1. k \in Keys(Row(t)) /\ k \in Key
    BY <1>0, <1>7, HeadFacts DEF RemoveFromIndex, Keyed
  <2>2. left \subseteq {i \in Id : k \in Keys(i)}
    BY <1>0, <2>1 DEF Types, Listed
  <2>3. DOMAIN index' \subseteq Key /\ \A j \in DOMAIN index' : index'[j] \subseteq {i \in Id : j \in Keys(i)}
    BY <1>2, <1>7, <2>1, <2>2, IndexTypes DEF RemoveFromIndex
  <2>4. UNCHANGED <<rows, book, amount, holds>> /\ pc' = [pc EXCEPT ![t] = q]
    BY <1>7 DEF RemoveFromIndex, Types
  <2>5. Tail(p) \in Plans(Row(t))
    BY <1>0, <1>7, CallFacts DEF RemoveFromIndex, PlanFacts, ShapeOf, Step
  <2>6. q = <<>> \/ q \in Plans(Row(t))
    BY <1>0, <2>5, PlansAreGood DEF PlanFacts, ShapeOf
  <2> HIDE DEF q
  <2>7. Moves(t, Row(t), q)
    BY <1>0, <2>4, <2>6 DEF Moves
  <2> QED
    BY <1>0, <1>2, <2>3, <2>4, <2>7, StepTypes
<1>8. CASE RemoveKey(t)
  <2>1. Proceed(t) /\ UNCHANGED <<rows, book, amount, holds>>
    BY <1>8 DEF RemoveKey
  <2>2. DOMAIN index' \subseteq Key /\ \A j \in DOMAIN index' : index'[j] \subseteq {i \in Id : j \in Keys(i)}
    BY <1>2, <1>8 DEF RemoveKey
  <2> QED
    BY <1>0, <1>1, <1>2, <2>1, <2>2, StepTypes
<1>9. CASE EndRow(t)
  <2> DEFINE q == IF table = "OrderTable" /\ rows[Row(t)] = "Live" THEN <<At("RemoveFromBook", Row(t))>> ELSE <<>>
  <2>1. /\ rows' \in [Id -> {"Absent", "Live", "Ended"}] /\ UNCHANGED <<index, book, amount, holds>>
        /\ pc' = [pc EXCEPT ![t] = q]
    BY <1>0, <1>2, <1>9 DEF EndRow
  <2>2. q = <<>> \/ q \in Plans(Row(t))
    BY DEF Plans, OrderPlans
  <2> HIDE DEF q
  <2>3. Moves(t, Row(t), q)
    BY <1>0, <2>1, <2>2 DEF Moves
  <2> QED
    BY <1>0, <1>2, <2>1, <2>3, StepTypes
<1>10. CASE RemoveFromBook(t)
  <2>1. Proceed(t) /\ UNCHANGED <<rows, index, amount, holds>> /\ book' \in [Id -> Nat]
    BY <1>0, <1>2, <1>10 DEF RemoveFromBook
  <2> QED
    BY <1>0, <1>1, <1>2, <2>1, StepTypes
<1>11. CASE ReadBalance(t)
  <2>1. Moved(Step(t), amount[Row(t)]) \in Nat
    BY <1>0, <1>2, <1>11, MovedTypes DEF ReadBalance, Ops
  <2>2. Proceed(t) /\ UNCHANGED store /\ holds' \in [Thread -> Nat]
    BY <1>2, <1>11, <2>1 DEF ReadBalance
  <2> QED
    BY <1>0, <1>1, <1>2, <2>2, StepTypes DEF store
<1> QED
  BY <1>3, <1>4, <1>5, <1>6, <1>7, <1>8, <1>9, <1>10, <1>11 DEF Continue

\* What Begin() records as races.
LEMMA RacesFacts ==
    ASSUME Types, NEW id \in Id, NEW removes \in BOOLEAN, NEW ends \in BOOLEAN
    PROVE  /\ Races(id, removes, ends) \subseteq Key \cup Id
           /\ \A u \in Thread : \A k : (removes \/ Removal(u)) /\ Touches(u, k) /\ k \in Keys(id) => k \in Races(id, removes, ends)
           /\ \A u \in Thread : (ends \/ Ending(u)) /\ On(u, id) => id \in Races(id, removes, ends)
<1>1. \A u \in Thread : ~Idle(u) => Row(u) \in Id
  BY CallFacts
<1>2. Keys(id) \subseteq Key
  BY KeySets
<1>3. Races(id, removes, ends) \subseteq Key \cup Id
  BY <1>1, <1>2 DEF Races, Keys
<1>4. \A u \in Thread : \A k : (removes \/ Removal(u)) /\ Touches(u, k) /\ k \in Keys(id) => k \in Races(id, removes, ends)
  BY DEF Races, Keys, Touches
<1>5. \A u \in Thread : (ends \/ Ending(u)) /\ On(u, id) => id \in Races(id, removes, ends)
  BY DEF Races, On
<1> QED
  BY <1>3, <1>4, <1>5

\* The begin of a call.
LEMMA BeginMoves ==
    ASSUME Types, NEW t \in Thread, NEW id \in Id, NEW q \in Plans(id), NEW removes, NEW ends,
           Begin(t, id, q, removes, ends)
    PROVE  Moves(t, id, q) /\ Idle(t) /\ UNCHANGED <<table, rows, index, book, amount, guards, reads>>
BY DEF Begin, Moves, store

\* The begin of a call preserves the types.
LEMMA BeginTypes ==
    ASSUME Types, NEW t \in Thread, NEW id \in Id, NEW q \in Plans(id), NEW removes \in BOOLEAN, NEW ends \in BOOLEAN,
           Begin(t, id, q, removes, ends),
           reader' \in [on : BOOLEAN, key : Key \cup {NoKey}, todo : SUBSET Id, got : SUBSET Id, must : SUBSET Id],
           reader'.on = reader.on, reader'.key = reader.key,
           replaced' \subseteq Id, holds' \in [Thread -> Nat], ledger' \in [Id -> Nat]
    PROVE  Types'
<1>1. Moves(t, id, q) /\ UNCHANGED <<table, rows, index, book, amount, guards, reads>>
  BY BeginMoves
<1>2. \A i : Keys(i)' = Keys(i)
  BY <1>1, SameTable
<1>3. (\A k \in DOMAIN index : index[k] \subseteq {i \in Id : k \in Keys(i)})'
  BY <1>1, <1>2 DEF Types
<1>4. raced' \subseteq Key \cup Id
  BY RacesFacts DEF Begin, Types
<1>5. mixed' \subseteq Id
  BY DEF Begin, Types
<1>6. calls' \in 0..MaxCall
  BY TablesAssumption DEF Begin, Types
<1>7. (guards = IF reader.on THEN {reader.key} ELSE {})'
  BY <1>1 DEF Types
<1> QED
  BY <1>1, <1>3, <1>4, <1>5, <1>6, <1>7, PcTypes DEF Types

\* The ledger after a call.
LEMMA LedgerTypes ==
    ASSUME Types, NEW id \in Id, NEW n \in Nat, Book(id, n)
    PROVE  ledger' \in [Id -> Nat] /\ (table = "BalanceCache" => ledger' = [ledger EXCEPT ![id] = n])
BY DEF Types, Book

\* insert() preserves the types.
LEMMA insertTypes ==
    ASSUME Types, NEW t \in Thread, NEW id \in Id, NEW status \in Status, insert(t, id, status)
    PROVE  Types'
<1> DEFINE q == InsertSteps(id, status)
<1>1. q \in Plans(id)
  BY InsertPlan
<1>2. Begin(t, id, q, FALSE, FALSE)
  BY DEF insert
<1>3. replaced' \subseteq Id /\ holds' \in [Thread -> Nat] /\ reader' = reader
  BY DEF insert, Types
<1>4. ledger' \in [Id -> Nat]
  BY LedgerTypes DEF insert
<1> HIDE DEF q
<1> QED
  BY <1>1, <1>2, <1>3, <1>4, BeginTypes DEF Types

\* A collateral event preserves the types.
LEMMA transferTypes ==
    ASSUME Types, NEW t \in Thread, NEW id \in Id, NEW op \in Ops, transfer(t, id, op)
    PROVE  Types'
<1> DEFINE q == <<At(op, id)>> \o InsertSteps(id, "Live")
<1>1. q \in Plans(id)
  BY TransferPlan DEF transfer
<1>2. Begin(t, id, q, FALSE, FALSE)
  BY DEF transfer
<1>3. UNCHANGED <<replaced, holds, reader>>
  BY DEF transfer
<1>4. ledger' \in [Id -> Nat]
  <2>1. ledger[id] \in Nat
    BY DEF Types
  <2>2. Moved(op, ledger[id]) \in Nat
    BY <2>1, MovedTypes
  <2> QED
    BY <2>2, LedgerTypes DEF transfer
<1> HIDE DEF q
<1> QED
  BY <1>1, <1>2, <1>3, <1>4, BeginTypes DEF Types

\* remove() preserves the types.
LEMMA removeTypes ==
    ASSUME Types, NEW t \in Thread, NEW id \in Id, remove(t, id)
    PROVE  Types'
<1> DEFINE q == <<At("RemoveRow", id)>>
<1>1. q \in Plans(id)
  BY ShortPlans
<1>2. Begin(t, id, q, TRUE, TRUE)
  BY DEF remove
<1>3. UNCHANGED <<replaced, holds>> /\ reader'.on = reader.on /\ reader'.key = reader.key
      /\ reader' \in [on : BOOLEAN, key : Key \cup {NoKey}, todo : SUBSET Id, got : SUBSET Id, must : SUBSET Id]
  BY DEF remove, Types
<1>4. ledger' \in [Id -> Nat]
  BY LedgerTypes DEF remove
<1> HIDE DEF q
<1> QED
  BY <1>1, <1>2, <1>3, <1>4, BeginTypes DEF Types

\* cancel(), execute() and update() preserve the types.
LEMMA endTypes ==
    ASSUME Types, NEW t \in Thread, NEW id \in Id, end(t, id)
    PROVE  Types'
<1> DEFINE q == <<At("EndRow", id)>>
<1>1. q \in Plans(id)
  BY ShortPlans
<1>2. Begin(t, id, q, FALSE, TRUE) /\ UNCHANGED <<replaced, holds, reader, ledger>>
  BY DEF end
<1> HIDE DEF q
<1> QED
  BY <1>1, <1>2, BeginTypes DEF Types

\* A step of the reader leaves the tables alone.
LEMMA SameStores ==
    ASSUME Types, UNCHANGED <<table, store, holds, pc, raced, replaced, mixed, ledger, calls>>,
           reader' \in [on : BOOLEAN, key : Key \cup {NoKey}, todo : SUBSET Id, got : SUBSET Id, must : SUBSET Id],
           guards' = IF reader'.on THEN {reader'.key} ELSE {}, reads' \in 0..MaxRead
    PROVE  Types'
<1>1. \A i : Keys(i)' = Keys(i) /\ Plans(i)' = Plans(i)
  BY SameTable
<1>2. (\A k \in DOMAIN index : index[k] \subseteq {i \in Id : k \in Keys(i)})'
  BY <1>1 DEF Types, store
<1>3. (pc \in [Thread -> {<<>>} \cup UNION {Plans(i) : i \in Id}])'
  BY <1>1 DEF Types
<1> QED
  BY <1>2, <1>3 DEF Types, store

\* The reader's steps preserve the types.
LEMMA ReadTypes ==
    ASSUME Types, (\E k \in Key : BeginRead(k)) \/ Read
    PROVE  Types'
<1>0. /\ reader \in [on : BOOLEAN, key : Key \cup {NoKey}, todo : SUBSET Id, got : SUBSET Id, must : SUBSET Id]
      /\ guards = IF reader.on THEN {reader.key} ELSE {}
  BY DEF Types
<1>1. ASSUME NEW k \in Key, BeginRead(k) PROVE Types'
  <2>1. Listed(k) \subseteq Id
    BY DEF Types, Listed
  <2>2. /\ reader' \in [on : BOOLEAN, key : Key \cup {NoKey}, todo : SUBSET Id, got : SUBSET Id, must : SUBSET Id]
        /\ reader'.on /\ reader'.key = k
    BY <1>1, <2>1 DEF BeginRead, Members
  <2>3. guards' = {k} /\ reads' \in 0..MaxRead
    BY <1>0, <1>1, TablesAssumption DEF BeginRead, Types
  <2> QED
    BY <1>1, <2>2, <2>3, SameStores DEF BeginRead
<1>2. ASSUME NEW id \in Id, ReadRow(id) PROVE Types'
  <2>1. /\ reader' \in [on : BOOLEAN, key : Key \cup {NoKey}, todo : SUBSET Id, got : SUBSET Id, must : SUBSET Id]
        /\ reader'.on = reader.on /\ reader'.key = reader.key
    BY <1>0, <1>2 DEF ReadRow
  <2> QED
    BY <1>0, <1>2, <2>1, SameStores DEF ReadRow, bounds, Types
<1>3. ASSUME EndRead PROVE Types'
  <2>1. /\ reader' \in [on : BOOLEAN, key : Key \cup {NoKey}, todo : SUBSET Id, got : SUBSET Id, must : SUBSET Id]
        /\ ~reader'.on
    BY <1>3 DEF EndRead, NoRead
  <2>2. guards' = {}
    BY <1>0, <1>3 DEF EndRead
  <2> QED
    BY <1>3, <2>1, <2>2, SameStores DEF EndRead, bounds, Types
<1> QED
  BY <1>1, <1>2, <1>3 DEF Read

\* The tables start well-formed.
LEMMA InitTypes == Init => Types
<1> SUFFICES ASSUME Init PROVE Types
  OBVIOUS
<1>1. table \in Kinds /\ table \in {"PositionTable", "OrderTable", "BalanceCache"}
  BY TablesAssumption DEF Init
<1>2. /\ rows \in [Id -> {"Absent", "Live", "Ended"}] /\ book \in [Id -> Nat] /\ amount \in [Id -> Nat]
      /\ ledger \in [Id -> Nat] /\ holds \in [Thread -> Nat]
      /\ pc \in [Thread -> {<<>>} \cup UNION {Plans(i) : i \in Id}]
  BY DEF Init
<1>3. DOMAIN index = {}
  BY DEF Init
<1>4. reader \in [on : BOOLEAN, key : Key \cup {NoKey}, todo : SUBSET Id, got : SUBSET Id, must : SUBSET Id] /\ ~reader.on
  BY DEF Init, NoRead
<1>5. guards = {} /\ raced = {} /\ replaced = {} /\ mixed = {} /\ calls \in 0..MaxCall /\ reads \in 0..MaxRead
  BY TablesAssumption DEF Init
<1> QED
  BY <1>1, <1>2, <1>3, <1>4, <1>5 DEF Types

\* Every step preserves the types.
LEMMA NextTypes == Types /\ [Next]_vars => Types'
<1> SUFFICES ASSUME Types, [Next]_vars PROVE Types'
  OBVIOUS
<1>1. CASE UNCHANGED vars
  <2>1. UNCHANGED <<table, store, holds, pc, raced, replaced, mixed, ledger, calls, reader, guards, reads>>
    BY <1>1 DEF vars, bounds
  <2> QED
    BY <2>1, SameStores DEF Types
<1>2. CASE Next
  BY <1>2, insertTypes, transferTypes, removeTypes, endTypes, ContinueTypes, ReadTypes DEF Next, Ops
<1> QED
  BY <1>1, <1>2

-----------------------------------------------------------------------------
(* The indexes.                                                            *)

\* The rows under a key.
LEMMA MembersAre ==
    ASSUME NEW k
    PROVE  Members(k) = {i \in Id : rows[i] # "Absent" /\ k \in Keys(i)}
BY DEF Members, Keys

\* The rows under a key after a step.
LEMMA NextMembers ==
    ASSUME table' = table, NEW k
    PROVE  Members(k)' = {i \in Id : rows'[i] # "Absent" /\ k \in Keys(i)}
BY SameTable DEF Members, Keys

\* A call that goes on stays alone.
LEMMA AloneKept ==
    ASSUME Types, NEW t, NEW id, NEW q, Moves(t, id, q), ~Idle(t), Row(t) = id, NEW k, Alone(k),
           Removal(t)' => Removal(t)
    PROVE  Alone(k)'
<1>1. t \in Thread
  BY DEF Moves
<1>2. Touches(t, k)' => Touches(t, k)
  BY <1>1, AfterMove, OwnSteps
<1>3. \A u \in Thread \ {t} : (Touches(u, k)' <=> Touches(u, k)) /\ (Removal(u)' <=> Removal(u))
  BY AfterMove
<1>4. ASSUME NEW v \in Thread, NEW u \in Thread, v # u, Removal(v)', Touches(v, k)' PROVE ~Touches(u, k)'
  <2>1. Removal(v) /\ Touches(v, k)
    BY <1>1, <1>2, <1>3, <1>4
  <2>2. ~Touches(u, k)
    BY <1>4, <2>1 DEF Alone
  <2> QED
    BY <1>1, <1>2, <1>3, <2>2
<1> QED
  BY <1>4 DEF Alone

\* A step that leaves alone what IndexAt() speaks of.
LEMMA QuietStep ==
    ASSUME Types, NEW t, NEW id, NEW q, Moves(t, id, q), ~Idle(t), Row(t) = id,
           NEW k, IndexAt(k),
           \A i \in Id : rows'[i] = "Absent" <=> rows[i] = "Absent",
           Listed(k)' = Listed(k),
           k \in DOMAIN index' /\ index'[k] = {} => k \in DOMAIN index /\ index[k] = {},
           \A i : Add(i, k) \in ToSet(q) <=> Add(i, k) \in Left(t),
           \A i : Find(i, k) \in ToSet(q) <=> Find(i, k) \in Left(t),
           \A i : PutIn(i, ToSet(q)) <=> PutIn(i, Left(t)),
           Clears(t, k)' <=> Clears(t, k),
           Removal(t)' => Removal(t)
    PROVE  IndexAt(k)'
<1>1. t \in Thread /\ table' = table
  BY DEF Moves
<1>2. /\ \A u \in Thread : \A i : Add(i, k) \in Left(u)' <=> Add(i, k) \in Left(u)
      /\ \A u \in Thread : \A i : Find(i, k) \in Left(u)' <=> Find(i, k) \in Left(u)
      /\ \A u \in Thread : \A i : PutIn(i, Left(u)') <=> PutIn(i, Left(u))
      /\ \A u \in Thread : Clears(u, k)' <=> Clears(u, k)
  BY <1>1, AfterMove
<1>3. Members(k)' = Members(k)
  BY <1>1, MembersAre, NextMembers
<1>4. \A i : Keys(i)' = Keys(i)
  BY <1>1, SameTable
<1>5. NoneMissing(k)'
  BY <1>2, <1>3 DEF IndexAt, NoneMissing
<1>6. NoneExtra(k)'
  BY <1>2, <1>3 DEF IndexAt, NoneExtra, PutIn
<1>7. EmptyIsDropped(k)' /\ DroppedIsEmpty(k)'
  BY <1>2 DEF IndexAt, EmptyIsDropped, DroppedIsEmpty
<1>8. Alone(k)'
  BY AloneKept DEF IndexAt
<1>9. FoundIsOut(k)'
  BY <1>2 DEF IndexAt, FoundIsOut
<1>10. PutIsListed(k)'
  BY <1>2, <1>4 DEF IndexAt, PutIsListed, PutIn
<1>11. AddedIsIn(k)'
  BY <1>2 DEF IndexAt, AddedIsIn, PutIn
<1> QED
  BY <1>5, <1>6, <1>7, <1>8, <1>9, <1>10, <1>11 DEF IndexAt

\* The next step of a call.
LEMMA ProceedFacts ==
    ASSUME Types, NEW t \in Thread, ~Idle(t), Proceed(t), table' = table
    PROVE  /\ Moves(t, Row(t), Tail(pc[t]))
           /\ Left(t)' = Left(t) \ {Head(pc[t])} /\ ToSet(Tail(pc[t])) = Left(t) \ {Head(pc[t])}
           /\ Removal(t)' => Removal(t)
           /\ Step(t) # "RemoveFromIndex" => \A k : ~Clears(t, k)'
<1>1. Moves(t, Row(t), Tail(pc[t]))
  BY ProceedMoves
<1>2. Left(t)' = Left(t) \ {Head(pc[t])} /\ ToSet(Tail(pc[t])) = Left(t) \ {Head(pc[t])}
  BY <1>1, AfterMove, HeadFacts
<1>3. Removal(t)' => Removal(t)
  BY <1>1, <1>2, AfterMove, LeftFacts
<1>4. PlanFacts(pc[t], Row(t))
  BY CallFacts
<1>5. Step(t) # "RemoveFromIndex" => Tail(pc[t]) = <<>> \/ Head(Tail(pc[t])).step # "RemoveKey"
  BY <1>4 DEF PlanFacts, ShapeOf, Step
<1>6. Step(t) # "RemoveFromIndex" => \A k : ~Clears(t, k)'
  BY <1>1, <1>5, AfterMove DEF Clears
<1> QED
  BY <1>1, <1>2, <1>3, <1>6

\* Steps on the book or on a balance leave the index as it is.
LEMMA QuietIndex ==
    ASSUME Types, NEW t \in Thread, AddToBook(t) \/ RemoveFromBook(t) \/ ReadBalance(t), NEW k, IndexAt(k)
    PROVE  IndexAt(k)'
<1> DEFINE h == Head(pc[t])
<1>1. /\ ~Idle(t) /\ Proceed(t) /\ UNCHANGED <<table, rows, index>>
      /\ Step(t) \in {"AddToBook", "RemoveFromBook", "deposit", "withdraw"}
  BY DEF AddToBook, RemoveFromBook, ReadBalance, StepRest, store
<1>2. /\ Moves(t, Row(t), Tail(pc[t])) /\ ToSet(Tail(pc[t])) = Left(t) \ {h}
      /\ Removal(t)' => Removal(t)
      /\ ~Clears(t, k)' /\ ~Clears(t, k)
  BY <1>1, ProceedFacts DEF Clears
<1>3. h.step \in {"AddToBook", "RemoveFromBook", "deposit", "withdraw"}
  BY <1>1 DEF Step
<1> HIDE DEF h
<1>4. \A i : h # Add(i, k) /\ h # Find(i, k) /\ h # At("Live", i) /\ h # At("Ended", i)
  BY <1>3, StepNames, PlainSteps
<1>5. Listed(k)' = Listed(k)
  BY <1>1 DEF Listed
<1> QED
  BY <1>1, <1>2, <1>4, <1>5, QuietStep DEF PutIn

\* Ending a row leaves the index as it is.
LEMMA EndRowIndex ==
    ASSUME Types, NEW t \in Thread, EndRow(t), NEW k, IndexAt(k)
    PROVE  IndexAt(k)'
<1> DEFINE b == At("RemoveFromBook", Row(t))
           q == IF table = "OrderTable" /\ rows[Row(t)] = "Live" THEN <<b>> ELSE <<>>
<1>1. /\ ~Idle(t) /\ Step(t) = "EndRow" /\ UNCHANGED <<table, index>> /\ Row(t) \in Id
      /\ pc' = [pc EXCEPT ![t] = q]
      /\ rows' = [rows EXCEPT ![Row(t)] = IF @ = "Absent" THEN @ ELSE "Ended"]
  BY CallFacts DEF EndRow, StepRest
<1>2. \A i \in Id : rows'[i] = "Absent" <=> rows[i] = "Absent"
  BY <1>1 DEF Types
<1>3. Moves(t, Row(t), q)
  BY <1>1 DEF Moves, Plans, OrderPlans
<1>4. ToSet(q) \subseteq {b} /\ (q # <<>> => Head(q) = b)
  BY OneStep
<1>5. Left(t) = {At("EndRow", Row(t))}
  <2>1. PlanFacts(pc[t], Row(t)) /\ Head(pc[t]) = At("EndRow", Row(t)) /\ Head(pc[t]) \in Left(t)
    BY <1>1, CallFacts, HeadFacts DEF Keyed
  <2>2. Tail(pc[t]) = <<>>
    BY <1>1, <2>1 DEF PlanFacts, ShapeOf, Step
  <2>3. {} = Left(t) \ {Head(pc[t])}
    BY <1>1, <2>2, HeadFacts, OneStep
  <2> QED
    BY <2>1, <2>3
<1> HIDE DEF q, b
<1>6. b.step = "RemoveFromBook" /\ At("EndRow", Row(t)).step = "EndRow"
  BY PlainSteps DEF b
<1>7. /\ \A i : Add(i, k) \notin ToSet(q) /\ Add(i, k) \notin Left(t)
      /\ \A i : Find(i, k) \notin ToSet(q) /\ Find(i, k) \notin Left(t)
  BY <1>4, <1>5, <1>6, StepNames
<1>8. \A i : ~PutIn(i, ToSet(q)) /\ ~PutIn(i, Left(t))
  BY <1>4, <1>5, <1>6, PlainSteps DEF PutIn
<1>9. ~Clears(t, k) /\ ~Clears(t, k)'
  BY <1>1, <1>3, <1>4, <1>6, AfterMove DEF Clears
<1>10. ~Removal(t)'
  BY <1>3, <1>4, <1>6, AfterMove DEF Removing
<1>11. Listed(k)' = Listed(k)
  BY <1>1 DEF Listed
<1> QED
  BY <1>1, <1>2, <1>3, <1>7, <1>8, <1>9, <1>10, <1>11, QuietStep

\* AddToIndex() preserves what is known of the index.
LEMMA AddToIndexIndex ==
    ASSUME Types, NEW t \in Thread, AddToIndex(t), NEW k, IndexAt(k)
    PROVE  IndexAt(k)'
<1> DEFINE id == Row(t)
           kk == StepKey(t)
           h == Head(pc[t])
<1>1. /\ ~Idle(t) /\ Proceed(t) /\ UNCHANGED <<table, rows>> /\ Step(t) = "AddToIndex" /\ id \in Id
      /\ index' = WithSet(kk, Listed(kk) \cup {id})
  BY CallFacts DEF AddToIndex, StepRest
<1>2. /\ Moves(t, id, Tail(pc[t])) /\ ToSet(Tail(pc[t])) = Left(t) \ {h}
      /\ Left(t)' = Left(t) \ {h}
      /\ Removal(t)' => Removal(t)
      /\ ~Clears(t, k)' /\ ~Clears(t, k)
  BY <1>1, ProceedFacts DEF Clears
<1>3. h = Add(id, kk) /\ kk \in Keys(id)
  BY <1>1, HeadFacts DEF Add, Keyed
<1>4. Listed(k)' = IF k = kk THEN Listed(k) \cup {id} ELSE Listed(k)
  BY <1>1 DEF Listed, WithSet
<1>5. k \in DOMAIN index' /\ index'[k] = {} => k # kk /\ k \in DOMAIN index /\ index[k] = {}
  BY <1>1 DEF WithSet
<1>6. \A u \in Thread \ {t} : Left(u)' = Left(u) /\ (Clears(u, k)' <=> Clears(u, k))
  BY <1>2, AfterMove
<1> HIDE DEF id, kk, h
<1>7. \A i : h # Find(i, k) /\ h # At("Live", i) /\ h # At("Ended", i)
  BY <1>3, StepNames, PlainSteps
<1>8. \A i : h = Add(i, k) => i = id /\ k = kk
  BY <1>3, SameSteps
<1>9. Members(k)' = Members(k) /\ \A i : Keys(i)' = Keys(i)
  BY <1>1, MembersAre, NextMembers, SameTable
<1>10. NoneMissing(k)'
  BY <1>2, <1>4, <1>6, <1>8, <1>9 DEF IndexAt, NoneMissing
<1>11. NoneExtra(k)'
  <2> SUFFICES ASSUME NEW i \in Listed(k)', i \notin Members(k)
               PROVE  \E u \in Thread : PutIn(i, Left(u)') \/ Find(i, k) \in Left(u)'
    BY <1>9 DEF NoneExtra, PutIn
  <2>1. CASE i \in Listed(k)
    <3>1. PICK u \in Thread : PutIn(i, Left(u)) \/ Find(i, k) \in Left(u)
      BY <2>1 DEF IndexAt, NoneExtra
    <3>2. PutIn(i, Left(u)') \/ Find(i, k) \in Left(u)'
      BY <1>2, <1>6, <1>7, <3>1 DEF PutIn
    <3> QED
      BY <3>2
  <2>2. CASE i \notin Listed(k)
    <3>1. i = id /\ k = kk
      BY <1>4, <2>2
    <3>2. Add(id, k) \in Left(t)
      BY <1>1, <1>3, <3>1, HeadFacts DEF h
    <3>3. rows[id] = "Absent"
      BY <1>1, <1>3, <3>1, MembersAre
    <3>4. PutIn(id, Left(t))
      BY <1>1, <3>2, <3>3 DEF IndexAt, AddedIsIn
    <3>5. PutIn(id, Left(t)')
      BY <1>2, <1>7, <3>4 DEF PutIn
    <3> QED
      BY <3>1, <3>5
  <2> QED
    BY <2>1, <2>2
<1>12. EmptyIsDropped(k)'
  BY <1>2, <1>5, <1>6 DEF IndexAt, EmptyIsDropped
<1>13. DroppedIsEmpty(k)'
  <2> SUFFICES ASSUME NEW u \in Thread, Clears(u, k)' PROVE Listed(k)' = {}
    BY DEF DroppedIsEmpty
  <2>1. u # t /\ Clears(u, k)
    BY <1>2, <1>6
  <2>2. Touches(u, k) /\ Removal(u)
    BY <2>1, OwnSteps
  <2>3. k # kk
    BY <1>1, <1>3, <2>1, <2>2, OwnSteps DEF IndexAt, Alone, id
  <2> QED
    BY <1>4, <2>1, <2>3 DEF IndexAt, DroppedIsEmpty
<1>14. Alone(k)'
  BY <1>1, <1>2, AloneKept DEF IndexAt, id
<1>15. FoundIsOut(k)'
  BY <1>1, <1>2, <1>6 DEF IndexAt, FoundIsOut
<1>16. PutIsListed(k)'
  <2> SUFFICES ASSUME NEW u \in Thread, NEW i \in Id, k \in Keys(i), PutIn(i, Left(u)'), Add(i, k) \notin Left(u)'
               PROVE  i \in Listed(k)'
    BY <1>9 DEF PutIsListed, PutIn
  <2>1. PutIn(i, Left(u))
    BY <1>2, <1>6 DEF PutIn
  <2>2. CASE Add(i, k) \in Left(u)
    BY <1>2, <1>4, <1>6, <1>8, <2>2
  <2>3. CASE Add(i, k) \notin Left(u)
    BY <1>4, <2>1, <2>3 DEF IndexAt, PutIsListed
  <2> QED
    BY <2>2, <2>3
<1>17. AddedIsIn(k)'
  <2> SUFFICES ASSUME NEW u \in Thread, NEW i \in Id, Add(i, k) \in Left(u)', ~PutIn(i, Left(u)')
               PROVE  rows[i] # "Absent"
    BY <1>1 DEF AddedIsIn, PutIn
  <2>1. Add(i, k) \in Left(u) /\ ~PutIn(i, Left(u))
    BY <1>2, <1>6, <1>7 DEF PutIn
  <2> QED
    BY <2>1 DEF IndexAt, AddedIsIn
<1> QED
  BY <1>10, <1>11, <1>12, <1>13, <1>14, <1>15, <1>16, <1>17 DEF IndexAt

\* InsertRow() preserves it: the ids under its keys are listed or still to be
\* added.
LEMMA InsertRowIndex ==
    ASSUME Types, NEW t \in Thread, InsertRow(t), NEW k, IndexAt(k)
    PROVE  IndexAt(k)'
<1> DEFINE id == Row(t)
           h == Head(pc[t])
<1>1. /\ ~Idle(t) /\ Proceed(t) /\ UNCHANGED <<table, index>> /\ Step(t) \in Puts /\ id \in Id
      /\ rows' = [rows EXCEPT ![id] = Step(t)] /\ rows \in [Id -> {"Absent", "Live", "Ended"}]
  BY CallFacts DEF InsertRow, StepRest, Puts, Types
<1>2. /\ Moves(t, id, Tail(pc[t])) /\ ToSet(Tail(pc[t])) = Left(t) \ {h}
      /\ Left(t)' = Left(t) \ {h}
      /\ Removal(t)' => Removal(t)
      /\ ~Clears(t, k)' /\ ~Clears(t, k)
  BY <1>1, ProceedFacts DEF Clears, Puts
<1>3. h = At(Step(t), id) /\ h \in Left(t) /\ h.step = Step(t)
  BY <1>1, HeadFacts DEF Keyed, Puts, Step
<1>4. PutIn(id, Left(t)) /\ ~PutIn(id, Left(t)')
  <2>1. ~PutIn(id, ToSet(Tail(pc[t])))
    BY <1>1, CallFacts DEF PlanFacts, PartsOf, Step
  <2>2. h = At("Live", id) \/ h = At("Ended", id)
    BY <1>1, <1>3 DEF Puts
  <2> QED
    BY <1>2, <1>3, <2>1, <2>2 DEF PutIn
<1>5. rows'[id] # "Absent" /\ \A i \in Id \ {id} : rows'[i] = rows[i]
  BY <1>1 DEF Puts
<1>6. \A u \in Thread \ {t} : Left(u)' = Left(u) /\ (Clears(u, k)' <=> Clears(u, k))
  BY <1>2, AfterMove
<1>7. \A i \in Id : PutIn(i, Left(t)) \/ Add(i, k) \in Left(t) \/ Find(i, k) \in Left(t) => i = id
  BY OwnSteps DEF On
<1>8. \A i \in Id : Find(i, k) \notin Left(t)
  <2>1. (\E s \in Left(t) : s.step \in Removing) => h.step \in Removing \cup {"RemoveFromBook"}
    BY <1>1, <1>3, CallFacts DEF PlanFacts, PartsOf, Left
  <2> QED
    BY <1>1, <1>3, <2>1, StepNames DEF Removing, Puts
<1> HIDE DEF id, h
<1>9. \A i : h # Add(i, k)
  BY <1>1, <1>3, StepNames DEF Puts
<1>10. Members(k)' = {i \in Id : rows'[i] # "Absent" /\ k \in Keys(i)} /\ \A i : Keys(i)' = Keys(i)
  BY <1>1, NextMembers, SameTable
<1>11. Members(k) = {i \in Id : rows[i] # "Absent" /\ k \in Keys(i)} /\ Listed(k)' = Listed(k)
  BY <1>1, MembersAre DEF Listed
<1>12. NoneMissing(k)'
  <2> SUFFICES ASSUME NEW i \in Members(k)' PROVE i \in Listed(k) \/ \E u \in Thread : Add(i, k) \in Left(u)'
    BY <1>11 DEF NoneMissing
  <2>1. CASE i = id
    <3>1. k \in Keys(id)
      BY <1>10, <2>1
    <3>2. Add(id, k) \notin Left(t) => id \in Listed(k)
      BY <1>1, <1>4, <3>1 DEF IndexAt, PutIsListed
    <3> QED
      BY <1>2, <1>9, <2>1, <3>2
  <2>2. CASE i # id
    <3>1. i \in Members(k)
      BY <1>5, <1>10, <1>11, <2>2
    <3>2. i \in Listed(k) \/ \E u \in Thread : Add(i, k) \in Left(u)
      BY <3>1 DEF IndexAt, NoneMissing
    <3> QED
      BY <1>6, <1>7, <1>11, <2>2, <3>1, <3>2
  <2> QED
    BY <2>1, <2>2
<1>13. NoneExtra(k)'
  <2> SUFFICES ASSUME NEW i \in Listed(k), i \notin Members(k)'
               PROVE  \E u \in Thread : PutIn(i, Left(u)') \/ Find(i, k) \in Left(u)'
    BY <1>11 DEF NoneExtra, PutIn
  <2>1. i \in Id /\ k \in Keys(i)
    BY DEF Types, Listed
  <2>2. i # id /\ i \notin Members(k)
    BY <1>5, <1>10, <1>11, <2>1
  <2>3. PICK u \in Thread : PutIn(i, Left(u)) \/ Find(i, k) \in Left(u)
    BY <2>2 DEF IndexAt, NoneExtra
  <2>4. u # t
    BY <1>7, <2>1, <2>2, <2>3
  <2> QED
    BY <1>6, <2>3, <2>4
<1>14. EmptyIsDropped(k)' /\ DroppedIsEmpty(k)'
  BY <1>1, <1>2, <1>6, <1>11 DEF IndexAt, EmptyIsDropped, DroppedIsEmpty
<1>15. Alone(k)'
  BY <1>1, <1>2, AloneKept DEF IndexAt, id
<1>16. FoundIsOut(k)'
  <2> SUFFICES ASSUME NEW u \in Thread, NEW i \in Id, Find(i, k) \in Left(u)' PROVE rows'[i] = "Absent"
    BY DEF FoundIsOut
  <2>1. u # t /\ Find(i, k) \in Left(u)
    BY <1>2, <1>6, <1>8
  <2>2. Touches(u, k) /\ Removal(u) /\ k \in Keys(i)
    BY <2>1, OwnSteps
  <2>3. i # id
    BY <1>1, <2>1, <2>2, OwnSteps DEF IndexAt, Alone, id
  <2> QED
    BY <1>5, <2>1, <2>3 DEF IndexAt, FoundIsOut
<1>17. PutIsListed(k)'
  <2> SUFFICES ASSUME NEW u \in Thread, NEW i \in Id, k \in Keys(i), PutIn(i, Left(u)'), Add(i, k) \notin Left(u)'
               PROVE  i \in Listed(k)
    BY <1>10, <1>11 DEF PutIsListed, PutIn
  <2>1. u # t
    <3>1. u = t => PutIn(i, Left(t))
      BY <1>2 DEF PutIn
    <3> QED
      BY <1>4, <1>7, <3>1
  <2> QED
    BY <1>6, <2>1 DEF IndexAt, PutIsListed
<1>18. AddedIsIn(k)'
  <2> SUFFICES ASSUME NEW u \in Thread, NEW i \in Id, Add(i, k) \in Left(u)', ~PutIn(i, Left(u)')
               PROVE  rows'[i] # "Absent"
    BY DEF AddedIsIn, PutIn
  <2>1. CASE u = t
    BY <1>2, <1>5, <1>7, <2>1
  <2>2. CASE u # t
    BY <1>1, <1>5, <1>6, <2>2 DEF IndexAt, AddedIsIn
  <2> QED
    BY <2>1, <2>2
<1> QED
  BY <1>12, <1>13, <1>14, <1>15, <1>16, <1>17, <1>18 DEF IndexAt

\* The one step of a removal that has not begun to look for its row.
LEMMA OnlyRemoveRow ==
    ASSUME Types, NEW t \in Thread, ~Idle(t), Step(t) = "RemoveRow"
    PROVE  Left(t) = {At("RemoveRow", Row(t))} /\ Removal(t)
<1>1. Head(pc[t]) = At("RemoveRow", Row(t)) /\ Head(pc[t]) \in Left(t)
  BY HeadFacts DEF Keyed
<1>2. Left(t) = {At("RemoveRow", Row(t))}
  BY <1>1, CallFacts DEF PlanFacts, PartsOf, Left
<1> QED
  BY <1>1, <1>2, OwnSteps

\* RemoveRow() preserves it: the row is out, and its id is still to be found.
LEMMA RemoveRowIndex ==
    ASSUME Types, NEW t \in Thread, RemoveRow(t), NEW k, IndexAt(k)
    PROVE  IndexAt(k)'
<1> DEFINE id == Row(t)
           q == IF rows[id] = "Absent" THEN <<>> ELSE AfterRemove(id, rows[id])
<1>1. /\ ~Idle(t) /\ UNCHANGED <<table, index>> /\ Step(t) = "RemoveRow" /\ id \in Id
      /\ pc' = [pc EXCEPT ![t] = q]
      /\ rows' = [rows EXCEPT ![id] = "Absent"] /\ rows \in [Id -> {"Absent", "Live", "Ended"}]
  BY CallFacts DEF RemoveRow, StepRest, Types
<1>2. Left(t) = {At("RemoveRow", id)} /\ Removal(t)
  BY <1>1, OnlyRemoveRow
<1>3. /\ q = <<>> \/ q \in Plans(id)
      /\ \A s \in ToSet(q) : s.step \in {"RemoveFromIndex", "RemoveKey", "RemoveFromBook"}
      /\ q # <<>> => Head(q).step = "RemoveFromIndex"
      /\ rows[id] # "Absent" => \A j \in Keys(id) : Find(id, j) \in ToSet(q)
      /\ rows[id] = "Absent" => ToSet(q) = {}
  BY <1>1, AfterRemovePlan, OneStep
<1> HIDE DEF q
<1>4. Moves(t, id, q)
  BY <1>1, <1>3 DEF Moves
<1>5. Left(t)' = ToSet(q) /\ ~Clears(t, k)' /\ ~Clears(t, k)
  BY <1>1, <1>3, <1>4, AfterMove DEF Clears
<1>6. \A u \in Thread \ {t} : Left(u)' = Left(u) /\ (Clears(u, k)' <=> Clears(u, k))
  BY <1>4, AfterMove
<1>7. rows'[id] = "Absent" /\ \A i \in Id \ {id} : rows'[i] = rows[i]
  BY <1>1
<1>8. \A i \in Id : /\ Add(i, k) \notin Left(t) /\ Find(i, k) \notin Left(t)
                    /\ Add(i, k) \notin Left(t)' /\ ~PutIn(i, Left(t)) /\ ~PutIn(i, Left(t)')
  BY <1>2, <1>3, <1>5, StepNames, PlainSteps DEF PutIn
<1>9. \A i \in Id : Find(i, k) \in Left(t)' => i = id
  <2>1. \A s \in ToSet(q) : s.id = id
    BY <1>1, <1>3, PlansAreGood, OneStep DEF PlanFacts, StepsOf
  <2> QED
    BY <1>5, <2>1, StepNames
<1>10. Members(k)' = {i \in Id : rows'[i] # "Absent" /\ k \in Keys(i)} /\ \A i : Keys(i)' = Keys(i)
  BY <1>1, NextMembers, SameTable
<1>11. Members(k) = {i \in Id : rows[i] # "Absent" /\ k \in Keys(i)} /\ Listed(k)' = Listed(k)
  BY <1>1, MembersAre DEF Listed
<1>12. Touches(t, k) <=> k \in Keys(id)
  BY <1>1, OwnSteps
<1> HIDE DEF id
<1>13. NoneMissing(k)'
  BY <1>6, <1>7, <1>8, <1>10, <1>11 DEF IndexAt, NoneMissing
<1>14. NoneExtra(k)'
  <2> SUFFICES ASSUME NEW i \in Listed(k), i \notin Members(k)'
               PROVE  \E u \in Thread : PutIn(i, Left(u)') \/ Find(i, k) \in Left(u)'
    BY <1>11 DEF NoneExtra, PutIn
  <2>1. i \in Id /\ k \in Keys(i)
    BY DEF Types, Listed
  <2>2. CASE i \in Members(k)
    <3>1. i = id /\ rows[id] # "Absent"
      BY <1>7, <1>10, <1>11, <2>1, <2>2
    <3> QED
      BY <1>3, <1>5, <2>1, <3>1
  <2>3. CASE i \notin Members(k)
    <3>1. PICK u \in Thread : PutIn(i, Left(u)) \/ Find(i, k) \in Left(u)
      BY <2>3 DEF IndexAt, NoneExtra
    <3> QED
      BY <1>6, <1>8, <2>1, <3>1
  <2> QED
    BY <2>2, <2>3
<1>15. EmptyIsDropped(k)' /\ DroppedIsEmpty(k)'
  BY <1>1, <1>5, <1>6, <1>11 DEF IndexAt, EmptyIsDropped, DroppedIsEmpty
<1>16. Alone(k)'
  BY <1>1, <1>2, <1>4, AloneKept DEF IndexAt, id
<1>17. FoundIsOut(k)'
  BY <1>6, <1>7, <1>9 DEF IndexAt, FoundIsOut
<1>18. PutIsListed(k)'
  <2> SUFFICES ASSUME NEW u \in Thread, NEW i \in Id, k \in Keys(i), PutIn(i, Left(u)'), Add(i, k) \notin Left(u)'
               PROVE  i \in Listed(k)
    BY <1>10, <1>11 DEF PutIsListed, PutIn
  <2> QED
    BY <1>6, <1>8 DEF IndexAt, PutIsListed
<1>19. AddedIsIn(k)'
  <2> SUFFICES ASSUME NEW u \in Thread, NEW i \in Id, Add(i, k) \in Left(u)', ~PutIn(i, Left(u)')
               PROVE  rows'[i] # "Absent"
    BY DEF AddedIsIn, PutIn
  <2>1. u # t /\ Add(i, k) \in Left(u) /\ ~PutIn(i, Left(u))
    BY <1>6, <1>8
  <2>2. Touches(u, k) /\ k \in Keys(i)
    BY <2>1, OwnSteps
  <2>3. i # id
    BY <1>2, <1>12, <2>1, <2>2 DEF IndexAt, Alone
  <2> QED
    BY <1>7, <2>1, <2>3 DEF IndexAt, AddedIsIn
<1> QED
  BY <1>13, <1>14, <1>15, <1>16, <1>17, <1>18, <1>19 DEF IndexAt

\* A call that removes from the index or drops a key has no other business
\* left than that, and the book.
LEMMA RemovalLeft ==
    ASSUME Types, NEW t \in Thread, ~Idle(t), Step(t) \in {"RemoveFromIndex", "RemoveKey"}
    PROVE  /\ Removal(t) /\ Touches(t, StepKey(t)) /\ StepKey(t) \in Keys(Row(t))
           /\ \A i, k : Add(i, k) \notin Left(t)
           /\ \A i : ~PutIn(i, Left(t)) /\ At("RemoveRow", i) \notin Left(t) /\ At("AddToBook", i) \notin Left(t)
<1>1. Head(pc[t]) \in Left(t) /\ Head(pc[t]).step = Step(t) /\ StepKey(t) \in Keys(Row(t))
  BY HeadFacts DEF Keyed, Step
<1>2. \A s \in Left(t) : s.step \in Removing \cup {"RemoveFromBook"}
  BY <1>1, CallFacts DEF PlanFacts, PartsOf, Left, Removing
<1>3. Removal(t)
  BY <1>1, LeftFacts DEF Removing
<1>4. \A i : At("RemoveRow", i) \notin Left(t)
  <2> SUFFICES ASSUME NEW i, At("RemoveRow", i) \in Left(t) PROVE FALSE
    OBVIOUS
  <2>1. i = Row(t)
    BY OwnSteps DEF On
  <2>2. Left(t) = {At("RemoveRow", i)}
    BY <2>1, CallFacts DEF PlanFacts, PartsOf, Left
  <2> QED
    BY <1>1, <2>2, PlainSteps
<1>5. \A i, k : Add(i, k) \notin Left(t)
  BY <1>2, StepNames DEF Removing
<1>6. \A i : ~PutIn(i, Left(t)) /\ At("AddToBook", i) \notin Left(t)
  BY <1>2, PlainSteps DEF PutIn, Removing
<1> QED
  BY <1>1, <1>3, <1>4, <1>5, <1>6, OwnSteps

\* The step that looks for the row under a key: where it leaves the call.
Found(t) == StepKey(t) \in DOMAIN index /\ Listed(StepKey(t)) \ {Row(t)} = {}

\* It goes on to drop the key when the set is empty, and past that step when
\* not.
LEMMA RemoveFromIndexMoves ==
    ASSUME Types, NEW t \in Thread, RemoveFromIndex(t)
    PROVE  \E q :
           /\ Moves(t, Row(t), q)
           /\ Head(pc[t]) = Find(Row(t), StepKey(t))
           /\ ToSet(q) \subseteq Left(t)
           /\ \A s \in Left(t) : s \in ToSet(q) \/ s = Find(Row(t), StepKey(t)) \/ s = Drop(Row(t), StepKey(t))
           /\ Find(Row(t), StepKey(t)) \notin ToSet(q)
           /\ \A k : Clears(t, k)' <=> k = StepKey(t) /\ Found(t)
<1> DEFINE p == pc[t]
           id == Row(t)
           k == StepKey(t)
           q == IF Found(t) THEN Tail(p) ELSE Tail(Tail(p))
<1>1. ~Idle(t) /\ Step(t) = "RemoveFromIndex" /\ table' = table /\ id \in Id
  BY CallFacts DEF RemoveFromIndex, StepRest
<1>2. pc' = [pc EXCEPT ![t] = q]
  BY DEF RemoveFromIndex, Found, Types
<1>3. Head(p) = Find(id, k) /\ Head(p) \in Left(t) /\ ToSet(Tail(p)) = Left(t) \ {Head(p)}
  BY <1>1, HeadFacts DEF Find
<1>4. Tail(p) # <<>> /\ Head(Tail(p)) = Drop(id, k) /\ Tail(p) \in Plans(id)
  BY <1>1, CallFacts DEF PlanFacts, ShapeOf, Step, StepKey
<1> HIDE DEF p
<1>5. PlanFacts(Tail(p), id)
  BY <1>1, <1>4, PlansAreGood
<1>6. /\ ToSet(Tail(Tail(p))) = ToSet(Tail(p)) \ {Drop(id, k)}
      /\ Tail(Tail(p)) = <<>> \/ Tail(Tail(p)) \in Plans(id)
      /\ Tail(Tail(p)) = <<>> \/ Head(Tail(Tail(p))).step # "RemoveKey"
  BY <1>4, <1>5, StepNames DEF PlanFacts, ShapeOf
<1>7. Moves(t, id, q)
  BY <1>1, <1>2, <1>4, <1>6 DEF Moves
<1> HIDE DEF q, id, k
<1>8. \A j : Clears(t, j)' <=> q # <<>> /\ Head(q).step = "RemoveKey" /\ Head(q).key = j
  BY <1>7, AfterMove DEF Clears
<1>9. \A j : Clears(t, j)' <=> j = k /\ Found(t)
  BY <1>4, <1>6, <1>8, StepNames DEF q
<1>10. /\ ToSet(q) \subseteq Left(t) /\ Find(id, k) \notin ToSet(q)
       /\ \A s \in Left(t) : s \in ToSet(q) \/ s = Find(id, k) \/ s = Drop(id, k)
  BY <1>3, <1>6 DEF q
<1> QED
  BY <1>3, <1>7, <1>9, <1>10 DEF p, id, k

\* RemoveFromIndex() preserves what is known of the index.
LEMMA RemoveFromIndexIndex ==
    ASSUME Types, NEW t \in Thread, RemoveFromIndex(t), NEW k, IndexAt(k)
    PROVE  IndexAt(k)'
<1> DEFINE id == Row(t)
           kk == StepKey(t)
<1>1. /\ ~Idle(t) /\ Step(t) = "RemoveFromIndex" /\ UNCHANGED <<table, rows>> /\ id \in Id
      /\ index' = IF kk \in DOMAIN index THEN WithSet(kk, Listed(kk) \ {id}) ELSE index
  BY CallFacts DEF RemoveFromIndex, StepRest
<1>2. PICK q : /\ Moves(t, id, q)
               /\ Head(pc[t]) = Find(id, kk)
               /\ ToSet(q) \subseteq Left(t)
               /\ \A s \in Left(t) : s \in ToSet(q) \/ s = Find(id, kk) \/ s = Drop(id, kk)
               /\ \A j : Clears(t, j)' <=> j = kk /\ Found(t)
  BY RemoveFromIndexMoves
<1>3. /\ Removal(t) /\ Touches(t, kk) /\ kk \in Keys(id)
      /\ \A i : Add(i, k) \notin Left(t) /\ ~PutIn(i, Left(t))
  BY <1>1, RemovalLeft
<1>4. Left(t)' = ToSet(q) /\ \A u \in Thread \ {t} : Left(u)' = Left(u) /\ (Clears(u, k)' <=> Clears(u, k))
  BY <1>2, AfterMove
<1>5. ~Clears(t, k)
  BY <1>1 DEF Clears
<1>6. Listed(k)' = IF k = kk THEN Listed(k) \ {id} ELSE Listed(k)
  BY <1>1 DEF Listed, WithSet
<1>7. Head(pc[t]) \in Left(t)
  BY <1>1, HeadFacts
<1>8. \A i : Add(i, k) \notin ToSet(q) /\ ~PutIn(i, ToSet(q))
  BY <1>2, <1>3 DEF PutIn
<1> HIDE DEF id, kk
<1>9. CASE k # kk
  <2>1. k \in DOMAIN index' /\ index'[k] = {} => k \in DOMAIN index /\ index[k] = {}
    BY <1>1, <1>9 DEF WithSet
  <2>2. \A i : Find(i, k) # Find(id, kk) /\ Find(i, k) # Drop(id, kk)
    BY <1>9, SameSteps, StepNames
  <2>3. \A i : Find(i, k) \in ToSet(q) <=> Find(i, k) \in Left(t)
    BY <1>2, <2>2
  <2>4. Clears(t, k)' <=> Clears(t, k)
    BY <1>2, <1>5, <1>9
  <2> QED
    BY <1>1, <1>2, <1>3, <1>6, <1>8, <1>9, <2>1, <2>3, <2>4, QuietStep DEF id
<1>10. CASE k = kk
  <2>1. \A u \in Thread \ {t} : ~Touches(u, k)
    BY <1>3, <1>10 DEF IndexAt, Alone
  <2>2. /\ \A u \in Thread : \A i : Add(i, k) \notin Left(u)
        /\ \A u \in Thread \ {t} : \A i : Find(i, k) \notin Left(u)
        /\ \A u \in Thread \ {t} : ~Clears(u, k)
        /\ \A u \in Thread, i \in Id : k \in Keys(i) => ~PutIn(i, Left(u))
    BY <1>3, <2>1, OwnSteps DEF On
  <2>3. Find(id, k) \in Left(t) /\ rows[id] = "Absent"
    BY <1>1, <1>2, <1>7, <1>10 DEF IndexAt, FoundIsOut
  <2>4. Members(k)' = Members(k) /\ \A i : Keys(i)' = Keys(i)
    BY <1>1, MembersAre, NextMembers, SameTable
  <2>5. Members(k) = {i \in Id : rows[i] # "Absent" /\ k \in Keys(i)}
    BY MembersAre
  <2>6. Listed(k) \subseteq {i \in Id : k \in Keys(i)}
    BY DEF Types, Listed
  <2>7. NoneMissing(k)'
    BY <1>6, <1>10, <2>2, <2>3, <2>4, <2>5 DEF IndexAt, NoneMissing
  <2>8. NoneExtra(k)'
    <3> SUFFICES ASSUME NEW i \in Listed(k), i # id PROVE i \in Members(k)
      BY <1>6, <1>10, <2>4 DEF NoneExtra
    <3>1. i \in Members(k) \/ \E u \in Thread : PutIn(i, Left(u)) \/ Find(i, k) \in Left(u)
      BY DEF IndexAt, NoneExtra
    <3>2. Find(i, k) \notin Left(t)
      BY OwnSteps DEF On, id
    <3> QED
      BY <2>2, <2>6, <3>1, <3>2
  <2>9. EmptyIsDropped(k)'
    <3> SUFFICES ASSUME k \in DOMAIN index', index'[k] = {} PROVE Clears(t, k)'
      BY DEF EmptyIsDropped
    <3>1. k \in DOMAIN index /\ Listed(k) \ {id} = {}
      BY <1>1, <1>10 DEF WithSet
    <3> QED
      BY <1>2, <1>10, <3>1 DEF Found, id, kk
  <2>10. DroppedIsEmpty(k)'
    BY <1>2, <1>4, <1>6, <1>10, <2>2 DEF DroppedIsEmpty, Found, id, kk
  <2>11. Alone(k)'
    BY <1>1, <1>2, <1>3, AloneKept DEF IndexAt, id
  <2>12. FoundIsOut(k)'
    BY <1>1, <1>2, <1>4 DEF IndexAt, FoundIsOut
  <2>13. PutIsListed(k)'
    BY <1>4, <1>8, <2>2, <2>4 DEF PutIsListed, PutIn
  <2>14. AddedIsIn(k)'
    BY <1>4, <1>8, <2>2 DEF AddedIsIn
  <2> QED
    BY <2>7, <2>8, <2>9, <2>10, <2>11, <2>12, <2>13, <2>14 DEF IndexAt
<1> QED
  BY <1>9, <1>10

\* RemoveKey() preserves it: what it drops is empty, for the removal is alone
\* there.
LEMMA RemoveKeyIndex ==
    ASSUME Types, NEW t \in Thread, RemoveKey(t), NEW k, IndexAt(k)
    PROVE  IndexAt(k)'
<1> DEFINE id == Row(t)
           kk == StepKey(t)
           h == Head(pc[t])
           q == Tail(pc[t])
<1>1. /\ ~Idle(t) /\ Proceed(t) /\ Step(t) = "RemoveKey" /\ UNCHANGED <<table, rows>>
      /\ index' = [j \in DOMAIN index \ {kk} |-> index[j]]
  BY DEF RemoveKey, StepRest
<1>2. /\ Moves(t, id, q) /\ ToSet(q) = Left(t) \ {h} /\ Left(t)' = Left(t) \ {h}
      /\ Removal(t)' => Removal(t)
      /\ ~Clears(t, k)'
  BY <1>1, ProceedFacts
<1>3. h.step = "RemoveKey"
  BY <1>1 DEF Step
<1>4. Clears(t, k) <=> k = kk
  BY <1>1 DEF Clears
<1>5. \A u \in Thread \ {t} : Left(u)' = Left(u) /\ (Clears(u, k)' <=> Clears(u, k))
  BY <1>2, AfterMove
<1> HIDE DEF id, kk, h, q
<1>6. \A i : Add(i, k) # h /\ Find(i, k) # h /\ At("Live", i) # h /\ At("Ended", i) # h
  BY <1>3, StepNames, PlainSteps
<1>7. /\ \A i : Add(i, k) \in ToSet(q) <=> Add(i, k) \in Left(t)
      /\ \A i : Find(i, k) \in ToSet(q) <=> Find(i, k) \in Left(t)
      /\ \A i : PutIn(i, ToSet(q)) <=> PutIn(i, Left(t))
  BY <1>2, <1>6 DEF PutIn
<1>8. Listed(k)' = Listed(k) /\ (k = kk => k \notin DOMAIN index' /\ Listed(k)' = {})
  <2>1. k = kk => Listed(k) = {}
    BY <1>4 DEF IndexAt, DroppedIsEmpty
  <2> QED
    BY <1>1, <2>1 DEF Listed
<1>9. CASE k # kk
  <2>1. k \in DOMAIN index' /\ index'[k] = {} => k \in DOMAIN index /\ index[k] = {}
    BY <1>1
  <2> QED
    BY <1>1, <1>2, <1>4, <1>7, <1>8, <1>9, <2>1, QuietStep DEF id
<1>10. CASE k = kk
  <2>1. Members(k)' = Members(k) /\ \A i : Keys(i)' = Keys(i)
    BY <1>1, MembersAre, NextMembers, SameTable
  <2>2. /\ \A u \in Thread : \A i : Add(i, k) \in Left(u)' <=> Add(i, k) \in Left(u)
        /\ \A u \in Thread : \A i : Find(i, k) \in Left(u)' <=> Find(i, k) \in Left(u)
        /\ \A u \in Thread : \A i : PutIn(i, Left(u)') <=> PutIn(i, Left(u))
    BY <1>2, <1>5, <1>7
  <2>3. NoneMissing(k)'
    BY <1>8, <2>1, <2>2 DEF IndexAt, NoneMissing
  <2>4. NoneExtra(k)' /\ EmptyIsDropped(k)' /\ DroppedIsEmpty(k)'
    BY <1>8, <1>10 DEF NoneExtra, EmptyIsDropped, DroppedIsEmpty
  <2>5. Alone(k)'
    BY <1>1, <1>2, AloneKept DEF IndexAt, id
  <2>6. FoundIsOut(k)'
    BY <1>1, <2>2 DEF IndexAt, FoundIsOut
  <2>7. PutIsListed(k)'
    BY <1>8, <2>1, <2>2 DEF IndexAt, PutIsListed, PutIn
  <2>8. AddedIsIn(k)'
    BY <1>1, <2>2 DEF IndexAt, AddedIsIn, PutIn
  <2> QED
    BY <2>3, <2>4, <2>5, <2>6, <2>7, <2>8 DEF IndexAt
<1> QED
  BY <1>9, <1>10

\* A call begins: it finds no other one that it would race with, and takes
\* nothing from under a key.
LEMMA BeginIndex ==
    ASSUME Types, NEW t \in Thread, NEW id \in Id, NEW q \in Plans(id), NEW removes \in BOOLEAN, NEW ends \in BOOLEAN,
           Begin(t, id, q, removes, ends), NEW k, k \notin raced', IndexAt(k),
           Head(q).step # "RemoveKey",
           \A i : Find(i, k) \notin ToSet(q),
           (\E s \in ToSet(q) : s.step \in Removing) => removes,
           \A i : PutIn(i, ToSet(q)) => i = id /\ (k \in Keys(id) => Add(id, k) \in ToSet(q)),
           \A i : Add(i, k) \in ToSet(q) => PutIn(i, ToSet(q))
    PROVE  IndexAt(k)'
<1>1. Moves(t, id, q) /\ Idle(t) /\ UNCHANGED <<table, rows, index>>
  BY BeginMoves
<1>2. k \notin Races(id, removes, ends)
  BY DEF Begin
<1>3. \A u \in Thread : (removes \/ Removal(u)) /\ Touches(u, k) => k \notin Keys(id)
  BY <1>2, RacesFacts
<1>4. /\ Left(t)' = ToSet(q) /\ (Removal(t)' => removes) /\ (Touches(t, k)' => k \in Keys(id))
      /\ ~Clears(t, k)'
  BY <1>1, AfterMove DEF Clears
<1>5. \A u \in Thread \ {t} :
        /\ Left(u)' = Left(u) /\ (Clears(u, k)' <=> Clears(u, k))
        /\ (Touches(u, k)' <=> Touches(u, k)) /\ (Removal(u)' <=> Removal(u))
  BY <1>1, AfterMove
<1>6. Left(t) = {} /\ ~Clears(t, k)
  BY <1>1, LeftFacts DEF Clears
<1>7. Members(k)' = Members(k) /\ Listed(k)' = Listed(k) /\ \A i : Keys(i)' = Keys(i)
  BY <1>1, MembersAre, NextMembers, SameTable DEF Listed
<1>8. NoneMissing(k)'
  BY <1>5, <1>6, <1>7 DEF IndexAt, NoneMissing
<1>9. NoneExtra(k)'
  <2> SUFFICES ASSUME NEW i \in Listed(k), i \notin Members(k)
               PROVE  \E u \in Thread : PutIn(i, Left(u)') \/ Find(i, k) \in Left(u)'
    BY <1>7 DEF NoneExtra, PutIn
  <2>1. PICK u \in Thread : PutIn(i, Left(u)) \/ Find(i, k) \in Left(u)
    BY DEF IndexAt, NoneExtra
  <2>2. u # t
    BY <1>6, <2>1 DEF PutIn
  <2> QED
    BY <1>5, <2>1, <2>2
<1>10. EmptyIsDropped(k)' /\ DroppedIsEmpty(k)'
  BY <1>1, <1>4, <1>5, <1>6, <1>7 DEF IndexAt, EmptyIsDropped, DroppedIsEmpty
<1>11. Alone(k)'
  <2> SUFFICES ASSUME NEW v \in Thread, NEW u \in Thread, v # u, Removal(v)', Touches(v, k)', Touches(u, k)'
               PROVE  FALSE
    BY DEF Alone
  <2>1. CASE v = t
    BY <1>3, <1>4, <1>5, <2>1
  <2>2. CASE u = t
    BY <1>3, <1>4, <1>5, <2>2
  <2>3. CASE v # t /\ u # t
    BY <1>5, <2>3 DEF IndexAt, Alone
  <2> QED
    BY <2>1, <2>2, <2>3
<1>12. FoundIsOut(k)'
  BY <1>1, <1>4, <1>5 DEF IndexAt, FoundIsOut
<1>13. PutIsListed(k)'
  <2> SUFFICES ASSUME NEW u \in Thread, NEW i \in Id, k \in Keys(i), PutIn(i, Left(u)'), Add(i, k) \notin Left(u)'
               PROVE  i \in Listed(k)
    BY <1>7 DEF PutIsListed, PutIn
  <2> QED
    BY <1>4, <1>5 DEF IndexAt, PutIsListed
<1>14. AddedIsIn(k)'
  <2> SUFFICES ASSUME NEW u \in Thread, NEW i \in Id, Add(i, k) \in Left(u)', ~PutIn(i, Left(u)')
               PROVE  rows[i] # "Absent"
    BY <1>1 DEF AddedIsIn, PutIn
  <2> QED
    BY <1>4, <1>5 DEF IndexAt, AddedIsIn
<1> QED
  BY <1>8, <1>9, <1>10, <1>11, <1>12, <1>13, <1>14 DEF IndexAt

\* insert() and the collateral events may begin at any time.
LEMMA FillsIndex ==
    ASSUME Types, NEW t \in Thread, NEW id \in Id, NEW q \in Plans(id), Begin(t, id, q, FALSE, FALSE), Fills(q, id),
           NEW k, k \notin raced', IndexAt(k)
    PROVE  IndexAt(k)'
<1>1. \A s \in ToSet(q) : s.id = id
  BY PlansAreGood DEF PlanFacts, StepsOf
<1>2. \A i : PutIn(i, ToSet(q)) => i = id
  BY <1>1, StepNames DEF PutIn
<1>3. \A i : Add(i, k) \in ToSet(q) => PutIn(i, ToSet(q))
  BY <1>1, StepNames DEF Fills
<1>4. \A i : Find(i, k) \notin ToSet(q)
  BY StepNames DEF Fills, Removing
<1> QED
  BY <1>2, <1>3, <1>4, BeginIndex DEF Fills

\* remove() and cancel() begin with nothing else under way, or there is a
\* race.
LEMMA ShortIndex ==
    ASSUME Types, NEW t \in Thread, NEW id \in Id, NEW k, k \notin raced', IndexAt(k),
           \/ Begin(t, id, <<At("RemoveRow", id)>>, TRUE, TRUE)
           \/ Begin(t, id, <<At("EndRow", id)>>, FALSE, TRUE)
    PROVE  IndexAt(k)'
<1>1. ASSUME NEW a, NEW r \in BOOLEAN, (a = At("RemoveRow", id) /\ r) \/ a = At("EndRow", id), Begin(t, id, <<a>>, r, TRUE)
      PROVE  IndexAt(k)'
  <2> DEFINE q == <<a>>
  <2>1. Head(q) = a /\ ToSet(q) = {a} /\ q \in Plans(id)
    BY <1>1, OneStep, ShortPlans
  <2>2. a.step \in {"RemoveRow", "EndRow"} /\ (a.step = "RemoveRow" => r)
    BY <1>1, PlainSteps
  <2>3. Begin(t, id, q, r, TRUE)
    BY <1>1
  <2> HIDE DEF q
  <2>4. \A i : Find(i, k) \notin ToSet(q) /\ Add(i, k) \notin ToSet(q) /\ ~PutIn(i, ToSet(q))
    BY <2>1, <2>2, StepNames, PlainSteps DEF PutIn
  <2>5. (\E s \in ToSet(q) : s.step \in Removing) => r
    BY <2>1, <2>2 DEF Removing
  <2>6. Head(q).step # "RemoveKey"
    BY <2>1, <2>2
  <2> QED
    BY <1>1, <2>1, <2>3, <2>4, <2>5, <2>6, BeginIndex
<1> QED
  BY <1>1

\* Every step preserves the index invariant.
LEMMA NextIndexed == Types /\ Indexed /\ [Next]_vars => Indexed'
<1> SUFFICES ASSUME Types, Indexed, [Next]_vars, NEW k \in Key \ raced'
             PROVE  IndexAt(k)'
  BY DEF Indexed
<1>1. CASE k \notin raced
  <2>1. IndexAt(k)
    BY <1>1 DEF Indexed
  <2>2. ASSUME NEW t \in Thread, NEW id \in Id, NEW status \in Status, insert(t, id, status) PROVE IndexAt(k)'
    <3>1. InsertSteps(id, status) \in Plans(id) /\ Fills(InsertSteps(id, status), id)
      BY InsertPlan, InsertFills
    <3> QED
      BY <2>1, <2>2, <3>1, FillsIndex DEF insert
  <2>3. ASSUME NEW t \in Thread, NEW id \in Id, NEW op \in Ops, transfer(t, id, op) PROVE IndexAt(k)'
    <3> DEFINE q == <<At(op, id)>> \o InsertSteps(id, "Live")
    <3>1. q \in Plans(id) /\ Fills(q, id) /\ Begin(t, id, q, FALSE, FALSE)
      BY <2>3, TransferPlan DEF transfer
    <3> HIDE DEF q
    <3> QED
      BY <2>1, <3>1, FillsIndex
  <2>4. ASSUME NEW t \in Thread, NEW id \in Id, remove(t, id) \/ end(t, id) PROVE IndexAt(k)'
    BY <2>1, <2>4, ShortIndex DEF remove, end
  <2>5. ASSUME NEW t \in Thread, Continue(t) PROVE IndexAt(k)'
    BY <2>1, <2>5, QuietIndex, EndRowIndex, AddToIndexIndex, InsertRowIndex, RemoveRowIndex, RemoveFromIndexIndex,
       RemoveKeyIndex DEF Continue
  <2>6. ASSUME UNCHANGED <<table, rows, index, pc>> PROVE IndexAt(k)'
    BY <2>1, <2>6 DEF IndexAt, NoneMissing, NoneExtra, EmptyIsDropped, DroppedIsEmpty, Alone, FoundIsOut, PutIsListed,
       AddedIsIn, Members, Listed, Left, Clears, Idle, Step, StepKey, Row, Removal, Touches, KeysOf, Keys
  <2>7. CASE (\E j \in Key : BeginRead(j)) \/ Read \/ UNCHANGED vars
    BY <2>6, <2>7 DEF BeginRead, Read, ReadRow, EndRead, vars, store
  <2> QED
    BY <2>2, <2>3, <2>4, <2>5, <2>7 DEF Next, Ops
<1>2. raced \subseteq raced'
  BY DEF Next, Continue, InsertRow, AddToIndex, AddToBook, RemoveRow, RemoveFromIndex, RemoveKey, EndRow, RemoveFromBook,
     ReadBalance, StepRest, BeginRead, Read, ReadRow, EndRead, vars, insert, transfer, remove, end, Begin
<1> QED
  BY <1>1, <1>2

-----------------------------------------------------------------------------
(* The order book.                                                         *)

\* Steps that are the last of their call.
LEMMA OnlyStep ==
    ASSUME Types, NEW t \in Thread, ~Idle(t), Step(t) \in {"RemoveRow", "EndRow", "AddToBook", "RemoveFromBook"}
    PROVE  Left(t) = {At(Step(t), Row(t))} /\ Tail(pc[t]) = <<>>
<1>1. Head(pc[t]) = At(Step(t), Row(t)) /\ Head(pc[t]) \in Left(t) /\ ToSet(Tail(pc[t])) = Left(t) \ {Head(pc[t])}
  BY HeadFacts DEF Keyed
<1>2. Tail(pc[t]) = <<>>
  BY CallFacts DEF PlanFacts, ShapeOf, Step
<1>3. ToSet(Tail(pc[t])) = {}
  BY <1>2, OneStep
<1> QED
  BY <1>1, <1>2, <1>3

\* A step of the one call on an order.
LEMMA StepBook ==
    ASSUME Types, NEW t, NEW id, NEW q, Moves(t, id, q), ~Idle(t), Row(t) = id,
           NEW i \in Id, BookAt(i), i # id => rows'[i] = rows[i] /\ book'[i] = book[i],
           i = id /\ BookBy(Left(t), id) => BookBy(ToSet(q), id)'
    PROVE  BookAt(i)'
<1>1. t \in Thread
  BY DEF Moves
<1>2. /\ Left(t)' = ToSet(q) /\ (On(t, i)' <=> q # <<>> /\ i = id)
      /\ \A u \in Thread \ {t} : Left(u)' = Left(u) /\ (On(u, i)' <=> On(u, i))
  BY AfterMove
<1>3. On(t, i) <=> i = id
  BY DEF On
<1>4. Single(i)'
  BY <1>1, <1>2, <1>3 DEF BookAt, Single
<1>5. CASE i = id
  <2>1. \A u \in Thread : On(u, i) => u = t
    BY <1>1, <1>3, <1>5 DEF BookAt, Single
  <2>2. BookBy(ToSet(q), id)'
    BY <1>1, <1>3, <1>5 DEF BookAt
  <2>3. \A u \in Thread : On(u, i)' => u = t /\ BookBy(ToSet(q), i)'
    BY <1>2, <1>5, <2>1, <2>2
  <2>4. \A u \in Thread : On(u, i)' => BookBy(Left(u), i)'
    BY <1>2, <2>3 DEF BookBy, PutIn
  <2>5. (\A u \in Thread : ~On(u, i)') => q = <<>>
    BY <1>1, <1>2, <1>5
  <2>6. (\A u \in Thread : ~On(u, i)') => BookBy({}, i)'
    BY <1>5, <2>2, <2>5, OneStep
  <2> QED
    BY <1>4, <2>4, <2>6 DEF BookAt
<1>6. CASE i # id
  <2>1. \A steps : BookBy(steps, i)' <=> BookBy(steps, i)
    BY <1>6 DEF BookBy
  <2>2. \A u \in Thread : On(u, i)' => u # t /\ On(u, i)
    BY <1>2, <1>6
  <2>3. \A u \in Thread : On(u, i)' => BookBy(Left(u), i)
    BY <2>2 DEF BookAt
  <2>4. ASSUME NEW u \in Thread, On(u, i)' PROVE BookBy(Left(u), i)'
    <3>1. Left(u)' = Left(u)
      BY <1>2, <2>2, <2>4
    <3> QED
      BY <1>6, <2>3, <2>4, <3>1 DEF BookBy, PutIn
  <2>5. (\A u \in Thread : ~On(u, i)') => \A u \in Thread : ~On(u, i)
    BY <1>1, <1>2, <1>3, <1>6
  <2>6. (\A u \in Thread : ~On(u, i)') => BookBy({}, i)'
    BY <2>1, <2>5 DEF BookAt
  <2> QED
    BY <1>4, <2>4, <2>6 DEF BookAt
<1> QED
  BY <1>5, <1>6

\* Every step of a writing call preserves what is known of the book.
LEMMA ContinueBook ==
    ASSUME Types, table = "OrderTable", NEW t \in Thread, Continue(t), NEW i \in Id, BookAt(i)
    PROVE  BookAt(i)'
<1>0. PICK id : id = Row(t)
  OBVIOUS
<1> DEFINE h == Head(pc[t])
<1>1. ~Idle(t) /\ id \in Id /\ table' = table
  BY <1>0, CallFacts DEF Continue, InsertRow, AddToIndex, AddToBook, RemoveRow, RemoveFromIndex, RemoveKey, EndRow,
     RemoveFromBook, ReadBalance, StepRest
<1>2. rows \in [Id -> {"Absent", "Live", "Ended"}] /\ book \in [Id -> Nat]
  BY DEF Types
<1>3. h \in Left(t) /\ h.step = Step(t) /\ (Step(t) \notin Keyed => h = At(Step(t), id))
  BY <1>0, <1>1, HeadFacts DEF Step
<1>4. PICK q : q = Tail(pc[t])
  OBVIOUS
<1>5. Proceed(t) => Moves(t, id, q) /\ ToSet(q) = Left(t) \ {h}
  BY <1>0, <1>1, <1>4, ProceedFacts
<1> HIDE DEF h
<1>6. CASE InsertRow(t)
  <2>1. /\ Step(t) \in Puts /\ Proceed(t) /\ rows' = [rows EXCEPT ![id] = Step(t)] /\ book' = book
    BY <1>0, <1>6 DEF InsertRow, Puts
  <2>2. h = At(Step(t), id)
    BY <1>3, <2>1 DEF Puts, Keyed
  <2>3. PutIn(id, Left(t)) /\ ~PutIn(id, ToSet(q)) /\ At("RemoveFromBook", id) \notin Left(t)
    <3>1. PutIn(id, Left(t))
      BY <1>3, <2>1, <2>2 DEF Puts, PutIn
    <3>2. ~PutIn(id, ToSet(q)) /\ (PutIn(id, Left(t)) => At("RemoveFromBook", id) \notin Left(t))
      BY <1>0, <1>1, <1>4, <2>1, CallFacts DEF PlanFacts, PartsOf, Left, Step
    <3> QED
      BY <3>1, <3>2
  <2>4. /\ Step(t) = "Live" => At("AddToBook", id) \in Left(t)
        /\ Step(t) = "Ended" => At("AddToBook", id) \notin Left(t)
    BY <1>0, <1>1, <2>2, CallFacts DEF PlanFacts, PartsOf, Left, h
  <2>5. At("AddToBook", id) # h
    BY <1>3, <2>1, PlainSteps DEF Puts
  <2>6. rows'[id] = Step(t) /\ book'[id] = book[id] /\ \A j \in Id \ {id} : rows'[j] = rows[j] /\ book'[j] = book[j]
    BY <1>1, <1>2, <2>1
  <2>7. BookBy(Left(t), id) => BookBy(ToSet(q), id)'
    <3>1. CASE Step(t) = "Live"
      BY <1>5, <2>1, <2>3, <2>4, <2>5, <2>6, <3>1 DEF BookBy
    <3>2. CASE Step(t) = "Ended"
      BY <1>5, <2>1, <2>3, <2>4, <2>6, <3>2 DEF BookBy
    <3> QED
      BY <2>1, <3>1, <3>2 DEF Puts
  <2> QED
    BY <1>0, <1>1, <1>5, <2>1, <2>6, <2>7, StepBook
<1>7. CASE AddToIndex(t) \/ RemoveKey(t)
  <2>1. Proceed(t) /\ UNCHANGED <<rows, book>> /\ h.step \in {"AddToIndex", "RemoveKey"}
    BY <1>3, <1>7 DEF AddToIndex, RemoveKey
  <2>2. h # At("AddToBook", id) /\ h # At("RemoveFromBook", id) /\ h # At("Live", id) /\ h # At("Ended", id)
    BY <2>1, PlainSteps
  <2>3. BookBy(Left(t), id) => BookBy(ToSet(q), id)'
    BY <1>5, <2>1, <2>2 DEF BookBy, PutIn
  <2> QED
    BY <1>0, <1>1, <1>5, <2>1, <2>3, StepBook
<1>8. CASE AddToBook(t)
  <2>1. Step(t) = "AddToBook" /\ Proceed(t) /\ rows' = rows /\ book' = [book EXCEPT ![id] = @ + 1]
    BY <1>0, <1>8 DEF AddToBook
  <2>2. Left(t) = {At("AddToBook", id)} /\ ToSet(q) = {}
    BY <1>0, <1>1, <1>4, <2>1, OnlyStep, OneStep
  <2>3. ~PutIn(id, Left(t)) /\ At("AddToBook", id) \in Left(t) /\ ~PutIn(id, {})
    BY <2>2, PlainSteps DEF PutIn
  <2>4. book'[id] = book[id] + 1 /\ \A j \in Id \ {id} : book'[j] = book[j]
    BY <1>1, <1>2, <2>1
  <2>5. BookBy(Left(t), id) => BookBy(ToSet(q), id)'
    BY <2>1, <2>2, <2>3, <2>4 DEF BookBy
  <2> QED
    BY <1>0, <1>1, <1>5, <2>1, <2>4, <2>5, StepBook
<1>9. CASE RemoveRow(t)
  <2>1. PICK r : r = IF rows[id] = "Absent" THEN <<>> ELSE AfterRemove(id, rows[id])
    OBVIOUS
  <2>2. Step(t) = "RemoveRow" /\ rows' = [rows EXCEPT ![id] = "Absent"] /\ book' = book /\ pc' = [pc EXCEPT ![t] = r]
    BY <1>0, <1>9, <2>1 DEF RemoveRow
  <2>3. /\ r = <<>> \/ r \in Plans(id)
        /\ \A s \in ToSet(r) : s.step \in {"RemoveFromIndex", "RemoveKey", "RemoveFromBook"}
        /\ At("RemoveFromBook", id) \in ToSet(r) <=> rows[id] = "Live"
    <3>1. CASE rows[id] = "Absent"
      BY <2>1, <3>1, OneStep
    <3>2. CASE rows[id] # "Absent"
      BY <1>1, <2>1, <3>2, AfterRemovePlan
    <3> QED
      BY <3>1, <3>2
  <2>4. Moves(t, id, r)
    BY <1>1, <2>2, <2>3 DEF Moves
  <2>5. Left(t) = {At("RemoveRow", id)}
    BY <1>0, <1>1, <2>2, OnlyStep
  <2>6. /\ At("AddToBook", id) \notin Left(t) /\ At("RemoveFromBook", id) \notin Left(t) /\ ~PutIn(id, Left(t))
        /\ At("AddToBook", id) \notin ToSet(r) /\ ~PutIn(id, ToSet(r))
    BY <2>3, <2>5, PlainSteps DEF PutIn
  <2>7. rows'[id] = "Absent" /\ book'[id] = book[id] /\ \A j \in Id \ {id} : rows'[j] = rows[j] /\ book'[j] = book[j]
    BY <1>1, <1>2, <2>2
  <2>8. BookBy(Left(t), id) => BookBy(ToSet(r), id)'
    BY <2>3, <2>6, <2>7 DEF BookBy
  <2> QED
    BY <1>0, <1>1, <2>4, <2>7, <2>8, StepBook
<1>10. CASE RemoveFromIndex(t)
  <2>1. PICK r : /\ Moves(t, id, r) /\ ToSet(r) \subseteq Left(t)
                 /\ \A s \in Left(t) : s \in ToSet(r) \/ s = Find(id, StepKey(t)) \/ s = Drop(id, StepKey(t))
    BY <1>0, <1>10, RemoveFromIndexMoves
  <2>2. UNCHANGED <<rows, book>>
    BY <1>10 DEF RemoveFromIndex
  <2>3. \A s \in Left(t) : s.step \notin {"RemoveFromIndex", "RemoveKey"} => s \in ToSet(r)
    BY <2>1, StepNames
  <2>4. /\ At("AddToBook", id) \in Left(t) <=> At("AddToBook", id) \in ToSet(r)
        /\ At("RemoveFromBook", id) \in Left(t) <=> At("RemoveFromBook", id) \in ToSet(r)
        /\ PutIn(id, Left(t)) <=> PutIn(id, ToSet(r))
    BY <2>1, <2>3, PlainSteps DEF PutIn
  <2>5. BookBy(Left(t), id) => BookBy(ToSet(r), id)'
    BY <2>2, <2>4 DEF BookBy
  <2> QED
    BY <1>0, <1>1, <2>1, <2>2, <2>5, StepBook
<1>11. CASE EndRow(t)
  <2>1. PICK r : r = IF rows[id] = "Live" THEN <<At("RemoveFromBook", id)>> ELSE <<>>
    OBVIOUS
  <2>2. /\ Step(t) = "EndRow" /\ rows' = [rows EXCEPT ![id] = IF @ = "Absent" THEN @ ELSE "Ended"] /\ book' = book
        /\ pc' = [pc EXCEPT ![t] = r]
    BY <1>0, <1>11, <2>1 DEF EndRow
  <2>3. Moves(t, id, r) /\ ToSet(r) = IF rows[id] = "Live" THEN {At("RemoveFromBook", id)} ELSE {}
    BY <1>1, <2>1, <2>2, OneStep DEF Moves, Plans, OrderPlans
  <2>4. Left(t) = {At("EndRow", id)}
    BY <1>0, <1>1, <2>2, OnlyStep
  <2>5. /\ At("AddToBook", id) \notin Left(t) /\ At("RemoveFromBook", id) \notin Left(t) /\ ~PutIn(id, Left(t))
        /\ At("AddToBook", id) \notin ToSet(r) /\ ~PutIn(id, ToSet(r))
    BY <2>3, <2>4, PlainSteps DEF PutIn
  <2>6. rows'[id] # "Live" /\ book'[id] = book[id] /\ \A j \in Id \ {id} : rows'[j] = rows[j] /\ book'[j] = book[j]
    BY <1>1, <1>2, <2>2
  <2>7. BookBy(Left(t), id) => BookBy(ToSet(r), id)'
    BY <2>3, <2>5, <2>6 DEF BookBy
  <2> QED
    BY <1>0, <1>1, <2>3, <2>6, <2>7, StepBook
<1>12. CASE RemoveFromBook(t)
  <2>1. Step(t) = "RemoveFromBook" /\ Proceed(t) /\ rows' = rows /\ book' = [book EXCEPT ![id] = 0]
    BY <1>0, <1>12 DEF RemoveFromBook
  <2>2. Left(t) = {At("RemoveFromBook", id)} /\ ToSet(q) = {}
    BY <1>0, <1>1, <1>4, <2>1, OnlyStep, OneStep
  <2>3. At("AddToBook", id) \notin Left(t) /\ At("RemoveFromBook", id) \in Left(t) /\ ~PutIn(id, {})
    BY <2>2, PlainSteps DEF PutIn
  <2>4. book'[id] = 0 /\ \A j \in Id \ {id} : book'[j] = book[j]
    BY <1>1, <1>2, <2>1
  <2>5. BookBy(Left(t), id) => BookBy(ToSet(q), id)'
    BY <2>1, <2>2, <2>3, <2>4 DEF BookBy
  <2> QED
    BY <1>0, <1>1, <1>5, <2>1, <2>4, <2>5, StepBook
<1>13. ~ReadBalance(t)
  BY <1>1, CallFacts DEF ReadBalance, PlanFacts, PartsOf, Ops, Step
<1> QED
  BY <1>6, <1>7, <1>8, <1>9, <1>10, <1>11, <1>12, <1>13 DEF Continue

\* A call begins on an order that no other call is on.
LEMMA BeginBook ==
    ASSUME Types, NEW t \in Thread, NEW id \in Id, NEW q \in Plans(id), NEW removes, NEW ends,
           Begin(t, id, q, removes, ends), NEW i \in Id, BookAt(i),
           i = id => (\A u \in Thread : ~On(u, id)) /\ BookBy(ToSet(q), id)
    PROVE  BookAt(i)'
<1>1. Moves(t, id, q) /\ Idle(t) /\ UNCHANGED <<rows, book>>
  BY BeginMoves
<1>2. /\ Left(t)' = ToSet(q) /\ (On(t, i)' => i = id) /\ ~On(t, i)
      /\ \A u \in Thread \ {t} : Left(u)' = Left(u) /\ (On(u, i)' <=> On(u, i))
  BY <1>1, AfterMove DEF On
<1>3. \A steps : BookBy(steps, i) => BookBy(steps, i)'
  BY <1>1 DEF BookBy
<1>4. Single(i)'
  BY <1>2 DEF BookAt, Single
<1>5. ASSUME NEW u \in Thread, On(u, i)' PROVE BookBy(Left(u), i)'
  <2>1. PICK steps : steps = Left(u)'
    OBVIOUS
  <2>2. BookBy(steps, i)
    BY <1>2, <1>5, <2>1 DEF BookAt
  <2> QED
    BY <1>3, <2>1, <2>2 DEF BookBy, PutIn
<1>6. (\A u \in Thread : ~On(u, i)') => BookBy({}, i)'
  BY <1>2, <1>3 DEF BookAt
<1> QED
  BY <1>4, <1>5, <1>6 DEF BookAt

\* A race and an overlap are never forgotten; a replacement is when the order
\* leaves the book.
LEMMA HistoryGrows ==
    ASSUME [Next]_vars
    PROVE  /\ raced \subseteq raced' /\ mixed \subseteq mixed' /\ table' = table
           /\ \A i \in replaced : i \in replaced' \/ \E t \in Thread : RemoveFromBook(t) /\ Row(t) = i
<1>1. raced \subseteq raced' /\ table' = table
  BY DEF Next, Continue, InsertRow, AddToIndex, AddToBook, RemoveRow, RemoveFromIndex, RemoveKey, EndRow, RemoveFromBook,
     ReadBalance, StepRest, BeginRead, Read, ReadRow, EndRead, vars, insert, transfer, remove, end, Begin
<1>2. \A i \in replaced : i \in replaced' \/ \E t \in Thread : RemoveFromBook(t) /\ Row(t) = i
  BY DEF Next, Continue, InsertRow, AddToIndex, AddToBook, RemoveRow, RemoveFromIndex, RemoveKey, EndRow, RemoveFromBook,
     ReadBalance, StepRest, BeginRead, Read, ReadRow, EndRead, vars, insert, transfer, remove, end, Begin
<1>3. mixed \subseteq mixed'
  BY DEF Next, Continue, InsertRow, AddToIndex, AddToBook, RemoveRow, RemoveFromIndex, RemoveKey, EndRow, RemoveFromBook,
     ReadBalance, StepRest, BeginRead, Read, ReadRow, EndRead, vars, insert, transfer, remove, end, Begin
<1> QED
  BY <1>1, <1>2, <1>3

\* remove() and cancel() find no other call on a row that is not raced.
LEMMA ShortAlone ==
    ASSUME Types, NEW t \in Thread, NEW id \in Id, remove(t, id) \/ end(t, id), id \notin raced'
    PROVE  \A u \in Thread : ~On(u, id)
<1>1. \E r \in BOOLEAN : raced' = raced \cup Races(id, r, TRUE)
  BY DEF remove, end, Begin
<1> QED
  BY <1>1, RacesFacts

\* What is left of a call says whether it ends its row.
LEMMA EndingIs == ASSUME NEW t PROVE Ending(t) <=> EndsBy(Left(t))
BY DEF Ending, Removal, EndsBy, Left, ToSet

\* A step of a call on a row that is the only one to end it.
LEMMA StepEnds ==
    ASSUME Types, NEW t, NEW id, NEW q, Moves(t, id, q), ~Idle(t), Row(t) = id,
           NEW i \in Id, EndAt(i), rows'[i] = "Live" /\ rows[i] # "Live" => i = id /\ ~EndsBy(Left(t)),
           EndsBy(ToSet(q)) => EndsBy(Left(t)),
           i = id /\ At("RemoveFromBook", id) \in ToSet(q) => rows'[id] # "Live"
    PROVE  EndAt(i)'
<1>1. t \in Thread /\ On(t, id)
  BY DEF Moves, On
<1>2. /\ Left(t)' = ToSet(q) /\ (On(t, i)' <=> q # <<>> /\ i = id)
      /\ \A u \in Thread \ {t} : Left(u)' = Left(u) /\ (On(u, i)' <=> On(u, i))
  BY AfterMove
<1>3. \A u \in Thread : (On(u, i)' => On(u, i)) /\ (On(u, i)' /\ EndsBy(Left(u)') => EndsBy(Left(u)))
  BY <1>1, <1>2
<1>4. ASSUME NEW u \in Thread, NEW v \in Thread, On(u, i)', EndsBy(Left(u)'), On(v, i)' PROVE v = u
  BY <1>3, <1>4 DEF EndAt
<1>5. ASSUME NEW u \in Thread, At("RemoveFromBook", i) \in Left(u)' PROVE rows'[i] # "Live"
  <2>1. CASE u = t
    <3>1. At("RemoveFromBook", i) \in ToSet(q)
      BY <1>2, <1>5, <2>1
    <3>2. i = id
      <4>1. q # <<>>
        BY <3>1, OneStep
      <4>2. StepsOf(q, id)
        BY <4>1, PlansAreGood DEF Moves, PlanFacts
      <4> QED
        BY <3>1, <4>2, StepNames DEF StepsOf
    <3> QED
      BY <3>1, <3>2
  <2>2. CASE u # t
    <3>1. At("RemoveFromBook", i) \in Left(u)
      BY <1>2, <1>5, <2>2
    <3>2. rows[i] # "Live"
      BY <3>1 DEF EndAt
    <3>3. On(u, i) /\ EndsBy(Left(u))
      <4>1. At("RemoveFromBook", i).step = "RemoveFromBook"
        BY PlainSteps
      <4>2. EndsBy(Left(u))
        BY <3>1, <4>1 DEF EndsBy
      <4> QED
        BY <3>1, <4>2, OwnSteps
    <3>4. ~On(t, i)
      BY <1>1, <2>2, <3>3 DEF EndAt
    <3> QED
      BY <1>1, <3>2, <3>4
  <2> QED
    BY <2>1, <2>2
<1> QED
  BY <1>4, <1>5 DEF EndAt

\* A call that still puts its row in does not end it.
LEMMA PutEndsNot ==
    ASSUME Types, NEW t \in Thread, ~Idle(t), Step(t) \in Puts
    PROVE  ~EndsBy(Left(t))
<1>1. Head(pc[t]) = At(Step(t), Row(t)) /\ Head(pc[t]) \in Left(t)
  BY HeadFacts DEF Puts, Keyed
<1>2. PlanFacts(pc[t], Row(t))
  BY CallFacts
<1>3. PutIn(Row(t), Left(t)) /\ At(Step(t), Row(t)).step \notin Removing \cup {"RemoveFromBook"}
  BY <1>1, PlainSteps DEF PutIn, Puts, Removing
<1>4. \A s \in Left(t) : s.step \notin Removing
  BY <1>1, <1>2, <1>3 DEF PlanFacts, PartsOf, Left
<1>5. At("RemoveFromBook", Row(t)) \notin Left(t) /\ At("EndRow", Row(t)) \notin Left(t)
  BY <1>2, <1>3 DEF PlanFacts, PartsOf, Left
<1>6. \A s \in Left(t) : s.step \in {"RemoveFromBook", "EndRow"} => s = At(s.step, Row(t))
  BY <1>2 DEF PlanFacts, StepsOf, Left, Keyed, At, AtKey
<1> QED
  BY <1>4, <1>5, <1>6 DEF EndsBy, Removing

\* Every step of a writing call keeps the end of a row for itself.
LEMMA ContinueEnds ==
    ASSUME Types, NEW t \in Thread, Continue(t), NEW i \in Id, EndAt(i)
    PROVE  EndAt(i)'
<1>0. PICK id : id = Row(t)
  OBVIOUS
<1>1. ~Idle(t) /\ id \in Id /\ table' = table
  BY <1>0, CallFacts DEF Continue, InsertRow, AddToIndex, AddToBook, RemoveRow, RemoveFromIndex, RemoveKey, EndRow,
     RemoveFromBook, ReadBalance, StepRest
<1>2. rows \in [Id -> {"Absent", "Live", "Ended"}] /\ On(t, id)
  BY <1>0, <1>1 DEF Types, On
<1>3. At("RemoveFromBook", id) \in Left(t) /\ i = id => rows[id] # "Live"
  BY DEF EndAt
<1>4. PICK q : q = Tail(pc[t])
  OBVIOUS
<1>5. Proceed(t) => Moves(t, id, q) /\ ToSet(q) \subseteq Left(t)
  BY <1>0, <1>1, <1>4, ProceedFacts
<1>6. CASE InsertRow(t)
  <2>1. Step(t) \in Puts /\ Proceed(t) /\ rows' = [rows EXCEPT ![id] = Step(t)]
    BY <1>0, <1>6 DEF InsertRow, Puts
  <2>2. ~EndsBy(Left(t))
    BY <1>1, <2>1, PutEndsNot
  <2>3. At("RemoveFromBook", id).step = "RemoveFromBook"
    BY PlainSteps
  <2>4. ~EndsBy(ToSet(q)) /\ At("RemoveFromBook", id) \notin ToSet(q)
    BY <1>5, <2>1, <2>2, <2>3 DEF EndsBy
  <2>5. \A j \in Id \ {id} : rows'[j] = rows[j]
    BY <1>1, <1>2, <2>1
  <2> QED
    BY <1>0, <1>1, <1>5, <2>1, <2>2, <2>4, <2>5, StepEnds
<1>7. CASE AddToIndex(t) \/ RemoveKey(t) \/ AddToBook(t) \/ RemoveFromBook(t) \/ ReadBalance(t)
  <2>1. Proceed(t) /\ rows' = rows
    BY <1>7 DEF AddToIndex, RemoveKey, AddToBook, RemoveFromBook, ReadBalance, store
  <2>2. EndsBy(ToSet(q)) => EndsBy(Left(t))
    BY <1>5, <2>1 DEF EndsBy
  <2>3. i = id /\ At("RemoveFromBook", id) \in ToSet(q) => rows'[id] # "Live"
    BY <1>3, <1>5, <2>1
  <2> QED
    BY <1>0, <1>1, <1>5, <2>1, <2>2, <2>3, StepEnds
<1>8. CASE RemoveFromIndex(t)
  <2>1. PICK r : Moves(t, id, r) /\ ToSet(r) \subseteq Left(t)
    BY <1>0, <1>8, RemoveFromIndexMoves
  <2>2. rows' = rows
    BY <1>8 DEF RemoveFromIndex
  <2>3. EndsBy(ToSet(r)) => EndsBy(Left(t))
    BY <2>1 DEF EndsBy
  <2>4. i = id /\ At("RemoveFromBook", id) \in ToSet(r) => rows'[id] # "Live"
    BY <1>3, <2>1, <2>2
  <2> QED
    BY <1>0, <1>1, <2>1, <2>2, <2>3, <2>4, StepEnds
<1>9. CASE RemoveRow(t) \/ EndRow(t)
  <2>1. PICK r : pc' = [pc EXCEPT ![t] = r] /\ (r = <<>> \/ r \in Plans(id))
    <3>1. CASE RemoveRow(t)
      <4>1. PICK r : r = IF rows[id] = "Absent" THEN <<>> ELSE AfterRemove(id, rows[id])
        OBVIOUS
      <4>2. pc' = [pc EXCEPT ![t] = r]
        BY <1>0, <3>1, <4>1 DEF RemoveRow
      <4>3. r = <<>> \/ r \in Plans(id)
        BY <1>1, <4>1, AfterRemovePlan
      <4> QED
        BY <4>2, <4>3
    <3>2. CASE EndRow(t)
      <4>1. PICK r : r = IF table = "OrderTable" /\ rows[id] = "Live" THEN <<At("RemoveFromBook", id)>> ELSE <<>>
        OBVIOUS
      <4>2. pc' = [pc EXCEPT ![t] = r]
        BY <1>0, <3>2, <4>1 DEF EndRow
      <4>3. r = <<>> \/ r \in Plans(id)
        BY <4>1 DEF Plans, OrderPlans
      <4> QED
        BY <4>2, <4>3
    <3> QED
      BY <1>9, <3>1, <3>2
  <2>2. rows'[id] # "Live" /\ \A j \in Id \ {id} : rows'[j] = rows[j]
    BY <1>0, <1>1, <1>2, <1>9 DEF RemoveRow, EndRow
  <2>3. Step(t) \in {"RemoveRow", "EndRow"}
    BY <1>9 DEF RemoveRow, EndRow
  <2>4. At(Step(t), id) \in Left(t) /\ At(Step(t), id).step \in {"RemoveRow", "EndRow"}
    BY <1>0, <1>1, <2>3, OnlyStep, PlainSteps
  <2>5. EndsBy(Left(t))
    BY <2>4 DEF EndsBy
  <2>6. Moves(t, id, r)
    BY <1>1, <2>1 DEF Moves
  <2> QED
    BY <1>0, <1>1, <2>2, <2>5, <2>6, StepEnds
<1> QED
  BY <1>6, <1>7, <1>8, <1>9 DEF Continue

\* A call that begins is a race when it ends a row with a call on it, or finds
\* one that ends its row.
LEMMA BeginEnds ==
    ASSUME Types, NEW t \in Thread, NEW id \in Id, NEW q \in Plans(id), NEW removes \in BOOLEAN, NEW ends \in BOOLEAN,
           Begin(t, id, q, removes, ends), NEW i \in Id, i \notin raced', EndAt(i),
           EndsBy(ToSet(q)) => ends, At("RemoveFromBook", id) \notin ToSet(q)
    PROVE  EndAt(i)'
<1>1. Moves(t, id, q) /\ Idle(t) /\ rows' = rows
  BY BeginMoves
<1>2. /\ Left(t)' = ToSet(q) /\ (On(t, i)' => i = id) /\ ~On(t, i)
      /\ \A u \in Thread \ {t} : Left(u)' = Left(u) /\ (On(u, i)' <=> On(u, i))
  BY <1>1, AfterMove DEF On
<1>3. Races(id, removes, ends) \subseteq raced'
  BY DEF Begin
<1>4. i = id => \A u \in Thread : On(u, id) => ~ends /\ ~EndsBy(Left(u))
  BY <1>3, RacesFacts, EndingIs
<1>5. ASSUME NEW u \in Thread, NEW v \in Thread, On(u, i)', EndsBy(Left(u)'), On(v, i)' PROVE v = u
  <2>1. CASE u = t
    BY <1>2, <1>4, <1>5, <2>1
  <2>2. CASE u # t
    <3>1. On(u, i) /\ EndsBy(Left(u))
      BY <1>2, <1>5, <2>2
    <3>2. i # id
      BY <1>4, <3>1
    <3> QED
      BY <1>2, <1>5, <3>1, <3>2 DEF EndAt
  <2> QED
    BY <2>1, <2>2
<1>6. ASSUME NEW u \in Thread, At("RemoveFromBook", i) \in Left(u)' PROVE rows'[i] # "Live"
  <2>1. CASE u = t
    <3>1. StepsOf(q, id)
      BY PlansAreGood DEF PlanFacts
    <3> QED
      BY <1>2, <1>6, <2>1, <3>1, StepNames DEF StepsOf
  <2>2. CASE u # t
    BY <1>1, <1>2, <1>6, <2>2 DEF EndAt
  <2> QED
    BY <2>1, <2>2
<1> QED
  BY <1>5, <1>6 DEF EndAt

\* Every step keeps the end of a row that is not raced for one call.
LEMMA NextEnds == Types /\ EndsAlone /\ [Next]_vars => EndsAlone'
<1> SUFFICES ASSUME Types, EndsAlone, [Next]_vars, NEW i \in Id, i \notin raced'
             PROVE  EndAt(i)'
  BY DEF EndsAlone
<1>1. EndAt(i)
  BY HistoryGrows DEF EndsAlone
<1>2. ASSUME NEW t \in Thread, NEW id \in Id, NEW q \in Plans(id), Fills(q, id), Begin(t, id, q, FALSE, FALSE)
      PROVE  EndAt(i)'
  <2>1. ~EndsBy(ToSet(q)) /\ At("RemoveFromBook", id) \notin ToSet(q)
    BY <1>2, PlainSteps DEF Fills, EndsBy, Removing
  <2> QED
    BY <1>1, <1>2, <2>1, BeginEnds
<1>3. ASSUME NEW t \in Thread, NEW id \in Id, NEW status \in Status, insert(t, id, status) PROVE EndAt(i)'
  <2>1. PICK q : q = InsertSteps(id, status)
    OBVIOUS
  <2>2. q \in Plans(id) /\ Fills(q, id) /\ Begin(t, id, q, FALSE, FALSE)
    BY <1>3, <2>1, InsertPlan, InsertFills DEF insert
  <2> QED
    BY <1>2, <2>2
<1>4. ASSUME NEW t \in Thread, NEW id \in Id, NEW op \in Ops, transfer(t, id, op) PROVE EndAt(i)'
  <2>1. PICK q : q = <<At(op, id)>> \o InsertSteps(id, "Live")
    OBVIOUS
  <2>2. q \in Plans(id) /\ Fills(q, id) /\ Begin(t, id, q, FALSE, FALSE)
    BY <1>4, <2>1, TransferPlan DEF transfer
  <2> QED
    BY <1>2, <2>2
<1>5. ASSUME NEW t \in Thread, NEW id \in Id, remove(t, id) \/ end(t, id) PROVE EndAt(i)'
  <2>1. PICK a : a \in {At("RemoveRow", id), At("EndRow", id)} /\ \E r \in BOOLEAN : Begin(t, id, <<a>>, r, TRUE)
    BY <1>5 DEF remove, end
  <2>2. PICK q : q = <<a>>
    OBVIOUS
  <2>3. ToSet(q) = {a} /\ q \in Plans(id)
    BY <2>1, <2>2, OneStep, ShortPlans
  <2>4. At("RemoveFromBook", id) \notin ToSet(q)
    BY <2>1, <2>3, PlainSteps
  <2> QED
    BY <1>1, <2>1, <2>2, <2>3, <2>4, BeginEnds
<1>6. ASSUME UNCHANGED <<rows, pc>> PROVE EndAt(i)'
  BY <1>1, <1>6 DEF EndAt, On, Idle, Row, Left
<1>7. CASE (\E j \in Key : BeginRead(j)) \/ Read \/ UNCHANGED vars
  BY <1>6, <1>7 DEF BeginRead, Read, ReadRow, EndRead, vars, store
<1> QED
  BY <1>1, <1>3, <1>4, <1>5, <1>7, ContinueEnds DEF Next, Ops

\* The book lets go of an order that nobody else is on.
LEMMA ClearedBook ==
    ASSUME Types, table = "OrderTable", NEW t \in Thread, RemoveFromBook(t), NEW i \in Id, Row(t) = i, EndAt(i)
    PROVE  BookAt(i)'
<1>1. ~Idle(t) /\ Step(t) = "RemoveFromBook" /\ Proceed(t) /\ rows' = rows /\ table' = table
  BY DEF RemoveFromBook, StepRest
<1>2. Left(t) = {At("RemoveFromBook", i)} /\ Tail(pc[t]) = <<>>
  BY <1>1, OnlyStep
<1>3. rows[i] # "Live"
  BY <1>2 DEF EndAt
<1>4. EndsBy(Left(t)) /\ On(t, i)
  BY <1>1, <1>2, PlainSteps DEF EndsBy, On
<1>5. \A u \in Thread : On(u, i) => u = t
  BY <1>4 DEF EndAt
<1>6. Moves(t, i, <<>>)
  BY <1>1, <1>2, ProceedFacts
<1>7. \A u \in Thread : ~On(u, i)'
  BY <1>5, <1>6, AfterMove
<1>8. book'[i] = 0
  BY DEF RemoveFromBook, Types
<1>9. BookBy({}, i)'
  BY <1>1, <1>3, <1>8 DEF BookBy, PutIn
<1> QED
  BY <1>7, <1>9 DEF BookAt, Single

\* Every step preserves the book invariant.
LEMMA NextBooked == Types /\ EndsAlone /\ Booked /\ [Next]_vars => Booked'
<1> SUFFICES ASSUME Types, EndsAlone, Booked, [Next]_vars, table = "OrderTable",
                    NEW i \in Id, i \notin raced' \cup replaced'
             PROVE  BookAt(i)'
  BY HistoryGrows DEF Booked
<1>0. ASSUME i \in replaced PROVE BookAt(i)'
  <2>1. PICK t \in Thread : RemoveFromBook(t) /\ Row(t) = i
    BY <1>0, HistoryGrows
  <2> QED
    BY <2>1, HistoryGrows, ClearedBook DEF EndsAlone
<1> SUFFICES ASSUME i \notin replaced PROVE BookAt(i)'
  BY <1>0
<1>1. BookAt(i)
  BY HistoryGrows DEF Booked
<1>2. ASSUME NEW t \in Thread, NEW id \in Id, NEW status \in Status, insert(t, id, status) PROVE BookAt(i)'
  <2>1. PICK q : q = InsertSteps(id, status)
    OBVIOUS
  <2>2. q \in Plans(id) /\ Fills(q, id) /\ Begin(t, id, q, FALSE, FALSE)
    BY <1>2, <2>1, InsertPlan, InsertFills DEF insert
  <2>3. i = id => ~(book[id] > 0) /\ \A u \in Thread : ~On(u, id)
    BY <1>2 DEF insert, On
  <2>4. book[id] \in Nat
    BY DEF Types
  <2>5. At("RemoveFromBook", id) \notin ToSet(q)
    BY <2>2, PlainSteps DEF Fills
  <2>6. i = id => BookBy(ToSet(q), id)
    BY <2>2, <2>3, <2>4, <2>5 DEF BookBy, Fills
  <2> QED
    BY <1>1, <2>2, <2>3, <2>6, BeginBook
<1>3. ASSUME NEW t \in Thread, NEW id \in Id, remove(t, id) \/ end(t, id) PROVE BookAt(i)'
  <2>1. PICK a : a \in {At("RemoveRow", id), At("EndRow", id)} /\ \E r \in BOOLEAN : Begin(t, id, <<a>>, r, TRUE)
    BY <1>3 DEF remove, end
  <2>2. PICK q : q = <<a>>
    OBVIOUS
  <2>3. ToSet(q) = {a} /\ q \in Plans(id)
    BY <2>1, <2>2, OneStep, ShortPlans
  <2>4. i = id => \A u \in Thread : ~On(u, id)
    BY <1>3, ShortAlone
  <2>5. i = id => BookBy({}, id)
    BY <1>1, <2>4 DEF BookAt
  <2>6. At("AddToBook", id) # a /\ At("RemoveFromBook", id) # a /\ At("Live", id) # a /\ At("Ended", id) # a
    BY <2>1, PlainSteps
  <2>7. i = id => BookBy(ToSet(q), id)
    BY <2>3, <2>5, <2>6 DEF BookBy, PutIn
  <2> QED
    BY <1>1, <2>1, <2>2, <2>3, <2>4, <2>7, BeginBook
<1>4. ASSUME UNCHANGED <<table, rows, book, pc>> PROVE BookAt(i)'
  BY <1>1, <1>4 DEF BookAt, BookBy, Single, On, Idle, Row, Left
<1>5. CASE (\E j \in Key : BeginRead(j)) \/ Read \/ UNCHANGED vars
  BY <1>4, <1>5 DEF BeginRead, Read, ReadRow, EndRead, vars, store
<1>6. \A t \in Thread, id \in Id, op \in Ops : ~transfer(t, id, op)
  BY DEF transfer
<1> QED
  BY <1>1, <1>2, <1>3, <1>5, <1>6, ContinueBook DEF Next, Ops

-----------------------------------------------------------------------------
(* The balances.                                                           *)

\* A step of the one call on a balance does not change what the call comes to.
LEMMA StepBalance ==
    ASSUME Types, NEW t, NEW id, NEW q, Moves(t, id, q), ~Idle(t), Row(t) = id, ledger' = ledger,
           NEW i \in Id, BalanceAt(i), i # id => amount'[i] = amount[i],
           \A u \in Thread \ {t} : holds'[u] = holds[u],
           Outcome(ToSet(q), id, holds[t])' = Outcome(Left(t), id, holds[t])
    PROVE  BalanceAt(i)'
<1>1. t \in Thread
  BY DEF Moves
<1>2. /\ Left(t)' = ToSet(q) /\ (On(t, i)' <=> q # <<>> /\ i = id)
      /\ \A u \in Thread \ {t} : Left(u)' = Left(u) /\ (On(u, i)' <=> On(u, i))
  BY AfterMove
<1>3. On(t, i) <=> i = id
  BY DEF On
<1>4. Single(i)'
  BY <1>1, <1>2, <1>3 DEF BalanceAt, Single
<1>5. CASE i = id
  <2>1. \A u \in Thread : On(u, i) => u = t
    BY <1>1, <1>3, <1>5 DEF BalanceAt, Single
  <2>2. ledger'[i] = Outcome(ToSet(q), id, holds[t])'
    BY <1>1, <1>3, <1>5 DEF BalanceAt
  <2>3. \A u \in Thread : On(u, i)' => u = t
    BY <1>2, <2>1
  <2>4. Outcome(ToSet(q), id, holds[t])' = Outcome(Left(t), i, holds[t])'
    BY <1>2, <1>5 DEF Outcome, PutIn
  <2>5. (\A u \in Thread : ~On(u, i)') => q = <<>>
    BY <1>1, <1>2, <1>5
  <2>6. q = <<>> => ToSet(q) = {}
    BY OneStep
  <2>7. Outcome({}, i, 0)' = amount'[i] /\ Outcome({}, i, holds[t])' = amount'[i]
    BY DEF Outcome, PutIn
  <2>8. (\A u \in Thread : ~On(u, i)') => ledger'[i] = Outcome({}, i, 0)'
    BY <1>5, <2>2, <2>5, <2>6, <2>7
  <2>9. \A u \in Thread : On(u, i)' => ledger'[i] = Outcome(Left(u), i, holds[u])'
    BY <2>2, <2>3, <2>4
  <2> QED
    BY <1>4, <2>8, <2>9 DEF BalanceAt
<1>6. CASE i # id
  <2>1. \A steps, n : Outcome(steps, i, n)' = Outcome(steps, i, n)
    BY <1>6 DEF Outcome
  <2>2. \A u \in Thread : On(u, i)' => u # t /\ On(u, i)
    BY <1>2, <1>6
  <2>3. ASSUME NEW u \in Thread, On(u, i)' PROVE ledger'[i] = Outcome(Left(u), i, holds[u])'
    <3>1. Left(u)' = Left(u) /\ holds'[u] = holds[u] /\ On(u, i)
      BY <1>2, <2>2, <2>3
    <3>2. ledger[i] = Outcome(Left(u), i, holds[u])
      BY <3>1 DEF BalanceAt
    <3> QED
      BY <1>6, <3>1, <3>2 DEF Outcome, PutIn
  <2>4. (\A u \in Thread : ~On(u, i)') => \A u \in Thread : ~On(u, i)
    BY <1>1, <1>2, <1>3, <1>6
  <2>5. (\A u \in Thread : ~On(u, i)') => ledger'[i] = Outcome({}, i, 0)'
    BY <2>1, <2>4 DEF BalanceAt
  <2> QED
    BY <1>4, <2>3, <2>5 DEF BalanceAt
<1> QED
  BY <1>5, <1>6

\* Every step of a writing call preserves what is known of a balance.
LEMMA ContinueBalance ==
    ASSUME Types, NEW t \in Thread, Continue(t), NEW i \in Id, BalanceAt(i)
    PROVE  BalanceAt(i)'
<1>0. PICK id : id = Row(t)
  OBVIOUS
<1> DEFINE h == Head(pc[t])
<1>1. ~Idle(t) /\ id \in Id /\ ledger' = ledger /\ table' = table
  BY <1>0, CallFacts DEF Continue, InsertRow, AddToIndex, AddToBook, RemoveRow, RemoveFromIndex, RemoveKey, EndRow,
     RemoveFromBook, ReadBalance, StepRest
<1>2. amount \in [Id -> Nat] /\ holds \in [Thread -> Nat]
  BY DEF Types
<1>3. h \in Left(t) /\ h.step = Step(t) /\ (Step(t) \notin Keyed => h = At(Step(t), id))
  BY <1>0, <1>1, HeadFacts DEF Step
<1>4. PICK q : q = Tail(pc[t])
  OBVIOUS
<1>5. Proceed(t) => Moves(t, id, q) /\ ToSet(q) = Left(t) \ {h}
  BY <1>0, <1>1, <1>4, ProceedFacts
<1>6. /\ \A s \in ToSet(q) : s.step \notin Ops
      /\ At("RemoveRow", id) \in Left(t) => Left(t) = {At("RemoveRow", id)}
      /\ Step(t) \in Puts => ~PutIn(id, ToSet(q))
      /\ Step(t) \in Ops => At("Live", id) \in Left(t)
  BY <1>0, <1>1, <1>4, CallFacts DEF PlanFacts, PartsOf, Left, Step
<1>7. At("deposit", id) \notin ToSet(q) /\ At("withdraw", id) \notin ToSet(q)
  BY <1>6, PlainSteps DEF Ops
<1> HIDE DEF h
<1>8. CASE InsertRow(t)
  <2>1. /\ Step(t) \in Puts /\ Proceed(t) /\ amount' = [amount EXCEPT ![id] = holds[t]]
        /\ holds' = [holds EXCEPT ![t] = 0]
    BY <1>0, <1>8 DEF InsertRow, Puts
  <2>2. h = At(Step(t), id)
    BY <1>3, <2>1 DEF Puts, Keyed
  <2>3. h # At("deposit", id) /\ h # At("withdraw", id) /\ h # At("RemoveRow", id)
    BY <1>3, <2>1, PlainSteps DEF Puts
  <2>4. PutIn(id, Left(t))
    BY <1>3, <2>1, <2>2 DEF Puts, PutIn
  <2>5. At("RemoveRow", id) \notin Left(t)
    BY <1>3, <1>6, <2>3
  <2>6. Outcome(Left(t), id, holds[t]) = holds[t]
    BY <1>5, <1>7, <2>1, <2>3, <2>4 DEF Outcome
  <2>7. amount'[id] = holds[t] /\ \A j \in Id \ {id} : amount'[j] = amount[j]
    BY <1>1, <1>2, <2>1
  <2>8. Outcome(ToSet(q), id, holds[t])' = amount'[id]
    BY <1>5, <1>6, <1>7, <2>1, <2>5 DEF Outcome
  <2>9. \A u \in Thread \ {t} : holds'[u] = holds[u]
    BY <1>2, <2>1
  <2> QED
    BY <1>0, <1>1, <1>5, <2>1, <2>6, <2>7, <2>8, <2>9, StepBalance
<1>9. CASE AddToIndex(t) \/ RemoveKey(t)
  <2>1. Proceed(t) /\ UNCHANGED <<amount, holds>> /\ h.step \in {"AddToIndex", "RemoveKey"}
    BY <1>3, <1>9 DEF AddToIndex, RemoveKey
  <2>2. /\ h # At("deposit", id) /\ h # At("withdraw", id) /\ h # At("RemoveRow", id)
        /\ h # At("Live", id) /\ h # At("Ended", id)
    BY <2>1, PlainSteps
  <2>3. Outcome(ToSet(q), id, holds[t])' = Outcome(Left(t), id, holds[t])
    BY <1>5, <2>1, <2>2 DEF Outcome, PutIn
  <2> QED
    BY <1>0, <1>1, <1>5, <2>1, <2>3, StepBalance
<1>10. CASE AddToBook(t) \/ RemoveFromBook(t)
  <2>1. Proceed(t) /\ UNCHANGED <<amount, holds>> /\ h.step \in {"AddToBook", "RemoveFromBook"}
    BY <1>3, <1>10 DEF AddToBook, RemoveFromBook
  <2>2. /\ h # At("deposit", id) /\ h # At("withdraw", id) /\ h # At("RemoveRow", id)
        /\ h # At("Live", id) /\ h # At("Ended", id)
    BY <2>1, PlainSteps
  <2>3. Outcome(ToSet(q), id, holds[t])' = Outcome(Left(t), id, holds[t])
    BY <1>5, <2>1, <2>2 DEF Outcome, PutIn
  <2> QED
    BY <1>0, <1>1, <1>5, <2>1, <2>3, StepBalance
<1>11. CASE RemoveRow(t)
  <2>1. PICK r : r = IF rows[id] = "Absent" THEN <<>> ELSE AfterRemove(id, rows[id])
    OBVIOUS
  <2>2. Step(t) = "RemoveRow" /\ amount' = [amount EXCEPT ![id] = 0] /\ holds' = holds /\ pc' = [pc EXCEPT ![t] = r]
    BY <1>0, <1>11, <2>1 DEF RemoveRow
  <2>3. /\ r = <<>> \/ r \in Plans(id)
        /\ \A s \in ToSet(r) : s.step \in {"RemoveFromIndex", "RemoveKey", "RemoveFromBook"}
    <3>1. CASE rows[id] = "Absent"
      BY <2>1, <3>1, OneStep
    <3>2. CASE rows[id] # "Absent"
      BY <1>1, <2>1, <3>2, AfterRemovePlan
    <3> QED
      BY <3>1, <3>2
  <2>4. Moves(t, id, r)
    BY <1>1, <2>2, <2>3 DEF Moves
  <2>5. Left(t) = {At("RemoveRow", id)}
    BY <1>0, <1>1, <2>2, OnlyStep
  <2>6. Outcome(Left(t), id, holds[t]) = 0
    BY <2>5, PlainSteps DEF Outcome, PutIn
  <2>7. amount'[id] = 0 /\ \A j \in Id \ {id} : amount'[j] = amount[j]
    BY <1>1, <1>2, <2>2
  <2>8. Outcome(ToSet(r), id, holds[t])' = 0
    BY <2>3, <2>7, PlainSteps DEF Outcome, PutIn
  <2> QED
    BY <1>0, <1>1, <2>2, <2>4, <2>6, <2>7, <2>8, StepBalance
<1>12. CASE RemoveFromIndex(t)
  <2>1. PICK r : /\ Moves(t, id, r) /\ ToSet(r) \subseteq Left(t)
                 /\ \A s \in Left(t) : s \in ToSet(r) \/ s = Find(id, StepKey(t)) \/ s = Drop(id, StepKey(t))
    BY <1>0, <1>12, RemoveFromIndexMoves
  <2>2. UNCHANGED <<amount, holds>>
    BY <1>12 DEF RemoveFromIndex
  <2>3. \A s \in Left(t) : s.step \notin {"RemoveFromIndex", "RemoveKey"} => s \in ToSet(r)
    BY <2>1, StepNames
  <2>4. /\ At("deposit", id) \in Left(t) <=> At("deposit", id) \in ToSet(r)
        /\ At("withdraw", id) \in Left(t) <=> At("withdraw", id) \in ToSet(r)
        /\ At("RemoveRow", id) \in Left(t) <=> At("RemoveRow", id) \in ToSet(r)
        /\ PutIn(id, Left(t)) <=> PutIn(id, ToSet(r))
    BY <2>1, <2>3, PlainSteps DEF PutIn
  <2>5. Outcome(ToSet(r), id, holds[t])' = Outcome(Left(t), id, holds[t])
    BY <2>2, <2>4 DEF Outcome
  <2> QED
    BY <1>0, <1>1, <2>1, <2>2, <2>5, StepBalance
<1>13. CASE EndRow(t)
  <2>1. PICK r : r = IF table = "OrderTable" /\ rows[id] = "Live" THEN <<At("RemoveFromBook", id)>> ELSE <<>>
    OBVIOUS
  <2>2. Step(t) = "EndRow" /\ UNCHANGED <<amount, holds>> /\ pc' = [pc EXCEPT ![t] = r]
    BY <1>0, <1>13, <2>1 DEF EndRow
  <2>3. Moves(t, id, r) /\ ToSet(r) \subseteq {At("RemoveFromBook", id)}
    BY <1>1, <2>1, <2>2, OneStep DEF Moves, Plans, OrderPlans
  <2>4. Left(t) = {At("EndRow", id)}
    BY <1>0, <1>1, <2>2, OnlyStep
  <2>5. Outcome(Left(t), id, holds[t]) = amount[id]
    BY <2>4, PlainSteps DEF Outcome, PutIn
  <2>6. Outcome(ToSet(r), id, holds[t])' = amount'[id]
    BY <2>3, PlainSteps DEF Outcome, PutIn
  <2> QED
    BY <1>0, <1>1, <2>2, <2>3, <2>5, <2>6, StepBalance
<1>14. CASE ReadBalance(t)
  <2>1. /\ Step(t) \in Ops /\ Proceed(t) /\ amount' = amount
        /\ holds' = [holds EXCEPT ![t] = Moved(Step(t), amount[id])]
    BY <1>0, <1>14 DEF ReadBalance, Ops, store
  <2>2. h = At(Step(t), id)
    BY <1>3, <2>1 DEF Ops, Keyed
  <2>3. Outcome(Left(t), id, holds[t]) = Moved(Step(t), amount[id])
    <3>1. CASE Step(t) = "deposit"
      BY <1>3, <2>2, <3>1 DEF Outcome
    <3>2. CASE Step(t) = "withdraw"
      <4>1. At("deposit", id) # h
        BY <1>3, <3>2, PlainSteps
      <4>2. At("deposit", id) \notin Left(t)
        BY <1>5, <1>7, <2>1, <4>1
      <4> QED
        BY <1>3, <2>2, <3>2, <4>2 DEF Outcome
    <3> QED
      BY <2>1, <3>1, <3>2 DEF Ops
  <2>4. PutIn(id, ToSet(q))
    <3>1. At("Live", id) # h
      BY <1>3, <2>1, PlainSteps DEF Ops
    <3> QED
      BY <1>5, <1>6, <2>1, <3>1 DEF PutIn
  <2>5. Outcome(ToSet(q), id, holds[t])' = holds'[t]
    BY <1>7, <2>4 DEF Outcome
  <2>6. holds'[t] = Moved(Step(t), amount[id]) /\ \A u \in Thread \ {t} : holds'[u] = holds[u]
    BY <1>2, <2>1
  <2> QED
    BY <1>0, <1>1, <1>5, <2>1, <2>3, <2>5, <2>6, StepBalance
<1> QED
  BY <1>8, <1>9, <1>10, <1>11, <1>12, <1>13, <1>14 DEF Continue

\* A call begins on a balance that no other call is on.
LEMMA BeginBalance ==
    ASSUME Types, table = "BalanceCache", NEW t \in Thread, NEW id \in Id, NEW q \in Plans(id), NEW removes, NEW ends,
           Begin(t, id, q, removes, ends), NEW i \in Id, i \notin mixed', BalanceAt(i),
           \A u \in Thread \ {t} : holds'[u] = holds[u],
           i # id => ledger'[i] = ledger[i],
           i = id /\ ledger[id] = amount[id] => ledger'[id] = Outcome(ToSet(q), id, holds'[t])
    PROVE  BalanceAt(i)'
<1>1. Moves(t, id, q) /\ Idle(t) /\ amount' = amount
  BY BeginMoves
<1>2. /\ Left(t)' = ToSet(q) /\ (On(t, i)' <=> q # <<>> /\ i = id) /\ ~On(t, i)
      /\ \A u \in Thread \ {t} : Left(u)' = Left(u) /\ (On(u, i)' <=> On(u, i))
  BY <1>1, AfterMove DEF On
<1>3. i = id => \A u \in Thread : ~On(u, i)
  BY DEF Begin, On
<1>4. Single(i)'
  BY <1>2, <1>3 DEF BalanceAt, Single
<1>5. q # <<>>
  BY PlansAreGood DEF PlanFacts, ShapeOf
<1>6. \A steps, n : Outcome(steps, i, n)' = Outcome(steps, i, n)
  BY <1>1 DEF Outcome
<1>7. Outcome({}, i, 0) = amount[i]
  BY DEF Outcome, PutIn
<1>8. ASSUME NEW u \in Thread, On(u, i)' PROVE ledger'[i] = Outcome(Left(u), i, holds[u])'
  <2>1. PICK steps : steps = Left(u)'
    OBVIOUS
  <2>2. ledger'[i] = Outcome(steps, i, holds'[u])
    <3>1. CASE u = t
      BY <1>2, <1>3, <1>7, <1>8, <2>1, <3>1 DEF BalanceAt
    <3>2. CASE u # t
      BY <1>2, <1>3, <1>8, <2>1, <3>2 DEF BalanceAt
    <3> QED
      BY <3>1, <3>2
  <2> QED
    BY <1>1, <2>1, <2>2 DEF Outcome, PutIn
<1>9. (\A u \in Thread : ~On(u, i)') => ledger'[i] = Outcome({}, i, 0)'
  <2> SUFFICES ASSUME \A u \in Thread : ~On(u, i)' PROVE ledger'[i] = Outcome({}, i, 0)'
    OBVIOUS
  <2>1. i # id /\ \A u \in Thread : ~On(u, i)
    BY <1>2, <1>5
  <2> QED
    BY <1>6, <2>1 DEF BalanceAt
<1> QED
  BY <1>4, <1>8, <1>9 DEF BalanceAt

\* Every step preserves the balance invariant.
LEMMA NextBalanced == Types /\ Balanced /\ [Next]_vars => Balanced'
<1> SUFFICES ASSUME Types, Balanced, [Next]_vars, table = "BalanceCache", NEW i \in Id, i \notin mixed'
             PROVE  BalanceAt(i)'
  BY HistoryGrows DEF Balanced
<1>1. BalanceAt(i)
  BY HistoryGrows DEF Balanced
<1>2. ledger \in [Id -> Nat] /\ holds \in [Thread -> Nat]
  BY DEF Types
<1>3. ASSUME NEW t \in Thread, NEW id \in Id, NEW status \in Status, insert(t, id, status) PROVE BalanceAt(i)'
  <2>1. PICK q : q = InsertSteps(id, status)
    OBVIOUS
  <2>2. q \in Plans(id) /\ Fills(q, id) /\ Begin(t, id, q, FALSE, FALSE) /\ Head(q).step \notin Ops
    BY <1>3, <2>1, InsertPlan, InsertFills DEF insert
  <2>3. holds' = [holds EXCEPT ![t] = 1] /\ ledger' = [ledger EXCEPT ![id] = 1]
    BY <1>3 DEF insert, Book
  <2>4. holds'[t] = 1 /\ ledger'[id] = 1
    BY <1>2, <2>3
  <2>5. \A u \in Thread \ {t} : holds'[u] = holds[u]
    BY <1>2, <2>3
  <2>6. i # id => ledger'[i] = ledger[i]
    BY <1>2, <2>3
  <2>7. ToSet(Tail(q)) = ToSet(q) \ {Head(q)} /\ \A s \in ToSet(Tail(q)) : s.step \notin Ops
    BY <2>2, PlansAreGood DEF PlanFacts, ShapeOf, PartsOf
  <2>8. At("deposit", id) \notin ToSet(q) /\ At("withdraw", id) \notin ToSet(q)
    BY <2>2, <2>7, PlainSteps DEF Ops
  <2>9. Outcome(ToSet(q), id, holds'[t]) = holds'[t]
    BY <2>2, <2>8 DEF Fills, Outcome
  <2> QED
    BY <1>1, <2>2, <2>4, <2>5, <2>6, <2>9, BeginBalance
<1>4. ASSUME NEW t \in Thread, NEW id \in Id, NEW op \in Ops, transfer(t, id, op) PROVE BalanceAt(i)'
  <2>1. PICK q : q = <<At(op, id)>> \o InsertSteps(id, "Live")
    OBVIOUS
  <2>2. q \in Plans(id) /\ Begin(t, id, q, FALSE, FALSE) /\ Head(q) = At(op, id)
    BY <1>4, <2>1, TransferPlan DEF transfer
  <2>3. holds' = holds /\ ledger' = [ledger EXCEPT ![id] = Moved(op, ledger[id])]
    BY <1>4 DEF transfer, Book
  <2>4. ledger'[id] = Moved(op, ledger[id]) /\ (i # id => ledger'[i] = ledger[i])
    BY <1>2, <2>3
  <2>5. /\ ToSet(Tail(q)) = ToSet(q) \ {Head(q)} /\ \A s \in ToSet(Tail(q)) : s.step \notin Ops
        /\ Head(q) \in ToSet(q)
    BY <2>2, PlansAreGood DEF PlanFacts, ShapeOf, PartsOf
  <2>6. Outcome(ToSet(q), id, holds'[t]) = Moved(op, amount[id])
    <3>1. CASE op = "deposit"
      BY <2>2, <2>5, <3>1 DEF Outcome
    <3>2. CASE op = "withdraw"
      <4>1. At("deposit", id) # At("withdraw", id)
        BY PlainSteps
      <4>2. At("deposit", id) \notin ToSet(q)
        BY <2>2, <2>5, <3>2, <4>1, PlainSteps DEF Ops
      <4> QED
        BY <2>2, <2>5, <3>2, <4>2 DEF Outcome
    <3> QED
      BY <3>1, <3>2 DEF Ops
  <2>7. ledger[id] = amount[id] => ledger'[id] = Outcome(ToSet(q), id, holds'[t])
    BY <2>4, <2>6
  <2>8. \A u \in Thread \ {t} : holds'[u] = holds[u]
    BY <2>3
  <2> QED
    BY <1>1, <2>2, <2>4, <2>7, <2>8, BeginBalance
<1>5. ASSUME NEW t \in Thread, NEW id \in Id, remove(t, id) \/ end(t, id) PROVE BalanceAt(i)'
  <2>1. PICK a : /\ \E r \in BOOLEAN : Begin(t, id, <<a>>, r, TRUE)
                 /\ \/ a = At("RemoveRow", id) /\ ledger' = [ledger EXCEPT ![id] = 0]
                    \/ a = At("EndRow", id) /\ ledger' = ledger
    BY <1>5 DEF remove, end, Book
  <2>2. PICK q : q = <<a>>
    OBVIOUS
  <2>3. ToSet(q) = {a} /\ q \in Plans(id)
    BY <2>1, <2>2, OneStep, ShortPlans
  <2>4. holds' = holds
    BY <1>5 DEF remove, end
  <2>5. i # id => ledger'[i] = ledger[i]
    BY <1>2, <2>1
  <2>6. ledger[id] = amount[id] => ledger'[id] = Outcome(ToSet(q), id, holds'[t])
    <3>1. CASE a = At("RemoveRow", id) /\ ledger' = [ledger EXCEPT ![id] = 0]
      <4>1. ledger'[id] = 0
        BY <1>2, <3>1
      <4>2. Outcome(ToSet(q), id, holds'[t]) = 0
        BY <2>3, <3>1, PlainSteps DEF Outcome, PutIn
      <4> QED
        BY <4>1, <4>2
    <3>2. CASE a = At("EndRow", id) /\ ledger' = ledger
      BY <2>3, <3>2, PlainSteps DEF Outcome, PutIn
    <3> QED
      BY <2>1, <3>1, <3>2
  <2> QED
    BY <1>1, <2>1, <2>2, <2>3, <2>4, <2>5, <2>6, BeginBalance
<1>6. ASSUME UNCHANGED <<table, amount, ledger, holds, pc>> PROVE BalanceAt(i)'
  BY <1>1, <1>6 DEF BalanceAt, Outcome, Single, On, Idle, Row, Left
<1>7. CASE (\E j \in Key : BeginRead(j)) \/ Read \/ UNCHANGED vars
  BY <1>6, <1>7 DEF BeginRead, Read, ReadRow, EndRead, vars, store
<1> QED
  BY <1>1, <1>3, <1>4, <1>5, <1>7, ContinueBalance DEF Next, Ops

-----------------------------------------------------------------------------
(* The reads.                                                              *)

\* Every step preserves what a read under way has still to return.
LEMMA NextReading == Types /\ Indexed /\ Reading /\ [Next]_vars => Reading'
<1> SUFFICES ASSUME Types, Indexed, Reading, [Next]_vars, NEW id \in reader'.must
             PROVE  /\ reader'.on /\ id \in reader'.todo \cup reader'.got
                    /\ rows'[id] # "Absent"
                    /\ \A t \in Thread : At("RemoveRow", id) \notin Left(t)'
  BY DEF Reading
<1>0. reader \in [on : BOOLEAN, key : Key \cup {NoKey}, todo : SUBSET Id, got : SUBSET Id, must : SUBSET Id]
  BY DEF Types
<1>1. id \in reader.must => /\ reader.on /\ id \in reader.todo \cup reader.got /\ id \in Id
                            /\ rows[id] # "Absent" /\ \A t \in Thread : At("RemoveRow", id) \notin Left(t)
  BY <1>0 DEF Reading
<1> DEFINE Goal == /\ reader'.on /\ id \in reader'.todo \cup reader'.got
                   /\ rows'[id] # "Absent"
                   /\ \A t \in Thread : At("RemoveRow", id) \notin Left(t)'
<1>2. ASSUME NEW t \in Thread, NEW i \in Id, NEW status \in Status, insert(t, i, status) PROVE Goal
  <2>1. PICK q : q = InsertSteps(i, status)
    OBVIOUS
  <2>2. q \in Plans(i) /\ Fills(q, i) /\ Begin(t, i, q, FALSE, FALSE) /\ reader' = reader
    BY <1>2, <2>1, InsertPlan, InsertFills DEF insert
  <2>3. Moves(t, i, q) /\ rows' = rows
    BY <2>2, BeginMoves
  <2>4. At("RemoveRow", id) \notin ToSet(q)
    BY <2>2, PlainSteps DEF Fills, Removing
  <2> QED
    BY <1>1, <2>2, <2>3, <2>4, AfterMove
<1>3. ASSUME NEW t \in Thread, NEW i \in Id, NEW op \in Ops, transfer(t, i, op) PROVE Goal
  <2>1. PICK q : q = <<At(op, i)>> \o InsertSteps(i, "Live")
    OBVIOUS
  <2>2. q \in Plans(i) /\ Fills(q, i) /\ Begin(t, i, q, FALSE, FALSE) /\ reader' = reader
    BY <1>3, <2>1, TransferPlan DEF transfer
  <2>3. Moves(t, i, q) /\ rows' = rows
    BY <2>2, BeginMoves
  <2>4. At("RemoveRow", id) \notin ToSet(q)
    BY <2>2, PlainSteps DEF Fills, Removing
  <2> QED
    BY <1>1, <2>2, <2>3, <2>4, AfterMove
<1>4. ASSUME NEW t \in Thread, NEW i \in Id, remove(t, i) PROVE Goal
  <2>1. PICK q : q = <<At("RemoveRow", i)>>
    OBVIOUS
  <2>2. q \in Plans(i) /\ Begin(t, i, q, TRUE, TRUE) /\ ToSet(q) = {At("RemoveRow", i)}
    BY <1>4, <2>1, ShortPlans, OneStep DEF remove
  <2>3. Moves(t, i, q) /\ rows' = rows
    BY <2>2, BeginMoves
  <2>4. /\ reader'.must = reader.must \ {i} /\ reader'.on = reader.on
        /\ reader'.todo = reader.todo /\ reader'.got = reader.got
    BY <1>0, <1>4 DEF remove
  <2>5. At("RemoveRow", id) \notin ToSet(q)
    BY <2>2, <2>4, StepNames
  <2> QED
    BY <1>1, <2>3, <2>4, <2>5, AfterMove
<1>5. ASSUME NEW t \in Thread, NEW i \in Id, end(t, i) PROVE Goal
  <2>1. PICK q : q = <<At("EndRow", i)>>
    OBVIOUS
  <2>2. q \in Plans(i) /\ Begin(t, i, q, FALSE, TRUE) /\ ToSet(q) = {At("EndRow", i)} /\ reader' = reader
    BY <1>5, <2>1, ShortPlans, OneStep DEF end
  <2>3. Moves(t, i, q) /\ rows' = rows
    BY <2>2, BeginMoves
  <2>4. At("RemoveRow", id) \notin ToSet(q)
    BY <2>2, PlainSteps
  <2> QED
    BY <1>1, <2>2, <2>3, <2>4, AfterMove
<1>6. ASSUME NEW t \in Thread, Continue(t) PROVE Goal
  <2>0. PICK i : i = Row(t)
    OBVIOUS
  <2>1. ~Idle(t) /\ i \in Id /\ table' = table /\ reader' = reader
    BY <1>6, <2>0, CallFacts DEF Continue, InsertRow, AddToIndex, AddToBook, RemoveRow, RemoveFromIndex, RemoveKey,
       EndRow, RemoveFromBook, ReadBalance, StepRest
  <2>2. /\ id \in Id /\ rows[id] # "Absent" /\ \A u \in Thread : At("RemoveRow", id) \notin Left(u)
        /\ reader'.on /\ id \in reader'.todo \cup reader'.got
    BY <1>1, <2>1
  <2>3. ASSUME NEW q, Moves(t, i, q), At("RemoveRow", id) \notin ToSet(q), rows'[id] # "Absent" PROVE Goal
    BY <2>2, <2>3, AfterMove
  <2>4. rows \in [Id -> {"Absent", "Live", "Ended"}]
    BY DEF Types
  <2>5. Proceed(t) => Moves(t, i, Tail(pc[t])) /\ At("RemoveRow", id) \notin ToSet(Tail(pc[t]))
    BY <2>0, <2>1, <2>2, ProceedFacts
  <2>6. CASE InsertRow(t)
    <3>1. Proceed(t) /\ rows' = [rows EXCEPT ![i] = Step(t)] /\ Step(t) \in {"Live", "Ended"}
      BY <2>0, <2>6 DEF InsertRow
    <3> QED
      BY <2>2, <2>3, <2>4, <2>5, <3>1
  <2>7. CASE AddToIndex(t) \/ AddToBook(t) \/ RemoveKey(t) \/ RemoveFromBook(t) \/ ReadBalance(t)
    <3>1. Proceed(t) /\ rows' = rows
      BY <2>7 DEF AddToIndex, AddToBook, RemoveKey, RemoveFromBook, ReadBalance, store
    <3> QED
      BY <2>2, <2>3, <2>5, <3>1
  <2>8. CASE RemoveRow(t)
    <3>1. PICK r : r = IF rows[i] = "Absent" THEN <<>> ELSE AfterRemove(i, rows[i])
      OBVIOUS
    <3>2. Step(t) = "RemoveRow" /\ rows' = [rows EXCEPT ![i] = "Absent"] /\ pc' = [pc EXCEPT ![t] = r]
      BY <2>0, <2>8, <3>1 DEF RemoveRow
    <3>3. /\ r = <<>> \/ r \in Plans(i)
          /\ \A s \in ToSet(r) : s.step \in {"RemoveFromIndex", "RemoveKey", "RemoveFromBook"}
      <4>1. CASE rows[i] = "Absent"
        BY <3>1, <4>1, OneStep
      <4>2. CASE rows[i] # "Absent"
        BY <2>1, <3>1, <4>2, AfterRemovePlan
      <4> QED
        BY <4>1, <4>2
    <3>4. Moves(t, i, r)
      BY <2>1, <3>2, <3>3 DEF Moves
    <3>5. i # id
      BY <2>0, <2>1, <2>2, <3>2, OnlyRemoveRow
    <3>6. At("RemoveRow", id) \notin ToSet(r)
      BY <3>3, PlainSteps
    <3>7. rows'[id] # "Absent"
      BY <2>2, <2>4, <3>2, <3>5
    <3> QED
      BY <2>3, <3>4, <3>6, <3>7
  <2>9. CASE RemoveFromIndex(t)
    <3>1. PICK r : Moves(t, i, r) /\ ToSet(r) \subseteq Left(t)
      BY <2>0, <2>9, RemoveFromIndexMoves
    <3>2. rows' = rows
      BY <2>9 DEF RemoveFromIndex
    <3> QED
      BY <2>2, <2>3, <3>1, <3>2
  <2>10. CASE EndRow(t)
    <3>1. PICK r : r = IF table = "OrderTable" /\ rows[i] = "Live" THEN <<At("RemoveFromBook", i)>> ELSE <<>>
      OBVIOUS
    <3>2. /\ rows' = [rows EXCEPT ![i] = IF @ = "Absent" THEN @ ELSE "Ended"]
          /\ pc' = [pc EXCEPT ![t] = r]
      BY <2>0, <2>10, <3>1 DEF EndRow
    <3>3. Moves(t, i, r) /\ ToSet(r) \subseteq {At("RemoveFromBook", i)}
      BY <2>1, <3>1, <3>2, OneStep DEF Moves, Plans, OrderPlans
    <3>4. At("RemoveRow", id) \notin ToSet(r)
      BY <3>3, PlainSteps
    <3>5. rows'[id] # "Absent"
      BY <2>2, <2>4, <3>2
    <3> QED
      BY <2>3, <3>3, <3>4, <3>5
  <2> HIDE DEF Goal
  <2> QED
    BY <1>6, <2>6, <2>7, <2>8, <2>9, <2>10 DEF Continue
<1>7. ASSUME NEW k \in Key, BeginRead(k) PROVE Goal
  <2>1. /\ reader'.on /\ reader'.todo = Listed(k) /\ id \in Members(k) /\ k \notin raced
        /\ \A t \in Thread : ~On(t, id)
    BY <1>7 DEF BeginRead, On
  <2>2. rows' = rows /\ pc' = pc
    BY <1>7 DEF BeginRead, store
  <2>3. NoneMissing(k)
    BY <2>1 DEF Indexed, IndexAt
  <2>4. id \in Listed(k)
    BY <2>1, <2>3, OwnSteps DEF NoneMissing
  <2>5. \A t \in Thread : At("RemoveRow", id) \notin Left(t)
    BY <2>1, OwnSteps
  <2>6. rows[id] # "Absent"
    BY <2>1 DEF Members
  <2> QED
    BY <2>1, <2>2, <2>4, <2>5, <2>6 DEF Left
<1>8. ASSUME NEW i \in Id, ReadRow(i) PROVE Goal
  <2>1. /\ reader'.on = reader.on /\ reader'.must = reader.must /\ reader'.todo = reader.todo \ {i}
        /\ reader'.got = IF rows[i] = "Absent" THEN reader.got ELSE reader.got \cup {i}
    BY <1>0, <1>8 DEF ReadRow
  <2>2. rows' = rows /\ pc' = pc
    BY <1>8 DEF ReadRow, store
  <2> QED
    BY <1>1, <2>1, <2>2 DEF Left
<1>9. ~EndRead
  BY DEF EndRead, NoRead
<1>10. CASE UNCHANGED vars
  BY <1>1, <1>10 DEF vars, store, Left
<1>11. CASE \E t \in Thread, i \in Id :
                \/ \E status \in Status : insert(t, i, status)
                \/ \E op \in {"deposit", "withdraw"} : transfer(t, i, op)
                \/ remove(t, i)
                \/ end(t, i)
  BY <1>2, <1>3, <1>4, <1>5, <1>11 DEF Ops
<1>12. CASE (\E t \in Thread : Continue(t)) \/ (\E k \in Key : BeginRead(k)) \/ Read
  BY <1>6, <1>7, <1>8, <1>9, <1>12 DEF Read
<1> QED
  BY <1>10, <1>11, <1>12 DEF Next

-----------------------------------------------------------------------------
(* The theorems.                                                           *)

\* The invariant holds of empty tables.
LEMMA InitInv == Init => Inv
<1> SUFFICES ASSUME Init PROVE Inv
  OBVIOUS
<1>1. Types
  BY InitTypes
<1>2. /\ \A t \in Thread : Idle(t) /\ Left(t) = {}
      /\ \A id \in Id : rows[id] = "Absent" /\ book[id] = 0 /\ amount[id] = 0 /\ ledger[id] = 0
      /\ DOMAIN index = {} /\ reader.must = {}
  BY OneStep DEF Init, Idle, Left, NoRead
<1>3. \A k : Listed(k) = {} /\ Members(k) = {}
  BY <1>2 DEF Listed, Members
<1>4. \A t \in Thread : \A k : ~Touches(t, k) /\ ~Clears(t, k)
  BY <1>2 DEF Touches, Clears
<1>5. Indexed
  BY <1>2, <1>3, <1>4 DEF Indexed, IndexAt, NoneMissing, NoneExtra, EmptyIsDropped, DroppedIsEmpty, Alone, FoundIsOut,
     PutIsListed, AddedIsIn, PutIn
<1>6. \A t \in Thread : \A id : ~On(t, id)
  BY <1>2 DEF On
<1>7. Booked
  BY <1>2, <1>6 DEF Booked, BookAt, BookBy, PutIn, Single
<1>8. Balanced
  BY <1>2, <1>6 DEF Balanced, BalanceAt, Outcome, PutIn, Single
<1>9. Reading
  BY <1>2 DEF Reading
<1>10. EndsAlone
  BY <1>2, <1>6 DEF EndsAlone, EndAt
<1> QED
  BY <1>1, <1>5, <1>7, <1>8, <1>9, <1>10 DEF Inv

\* Every step preserves the invariant.
LEMMA NextInv == Inv /\ [Next]_vars => Inv'
BY NextTypes, NextIndexed, NextEnds, NextBooked, NextBalanced, NextReading DEF Inv

\* The inductive invariant: at every moment, what index, book and balances
\* lack or have too much is what the steps that calls have left will put right,
\* for every key, order and balance that no race has touched.
THEOREM Invariance == Spec => []Inv
<1>1. Init => Inv
  BY InitInv
<1>2. Inv /\ [Next]_vars => Inv'
  BY NextInv
<1> QED
  BY <1>1, <1>2, PTL DEF Spec

\* The invariant implies the type invariant.
LEMMA InvTypeOK == Inv => TypeOK
<1> SUFFICES ASSUME Inv PROVE TypeOK
  OBVIOUS
<1>1. Types
  BY DEF Inv
<1>2. ASSUME NEW t \in Thread, ~Idle(t) PROVE Row(t) \in Id /\ StepKey(t) \in Key \cup {NoKey}
  <2>1. Row(t) \in Id /\ PlanFacts(pc[t], Row(t))
    BY <1>1, <1>2, CallFacts
  <2>2. StepKey(t) \in (IF Step(t) \in Keyed THEN Keys(Row(t)) ELSE {NoKey})
    BY <2>1 DEF PlanFacts, ShapeOf, StepsOf, Step, StepKey
  <2>3. Keys(Row(t)) \subseteq Key
    BY <2>1, KeySets
  <2> QED
    BY <2>1, <2>2, <2>3
<1>3. \A k \in DOMAIN index : index[k] \subseteq Id
  BY <1>1 DEF Types
<1> QED
  BY <1>1, <1>2, <1>3 DEF TypeOK, Types

\* Every variable of the tables keeps its type through every interleaving of
\* calls, and the only guard held from one step to the next is the reader's.
THEOREM TypeCorrect == Spec => []TypeOK
BY Invariance, InvTypeOK, PTL

\* With no call under a key nothing is left to add, to find or to drop.
LEMMA InvIndexExact == Inv => IndexExact
<1> SUFFICES ASSUME Inv, NEW k \in Key \ raced, \A t \in Thread : ~Touches(t, k)
             PROVE  Listed(k) = Members(k) /\ (k \in DOMAIN index => Members(k) # {})
  BY DEF IndexExact
<1>1. Types /\ IndexAt(k)
  BY DEF Inv, Indexed
<1>2. \A t \in Thread : \A id : Add(id, k) \notin Left(t) /\ Find(id, k) \notin Left(t)
  BY <1>1, OwnSteps
<1>3. \A t \in Thread : ~Clears(t, k)
  BY <1>1, OwnSteps
<1>4. \A id \in Listed(k) : id \in Id /\ k \in Keys(id)
  BY <1>1 DEF Types, Listed
<1>5. \A t \in Thread, id \in Listed(k) : ~PutIn(id, Left(t))
  BY <1>1, <1>4, OwnSteps DEF On
<1>6. Listed(k) = Members(k)
  <2>1. Members(k) \subseteq Listed(k)
    BY <1>1, <1>2 DEF IndexAt, NoneMissing
  <2>2. Listed(k) \subseteq Members(k)
    BY <1>1, <1>2, <1>5 DEF IndexAt, NoneExtra
  <2> QED
    BY <2>1, <2>2
<1>7. k \in DOMAIN index => Listed(k) # {}
  BY <1>1, <1>3 DEF IndexAt, EmptyIsDropped, Listed
<1> QED
  BY <1>6, <1>7

\* by_user, by_market and user_tokens of positions.rs, orders.rs and
\* balances.rs: for any number of callers and rows, a key under which nobody
\* writes lists exactly its rows and is gone with the last of them, unless a
\* removal once overlapped another write under that key.
THEOREM IndexesExact == Spec => []IndexExact
BY Invariance, InvIndexExact, PTL

\* With no call on an order the book is settled.
LEMMA InvBookExact == Inv => BookExact
<1> SUFFICES ASSUME Inv, table = "OrderTable", NEW id \in Id \ (raced \cup replaced),
                    \A t \in Thread : ~Idle(t) => Row(t) # id
             PROVE  book[id] = IF rows[id] = "Live" THEN 1 ELSE 0
  BY DEF BookExact
<1>1. BookAt(id)
  BY DEF Inv, Booked
<1>2. BookBy({}, id)
  BY <1>1 DEF BookAt, On
<1> QED
  BY <1>2 DEF BookBy, PutIn

\* The order book of orders.rs holds every active order exactly once and no
\* other when no call on the order is under way, for any number of callers and
\* orders, unless the order's end or removal met another call on it, or it was
\* inserted again and has not left the book since.
THEOREM BooksExact == Spec => []BookExact
BY Invariance, InvBookExact, PTL

\* With no call on a balance it is what the ledger says.
LEMMA InvBalanceExact == Inv => BalanceExact
<1> SUFFICES ASSUME Inv, table = "BalanceCache", NEW id \in Id \ mixed,
                    \A t \in Thread : ~Idle(t) => Row(t) # id
             PROVE  amount[id] = ledger[id]
  BY DEF BalanceExact
<1>1. BalanceAt(id)
  BY DEF Inv, Balanced
<1>2. ledger[id] = Outcome({}, id, 0)
  BY <1>1 DEF BalanceAt, On
<1> QED
  BY <1>2 DEF Outcome, PutIn

\* The get() and set_raw() of the collateral events lose no update: a balance
\* on which no two calls overlapped is what its deposits, withdrawals, settings
\* and removals come to, whatever calls on other balances do meanwhile.
THEOREM BalancesExact == Spec => []BalanceExact
BY Invariance, InvBalanceExact, PTL

\* A read that has nothing left to do has returned what it had to.
LEMMA InvReadComplete == Inv => ReadComplete
BY DEF Inv, Reading, ReadComplete

\* by_user(), by_market() and user_balances() return every row that was
\* completely there when the call began and that nobody removed before it
\* ended, whatever is written while the rows are fetched one by one.
THEOREM ReadsComplete == Spec => []ReadComplete
BY Invariance, InvReadComplete, PTL

=============================================================================
