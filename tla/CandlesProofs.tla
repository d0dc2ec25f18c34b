--------------------------- MODULE CandlesProofs ----------------------------
(* Proofs about Candles: the candle files stay sorted, later records of a  *)
(* bucket cover the earlier ones, and the candles are those of the ticks.  *)
EXTENDS Candles, SequenceTheorems, TLAPS

-----------------------------------------------------------------------------
(* The inductive invariant.                                                *)

Candle == [start : Nat, open : Nat, high : Nat, low : Nat, close : Nat]
Tick == [time : Nat, price : Nat]
Held == {q \in Seq(Candle) : Len(q) <= 1}

Types ==
    /\ ticks \in Seq(Tick)
    /\ store \in [TF -> Seq(Candle)]
    /\ buffers \in [TF -> Held] /\ pending \in [TF -> Held] /\ flushing \in [TF -> Held]
    /\ fresh \in BOOLEAN /\ up \in BOOLEAN
    /\ calm \in BOOLEAN /\ ordered \in BOOLEAN /\ overtaken \in BOOLEAN

\* Where the calls can be: a process that has stored a candle of a timeframe,
\* or is about to, has a running one; shutdown() stores running candles, which
\* stay as they are while it holds the builder; and both calls have something
\* to store only when shutdown() came in between.
Calls ==
    /\ fresh => ticks # <<>> /\ pending = Nothing
    /\ ~up => ~fresh /\ pending = Nothing /\ flushing = Nothing
    /\ ~overtaken => flushing = Nothing \/ pending = Nothing
    /\ \A tf \in TF : flushing[tf] # <<>> => flushing[tf] = buffers[tf]
    /\ \A tf \in TF : pending[tf] # <<>> => buffers[tf] # <<>>
    /\ up => \A tf \in TF : store[tf] # <<>> => buffers[tf] # <<>>

\* Record b may follow record a in a file.
Covers(a, b) ==
    /\ a.start <= b.start
    /\ a.start = b.start => b.open = a.open /\ b.high >= a.high /\ b.low <= a.low

Precedes(q, r) == \A i \in 1..Len(q), j \in 1..Len(r) : Covers(q[i], r[j])
Rising(q) == \A i \in 1..Len(q), j \in 1..Len(q) : i < j => Covers(q[i], q[j])

\* No candle of q is of a later bucket than the last tick.
Past(ts, tf, q) == \A i \in 1..Len(q) : ts # <<>> /\ q[i].start <= bucket_start(tf, ts[Len(ts)].time)

\* What is stored, what is about to be and the running candle follow each
\* other, and none is ahead of the ticks.
Records(tf) ==
    /\ Rising(store[tf])
    /\ Precedes(store[tf], pending[tf]) /\ Precedes(store[tf], buffers[tf])
    /\ Precedes(pending[tf], buffers[tf])
    /\ Past(ticks, tf, store[tf]) /\ Past(ticks, tf, pending[tf]) /\ Past(ticks, tf, buffers[tf])

Ordered == ordered /\ ~overtaken => \A tf \in TF : Records(tf)

\* The first n ticks of ts that are of this bucket; c is their aggregate; q
\* is the series of their candles.
Upto(ts, tf, start, n) == {i \in 1..n : bucket_start(tf, ts[i].time) = start}

AggregateOf(ts, I, c) ==
    /\ \E i \in I : ts[i].price = c.open /\ \A j \in I : i <= j
    /\ \E i \in I : ts[i].price = c.close /\ \A j \in I : j <= i
    /\ \E i \in I : ts[i].price = c.high /\ \A j \in I : ts[j].price <= c.high
    /\ \E i \in I : ts[i].price = c.low /\ \A j \in I : ts[j].price >= c.low

SeriesOf(ts, tf, q, n) ==
    /\ \A i \in 1..Len(q) : AggregateOf(ts, Upto(ts, tf, q[i].start, n), q[i])
    /\ \A i \in 1..Len(q), j \in 1..Len(q) : i < j => q[i].start < q[j].start
    /\ \A k \in 1..n : \E i \in 1..Len(q) : bucket_start(tf, ts[k].time) = q[i].start

Done == IF fresh THEN Len(ticks) - 1 ELSE Len(ticks)
Series(tf) == (store[tf] \o pending[tf]) \o buffers[tf]

\* Before anything goes wrong and before any shutdown(), the candles are those
\* of the ticks that have been through on_tick().
Calm ==
    calm => /\ ordered /\ ~overtaken /\ flushing = Nothing
            /\ ~up => ticks = <<>> /\ \A tf \in TF : Series(tf) = <<>>
            /\ \A tf \in TF : SeriesOf(ticks, tf, Series(tf), Done)

Inv == Types /\ Calls /\ Ordered /\ Calm

-----------------------------------------------------------------------------
(* Buckets.                                                                *)

LEMMA Division ==
    ASSUME NEW d \in Nat \ {0}, NEW a \in Nat
    PROVE  a \div d \in Nat /\ a % d \in Nat /\ a % d < d /\ a = d * (a \div d) + (a % d)
OBVIOUS

\* bucket_start_ns() does not go below zero.
LEMMA BucketType ==
    ASSUME NEW tf \in TF, NEW t \in Nat
    PROVE  bucket_start(tf, t) \in Nat
<1> DEFINE d == Timeframes[tf]
           q == t \div d
           r == t % d
<1>0. d \in Nat \ {0}
  BY CandlesAssumption DEF TF
<1> HIDE DEF d
<1>1. q \in Nat /\ r \in Nat /\ r < d /\ t = d * q + r
  BY <1>0, Division
<1>2. d * q \in Nat
  BY <1>0, <1>1
<1> HIDE DEF q, r
<1>3. t - r = d * q
  BY <1>0, <1>1, <1>2
<1> QED
  BY <1>2, <1>3 DEF bucket_start, d, r

\* A later timestamp is of the same bucket or of a later one.
LEMMA BucketsRise ==
    ASSUME NEW tf \in TF, NEW a \in Nat, NEW b \in Nat, a <= b
    PROVE  bucket_start(tf, a) <= bucket_start(tf, b)
<1> DEFINE d == Timeframes[tf]
           q == a \div d
           r == a % d
           p == b \div d
           s == b % d
<1>0. d \in Nat \ {0}
  BY CandlesAssumption DEF TF
<1> HIDE DEF d
<1>1. q \in Nat /\ r \in Nat /\ r < d /\ a = d * q + r
  BY <1>0, Division
<1>2. p \in Nat /\ s \in Nat /\ s < d /\ b = d * p + s
  BY <1>0, Division
<1> HIDE DEF q, r, p, s
<1>3. d * q \in Nat /\ d * p \in Nat /\ d * (p + 1) = d * p + d
  BY <1>0, <1>1, <1>2
<1>4. q <= p
  <2> SUFFICES ASSUME q >= p + 1 PROVE FALSE
    BY <1>1, <1>2
  <2>1. d * q >= d * (p + 1)
    BY <1>0, <1>1, <1>2
  <2> QED
    BY <1>0, <1>1, <1>2, <1>3, <2>1
<1>5. d * q <= d * p
  BY <1>0, <1>1, <1>2, <1>4
<1>6. a - r = d * q /\ b - s = d * p
  BY <1>0, <1>1, <1>2, <1>3
<1> QED
  BY <1>5, <1>6 DEF bucket_start, d, r, s

-----------------------------------------------------------------------------
(* Candles and sequences of them.                                          *)

LEMMA CandleTypes ==
    ASSUME NEW start \in Nat, NEW p \in Nat, NEW c \in Candle
    PROVE  /\ NewBuffer(start, p) \in Candle
           /\ Update(c, p) \in Candle
           /\ NewBuffer(start, p).start = start
           /\ Update(c, p).start = c.start /\ Update(c, p).open = c.open /\ Update(c, p).close = p
           /\ Update(c, p).high = (IF p > c.high THEN p ELSE c.high)
           /\ Update(c, p).low = (IF p < c.low THEN p ELSE c.low)
BY DEF NewBuffer, Update, Candle

LEMMA CoversTransitive ==
    ASSUME NEW a \in Candle, NEW b \in Candle, NEW c \in Candle, Covers(a, b), Covers(b, c)
    PROVE  Covers(a, c)
BY DEF Covers, Candle

LEMMA UpdateCovers ==
    ASSUME NEW c \in Candle, NEW p \in Nat
    PROVE  Covers(c, Update(c, p)) /\ Covers(c, c)
BY CandleTypes DEF Covers, Candle

\* A held candle is none or one.
LEMMA HeldCases ==
    ASSUME NEW q \in Held
    PROVE  q = <<>> \/ (q[1] \in Candle /\ q = <<q[1]>> /\ Len(q) = 1)
<1>0. q \in Seq(Candle) /\ Len(q) <= 1
  BY DEF Held
<1>1. q \in Seq(Candle) /\ (Len(q) = 0 \/ Len(q) = 1)
  <2> DEFINE m == Len(q)
  <2>1. m \in Nat /\ m <= 1
    BY <1>0
  <2> HIDE DEF m
  <2>2. m = 0 \/ m = 1
    BY <2>1
  <2> QED
    BY <1>0, <2>2 DEF m
<1>2. CASE Len(q) = 0
  BY <1>1, <1>2
<1>3. CASE Len(q) = 1
  BY <1>1, <1>3
<1> QED
  BY <1>1, <1>2, <1>3

LEMMA OneIsHeld ==
    ASSUME NEW c \in Candle
    PROVE  <<c>> \in Held /\ <<>> \in Held /\ <<c>> # <<>> /\ <<c>>[1] = c /\ Len(<<c>>) = 1
BY DEF Held

-----------------------------------------------------------------------------
(* The candles of one more tick.                                           *)

LEMMA TickAt ==
    ASSUME NEW ts \in Seq(Tick), NEW n \in Nat, n + 1 <= Len(ts)
    PROVE  ts[n + 1].time \in Nat /\ ts[n + 1].price \in Nat
<1>1. n + 1 \in 1..Len(ts)
  <2> DEFINE m == Len(ts)
  <2>1. m \in Nat /\ n + 1 <= m
    OBVIOUS
  <2> HIDE DEF m
  <2>2. n + 1 \in 1..m
    BY <2>1
  <2> QED
    BY <2>2 DEF m
<1>2. ts[n + 1] \in Tick
  BY <1>1
<1> QED
  BY <1>2 DEF Tick

\* Ticks of other buckets leave an aggregate alone.
LEMMA OtherBucket ==
    ASSUME NEW ts, NEW tf, NEW start, NEW n \in Nat,
           bucket_start(tf, ts[n + 1].time) # start
    PROVE  Upto(ts, tf, start, n + 1) = Upto(ts, tf, start, n)
BY DEF Upto

\* Candles are those of the first n ticks, whatever comes behind them.
LEMMA SamePrefix ==
    ASSUME NEW ts, NEW us, NEW tf, NEW q, NEW n \in Nat,
           \A i \in 1..n : us[i] = ts[i], SeriesOf(ts, tf, q, n)
    PROVE  SeriesOf(us, tf, q, n)
<1>1. ASSUME NEW start PROVE Upto(us, tf, start, n) = Upto(ts, tf, start, n)
  BY DEF Upto
<1>2. ASSUME NEW c, AggregateOf(ts, Upto(ts, tf, c.start, n), c)
      PROVE  AggregateOf(us, Upto(us, tf, c.start, n), c)
  <2> DEFINE I == Upto(ts, tf, c.start, n)
  <2>1. \A i \in I : us[i] = ts[i]
    BY DEF Upto
  <2>2. Upto(us, tf, c.start, n) = I
    BY <1>1
  <2>3. AggregateOf(ts, I, c)
    BY <1>2
  <2> HIDE DEF I
  <2>4. AggregateOf(us, I, c)
    BY <2>1, <2>3 DEF AggregateOf
  <2> QED
    BY <2>2, <2>4
<1> QED
  BY <1>2 DEF SeriesOf

\* The tick opens a bucket behind all others.
LEMMA OpensBucket ==
    ASSUME NEW ts \in Seq(Tick), NEW tf \in TF, NEW q \in Seq(Candle), NEW n \in Nat, n + 1 <= Len(ts),
           SeriesOf(ts, tf, q, n),
           \A i \in 1..Len(q) : q[i].start < bucket_start(tf, ts[n + 1].time)
    PROVE  SeriesOf(ts, tf, Append(q, NewBuffer(bucket_start(tf, ts[n + 1].time), ts[n + 1].price)), n + 1)
<1> DEFINE t == ts[n + 1].time
           p == ts[n + 1].price
           b == bucket_start(tf, t)
           c == NewBuffer(b, p)
           r == Append(q, c)
<1>0. t \in Nat /\ p \in Nat
  BY TickAt
<1>1. b \in Nat
  BY <1>0, BucketType
<1> HIDE DEF t, p
<1>2. c.start = b /\ c.open = p /\ c.high = p /\ c.low = p /\ c.close = p /\ c \in Candle
  <2>1. c \in Candle
    BY <1>0, <1>1 DEF NewBuffer, Candle
  <2> QED
    BY <2>1 DEF NewBuffer
<1> HIDE DEF c
<1>3. /\ Len(r) = Len(q) + 1 /\ r[Len(q) + 1] = c
      /\ \A i \in 1..Len(q) : r[i] = q[i]
      /\ Len(q) \in Nat
  BY <1>2
<1>4. ASSUME NEW i \in 1..Len(q) PROVE q[i].start < b /\ q[i].start \in Nat
  <2>1. q[i] \in Candle
    OBVIOUS
  <2>2. q[i].start < b
    BY DEF t
  <2> QED
    BY <2>1, <2>2 DEF Candle
<1> HIDE DEF r, b
<1>5. ASSUME NEW i \in 1..Len(r) PROVE AggregateOf(ts, Upto(ts, tf, r[i].start, n + 1), r[i])
  <2>1. CASE i \in 1..Len(q)
    <3>1. r[i] = q[i] /\ b # q[i].start
      BY <1>1, <1>3, <1>4, <2>1
    <3>2. Upto(ts, tf, q[i].start, n + 1) = Upto(ts, tf, q[i].start, n)
      BY <3>1, OtherBucket DEF b, t
    <3>3. AggregateOf(ts, Upto(ts, tf, q[i].start, n), q[i])
      BY <2>1 DEF SeriesOf
    <3> QED
      BY <3>1, <3>2, <3>3
  <2>2. CASE i = Len(q) + 1
    <3>1. r[i] = c
      BY <1>3, <2>2
    <3>2. ASSUME NEW k \in 1..n PROVE bucket_start(tf, ts[k].time) # b
      <4>1. PICK m \in 1..Len(q) : bucket_start(tf, ts[k].time) = q[m].start
        BY DEF SeriesOf
      <4> QED
        BY <1>1, <1>4, <4>1
    <3>3. Upto(ts, tf, b, n + 1) = {n + 1}
      <4>1. bucket_start(tf, ts[n + 1].time) = b
        BY DEF b, t
      <4> QED
        BY <3>2, <4>1 DEF Upto
    <3>4. AggregateOf(ts, {n + 1}, c)
      BY <1>0, <1>2 DEF AggregateOf, p
    <3> QED
      BY <1>2, <3>1, <3>3, <3>4
  <2> QED
    BY <1>3, <2>1, <2>2
<1>6. ASSUME NEW i \in 1..Len(r), NEW j \in 1..Len(r), i < j PROVE r[i].start < r[j].start
  <2>1. CASE j = Len(q) + 1
    <3>1. i \in 1..Len(q)
      BY <1>3, <1>6, <2>1
    <3> QED
      BY <1>2, <1>3, <1>4, <2>1, <3>1
  <2>2. CASE j \in 1..Len(q)
    <3>1. i \in 1..Len(q)
      BY <1>3, <1>6, <2>2
    <3> QED
      BY <1>3, <1>6, <2>2, <3>1 DEF SeriesOf
  <2> QED
    BY <1>3, <2>1, <2>2
<1>7. ASSUME NEW k \in 1..(n + 1) PROVE \E i \in 1..Len(r) : bucket_start(tf, ts[k].time) = r[i].start
  <2>1. CASE k = n + 1
    <3>1. bucket_start(tf, ts[k].time) = r[Len(q) + 1].start /\ Len(q) + 1 \in 1..Len(r)
      BY <1>2, <1>3, <2>1 DEF b, t
    <3> QED
      BY <3>1
  <2>2. CASE k \in 1..n
    <3>1. PICK i \in 1..Len(q) : bucket_start(tf, ts[k].time) = q[i].start
      BY <2>2 DEF SeriesOf
    <3>2. i \in 1..Len(r) /\ r[i] = q[i]
      BY <1>3
    <3> QED
      BY <3>1, <3>2
  <2> QED
    BY <2>1, <2>2
<1>8. SeriesOf(ts, tf, r, n + 1)
  BY <1>5, <1>6, <1>7 DEF SeriesOf
<1> QED
  BY <1>8 DEF r, c, b, t, p

\* The tick is of the running bucket, the last one.
LEMMA StaysInBucket ==
    ASSUME NEW ts \in Seq(Tick), NEW tf \in TF, NEW q \in Seq(Candle), NEW c \in Candle,
           NEW n \in Nat, n + 1 <= Len(ts),
           SeriesOf(ts, tf, Append(q, c), n),
           c.start = bucket_start(tf, ts[n + 1].time)
    PROVE  SeriesOf(ts, tf, Append(q, Update(c, ts[n + 1].price)), n + 1)
<1> DEFINE p == ts[n + 1].price
           b == bucket_start(tf, ts[n + 1].time)
           d == Update(c, p)
           old == Append(q, c)
           new == Append(q, d)
<1>0. p \in Nat
  BY TickAt
<1> HIDE DEF p
<1>1. /\ d \in Candle /\ d.start = c.start /\ d.open = c.open /\ d.close = p
      /\ d.high = (IF p > c.high THEN p ELSE c.high) /\ d.low = (IF p < c.low THEN p ELSE c.low)
      /\ c.high \in Nat /\ c.low \in Nat /\ c.start \in Nat
  <2>1. 0 \in Nat
    OBVIOUS
  <2>2. c.high \in Nat /\ c.low \in Nat /\ c.start \in Nat
    BY DEF Candle
  <2> QED
    BY <1>0, <2>1, <2>2, CandleTypes
<1> HIDE DEF d
<1>2. /\ Len(new) = Len(q) + 1 /\ new[Len(q) + 1] = d /\ Len(old) = Len(q) + 1 /\ old[Len(q) + 1] = c
      /\ \A i \in 1..Len(q) : new[i] = q[i] /\ old[i] = q[i]
      /\ Len(q) \in Nat
  BY <1>1
<1>3. SeriesOf(ts, tf, old, n) /\ b = c.start
  OBVIOUS
<1> HIDE DEF old, new, b
<1>4. ASSUME NEW i \in 1..Len(q) PROVE q[i].start < c.start /\ q[i].start \in Nat
  <2>1. i < Len(q) + 1 /\ i \in 1..Len(old) /\ Len(q) + 1 \in 1..Len(old)
    BY <1>2
  <2>2. old[i].start < old[Len(q) + 1].start
    BY <1>3, <2>1 DEF SeriesOf
  <2>3. q[i] \in Candle
    OBVIOUS
  <2> QED
    BY <1>2, <2>2, <2>3 DEF Candle
<1>5. ASSUME NEW i \in 1..Len(q) PROVE AggregateOf(ts, Upto(ts, tf, q[i].start, n + 1), q[i])
  <2>1. b # q[i].start
    BY <1>1, <1>3, <1>4
  <2>2. Upto(ts, tf, q[i].start, n + 1) = Upto(ts, tf, q[i].start, n)
    BY <2>1, OtherBucket DEF b
  <2>3. i \in 1..Len(old) /\ old[i] = q[i]
    BY <1>2
  <2>4. AggregateOf(ts, Upto(ts, tf, old[i].start, n), old[i])
    BY <1>3, <2>3 DEF SeriesOf
  <2> QED
    BY <2>2, <2>3, <2>4
<1>6. AggregateOf(ts, Upto(ts, tf, d.start, n + 1), d)
  <2> DEFINE I == Upto(ts, tf, c.start, n)
             J == I \cup {n + 1}
  <2>1. Upto(ts, tf, d.start, n + 1) = J
    BY <1>1, <1>3 DEF Upto, b
  <2>2. I \subseteq 1..n
    BY DEF Upto
  <2>3. AggregateOf(ts, I, c)
    <3>1. Len(q) + 1 \in 1..Len(old) /\ old[Len(q) + 1] = c
      BY <1>2
    <3> QED
      BY <1>3, <3>1 DEF SeriesOf
  <2>4. ASSUME NEW i \in J PROVE ts[i].price \in Nat
    <3>1. CASE i = n + 1
      BY <3>1, TickAt
    <3>2. CASE i \in 1..n
      <4>1. i - 1 \in Nat /\ (i - 1) + 1 = i /\ (i - 1) + 1 <= Len(ts)
        BY <3>2
      <4>2. ts[(i - 1) + 1].price \in Nat
        BY <4>1, TickAt
      <4> QED
        BY <4>1, <4>2
    <3> QED
      BY <2>2, <3>1, <3>2
  <2>5. ts[n + 1].price = p
    BY DEF p
  <2> HIDE DEF I
  <2>6. \E i \in J : ts[i].price = d.open /\ \A j \in J : i <= j
    BY <1>1, <2>2, <2>3 DEF AggregateOf
  <2>7. \E i \in J : ts[i].price = d.close /\ \A j \in J : j <= i
    <3>1. \A j \in J : j <= n + 1
      BY <2>2
    <3> QED
      BY <1>1, <2>5, <3>1
  <2>8. \E i \in J : ts[i].price = d.high /\ \A j \in J : ts[j].price <= d.high
    <3>1. PICK i \in I : ts[i].price = c.high /\ \A j \in I : ts[j].price <= c.high
      BY <2>3 DEF AggregateOf
    <3>2. CASE p > c.high
      BY <1>0, <1>1, <2>4, <2>5, <3>1, <3>2
    <3>3. CASE ~(p > c.high)
      BY <1>0, <1>1, <2>4, <2>5, <3>1, <3>3
    <3> QED
      BY <3>2, <3>3
  <2>9. \E i \in J : ts[i].price = d.low /\ \A j \in J : ts[j].price >= d.low
    <3>1. PICK i \in I : ts[i].price = c.low /\ \A j \in I : ts[j].price >= c.low
      BY <2>3 DEF AggregateOf
    <3>2. CASE p < c.low
      BY <1>0, <1>1, <2>4, <2>5, <3>1, <3>2
    <3>3. CASE ~(p < c.low)
      BY <1>0, <1>1, <2>4, <2>5, <3>1, <3>3
    <3> QED
      BY <3>2, <3>3
  <2>10. AggregateOf(ts, J, d)
    BY <2>6, <2>7, <2>8, <2>9 DEF AggregateOf
  <2> QED
    BY <2>1, <2>10
<1>7. ASSUME NEW i \in 1..Len(new) PROVE AggregateOf(ts, Upto(ts, tf, new[i].start, n + 1), new[i])
  <2>1. CASE i = Len(q) + 1
    BY <1>2, <1>6, <2>1
  <2>2. CASE i \in 1..Len(q)
    BY <1>2, <1>5, <2>2
  <2> QED
    BY <1>2, <2>1, <2>2
<1>8. \A i \in 1..Len(new) : i \in 1..Len(old) /\ new[i].start = old[i].start
  BY <1>1, <1>2
<1>9. ASSUME NEW i \in 1..Len(new), NEW j \in 1..Len(new), i < j PROVE new[i].start < new[j].start
  BY <1>3, <1>8, <1>9 DEF SeriesOf
<1>10. ASSUME NEW k \in 1..(n + 1) PROVE \E i \in 1..Len(new) : bucket_start(tf, ts[k].time) = new[i].start
  <2>1. CASE k = n + 1
    <3>1. bucket_start(tf, ts[k].time) = new[Len(q) + 1].start /\ Len(q) + 1 \in 1..Len(new)
      BY <1>1, <1>2, <1>3, <2>1 DEF b
    <3> QED
      BY <3>1
  <2>2. CASE k \in 1..n
    <3>1. PICK i \in 1..Len(old) : bucket_start(tf, ts[k].time) = old[i].start
      BY <1>3, <2>2 DEF SeriesOf
    <3>2. i \in 1..Len(new) /\ new[i].start = old[i].start
      BY <1>1, <1>2
    <3> QED
      BY <3>1, <3>2
  <2> QED
    BY <2>1, <2>2
<1>11. SeriesOf(ts, tf, new, n + 1)
  BY <1>7, <1>9, <1>10 DEF SeriesOf
<1> QED
  BY <1>11 DEF new, d, p

-----------------------------------------------------------------------------
(* What the steps do to one timeframe.                                     *)

Newest == ticks[Len(ticks)]
Bucket(tf) == bucket_start(tf, Newest.time)

LEMMA NewestType ==
    ASSUME Types, ticks # <<>>
    PROVE  Newest \in Tick /\ Newest.time \in Nat /\ Newest.price \in Nat /\ \A tf \in TF : Bucket(tf) \in Nat
<1>1. Len(ticks) \in 1..Len(ticks) /\ ticks \in Seq(Tick)
  BY DEF Types
<1>2. Newest \in Tick
  BY <1>1 DEF Newest
<1>3. Newest.time \in Nat /\ Newest.price \in Nat
  BY <1>2 DEF Tick
<1> QED
  BY <1>2, <1>3, BucketType DEF Bucket

LEMMA HeldTypes ==
    ASSUME Types, NEW tf \in TF
    PROVE  /\ buffers[tf] \in Held /\ pending[tf] \in Held /\ flushing[tf] \in Held
           /\ store[tf] \in Seq(Candle)
           /\ buffers[tf] \in Seq(Candle) /\ pending[tf] \in Seq(Candle) /\ flushing[tf] \in Seq(Candle)
BY DEF Types, Held

LEMMA NothingIs == Nothing \in [TF -> Held] /\ \A tf \in TF : Nothing[tf] = <<>>
BY DEF Nothing, Held

\* on_tick() opens the first candle, closes one and opens the next, or
\* updates the running one.
Opens(tf) == buffers[tf] = <<>> /\ pending'[tf] = <<>> /\ buffers'[tf] = <<NewBuffer(Bucket(tf), Newest.price)>>
Closes(tf, c) ==
    /\ buffers[tf] = <<c>> /\ c.start # Bucket(tf) /\ pending'[tf] = <<c>>
    /\ buffers'[tf] = <<NewBuffer(Bucket(tf), Newest.price)>>
Updates(tf, c) ==
    /\ buffers[tf] = <<c>> /\ c.start = Bucket(tf) /\ pending'[tf] = <<>>
    /\ buffers'[tf] = <<Update(c, Newest.price)>>

LEMMA TickCases ==
    ASSUME Types, on_tick, NEW tf \in TF
    PROVE  Opens(tf) \/ \E c \in Candle : Closes(tf, c) \/ Updates(tf, c)
<1>1. buffers'[tf] = IF buffers[tf] = <<>> \/ Crosses(tf, Newest.time)
                       THEN <<NewBuffer(Bucket(tf), Newest.price)>>
                       ELSE <<Update(buffers[tf][1], Newest.price)>>
  BY DEF on_tick, Newest, Bucket
<1>2. pending'[tf] = IF Crosses(tf, Newest.time) THEN buffers[tf] ELSE <<>>
  BY DEF on_tick, Newest
<1>3. Crosses(tf, Newest.time) <=> buffers[tf] # <<>> /\ buffers[tf][1].start # Bucket(tf)
  BY DEF Crosses, Bucket
<1>4. buffers[tf] = <<>> \/ (buffers[tf][1] \in Candle /\ buffers[tf] = <<buffers[tf][1]>> /\ Len(buffers[tf]) = 1)
  BY HeldTypes, HeldCases
<1>5. CASE buffers[tf] = <<>>
  BY <1>1, <1>2, <1>3, <1>5 DEF Opens
<1>6. CASE buffers[tf] # <<>>
  <2> DEFINE c == buffers[tf][1]
  <2>1. c \in Candle /\ buffers[tf] = <<c>>
    BY <1>4, <1>6
  <2>2. CASE c.start # Bucket(tf)
    BY <1>1, <1>2, <1>3, <1>6, <2>1, <2>2 DEF Closes
  <2>3. CASE c.start = Bucket(tf)
    BY <1>1, <1>2, <1>3, <1>6, <2>1, <2>3 DEF Updates
  <2> QED
    BY <2>1, <2>2, <2>3
<1> QED
  BY <1>5, <1>6

LEMMA TickTypes ==
    ASSUME Types, Calls, on_tick, NEW tf \in TF
    PROVE  /\ buffers'[tf] \in Held /\ pending'[tf] \in Held /\ buffers'[tf] # <<>>
           /\ buffers'[tf] \in Seq(Candle) /\ pending'[tf] \in Seq(Candle)
<1>1. Bucket(tf) \in Nat /\ Newest.price \in Nat
  <2>1. ticks # <<>>
    BY DEF on_tick, Calls
  <2> QED
    BY <2>1, NewestType
<1>2. NewBuffer(Bucket(tf), Newest.price) \in Candle
  BY <1>1 DEF NewBuffer, Candle
<1>3. CASE Opens(tf)
  BY <1>2, <1>3, OneIsHeld DEF Opens, Held
<1>4. ASSUME NEW c \in Candle, Closes(tf, c) PROVE buffers'[tf] \in Held /\ pending'[tf] \in Held /\ buffers'[tf] # <<>>
  BY <1>2, <1>4, OneIsHeld DEF Closes
<1>5. ASSUME NEW c \in Candle, Updates(tf, c) PROVE buffers'[tf] \in Held /\ pending'[tf] \in Held /\ buffers'[tf] # <<>>
  <2>1. Update(c, Newest.price) \in Candle
    BY <1>1, CandleTypes
  <2> QED
    BY <1>5, <2>1, OneIsHeld DEF Updates
<1>6. buffers'[tf] \in Held /\ pending'[tf] \in Held /\ buffers'[tf] # <<>>
  BY <1>3, <1>4, <1>5, TickCases
<1> QED
  BY <1>6 DEF Held

\* open(): the running candle is the last stored one.
LEMMA SeedFacts ==
    ASSUME Types, NEW tf \in TF
    PROVE  /\ Seeded(tf) \in Held
           /\ store[tf] = <<>> => Seeded(tf) = <<>>
           /\ store[tf] # <<>> => /\ Len(store[tf]) \in 1..Len(store[tf]) /\ store[tf][Len(store[tf])] \in Candle
                                  /\ Seeded(tf) = <<store[tf][Len(store[tf])]>>
<1>1. store[tf] \in Seq(Candle)
  BY HeldTypes
<1>2. CASE store[tf] = <<>>
  BY <1>2 DEF Seeded, Held
<1>3. CASE store[tf] # <<>>
  <2>1. Len(store[tf]) \in 1..Len(store[tf])
    BY <1>1, <1>3
  <2>2. store[tf][Len(store[tf])] \in Candle
    BY <1>1, <2>1
  <2> QED
    BY <1>3, <2>1, <2>2, OneIsHeld DEF Seeded
<1> QED
  BY <1>2, <1>3

-----------------------------------------------------------------------------
(* Types and Calls.                                                        *)

LEMMA InitInv == CandlesInit => Inv
<1> SUFFICES ASSUME CandlesInit PROVE Inv
  OBVIOUS
<1>1. store = Nothing /\ buffers = Nothing /\ pending = Nothing /\ flushing = Nothing /\ ticks = <<>>
      /\ fresh = FALSE /\ up = FALSE /\ calm = TRUE /\ ordered = TRUE /\ overtaken = FALSE
  BY DEF CandlesInit
<1>2. Types
  <2>1. Nothing \in [TF -> Seq(Candle)]
    BY DEF Nothing
  <2>2. ticks \in Seq(Tick)
    BY <1>1
  <2>3. /\ fresh \in BOOLEAN /\ up \in BOOLEAN
        /\ calm \in BOOLEAN /\ ordered \in BOOLEAN /\ overtaken \in BOOLEAN
    BY <1>1
  <2>4. /\ store \in [TF -> Seq(Candle)] /\ buffers \in [TF -> Held]
        /\ pending \in [TF -> Held] /\ flushing \in [TF -> Held]
    BY <1>1, <2>1, NothingIs
  <2> QED
    BY <2>2, <2>3, <2>4 DEF Types
<1>3. Calls
  BY <1>1, NothingIs DEF Calls
<1>4. \A tf \in TF : store[tf] = <<>> /\ buffers[tf] = <<>> /\ pending[tf] = <<>>
  BY <1>1, NothingIs
<1>5. Ordered
  BY <1>4 DEF Ordered, Records, Rising, Precedes, Past
<1>6. \A tf \in TF : Series(tf) = <<>>
  BY <1>4 DEF Series
<1>7. Calm
  BY <1>1, <1>6 DEF Calm, SeriesOf, Done
<1> QED
  BY <1>2, <1>3, <1>5, <1>7 DEF Inv

LEMMA NextTypes == Types /\ Calls /\ [CandlesNext]_candlesVars => Types' /\ Calls'
<1> SUFFICES ASSUME Types, Calls, [CandlesNext]_candlesVars PROVE Types' /\ Calls'
  OBVIOUS
<1>1. CASE open
  <2>1. buffers' = [tf \in TF |-> Seeded(tf)]
    BY <1>1 DEF open
  <2>2. buffers' \in [TF -> Held]
    BY <2>1, SeedFacts
  <2>3. /\ up' /\ UNCHANGED <<ticks, store, pending, flushing, fresh, calm, ordered, overtaken>>
        /\ pending = Nothing /\ flushing = Nothing /\ up' \in BOOLEAN
    BY <1>1 DEF open, Calls
  <2>4. ASSUME NEW tf \in TF, store[tf] # <<>> PROVE buffers'[tf] # <<>>
    BY <2>1, <2>4, SeedFacts
  <2> QED
    BY <2>2, <2>3, <2>4, NothingIs DEF Types, Calls
<1>2. ASSUME NEW t \in Time, NEW p \in Prices, StoreTick(t, p) PROVE Types' /\ Calls'
  <2>1. [time |-> t, price |-> p] \in Tick
    BY CandlesAssumption DEF Time, Tick
  <2> DEFINE x == [time |-> t, price |-> p]
  <2>2. ticks' # <<>> /\ ticks' \in Seq(Tick)
    <3>1. x \in Tick /\ ticks \in Seq(Tick) /\ ticks' = Append(ticks, x)
      BY <1>2, <2>1 DEF StoreTick, Types
    <3> HIDE DEF x
    <3> QED
      BY <3>1
  <2>3. /\ fresh' = TRUE /\ pending = Nothing /\ up
        /\ UNCHANGED <<store, buffers, pending, flushing, up, overtaken>>
    BY <1>2 DEF StoreTick, Idle
  <2>4. calm' \in BOOLEAN /\ ordered' \in BOOLEAN
    BY <1>2 DEF StoreTick, Types
  <2> QED
    BY <2>2, <2>3, <2>4 DEF Types, Calls
<1>3. CASE on_tick
  <2>1. DOMAIN buffers' = TF /\ DOMAIN pending' = TF /\ buffers' \in [TF -> Held] /\ pending' \in [TF -> Held]
    <3>1. buffers' = [tf \in TF |-> buffers'[tf]] /\ pending' = [tf \in TF |-> pending'[tf]]
      BY <1>3 DEF on_tick
    <3> QED
      BY <1>3, <3>1, TickTypes
  <2>2. fresh' = FALSE /\ up /\ flushing = Nothing /\ UNCHANGED <<ticks, store, flushing, up, calm, ordered, overtaken>>
    BY <1>3 DEF on_tick
  <2>3. \A tf \in TF : buffers'[tf] # <<>>
    BY <1>3, TickTypes
  <2> QED
    BY <2>1, <2>2, <2>3, NothingIs DEF Types, Calls
<1>4. ASSUME NEW tf \in TF, AppendCandle(tf) PROVE Types' /\ Calls'
  <2>1. /\ pending[tf] # <<>> /\ up /\ store' = [store EXCEPT ![tf] = @ \o pending[tf]]
        /\ pending' = [pending EXCEPT ![tf] = <<>>]
        /\ flushing = Nothing
        /\ UNCHANGED <<ticks, buffers, flushing, fresh, up, calm, ordered, overtaken>>
    BY <1>4 DEF AppendCandle, IsNext
  <2>2. store[tf] \o pending[tf] \in Seq(Candle)
    BY HeldTypes, ConcatProperties
  <2>3. store' \in [TF -> Seq(Candle)] /\ pending' \in [TF -> Held]
    <3>1. <<>> \in Held
      BY DEF Held
    <3> QED
      BY <2>1, <2>2, <3>1 DEF Types
  <2>4. ~fresh
    BY <2>1, NothingIs DEF Calls
  <2>5. Types'
    BY <2>1, <2>3 DEF Types
  <2>6. \A other \in TF : pending'[other] # <<>> => buffers'[other] # <<>>
    BY <2>1 DEF Types, Calls
  <2>7. \A other \in TF : store'[other] # <<>> => buffers'[other] # <<>>
    BY <2>1 DEF Types, Calls
  <2> QED
    BY <2>1, <2>4, <2>5, <2>6, <2>7, NothingIs DEF Calls
<1>5. CASE AppendCandleFails
  BY <1>5, NothingIs DEF AppendCandleFails, Types, Calls
<1>6. CASE shutdown
  <2>1. /\ flushing' = buffers /\ calm' = FALSE /\ overtaken' = (overtaken \/ pending # Nothing)
        /\ up /\ UNCHANGED <<ticks, store, buffers, pending, fresh, up, ordered>>
    BY <1>6 DEF shutdown, flush_all
  <2>2. Types'
    BY <2>1 DEF Types
  <2> QED
    BY <2>1, <2>2 DEF Calls
<1>7. ASSUME NEW tf \in TF, AppendFlushed(tf) PROVE Types' /\ Calls'
  <2>1. /\ flushing[tf] # <<>> /\ up /\ store' = [store EXCEPT ![tf] = @ \o flushing[tf]]
        /\ flushing' = [flushing EXCEPT ![tf] = <<>>]
        /\ UNCHANGED <<ticks, buffers, pending, fresh, up, calm, ordered, overtaken>>
    BY <1>7 DEF AppendFlushed, IsNext
  <2>2. store[tf] \o flushing[tf] \in Seq(Candle)
    BY HeldTypes, ConcatProperties
  <2>3. store' \in [TF -> Seq(Candle)] /\ flushing' \in [TF -> Held]
    <3>1. <<>> \in Held
      BY DEF Held
    <3> QED
      BY <2>1, <2>2, <3>1 DEF Types
  <2>4. Types'
    BY <2>1, <2>3 DEF Types
  <2>5. \A other \in TF : flushing'[other] # <<>> => flushing'[other] = buffers'[other]
    BY <2>1 DEF Types, Calls
  <2>6. \A other \in TF : store'[other] # <<>> => buffers'[other] # <<>>
    BY <2>1 DEF Types, Calls
  <2>7. flushing # Nothing
    BY <2>1, NothingIs
  <2> QED
    BY <2>1, <2>4, <2>5, <2>6, <2>7 DEF Calls
<1>8. CASE AppendFlushedFails
  BY <1>8, NothingIs DEF AppendFlushedFails, Types, Calls
<1>9. CASE Exit
  BY <1>9, NothingIs DEF Exit, Types, Calls
<1>10. CASE UNCHANGED candlesVars
  BY <1>10 DEF candlesVars, Types, Calls
<1> QED
  BY <1>1, <1>2, <1>3, <1>4, <1>5, <1>6, <1>7, <1>8, <1>9, <1>10 DEF CandlesNext

-----------------------------------------------------------------------------
(* Ordered.                                                                *)

LEMMA PastLater ==
    ASSUME NEW ts \in Seq(Tick), NEW x \in Tick, NEW tf \in TF, NEW q \in Seq(Candle),
           Past(ts, tf, q), ts # <<>> => ts[Len(ts)].time <= x.time
    PROVE  Past(Append(ts, x), tf, q)
<1> DEFINE us == Append(ts, x)
<1>1. us # <<>> /\ us[Len(us)] = x
  OBVIOUS
<1>2. ASSUME NEW i \in 1..Len(q) PROVE q[i].start <= bucket_start(tf, x.time)
  <2>1. ts # <<>> /\ q[i].start <= bucket_start(tf, ts[Len(ts)].time)
    BY DEF Past
  <2> DEFINE y == ts[Len(ts)]
  <2>2. y \in Tick
    <3>1. Len(ts) \in 1..Len(ts)
      BY <2>1
    <3> QED
      BY <3>1
  <2>3. y.time <= x.time /\ q[i].start <= bucket_start(tf, y.time)
    BY <2>1
  <2> HIDE DEF y
  <2>4. y.time \in Nat /\ x.time \in Nat
    BY <2>2 DEF Tick
  <2>5. bucket_start(tf, y.time) <= bucket_start(tf, x.time)
    BY <2>3, <2>4, BucketsRise
  <2>6. bucket_start(tf, y.time) \in Nat /\ bucket_start(tf, x.time) \in Nat
    BY <2>4, BucketType
  <2>7. q[i] \in Candle
    OBVIOUS
  <2>8. q[i].start \in Nat
    BY <2>7 DEF Candle
  <2> QED
    BY <2>3, <2>5, <2>6, <2>8
<1> HIDE DEF us
<1>3. Past(us, tf, q)
  BY <1>1, <1>2 DEF Past
<1> QED
  BY <1>3 DEF us

LEMMA OpenOrdered ==
    ASSUME Inv, open
    PROVE  Ordered'
<1> SUFFICES ASSUME ordered, ~overtaken, NEW tf \in TF PROVE Records(tf)'
  BY DEF Ordered, open
<1>1. /\ buffers'[tf] = Seeded(tf) /\ store'[tf] = store[tf] /\ pending'[tf] = <<>> /\ ticks' = ticks
  BY NothingIs DEF open, Inv, Calls
<1>2. Records(tf)
  BY DEF Inv, Ordered
<1>3. store[tf] \in Seq(Candle)
  BY HeldTypes DEF Inv
<1>4. CASE store[tf] = <<>>
  <2>1. Seeded(tf) = <<>>
    BY <1>4, SeedFacts DEF Inv
  <2> QED
    BY <1>1, <1>4, <2>1 DEF Records, Rising, Precedes, Past
<1>5. CASE store[tf] # <<>>
  <2> DEFINE n == Len(store[tf])
             c == store[tf][n]
  <2>1. Seeded(tf) = <<c>> /\ n \in 1..n /\ c \in Candle /\ n \in Nat
    BY <1>3, <1>5, SeedFacts DEF Inv
  <2>2. ASSUME NEW i \in 1..n PROVE Covers(store[tf][i], c)
    <3>1. CASE i < n
      BY <1>2, <2>1, <3>1 DEF Records, Rising
    <3>2. CASE i = n
      BY <2>1, <3>2, UpdateCovers
    <3> QED
      BY <2>1, <3>1, <3>2
  <2>3. Precedes(store[tf], <<c>>)
    BY <2>2 DEF Precedes
  <2>4. Past(ticks, tf, <<c>>)
    BY <1>2, <2>1 DEF Records, Past
  <2> QED
    BY <1>1, <1>2, <2>1, <2>3, <2>4 DEF Records, Precedes, Past
<1> QED
  BY <1>4, <1>5

LEMMA StoreOrdered ==
    ASSUME Inv, NEW t \in Time, NEW p \in Prices, StoreTick(t, p)
    PROVE  Ordered'
<1> DEFINE x == [time |-> t, price |-> p]
<1> SUFFICES ASSUME ordered', ~overtaken', NEW tf \in TF PROVE Records(tf)'
  BY DEF Ordered
<1>1. x \in Tick /\ x.time = t
  BY CandlesAssumption DEF Time, Tick
<1>2. /\ ticks' = Append(ticks, x) /\ UNCHANGED <<store, buffers, pending>>
      /\ ordered /\ ~overtaken /\ ~(ticks # <<>> /\ t < ticks[Len(ticks)].time)
  BY DEF StoreTick
<1> HIDE DEF x
<1>3. Records(tf)
  BY <1>2 DEF Inv, Ordered
<1>4. ticks # <<>> => ticks[Len(ticks)].time <= x.time
  <2> SUFFICES ASSUME ticks # <<>> PROVE Newest.time <= x.time
    BY DEF Newest
  <2>1. Newest.time \in Nat /\ t \in Nat
    BY NewestType, CandlesAssumption DEF Inv, Time
  <2>2. ~(t < Newest.time)
    BY <1>2 DEF Newest
  <2> QED
    BY <1>1, <2>1, <2>2
<1>5. ticks \in Seq(Tick) /\ store[tf] \in Seq(Candle) /\ buffers[tf] \in Seq(Candle) /\ pending[tf] \in Seq(Candle)
  BY HeldTypes DEF Inv, Types
<1>6. Past(ticks', tf, store[tf]) /\ Past(ticks', tf, buffers[tf]) /\ Past(ticks', tf, pending[tf])
  BY <1>1, <1>2, <1>3, <1>4, <1>5, PastLater DEF Records
<1> QED
  BY <1>2, <1>3, <1>6 DEF Records

\* A new bucket is behind everything the timeframe has.
LEMMA BehindAll ==
    ASSUME Inv, ticks # <<>>, NEW tf \in TF, NEW q \in Seq(Candle), NEW c \in Candle,
           Past(ticks, tf, <<c>>), c.start # Bucket(tf), Precedes(q, <<c>>)
    PROVE  /\ c.start < Bucket(tf)
           /\ \A i \in 1..Len(q) : q[i].start < Bucket(tf)
<1>1. c.start \in Nat /\ Bucket(tf) \in Nat
  BY NewestType DEF Inv, Candle
<1>2. c.start <= Bucket(tf)
  BY DEF Past, Bucket, Newest
<1>3. c.start < Bucket(tf)
  BY <1>1, <1>2
<1>4. ASSUME NEW i \in 1..Len(q) PROVE q[i].start < Bucket(tf)
  <2>1. q[i] \in Candle
    OBVIOUS
  <2>2. q[i].start \in Nat
    BY <2>1 DEF Candle
  <2>3. q[i].start <= c.start
    BY DEF Precedes, Covers
  <2> QED
    BY <1>1, <1>3, <2>2, <2>3
<1> QED
  BY <1>3, <1>4

LEMMA TickOrdered ==
    ASSUME Inv, on_tick
    PROVE  Ordered'
<1> SUFFICES ASSUME ordered, ~overtaken, NEW tf \in TF PROVE Records(tf)'
  BY DEF Ordered, on_tick
<1>1. ticks # <<>> /\ pending[tf] = <<>> /\ store'[tf] = store[tf] /\ ticks' = ticks /\ up
  BY NothingIs DEF Inv, Calls, on_tick
<1>2. Records(tf)
  BY DEF Inv, Ordered
<1>3. Bucket(tf) \in Nat /\ Newest.price \in Nat /\ store[tf] \in Seq(Candle)
  BY <1>1, NewestType, HeldTypes DEF Inv
<1> DEFINE new == NewBuffer(Bucket(tf), Newest.price)
           s == store[tf]
<1>4. new.start = Bucket(tf)
  BY DEF NewBuffer
<1>5. Past(ticks, tf, <<new>>)
  BY <1>1, <1>3, <1>4 DEF Past, Bucket, Newest
<1> HIDE DEF new
<1>6. CASE Opens(tf)
  <2>1. store[tf] = <<>> /\ buffers'[tf] = <<new>> /\ pending'[tf] = <<>>
    BY <1>1, <1>6 DEF Opens, Inv, Calls, new
  <2> QED
    BY <1>1, <1>2, <1>5, <2>1 DEF Records, Precedes, Past
<1>7. ASSUME NEW c \in Candle, Closes(tf, c) PROVE Records(tf)'
  <2>1. buffers[tf] = <<c>> /\ c.start # Bucket(tf) /\ pending'[tf] = <<c>> /\ buffers'[tf] = <<new>>
    BY <1>7 DEF Closes, new
  <2>2. Precedes(s, <<c>>) /\ Past(ticks, tf, <<c>>) /\ Rising(s) /\ Past(ticks, tf, s)
    BY <1>2, <2>1 DEF Records
  <2>3. c.start < new.start /\ \A i \in 1..Len(s) : s[i].start < new.start
    BY <1>1, <1>3, <1>4, <2>1, <2>2, BehindAll
  <2>4. c.start \in Nat /\ new.start \in Nat
    BY <1>3, <1>4 DEF Candle
  <2>5. Precedes(<<c>>, <<new>>)
    BY <2>3, <2>4 DEF Precedes, Covers
  <2>6. ASSUME NEW i \in 1..Len(s) PROVE Covers(s[i], new)
    <3>1. s[i] \in Candle
      BY <1>3
    <3>2. s[i].start \in Nat
      BY <3>1 DEF Candle
    <3> QED
      BY <2>3, <2>4, <3>2 DEF Covers
  <2>7. Precedes(s, <<new>>)
    BY <2>6 DEF Precedes
  <2> QED
    BY <1>1, <1>5, <2>1, <2>2, <2>5, <2>7 DEF Records
<1>8. ASSUME NEW c \in Candle, Updates(tf, c) PROVE Records(tf)'
  <2> DEFINE d == Update(c, Newest.price)
  <2>1. buffers[tf] = <<c>> /\ c.start = Bucket(tf) /\ pending'[tf] = <<>> /\ buffers'[tf] = <<d>>
    BY <1>8 DEF Updates
  <2>2. Precedes(s, <<c>>) /\ Past(ticks, tf, <<c>>) /\ Rising(s) /\ Past(ticks, tf, s)
    BY <1>2, <2>1 DEF Records
  <2>3. d \in Candle /\ d.start = c.start /\ Covers(c, d)
    BY <1>3, CandleTypes, UpdateCovers
  <2> HIDE DEF d
  <2>4. Past(ticks, tf, <<d>>)
    BY <2>2, <2>3 DEF Past
  <2>5. ASSUME NEW i \in 1..Len(s) PROVE Covers(s[i], d)
    <3>1. s[i] \in Candle
      BY <1>3
    <3>2. Covers(s[i], c)
      BY <2>2 DEF Precedes
    <3> QED
      BY <2>3, <3>1, <3>2, CoversTransitive
  <2>6. Precedes(s, <<d>>)
    BY <2>5 DEF Precedes
  <2>7. Precedes(s, <<>>) /\ Precedes(<<>>, <<d>>) /\ Past(ticks, tf, <<>>)
    BY DEF Precedes, Past
  <2> QED
    BY <1>1, <2>1, <2>2, <2>4, <2>6, <2>7 DEF Records
<1> QED
  BY <1>6, <1>7, <1>8, TickCases DEF Inv

\* A file that takes a record that may follow all of its own keeps its order.
LEMMA RisingAppend ==
    ASSUME NEW s \in Seq(Candle), NEW c \in Candle, NEW tf, NEW q,
           Rising(s), Precedes(s, <<c>>), Precedes(s, q), Precedes(<<c>>, q),
           Past(ticks, tf, s), Past(ticks, tf, <<c>>)
    PROVE  Rising(s \o <<c>>) /\ Precedes(s \o <<c>>, q) /\ Past(ticks, tf, s \o <<c>>)
<1> DEFINE r == s \o <<c>>
<1>1. /\ Len(r) = Len(s) + 1 /\ r[Len(s) + 1] = c /\ Len(s) \in Nat
      /\ \A i \in 1..Len(s) : r[i] = s[i]
  OBVIOUS
<1> HIDE DEF r
<1>2. ASSUME NEW i \in 1..Len(r) PROVE (i \in 1..Len(s) /\ r[i] = s[i]) \/ (i = Len(s) + 1 /\ r[i] = c)
  BY <1>1
<1>3. Rising(r)
  <2> SUFFICES ASSUME NEW i \in 1..Len(r), NEW j \in 1..Len(r), i < j PROVE Covers(r[i], r[j])
    BY DEF Rising
  <2>1. i \in 1..Len(s) /\ r[i] = s[i]
    BY <1>1
  <2>2. CASE j \in 1..Len(s) /\ r[j] = s[j]
    BY <2>1, <2>2 DEF Rising
  <2>3. CASE j = Len(s) + 1 /\ r[j] = c
    BY <2>1, <2>3 DEF Precedes
  <2> QED
    BY <1>2, <2>2, <2>3
<1>4. Precedes(r, q)
  <2> SUFFICES ASSUME NEW i \in 1..Len(r), NEW j \in 1..Len(q) PROVE Covers(r[i], q[j])
    BY DEF Precedes
  <2>1. CASE i \in 1..Len(s) /\ r[i] = s[i]
    BY <2>1 DEF Precedes
  <2>2. CASE r[i] = c
    BY <2>2 DEF Precedes
  <2> QED
    BY <1>2, <2>1, <2>2
<1>5. Past(ticks, tf, r)
  BY <1>2 DEF Past
<1> QED
  BY <1>3, <1>4, <1>5 DEF r

LEMMA AppendOrdered ==
    ASSUME Inv, NEW at \in TF, AppendCandle(at)
    PROVE  Ordered'
<1> SUFFICES ASSUME ordered, ~overtaken, NEW tf \in TF PROVE Records(tf)'
  BY DEF Ordered, AppendCandle
<1>1. /\ store' = [store EXCEPT ![at] = @ \o pending[at]] /\ pending' = [pending EXCEPT ![at] = <<>>]
      /\ pending[at] # <<>> /\ UNCHANGED <<ticks, buffers>>
  BY DEF AppendCandle, IsNext
<1>2. Records(tf)
  BY DEF Inv, Ordered
<1>3. CASE tf # at
  <2>1. store'[tf] = store[tf] /\ pending'[tf] = pending[tf] /\ buffers'[tf] = buffers[tf] /\ ticks' = ticks
    BY <1>1, <1>3 DEF Inv, Types
  <2> QED
    BY <1>2, <2>1 DEF Records
<1>4. CASE tf = at
  <2> DEFINE s == store[tf]
             c == pending[tf][1]
  <2>1. s \in Seq(Candle) /\ c \in Candle /\ pending[tf] = <<c>>
    BY <1>1, <1>4, HeldTypes, HeldCases DEF Inv
  <2>2. store'[tf] = s \o <<c>> /\ pending'[tf] = <<>> /\ buffers'[tf] = buffers[tf] /\ ticks' = ticks
    BY <1>1, <1>4, <2>1 DEF Inv, Types
  <2>3. /\ Rising(s) /\ Precedes(s, <<c>>) /\ Precedes(s, buffers[tf]) /\ Precedes(<<c>>, buffers[tf])
        /\ Past(ticks, tf, s) /\ Past(ticks, tf, <<c>>) /\ Past(ticks, tf, buffers[tf])
    BY <1>2, <2>1 DEF Records
  <2> HIDE DEF s, c
  <2>4. Rising(s \o <<c>>) /\ Precedes(s \o <<c>>, buffers[tf]) /\ Past(ticks, tf, s \o <<c>>)
    BY <2>1, <2>3, RisingAppend
  <2>5. Precedes(s \o <<c>>, <<>>) /\ Precedes(<<>>, buffers[tf]) /\ Past(ticks, tf, <<>>)
    BY DEF Precedes, Past
  <2> QED
    BY <2>2, <2>3, <2>4, <2>5 DEF Records
<1> QED
  BY <1>3, <1>4

LEMMA FlushedOrdered ==
    ASSUME Inv, NEW at \in TF, AppendFlushed(at)
    PROVE  Ordered'
<1> SUFFICES ASSUME ordered, ~overtaken, NEW tf \in TF PROVE Records(tf)'
  BY DEF Ordered, AppendFlushed
<1>1. /\ store' = [store EXCEPT ![at] = @ \o flushing[at]]
      /\ flushing[at] # <<>> /\ UNCHANGED <<ticks, buffers, pending>>
  BY DEF AppendFlushed, IsNext
<1>2. Records(tf) /\ pending = Nothing /\ flushing[at] = buffers[at]
  BY <1>1, NothingIs DEF Inv, Ordered, Calls
<1>3. CASE tf # at
  <2>1. store'[tf] = store[tf] /\ pending'[tf] = pending[tf] /\ buffers'[tf] = buffers[tf] /\ ticks' = ticks
    BY <1>1, <1>3 DEF Inv, Types
  <2> QED
    BY <1>2, <2>1 DEF Records
<1>4. CASE tf = at
  <2> DEFINE s == store[tf]
             c == buffers[tf][1]
  <2>1. s \in Seq(Candle) /\ c \in Candle /\ buffers[tf] = <<c>>
    BY <1>1, <1>2, <1>4, HeldTypes, HeldCases DEF Inv
  <2>2. store'[tf] = s \o <<c>> /\ pending'[tf] = <<>> /\ buffers'[tf] = <<c>> /\ ticks' = ticks
    BY <1>1, <1>2, <1>4, <2>1, NothingIs DEF Inv, Types
  <2>3. Rising(s) /\ Precedes(s, <<c>>) /\ Past(ticks, tf, s) /\ Past(ticks, tf, <<c>>)
    BY <1>2, <2>1 DEF Records
  <2> HIDE DEF s, c
  <2>4. Precedes(<<c>>, <<c>>)
    <3>1. 0 \in Nat
      OBVIOUS
    <3>2. Covers(c, c)
      BY <2>1, <3>1, UpdateCovers
    <3> QED
      BY <2>1, <3>2 DEF Precedes
  <2>5. Rising(s \o <<c>>) /\ Precedes(s \o <<c>>, <<c>>) /\ Past(ticks, tf, s \o <<c>>)
    BY <2>1, <2>3, <2>4, RisingAppend
  <2>6. Precedes(s \o <<c>>, <<>>) /\ Precedes(<<>>, <<c>>) /\ Past(ticks, tf, <<>>)
    BY DEF Precedes, Past
  <2> QED
    BY <2>2, <2>3, <2>5, <2>6 DEF Records
<1> QED
  BY <1>3, <1>4

LEMMA NextOrdered == Inv /\ [CandlesNext]_candlesVars => Ordered'
<1> SUFFICES ASSUME Inv, [CandlesNext]_candlesVars PROVE Ordered'
  OBVIOUS
<1>0. ASSUME NEW q PROVE Precedes(q, <<>>) /\ Precedes(<<>>, q) /\ \A tf : Past(ticks, tf, <<>>)
  BY DEF Precedes, Past
<1>1. CASE AppendCandleFails
  <2>1. pending' = Nothing /\ UNCHANGED <<ticks, store, buffers, ordered, overtaken>>
    BY <1>1 DEF AppendCandleFails
  <2> QED
    BY <1>0, <2>1, NothingIs DEF Inv, Ordered, Records
<1>2. CASE shutdown \/ AppendFlushedFails
  <2>1. UNCHANGED <<ticks, store, buffers, pending, ordered>> /\ (overtaken => overtaken')
    BY <1>2 DEF shutdown, AppendFlushedFails, Inv, Types
  <2> QED
    BY <2>1 DEF Inv, Ordered, Records
<1>3. CASE Exit
  <2>1. pending' = Nothing /\ buffers' = Nothing /\ UNCHANGED <<ticks, store, ordered, overtaken>>
    BY <1>3 DEF Exit
  <2> QED
    BY <1>0, <2>1, NothingIs DEF Inv, Ordered, Records
<1>4. CASE UNCHANGED candlesVars
  BY <1>4 DEF candlesVars, Inv, Ordered, Records
<1> QED
  BY <1>1, <1>2, <1>3, <1>4, OpenOrdered, StoreOrdered, TickOrdered, AppendOrdered, FlushedOrdered DEF CandlesNext

-----------------------------------------------------------------------------
(* Calm.                                                                   *)

LEMMA Concats ==
    ASSUME NEW s \in Seq(Candle), NEW c \in Candle, NEW d \in Candle
    PROVE  /\ (s \o <<>>) \o <<c>> = Append(s, c)
           /\ (s \o <<c>>) \o <<d>> = Append(Append(s, c), d)
           /\ Append(s, c) \in Seq(Candle) /\ <<c>> \in Seq(Candle)
<1>1. s \o <<>> = s
  BY ConcatEmptySeq
<1>2. s \o <<c>> = Append(s, c)
  BY AppendIsConcat
<1>3. Append(s, c) \in Seq(Candle)
  BY AppendProperties
<1>4. Append(s, c) \o <<d>> = Append(Append(s, c), d)
  BY <1>3, AppendIsConcat
<1> QED
  BY <1>1, <1>2, <1>3, <1>4

LEMMA OpenCalm ==
    ASSUME Inv, open
    PROVE  Calm'
<1> SUFFICES ASSUME calm PROVE Calm'
  BY DEF Calm, open
<1>1. ordered' /\ ~overtaken' /\ flushing' = Nothing /\ up' /\ ~fresh' /\ ticks' = <<>> /\ \A tf \in TF : Series(tf) = <<>>
  BY DEF Inv, Calm, Calls, open
<1>2. ASSUME NEW tf \in TF PROVE Series(tf)' = <<>>
  <2>1. store[tf] = <<>>
    <3>1. store[tf] \in Seq(Candle) /\ pending[tf] \in Seq(Candle) /\ buffers[tf] \in Seq(Candle)
      BY HeldTypes DEF Inv
    <3>2. store[tf] \o pending[tf] \in Seq(Candle) /\ (store[tf] \o pending[tf]) \o buffers[tf] = <<>>
      BY <1>1, <3>1, ConcatProperties DEF Series
    <3>3. store[tf] \o pending[tf] = <<>>
      BY <3>1, <3>2, ConcatEqualIffEmpty
    <3> QED
      BY <3>1, <3>3, ConcatEqualIffEmpty
  <2>2. store'[tf] = <<>> /\ pending'[tf] = <<>> /\ buffers'[tf] = <<>>
    BY <2>1, NothingIs, SeedFacts DEF Inv, Calls, open
  <2> QED
    BY <2>2 DEF Series
<1>3. Done' = 0
  BY <1>1 DEF Done
<1>4. \A tf \in TF : SeriesOf(ticks, tf, Series(tf), Done)'
  BY <1>2, <1>3 DEF SeriesOf
<1> QED
  BY <1>1, <1>4 DEF Calm

LEMMA StoreCalm ==
    ASSUME Inv, NEW t \in Time, NEW p \in Prices, StoreTick(t, p)
    PROVE  Calm'
<1> DEFINE x == [time |-> t, price |-> p]
<1> SUFFICES ASSUME calm' PROVE Calm'
  BY DEF Calm
<1>1. /\ calm /\ ordered' /\ ~overtaken' /\ flushing' = Nothing /\ up' /\ ~fresh /\ fresh'
      /\ ticks' = Append(ticks, x) /\ UNCHANGED <<store, buffers, pending>>
  BY DEF StoreTick, Idle, Inv, Calm
<1>2. ticks \in Seq(Tick) /\ Len(ticks) \in Nat
  BY DEF Inv, Types
<1>3. Done = Len(ticks) /\ Done' = Len(ticks)
  BY <1>1, <1>2 DEF Done
<1>4. \A i \in 1..Len(ticks) : ticks'[i] = ticks[i]
  BY <1>1, <1>2
<1>5. ASSUME NEW tf \in TF PROVE SeriesOf(ticks, tf, Series(tf), Done)'
  <2>1. SeriesOf(ticks, tf, Series(tf), Len(ticks))
    BY <1>1, <1>3 DEF Inv, Calm
  <2>2. SeriesOf(ticks', tf, Series(tf), Len(ticks))
    BY <1>2, <1>4, <2>1, SamePrefix
  <2>3. Series(tf)' = Series(tf)
    BY <1>1 DEF Series
  <2> QED
    BY <1>3, <2>2, <2>3
<1> QED
  BY <1>1, <1>5 DEF Calm

LEMMA TickCalm ==
    ASSUME Inv, on_tick
    PROVE  Calm'
<1> SUFFICES ASSUME calm PROVE Calm'
  BY DEF Calm, on_tick
<1>1. /\ ordered /\ ordered' /\ ~overtaken /\ ~overtaken' /\ flushing' = Nothing /\ up /\ up' /\ fresh /\ ~fresh' /\ ticks' = ticks /\ store' = store
      /\ ticks # <<>> /\ pending = Nothing
  BY DEF Inv, Calm, Calls, on_tick
<1> DEFINE n == Len(ticks) - 1
<1>2. ticks \in Seq(Tick) /\ n \in Nat /\ n + 1 = Len(ticks) /\ n + 1 <= Len(ticks)
  BY <1>1 DEF Inv, Types
<1>3. Done = n /\ Done' = n + 1
  BY <1>1, <1>2 DEF Done
<1>4. ticks[n + 1] = Newest
  BY <1>2 DEF Newest
<1> HIDE DEF n
<1>5. ASSUME NEW tf \in TF PROVE SeriesOf(ticks, tf, Series(tf)', n + 1)
  <2> DEFINE s == store[tf]
             new == NewBuffer(Bucket(tf), Newest.price)
  <2>1. SeriesOf(ticks, tf, Series(tf), n) /\ Records(tf)
    BY <1>1, <1>3 DEF Inv, Calm, Ordered
  <2>2. s \in Seq(Candle) /\ Bucket(tf) \in Nat /\ Newest.price \in Nat /\ pending[tf] = <<>>
    BY <1>1, HeldTypes, NewestType, NothingIs DEF Inv
  <2>3. new \in Candle
    BY <2>2 DEF NewBuffer, Candle
  <2>4. Bucket(tf) = bucket_start(tf, ticks[n + 1].time)
    BY <1>4 DEF Bucket
  <2> HIDE DEF new
  <2>5. CASE Opens(tf)
    <3>1. s = <<>> /\ buffers[tf] = <<>> /\ pending'[tf] = <<>> /\ buffers'[tf] = <<new>>
      BY <1>1, <2>5 DEF Opens, Inv, Calls, new
    <3>2. Series(tf) = <<>> /\ <<>> \in Seq(Candle)
      BY <2>2, <3>1 DEF Series
    <3>3. Series(tf)' = Append(<<>>, new)
      BY <1>1, <2>3, <3>1, <3>2, Concats DEF Series
    <3> DEFINE r == Series(tf)
    <3>4. r \in Seq(Candle) /\ SeriesOf(ticks, tf, r, n) /\ Len(r) = 0
      BY <2>1, <3>2
    <3> HIDE DEF r
    <3>5. \A i \in 1..Len(r) : r[i].start < bucket_start(tf, ticks[n + 1].time)
      BY <3>4
    <3>6. SeriesOf(ticks, tf, Append(r, NewBuffer(bucket_start(tf, ticks[n + 1].time), ticks[n + 1].price)), n + 1)
      BY <1>2, <3>4, <3>5, OpensBucket
    <3>7. SeriesOf(ticks, tf, Append(r, new), n + 1)
      BY <1>4, <2>4, <3>6 DEF new
    <3> QED
      BY <3>2, <3>3, <3>7 DEF r
  <2>6. ASSUME NEW c \in Candle, Closes(tf, c) PROVE SeriesOf(ticks, tf, Series(tf)', n + 1)
    <3>1. buffers[tf] = <<c>> /\ c.start # Bucket(tf) /\ pending'[tf] = <<c>> /\ buffers'[tf] = <<new>>
      BY <2>6 DEF Closes, new
    <3>2. Series(tf) = Append(s, c) /\ Series(tf)' = Append(Append(s, c), new) /\ Append(s, c) \in Seq(Candle)
      BY <1>1, <2>2, <2>3, <3>1, Concats DEF Series
    <3>3. Precedes(s, <<c>>) /\ Past(ticks, tf, <<c>>)
      BY <2>1, <3>1 DEF Records
    <3>4. c.start < Bucket(tf) /\ \A i \in 1..Len(s) : s[i].start < Bucket(tf)
      BY <1>1, <2>2, <3>1, <3>3, BehindAll
    <3> DEFINE r == Append(s, c)
    <3>5. Len(r) = Len(s) + 1 /\ r[Len(s) + 1] = c /\ Len(s) \in Nat /\ \A i \in 1..Len(s) : r[i] = s[i]
      BY <2>2
    <3>6. r \in Seq(Candle) /\ SeriesOf(ticks, tf, r, n)
      BY <2>1, <3>2
    <3> HIDE DEF r
    <3>7. \A i \in 1..Len(r) : r[i].start < bucket_start(tf, ticks[n + 1].time)
      <4> SUFFICES ASSUME NEW i \in 1..Len(r) PROVE r[i].start < Bucket(tf)
        BY <2>4
      <4>1. i \in 1..Len(s) \/ i = Len(s) + 1
        BY <3>5
      <4> QED
        BY <3>4, <3>5, <4>1
    <3>8. SeriesOf(ticks, tf, Append(r, NewBuffer(bucket_start(tf, ticks[n + 1].time), ticks[n + 1].price)), n + 1)
      BY <1>2, <3>6, <3>7, OpensBucket
    <3>9. SeriesOf(ticks, tf, Append(r, new), n + 1)
      BY <1>4, <2>4, <3>8 DEF new
    <3> QED
      BY <3>2, <3>9 DEF r
  <2>7. ASSUME NEW c \in Candle, Updates(tf, c) PROVE SeriesOf(ticks, tf, Series(tf)', n + 1)
    <3> DEFINE d == Update(c, Newest.price)
    <3>1. buffers[tf] = <<c>> /\ c.start = Bucket(tf) /\ pending'[tf] = <<>> /\ buffers'[tf] = <<d>>
      BY <2>7 DEF Updates
    <3>2. d \in Candle
      BY <2>2, CandleTypes
    <3> HIDE DEF d
    <3>3. Series(tf) = Append(s, c) /\ Series(tf)' = Append(s, d)
      BY <1>1, <2>2, <3>1, <3>2, Concats DEF Series
    <3>4. SeriesOf(ticks, tf, Append(s, c), n) /\ c.start = bucket_start(tf, ticks[n + 1].time)
      BY <2>1, <2>4, <3>1, <3>3
    <3>5. SeriesOf(ticks, tf, Append(s, Update(c, ticks[n + 1].price)), n + 1)
      BY <1>2, <2>2, <3>4, StaysInBucket
    <3> QED
      BY <1>4, <3>3, <3>5 DEF d
  <2> QED
    BY <2>5, <2>6, <2>7, TickCases DEF Inv
<1>6. \A tf \in TF : SeriesOf(ticks, tf, Series(tf), Done)'
  BY <1>1, <1>3, <1>5
<1> QED
  BY <1>1, <1>6 DEF Calm

LEMMA AppendCalm ==
    ASSUME Inv, NEW at \in TF, AppendCandle(at)
    PROVE  Calm'
<1> SUFFICES ASSUME calm PROVE Calm'
  BY DEF Calm, AppendCandle
<1>1. /\ store' = [store EXCEPT ![at] = @ \o pending[at]] /\ pending' = [pending EXCEPT ![at] = <<>>]
      /\ up /\ UNCHANGED <<ticks, buffers, flushing, fresh, up, ordered, overtaken>>
  BY DEF AppendCandle
<1>2. ASSUME NEW tf \in TF PROVE Series(tf)' = Series(tf)
  <2>1. CASE tf # at
    <3>1. store'[tf] = store[tf] /\ pending'[tf] = pending[tf] /\ buffers'[tf] = buffers[tf]
      BY <1>1, <2>1 DEF Inv, Types
    <3> QED
      BY <3>1 DEF Series
  <2>2. CASE tf = at
    <3>1. store'[tf] = store[tf] \o pending[tf] /\ pending'[tf] = <<>> /\ buffers'[tf] = buffers[tf]
      BY <1>1, <2>2 DEF Inv, Types
    <3>2. store[tf] \o pending[tf] \in Seq(Candle)
      BY HeldTypes, ConcatProperties DEF Inv
    <3>3. (store[tf] \o pending[tf]) \o <<>> = store[tf] \o pending[tf]
      BY <3>2, ConcatEmptySeq
    <3> QED
      BY <3>1, <3>3 DEF Series
  <2> QED
    BY <2>1, <2>2
<1>3. Done' = Done
  BY <1>1 DEF Done
<1> QED
  BY <1>1, <1>2, <1>3 DEF Inv, Calm

LEMMA NextCalm == Inv /\ [CandlesNext]_candlesVars => Calm'
<1> SUFFICES ASSUME Inv, [CandlesNext]_candlesVars PROVE Calm'
  OBVIOUS
<1>1. CASE AppendCandleFails \/ shutdown \/ Exit
  BY <1>1 DEF AppendCandleFails, shutdown, Exit, Calm
<1>2. CASE UNCHANGED candlesVars
  BY <1>2 DEF candlesVars, Inv, Calm, Series, Done
<1>3. ASSUME NEW tf \in TF, AppendFlushed(tf) PROVE Calm'
  BY <1>3, NothingIs DEF AppendFlushed, IsNext, Inv, Calm
<1>4. CASE AppendFlushedFails
  BY <1>4 DEF AppendFlushedFails, Inv, Calm
<1> QED
  BY <1>1, <1>2, <1>3, <1>4, OpenCalm, StoreCalm, TickCalm, AppendCalm DEF CandlesNext

-----------------------------------------------------------------------------
(* The theorems.                                                           *)

\* The inductive invariant holds of ingest_tick(), of shutdown() wherever the
\* locks let it in, of open() and of the end of the process, for every list of
\* timeframes and all bounds.
THEOREM Invariance == CandlesSpec => []Inv
<1>1. Inv /\ [CandlesNext]_candlesVars => Inv'
  BY NextTypes, NextOrdered, NextCalm DEF Inv
<1> QED
  BY <1>1, InitInv, PTL DEF CandlesSpec

\* CandleStore's files are sorted by timestamp as long as the feed is in order
\* and no shutdown() took its locks between on_tick() and the append loop of a
\* call with closed candles: crashes, failed appends and all other shutdowns do
\* not change that.
THEOREM FilesSorted == CandlesSpec => []StoreSorted
<1>1. Inv => StoreSorted
  BY DEF Inv, Ordered, Records, Rising, Covers, StoreSorted
<1> QED
  BY <1>1, Invariance, PTL

\* Several records of one bucket continue each other, whatever made shutdown()
\* or the next process store the bucket again, under the same two conditions.
THEOREM LaterCovers == CandlesSpec => []LaterRecordCovers
<1>1. Inv => LaterRecordCovers
  BY DEF Inv, Ordered, Records, Rising, Covers, LaterRecordCovers
<1> QED
  BY <1>1, Invariance, PTL

\* on_tick() and the candle files together hold exactly the aggregates of the
\* ticks, bucket by bucket, for every sequence of ticks in order.
THEOREM CandlesOfTicks == CandlesSpec => []MatchesTicks
<1>1. ASSUME Inv PROVE MatchesTicks
  <2> SUFFICES ASSUME Idle, calm, NEW tf \in TF
               PROVE  LET all == store[tf] \o buffers[tf] IN
                      /\ \A i \in 1..Len(all) : Aggregates(tf, all[i])
                      /\ \A i \in 1..Len(all), j \in 1..Len(all) : i < j => all[i].start < all[j].start
                      /\ \A k \in 1..Len(ticks) : \E i \in 1..Len(all) : k \in InBucket(tf, all[i].start)
    BY DEF MatchesTicks
  <2> DEFINE all == store[tf] \o buffers[tf]
  <2>1. Series(tf) = all
    <3>1. pending[tf] = <<>> /\ store[tf] \in Seq(Candle)
      BY <1>1, HeldTypes, NothingIs DEF Inv, Idle
    <3>2. store[tf] \o <<>> = store[tf]
      BY <3>1, ConcatEmptySeq
    <3> QED
      BY <3>1, <3>2 DEF Series
  <2>2. Done = Len(ticks) /\ SeriesOf(ticks, tf, Series(tf), Done)
    BY <1>1 DEF Inv, Calm, Done, Idle
  <2>3. SeriesOf(ticks, tf, all, Len(ticks))
    BY <2>1, <2>2
  <2> HIDE DEF all
  <2>4. ASSUME NEW start PROVE Upto(ticks, tf, start, Len(ticks)) = InBucket(tf, start)
    BY DEF Upto, InBucket
  <2>5. ASSUME NEW i \in 1..Len(all) PROVE Aggregates(tf, all[i])
    <3>1. AggregateOf(ticks, InBucket(tf, all[i].start), all[i])
      BY <2>3, <2>4 DEF SeriesOf
    <3> QED
      BY <3>1 DEF AggregateOf, Aggregates
  <2>6. ASSUME NEW k \in 1..Len(ticks) PROVE \E i \in 1..Len(all) : k \in InBucket(tf, all[i].start)
    BY <2>3 DEF SeriesOf, InBucket
  <2>7. \A i \in 1..Len(all), j \in 1..Len(all) : i < j => all[i].start < all[j].start
    BY <2>3 DEF SeriesOf
  <2> QED
    BY <2>5, <2>6, <2>7 DEF all
<1> QED
  BY <1>1, Invariance, PTL

=============================================================================
