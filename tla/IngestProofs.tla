---------------------------- MODULE IngestProofs ----------------------------
(* Proofs about Ingest: what its readers see without a lock, and what a    *)
(* restart makes of it.                                                    *)
EXTENDS Ingest, NaturalsInduction, WellFoundedInduction, SequenceTheorems, TLAPS

-----------------------------------------------------------------------------
(* Types, which the runs need not check: every other invariant rests on    *)
(* them.                                                                   *)

Maybe == Nat \cup {NoValue}

InnerType ==
    [mark : Maybe, index : Maybe, rate : Nat, rate_24h : Nat, long : Nat, short : Nat,
     enabled : BOOLEAN, paused : BOOLEAN, leverage : Maybe, margin : Maybe, day : Maybe]

FileType ==
    [block : Block, hash : Block, block_stamp : Block, price : Tick, stamp : Tick, inner : InnerType]

EntryType == [kind : {"PriceTick", "MarketPaused", "Other"}, n : Nat]

Types ==
    /\ wal \in Seq(EntryType)
    /\ \A i \in DOMAIN wal : wal[i].n \in IF wal[i].kind = "PriceTick" THEN Tick ELSE Block
    /\ price \in Tick /\ stamp \in Tick
    /\ inner \in InnerType
    /\ last_block \in Block /\ block_stamp \in Block /\ hash \in Block
    /\ feed \in [pc : {"idle", "price", "stamp", "publish"}, tick : Tick]
    /\ indexer \in [pc : {"idle", "pause", "advance", "save_stamp", "save_hash"}, block : Block]
    /\ reader \in [pc : {"idle", "hash", "first", "second", "fields", "write"}, got : FileType]
    /\ file \in FileType
    /\ channel \in Seq(Tick) /\ cursor \in Nat
    /\ ticks \in Tick
    /\ before \in [Tick -> Tick] /\ shown \in Tick
    /\ versions \subseteq InnerType
    /\ lost \in BOOLEAN

-----------------------------------------------------------------------------
(* Three inductive invariants, each on top of Types.                       *)

\* The checkpoint: advance_block() and save() go forward, save() has set the
\* block before it sets the hash, and while snapshot() holds its read guard
\* the hash stays behind the block it has read.
Checkpointed ==
    /\ hash <= last_block
    /\ indexer.pc \in {"pause", "advance"} => indexer.block >= last_block
    /\ indexer.pc \in {"save_stamp", "save_hash"} => last_block = indexer.block
    /\ reader.pc = "hash" => hash <= reader.got.block
    /\ reader.pc # "idle" => reader.got.hash <= reader.got.block
    /\ file.hash <= file.block

\* The locked fields: what the read guard keeps from changing between the two
\* halves of a read.
Locked ==
    /\ inner \in versions /\ file.inner \in versions
    /\ reader.pc = "fields" => reader.got.inner = inner
    /\ reader.pc = "write" => reader.got.inner \in versions

\* The feed: no tick is older than one that was logged before it, and a tick
\* on its way to the slot is newer than every price that was ever read.
Forward ==
    /\ \A t \in TicksIn(wal) : t <= ticks
    /\ price <= ticks /\ reader.got.price <= ticks /\ file.price <= ticks
    /\ \A n \in Tick : before[n] <= n
    /\ feed.pc = "price" => /\ feed.tick \in TicksIn(wal) /\ feed.tick = ticks
                            /\ price < feed.tick /\ reader.got.price < feed.tick /\ file.price < feed.tick
    /\ feed.pc \in {"stamp", "publish"} => price = feed.tick
    /\ \A i \in DOMAIN channel : channel[i] <= price

\* As long as the log is whole: what slot, file and snapshot() hold was logged,
\* the timestamp is behind the price only between the two stores of
\* set_price(), and every pair is of neighbouring ticks.
Whole ==
    /\ shown = price
    /\ {price, stamp, file.price, file.stamp, reader.got.price, reader.got.stamp} \subseteq TicksIn(wal) \cup {0}
    /\ feed.pc # "stamp" => stamp = price
    /\ stamp <= price
    /\ stamp >= before[price]
    /\ file.stamp >= before[file.price]
    /\ reader.pc = "second" => stamp >= before[reader.got.price]
    /\ reader.pc \in {"fields", "write"} => reader.got.stamp >= before[reader.got.price]

Prices == Forward /\ (~lost => Whole)

-----------------------------------------------------------------------------
(* The greatest of a set of numbers.                                       *)

LEMMA Least ==
    ASSUME NEW T \in SUBSET Nat, T # {}
    PROVE  \E x \in T : \A y \in T : x <= y
<1>1. \E x \in T : \A y \in T : ~ (<<y, x>> \in OpToRel(<, Nat))
  BY NatLessThanWellFounded, WFMin
<1>2. \A x, y \in Nat : y < x => <<y, x>> \in OpToRel(<, Nat)
  BY Zenon DEF OpToRel
<1>3. PICK x \in T : \A y \in T : ~ (<<y, x>> \in OpToRel(<, Nat))
  BY <1>1
<1>4. \A y \in T : ~ (y < x)
  BY <1>2, <1>3
<1> QED
  BY <1>4

LEMMA MaxOf ==
    ASSUME NEW N \in Nat, NEW T \in SUBSET (0..N), T # {}
    PROVE  Max(T) \in T /\ \A y \in T : Max(T) >= y
<1> DEFINE D == {N - x : x \in T}
<1>0. \A y \in T : y \in Nat /\ N - y \in Nat
  <2>1. \A y \in T : y \in 0..N
    OBVIOUS
  <2> QED
    BY <2>1
<1>1. D \in SUBSET Nat /\ D # {}
  BY <1>0
<1>2. PICK d \in D : \A e \in D : d <= e
  BY <1>1, Least
<1>3. PICK x \in T : d = N - x
  OBVIOUS
<1>4. \A y \in T : N - x <= N - y
  BY <1>2, <1>3
<1>5. \A y \in T : x >= y
  BY <1>0, <1>4
<1> QED
  BY <1>5 DEF Max

LEMMA MaxOfTwo ==
    ASSUME NEW a \in Tick, NEW b \in Tick
    PROVE  Max({a, b}) = IF a >= b THEN a ELSE b
<1>1. MaxTick \in Nat /\ {a, b} \in SUBSET (0..MaxTick) /\ {a, b} # {} /\ a \in Nat /\ b \in Nat
  BY IngestAssumption DEF Tick
<1>2. Max({a, b}) \in {a, b} /\ \A y \in {a, b} : Max({a, b}) >= y
  BY <1>1, MaxOf
<1> QED
  BY <1>1, <1>2

-----------------------------------------------------------------------------
(* The log.                                                                *)

\* An append, and the prefix a crash leaves.
LEMMA AppendedLog ==
    ASSUME NEW w \in Seq(EntryType), NEW e \in EntryType
    PROVE  LET W == Append(w, e) IN
           /\ W \in Seq(EntryType)
           /\ DOMAIN W = DOMAIN w \cup {Len(w) + 1}
           /\ \A i \in DOMAIN w : W[i] = w[i]
           /\ W[Len(w) + 1] = e
<1>1. Append(w, e) \in Seq(EntryType) /\ Len(Append(w, e)) = Len(w) + 1
  BY AppendProperties
<1>2. DOMAIN Append(w, e) = 1..(Len(w) + 1) /\ DOMAIN w = 1..Len(w) /\ Len(w) \in Nat
  BY <1>1, LenProperties
<1>3. 1..(Len(w) + 1) = 1..Len(w) \cup {Len(w) + 1}
  BY <1>2
<1>4. \A i \in 1..Len(w) : Append(w, e)[i] = w[i]
  BY AppendProperties
<1>5. Append(w, e)[Len(w) + 1] = e
  BY AppendProperties
<1> QED
  BY <1>1, <1>2, <1>3, <1>4, <1>5

LEMMA AppendedTicks ==
    ASSUME NEW w \in Seq(EntryType), NEW e \in EntryType
    PROVE  TicksIn(Append(w, e)) = IF e.kind = "PriceTick" THEN TicksIn(w) \cup {e.n} ELSE TicksIn(w)
<1> DEFINE W == Append(w, e)
<1>1. /\ DOMAIN W = DOMAIN w \cup {Len(w) + 1}
      /\ \A i \in DOMAIN w : W[i] = w[i]
      /\ W[Len(w) + 1] = e
  BY AppendedLog
<1> HIDE DEF W
<1>2. TicksIn(W) = IF e.kind = "PriceTick" THEN TicksIn(w) \cup {e.n} ELSE TicksIn(w)
  BY <1>1 DEF TicksIn
<1> QED
  BY <1>2 DEF W

LEMMA PrefixLog ==
    ASSUME NEW w \in Seq(EntryType), NEW n \in 0..Len(w)
    PROVE  LET W == SubSeq(w, 1, n) IN
           /\ W \in Seq(EntryType)
           /\ DOMAIN W \subseteq DOMAIN w
           /\ \A i \in DOMAIN W : W[i] = w[i]
           /\ TicksIn(W) \subseteq TicksIn(w)
<1> DEFINE W == SubSeq(w, 1, n)
<1>1. Len(w) \in Nat /\ n \in Nat /\ n <= Len(w) /\ DOMAIN w = 1..Len(w)
  BY LenProperties
<1>2. W \in Seq(EntryType) /\ Len(W) = n /\ \A i \in 1..n : W[i] = w[1 + i - 1]
  <2>1. \A i \in 1..n : w[i] \in EntryType
    BY <1>1, ElementOfSeq
  <2>2. W = [i \in 1..n |-> w[1 + i - 1]]
    BY <1>1
  <2> QED
    BY <1>1, <2>1, <2>2
<1>3. DOMAIN W = 1..n
  BY <1>2, LenProperties
<1>4. DOMAIN W \subseteq DOMAIN w /\ \A i \in DOMAIN W : W[i] = w[i]
  BY <1>1, <1>2, <1>3
<1> HIDE DEF W
<1>5. TicksIn(W) \subseteq TicksIn(w)
  BY <1>4 DEF TicksIn
<1> QED
  BY <1>2, <1>4, <1>5 DEF W

-----------------------------------------------------------------------------
(* The locked fields.                                                      *)

InnerFields ==
    {"mark", "index", "rate", "rate_24h", "long", "short", "enabled", "paused", "leverage", "margin", "day"}

\* t has what m has, but for the fields in F.
Same(m, t, F) == \A f \in InnerFields \ F : t[f] = m[f]

LEMMA SameInner ==
    ASSUME NEW m \in InnerType, NEW t \in InnerType, \A f \in InnerFields : t[f] = m[f]
    PROVE  t = m
BY DEF InnerType, InnerFields

\* What every setter replaces.
LEMMA set_funding_rateFields ==
    ASSUME NEW m \in InnerType, NEW r \in Nat, NEW r24 \in Nat
    PROVE  LET t == set_funding_rate(m, r, r24) IN
           /\ t \in InnerType
           /\ t.rate = r /\ t.rate_24h = r24
           /\ Same(m, t, {"rate", "rate_24h"})
<1> DEFINE v1 == r
           v2 == r24
           s == [m EXCEPT !.rate = v1]
           t == [s EXCEPT !.rate_24h = v2]
<1>1. v1 \in Nat /\ v2 \in Nat
  BY DEF InnerType
<1>2. t = set_funding_rate(m, r, r24)
  BY Zenon DEF set_funding_rate
<1> HIDE DEF v1, v2
<1>3. s \in InnerType /\ s.rate = v1 /\ Same(m, s, {"rate"})
  BY <1>1 DEF InnerType, Same, InnerFields
<1> HIDE DEF s
<1>4. t \in InnerType /\ t.rate_24h = v2 /\ Same(s, t, {"rate_24h"})
  BY <1>1, <1>3 DEF InnerType, Same, InnerFields
<1> HIDE DEF t
<1>5. t.rate = v1 /\ Same(m, t, {"rate", "rate_24h"})
  BY <1>3, <1>4 DEF Same, InnerFields
<1> QED
  BY <1>2, <1>4, <1>5 DEF v1, v2

LEMMA set_open_interestFields ==
    ASSUME NEW m \in InnerType, NEW l \in Nat, NEW sh \in Nat
    PROVE  LET t == set_open_interest(m, l, sh) IN
           /\ t \in InnerType
           /\ t.long = l /\ t.short = sh
           /\ Same(m, t, {"long", "short"})
<1> DEFINE v1 == l
           v2 == sh
           s == [m EXCEPT !.long = v1]
           t == [s EXCEPT !.short = v2]
<1>1. v1 \in Nat /\ v2 \in Nat
  BY DEF InnerType
<1>2. t = set_open_interest(m, l, sh)
  BY Zenon DEF set_open_interest
<1> HIDE DEF v1, v2
<1>3. s \in InnerType /\ s.long = v1 /\ Same(m, s, {"long"})
  BY <1>1 DEF InnerType, Same, InnerFields
<1> HIDE DEF s
<1>4. t \in InnerType /\ t.short = v2 /\ Same(s, t, {"short"})
  BY <1>1, <1>3 DEF InnerType, Same, InnerFields
<1> HIDE DEF t
<1>5. t.long = v1 /\ Same(m, t, {"long", "short"})
  BY <1>3, <1>4 DEF Same, InnerFields
<1> QED
  BY <1>2, <1>4, <1>5 DEF v1, v2

LEMMA set_oracle_pricesFields ==
    ASSUME NEW m \in InnerType, NEW mark \in Maybe, NEW index \in Maybe
    PROVE  LET t == set_oracle_prices(m, mark, index) IN
           /\ t \in InnerType
           /\ t.mark = (IF mark = NoValue THEN m.mark ELSE mark) /\ t.index = (IF index = NoValue THEN m.index ELSE index)
           /\ Same(m, t, {"mark", "index"})
<1> DEFINE v1 == (IF mark = NoValue THEN m.mark ELSE mark)
           v2 == (IF index = NoValue THEN m.index ELSE index)
           s == [m EXCEPT !.mark = v1]
           t == [s EXCEPT !.index = v2]
<1>1. v1 \in Maybe /\ v2 \in Maybe
  BY DEF InnerType
<1>2. t = set_oracle_prices(m, mark, index)
  BY Zenon DEF set_oracle_prices
<1> HIDE DEF v1, v2
<1>3. s \in InnerType /\ s.mark = v1 /\ Same(m, s, {"mark"})
  BY <1>1 DEF InnerType, Same, InnerFields
<1> HIDE DEF s
<1>4. t \in InnerType /\ t.index = v2 /\ Same(s, t, {"index"})
  BY <1>1, <1>3 DEF InnerType, Same, InnerFields
<1> HIDE DEF t
<1>5. t.mark = v1 /\ Same(m, t, {"mark", "index"})
  BY <1>3, <1>4 DEF Same, InnerFields
<1> QED
  BY <1>2, <1>4, <1>5 DEF v1, v2

LEMMA set_configFields ==
    ASSUME NEW m \in InnerType, NEW leverage \in Maybe, NEW margin \in Maybe
    PROVE  LET t == set_config(m, leverage, margin) IN
           /\ t \in InnerType
           /\ t.leverage = leverage /\ t.margin = margin
           /\ Same(m, t, {"leverage", "margin"})
<1> DEFINE v1 == leverage
           v2 == margin
           s == [m EXCEPT !.leverage = v1]
           t == [s EXCEPT !.margin = v2]
<1>1. v1 \in Maybe /\ v2 \in Maybe
  BY DEF InnerType
<1>2. t = set_config(m, leverage, margin)
  BY Zenon DEF set_config
<1> HIDE DEF v1, v2
<1>3. s \in InnerType /\ s.leverage = v1 /\ Same(m, s, {"leverage"})
  BY <1>1 DEF InnerType, Same, InnerFields
<1> HIDE DEF s
<1>4. t \in InnerType /\ t.margin = v2 /\ Same(s, t, {"margin"})
  BY <1>1, <1>3 DEF InnerType, Same, InnerFields
<1> HIDE DEF t
<1>5. t.leverage = v1 /\ Same(m, t, {"leverage", "margin"})
  BY <1>3, <1>4 DEF Same, InnerFields
<1> QED
  BY <1>2, <1>4, <1>5 DEF v1, v2

LEMMA set_enabledFields ==
    ASSUME NEW m \in InnerType, NEW v \in BOOLEAN
    PROVE  LET t == set_enabled(m, v) IN
           /\ t \in InnerType
           /\ t.enabled = v
           /\ Same(m, t, {"enabled"})
BY DEF set_enabled, InnerType, Same, InnerFields

LEMMA set_pausedFields ==
    ASSUME NEW m \in InnerType, NEW v \in BOOLEAN
    PROVE  LET t == set_paused(m, v) IN
           /\ t \in InnerType
           /\ t.paused = v
           /\ Same(m, t, {"paused"})
BY DEF set_paused, InnerType, Same, InnerFields

LEMMA set_24h_statsFields ==
    ASSUME NEW m \in InnerType, NEW v \in Maybe
    PROVE  LET t == set_24h_stats(m, v) IN
           /\ t \in InnerType
           /\ t.day = v
           /\ Same(m, t, {"day"})
BY DEF set_24h_stats, InnerType, Same, InnerFields

LEMMA add_oiTypes ==
    ASSUME NEW m \in InnerType
    PROVE  add_long_oi(m, 1) \in InnerType /\ add_short_oi(m, 1) \in InnerType
<1> DEFINE l == m.long + 1
           s == m.short + 1
<1>1. l \in Nat /\ s \in Nat
  BY DEF InnerType
<1> HIDE DEF l, s
<1>2. [m EXCEPT !.long = l] \in InnerType
  BY <1>1 DEF InnerType
<1>3. [m EXCEPT !.short = s] \in InnerType
  BY <1>1 DEF InnerType
<1> QED
  BY <1>2, <1>3 DEF add_long_oi, add_short_oi, l, s

\* restore_snapshot() applies the setters one by one, and set_oracle_prices()
\* skips what is None: nothing is lost and nothing is left of the defaults.
LEMMA RestoreIsExact ==
    ASSUME NEW m \in InnerType
    PROVE  RestoreInner(m) = m
<1> DEFINE funded == set_funding_rate(DefaultInner, m.rate, m.rate_24h)
           counted == set_open_interest(funded, m.long, m.short)
           priced == set_oracle_prices(counted, m.mark, m.index)
           configured == set_config(priced, m.leverage, m.margin)
           enabled == set_enabled(configured, m.enabled)
           flagged == set_paused(enabled, m.paused)
           restored == set_24h_stats(flagged, m.day)
<1>0. restored = RestoreInner(m)
  BY DEF RestoreInner
<1>1. m.rate \in Nat /\ m.rate_24h \in Nat
  BY DEF InnerType
<1>1a. m.long \in Nat /\ m.short \in Nat
  BY DEF InnerType
<1>1b. m.mark \in Maybe /\ m.index \in Maybe
  BY DEF InnerType
<1>1c. m.leverage \in Maybe /\ m.margin \in Maybe
  BY DEF InnerType
<1>1d. m.enabled \in BOOLEAN /\ m.paused \in BOOLEAN /\ m.day \in Maybe
  BY DEF InnerType
<1>2. DefaultInner \in InnerType
  BY DEF DefaultInner, InnerType, Maybe
<1>2a. DefaultInner.mark = NoValue /\ DefaultInner.index = NoValue
  BY DEF DefaultInner
<1>3. funded \in InnerType /\ funded.rate = m.rate /\ funded.rate_24h = m.rate_24h /\ Same(DefaultInner, funded, {"rate", "rate_24h"})
  <2>1. funded \in InnerType
    BY <1>1, <1>2, set_funding_rateFields
  <2>2. funded.rate = m.rate
    BY <1>1, <1>2, set_funding_rateFields
  <2>3. funded.rate_24h = m.rate_24h
    BY <1>1, <1>2, set_funding_rateFields
  <2>4. Same(DefaultInner, funded, {"rate", "rate_24h"})
    BY <1>1, <1>2, set_funding_rateFields
  <2> QED
    BY <2>1, <2>2, <2>3, <2>4
<1> HIDE DEF funded
<1>4. counted \in InnerType /\ counted.long = m.long /\ counted.short = m.short /\ Same(funded, counted, {"long", "short"})
  BY <1>1a, <1>3, set_open_interestFields
<1> HIDE DEF counted
<1>5. counted.mark = NoValue /\ counted.index = NoValue
  BY <1>2a, <1>3, <1>4 DEF Same, InnerFields
<1>6. priced \in InnerType /\ priced.mark = m.mark /\ priced.index = m.index /\ Same(counted, priced, {"mark", "index"})
  <2>1. /\ priced \in InnerType
        /\ priced.mark = (IF m.mark = NoValue THEN counted.mark ELSE m.mark)
        /\ priced.index = (IF m.index = NoValue THEN counted.index ELSE m.index)
        /\ Same(counted, priced, {"mark", "index"})
    BY <1>1b, <1>4, set_oracle_pricesFields
  <2> HIDE DEF priced
  <2> QED
    BY <1>5, <2>1
<1> HIDE DEF priced
<1>7. /\ configured \in InnerType /\ configured.leverage = m.leverage /\ configured.margin = m.margin
      /\ Same(priced, configured, {"leverage", "margin"})
  BY <1>1c, <1>6, set_configFields
<1> HIDE DEF configured
<1>8. enabled \in InnerType /\ enabled.enabled = m.enabled /\ Same(configured, enabled, {"enabled"})
  BY <1>1d, <1>7, set_enabledFields
<1> HIDE DEF enabled
<1>9. flagged \in InnerType /\ flagged.paused = m.paused /\ Same(enabled, flagged, {"paused"})
  BY <1>1d, <1>8, set_pausedFields
<1> HIDE DEF flagged
<1>10. restored \in InnerType /\ restored.day = m.day /\ Same(flagged, restored, {"day"})
  BY <1>1d, <1>9, set_24h_statsFields
<1> HIDE DEF restored
<1>11. \A f \in InnerFields : restored[f] = m[f]
  BY <1>3, <1>4, <1>6, <1>7, <1>8, <1>9, <1>10 DEF Same, InnerFields
<1> QED
  BY <1>0, <1>10, <1>11, SameInner

\* Whatever a caller of the market table sets, the fields keep their types.
LEMMA SetTypes ==
    ASSUME Types, Set
    PROVE  inner' \in InnerType
<1>1. inner \in InnerType /\ {NoValue, 1} \subseteq Maybe
  BY DEF Types, Maybe
<1>2. \A r \in 1..2 : set_funding_rate(inner, r, 2 * r) \in InnerType
  <2> SUFFICES ASSUME NEW r \in 1..2 PROVE set_funding_rate(inner, r, 2 * r) \in InnerType
    OBVIOUS
  <2>1. r \in Nat /\ 2 * r \in Nat
    OBVIOUS
  <2> QED
    BY <1>1, <2>1, set_funding_rateFields
<1>3. set_open_interest(inner, 1, 2) \in InnerType
  BY <1>1, set_open_interestFields
<1>4. add_long_oi(inner, 1) \in InnerType /\ add_short_oi(inner, 1) \in InnerType
  BY <1>1, add_oiTypes
<1>5. \A mark, index \in {NoValue, 1} : set_oracle_prices(inner, mark, index) \in InnerType
  <2> SUFFICES ASSUME NEW mark \in Maybe, NEW index \in Maybe PROVE set_oracle_prices(inner, mark, index) \in InnerType
    BY <1>1
  <2> QED
    BY <1>1, set_oracle_pricesFields
<1>6. \A b \in BOOLEAN : set_enabled(inner, b) \in InnerType /\ set_paused(inner, b) \in InnerType
  BY <1>1, set_enabledFields, set_pausedFields
<1>7. \A l, m \in {NoValue, 1} : set_config(inner, l, m) \in InnerType
  <2> SUFFICES ASSUME NEW l \in Maybe, NEW m \in Maybe PROVE set_config(inner, l, m) \in InnerType
    BY <1>1
  <2> QED
    BY <1>1, set_configFields
<1>8. \A d \in {NoValue, 1} : set_24h_stats(inner, d) \in InnerType
  <2> SUFFICES ASSUME NEW d \in Maybe PROVE set_24h_stats(inner, d) \in InnerType
    BY <1>1
  <2> QED
    BY <1>1, set_24h_statsFields
<1> QED
  BY <1>2, <1>3, <1>4, <1>5, <1>6, <1>7, <1>8 DEF Set

\* What open() makes of the file and of the prefix of the log.
LEMMA RestartFacts ==
    ASSUME Types, NEW n \in 0..Len(wal), Restart(n)
    PROVE  /\ wal' \in Seq(EntryType)
           /\ DOMAIN wal' \subseteq DOMAIN wal
           /\ \A i \in DOMAIN wal' : wal'[i] = wal[i]
           /\ TicksIn(wal') \subseteq TicksIn(wal)
           /\ TicksIn(wal') \subseteq Tick
           /\ lost' = (lost \/ TicksIn(wal') # TicksIn(wal))
           /\ TicksIn(wal') = {} => price' = file.price /\ stamp' = file.stamp
           /\ TicksIn(wal') # {} =>
                price' \in TicksIn(wal') /\ (\A t \in TicksIn(wal') : price' >= t) /\ stamp' = price'
           /\ shown' = IF lost' THEN shown ELSE Max({shown, price'})
           /\ last_block' \in Block /\ last_block' >= file.block
           /\ block_stamp' = file.block_stamp /\ hash' = file.hash
           /\ \/ inner' = file.inner /\ versions' = versions
              \/ inner' = set_paused(file.inner, TRUE) /\ versions' = versions \cup {set_paused(v, TRUE) : v \in versions}
           /\ feed' = IdleFeed /\ indexer' = IdleIndexer /\ reader' = IdleReader
           /\ channel' = <<>> /\ cursor' = 0
           /\ UNCHANGED <<file, ticks, before>>
<1> DEFINE log == SubSeq(wal, 1, n)
           blocks == {e.n : e \in EventsIn(log)}
           paused == \E e \in EventsIn(log) : e.kind = "MarketPaused"
           restored == RestoreInner(file.inner)
<1>1. /\ wal' = log
      /\ lost' = (lost \/ TicksIn(log) # TicksIn(wal))
      /\ price' = ReplayedTick(log, file.price)
      /\ stamp' = ReplayedTick(log, file.stamp)
      /\ shown' = IF lost' THEN shown ELSE Max({shown, price'})
      /\ inner' = IF paused THEN set_paused(restored, TRUE) ELSE restored
      /\ versions' = IF paused THEN versions \cup {set_paused(v, TRUE) : v \in versions} ELSE versions
      /\ last_block' = Max({file.block} \cup blocks)
      /\ block_stamp' = file.block_stamp /\ hash' = file.hash
      /\ feed' = IdleFeed /\ indexer' = IdleIndexer /\ reader' = IdleReader
      /\ channel' = <<>> /\ cursor' = 0
      /\ UNCHANGED <<file, ticks, before>>
  BY Zenon DEF Restart
<1> HIDE DEF paused
<1>2. /\ wal \in Seq(EntryType) /\ file \in FileType
      /\ \A i \in DOMAIN wal : wal[i].n \in IF wal[i].kind = "PriceTick" THEN Tick ELSE Block
  BY DEF Types
<1>3. file.inner \in InnerType /\ file.block \in Block
  BY <1>2 DEF FileType
<1>4. restored = file.inner
  BY <1>3, RestoreIsExact
<1> HIDE DEF restored
<1>5. /\ log \in Seq(EntryType) /\ DOMAIN log \subseteq DOMAIN wal /\ (\A i \in DOMAIN log : log[i] = wal[i])
      /\ TicksIn(log) \subseteq TicksIn(wal)
  BY <1>2, PrefixLog
<1> HIDE DEF log
<1>6. TicksIn(log) \subseteq Tick /\ MaxTick \in Nat /\ MaxBlock \in Nat
  BY <1>2, <1>5, IngestAssumption DEF TicksIn
<1>7. blocks \subseteq Block
  BY <1>2, <1>5 DEF EventsIn
<1> HIDE DEF blocks
<1>8. last_block' \in Block /\ last_block' >= file.block
  <2>1. {file.block} \cup blocks \in SUBSET (0..MaxBlock) /\ {file.block} \cup blocks # {}
    BY <1>3, <1>7 DEF Block
  <2>2. Max({file.block} \cup blocks) \in {file.block} \cup blocks
        /\ \A y \in {file.block} \cup blocks : Max({file.block} \cup blocks) >= y
    BY <1>6, <2>1, MaxOf
  <2> QED
    BY <1>1, <1>3, <1>7, <2>2
<1>9. TicksIn(log) = {} => price' = file.price /\ stamp' = file.stamp
  BY <1>1 DEF ReplayedTick
<1>10. TicksIn(log) # {} => price' \in TicksIn(log) /\ (\A t \in TicksIn(log) : price' >= t) /\ stamp' = price'
  <2> SUFFICES ASSUME TicksIn(log) # {} PROVE price' \in TicksIn(log) /\ (\A t \in TicksIn(log) : price' >= t) /\ stamp' = price'
    OBVIOUS
  <2>1. TicksIn(log) \in SUBSET (0..MaxTick)
    BY <1>6 DEF Tick
  <2>2. Max(TicksIn(log)) \in TicksIn(log) /\ \A y \in TicksIn(log) : Max(TicksIn(log)) >= y
    BY <1>6, <2>1, MaxOf
  <2>3. price' = Max(TicksIn(log)) /\ stamp' = Max(TicksIn(log))
    BY <1>1 DEF ReplayedTick
  <2> QED
    BY <2>2, <2>3
<1>11. \/ inner' = file.inner /\ versions' = versions
       \/ inner' = set_paused(file.inner, TRUE) /\ versions' = versions \cup {set_paused(v, TRUE) : v \in versions}
  BY <1>1, <1>4, Zenon
<1> QED
  BY <1>1, <1>5, <1>6, <1>8, <1>9, <1>10, <1>11

-----------------------------------------------------------------------------
(* Types are kept.                                                         *)

LEMMA InitTypes == IngestInit => Types
<1> SUFFICES ASSUME IngestInit PROVE Types
  OBVIOUS
<1>1. 0 \in Tick /\ 0 \in Block
  BY IngestAssumption DEF Tick, Block
<1>2. DefaultInner \in InnerType
  BY DEF DefaultInner, InnerType, Maybe
<1>3. NoFile \in FileType
  BY <1>1, <1>2 DEF NoFile, FileType
<1>4. wal \in Seq(EntryType) /\ DOMAIN wal = {} /\ channel \in Seq(Tick)
  BY DEF IngestInit
<1> QED
  BY <1>1, <1>2, <1>3, <1>4 DEF IngestInit, Types, IdleFeed, IdleIndexer, IdleReader

LEMMA FeedTypes ==
    ASSUME Types, LogTick \/ FeedStep
    PROVE  Types'
<1>1. 0 \in Tick /\ MaxTick \in Nat /\ 0 \in Block
  BY IngestAssumption DEF Tick, Block
<1>2. CASE LogTick
  <2> DEFINE e == Entry("PriceTick", ticks')
  <2>1. ticks' \in Tick /\ wal' = Append(wal, e) /\ wal \in Seq(EntryType)
    BY <1>1, <1>2 DEF LogTick, Types, Tick
  <2>2. e \in EntryType /\ e.kind = "PriceTick" /\ e.n = ticks'
    BY <1>1, <2>1 DEF Entry, EntryType, Tick
  <2>3. /\ wal' \in Seq(EntryType)
        /\ DOMAIN wal' = DOMAIN wal \cup {Len(wal) + 1}
        /\ \A i \in DOMAIN wal : wal'[i] = wal[i]
        /\ wal'[Len(wal) + 1] = e
    BY <2>1, <2>2, AppendedLog
  <2> HIDE DEF e
  <2>4. \A i \in DOMAIN wal' : wal'[i].n \in IF wal'[i].kind = "PriceTick" THEN Tick ELSE Block
    BY <2>1, <2>2, <2>3 DEF Types
  <2>5. feed' \in [pc : {"idle", "price", "stamp", "publish"}, tick : Tick]
    BY <1>2, <2>1 DEF LogTick
  <2> QED
    BY <1>2, <2>1, <2>3, <2>4, <2>5 DEF LogTick, Types, slot, pubsub, FeedRest, checkpoint
<1>3. CASE StorePrice
  <2>1. shown \in Tick /\ feed.tick \in Tick
    BY DEF Types
  <2>2. shown' \in Tick
    BY <1>3, <2>1, MaxOfTwo DEF StorePrice
  <2>3. price' \in Tick /\ before' \in [Tick -> Tick]
    BY <1>3, <2>1 DEF StorePrice, Types
  <2>4. feed' \in [pc : {"idle", "price", "stamp", "publish"}, tick : Tick]
    BY <1>3 DEF StorePrice, Types
  <2> QED
    BY <1>3, <2>2, <2>3, <2>4 DEF StorePrice, Types, pubsub, FeedRest, checkpoint
<1>4. CASE StoreStamp
  <2>1. stamp' \in Tick /\ feed' \in [pc : {"idle", "price", "stamp", "publish"}, tick : Tick]
    BY <1>4 DEF StoreStamp, Types
  <2> QED
    BY <1>4, <2>1 DEF StoreStamp, Types, pubsub, FeedRest, checkpoint
<1>5. CASE Publish
  <2>1. channel' \in Seq(Tick)
    BY <1>5 DEF Publish, Types
  <2> QED
    BY <1>1, <1>5, <2>1 DEF Publish, Types, slot, FeedRest, checkpoint, IdleFeed
<1>6. CASE IngestFails
  BY <1>1, <1>6 DEF IngestFails, Types, slot, pubsub, FeedRest, checkpoint, IdleFeed
<1> QED
  BY <1>2, <1>3, <1>4, <1>5, <1>6 DEF FeedStep

LEMMA IndexerTypes ==
    ASSUME Types,
           \/ \E b \in Block : SaveBlock(b) \/ \E kind \in {"MarketPaused", "Other"} : LogEvent(b, kind)
           \/ PauseMarket \/ AdvanceBlock \/ SaveStamp \/ SaveHash \/ Set
    PROVE  Types'
<1>1. 0 \in Block
  BY IngestAssumption DEF Block
<1>2. ASSUME NEW b \in Block, SaveBlock(b) PROVE Types'
  BY <1>2 DEF SaveBlock, Types, slot, pubsub, IndexerRest
<1>3. ASSUME NEW b \in Block, NEW kind \in {"MarketPaused", "Other"}, LogEvent(b, kind) PROVE Types'
  <2> DEFINE e == Entry(kind, b)
  <2>1. wal' = Append(wal, e) /\ wal \in Seq(EntryType)
    BY <1>3 DEF LogEvent, Types
  <2>2. e \in EntryType /\ e.kind # "PriceTick" /\ e.n = b
    BY IngestAssumption DEF Entry, EntryType, Block
  <2>3. /\ wal' \in Seq(EntryType)
        /\ DOMAIN wal' = DOMAIN wal \cup {Len(wal) + 1}
        /\ \A i \in DOMAIN wal : wal'[i] = wal[i]
        /\ wal'[Len(wal) + 1] = e
    BY <2>1, <2>2, AppendedLog
  <2> HIDE DEF e
  <2>4. \A i \in DOMAIN wal' : wal'[i].n \in IF wal'[i].kind = "PriceTick" THEN Tick ELSE Block
    BY <2>2, <2>3 DEF Types
  <2> QED
    BY <1>3, <2>3, <2>4 DEF LogEvent, Types, slot, checkpoint, pubsub, IndexerRest
<1>4. CASE PauseMarket
  <2>1. inner' \in InnerType
    BY <1>4, set_pausedFields DEF PauseMarket, Types
  <2> QED
    BY <1>4, <2>1 DEF PauseMarket, Types, slot, checkpoint, pubsub, IndexerRest
<1>5. CASE AdvanceBlock
  BY <1>1, <1>5 DEF AdvanceBlock, Types, slot, pubsub, IndexerRest, IdleIndexer
<1>6. CASE SaveStamp
  BY <1>6 DEF SaveStamp, Types, slot, pubsub, IndexerRest
<1>7. CASE SaveHash
  BY <1>1, <1>7 DEF SaveHash, Types, slot, pubsub, IndexerRest, IdleIndexer
<1>8. CASE Set
  <2>1. inner' \in InnerType
    BY <1>8, SetTypes
  <2>2. versions' = versions \cup {inner'} /\ UNCHANGED <<wal, checkpoint, indexer, events, IndexerRest>>
    BY <1>8 DEF Set
  <2> QED
    BY <2>1, <2>2 DEF Types, slot, checkpoint, pubsub, IndexerRest
<1> QED
  BY <1>2, <1>3, <1>4, <1>5, <1>6, <1>7, <1>8

\* What snapshot() has after each of its steps.
LEMMA ReaderSteps ==
    ASSUME Types
    PROVE  /\ ReadBlock => /\ reader.pc = "idle" /\ reader'.pc = "hash" /\ reader' \in [pc : {"hash"}, got : FileType]
                           /\ reader'.got.block = last_block /\ reader'.got.hash = 0
                           /\ reader'.got.price = 0 /\ reader'.got.stamp = 0
           /\ ReadHash => /\ reader.pc = "hash" /\ reader'.pc = "first" /\ reader' \in [pc : {"first"}, got : FileType]
                          /\ reader'.got.block = reader.got.block /\ reader'.got.hash = hash
                          /\ reader'.got.price = reader.got.price /\ reader'.got.stamp = reader.got.stamp
           /\ ReadFirst => /\ reader.pc = "first" /\ reader'.pc = "second" /\ reader' \in [pc : {"second"}, got : FileType]
                           /\ reader'.got.block = reader.got.block /\ reader'.got.hash = reader.got.hash
                           /\ reader'.got.price = price /\ reader'.got.stamp = reader.got.stamp
           /\ ReadSecond => /\ reader.pc = "second" /\ reader'.pc = "fields" /\ reader' \in [pc : {"fields"}, got : FileType]
                            /\ reader'.got.block = reader.got.block /\ reader'.got.hash = reader.got.hash
                            /\ reader'.got.price = reader.got.price /\ reader'.got.stamp = stamp
                            /\ reader'.got.inner = inner
           /\ ReadFields => /\ reader.pc = "fields" /\ reader'.pc = "write" /\ reader' \in [pc : {"write"}, got : FileType]
                            /\ reader'.got.block = reader.got.block /\ reader'.got.hash = reader.got.hash
                            /\ reader'.got.price = reader.got.price /\ reader'.got.stamp = reader.got.stamp
                            /\ reader.got.inner = inner => reader'.got.inner = inner
<1>1. /\ reader.got \in FileType /\ last_block \in Block /\ hash \in Block /\ block_stamp \in Block
      /\ price \in Tick /\ stamp \in Tick /\ inner \in InnerType
  BY DEF Types
<1>2. NoFile \in FileType /\ NoFile.hash = 0 /\ NoFile.price = 0 /\ NoFile.stamp = 0
  <2>1. 0 \in Tick /\ 0 \in Block /\ DefaultInner \in InnerType
    BY IngestAssumption DEF Tick, Block, DefaultInner, InnerType, Maybe
  <2> QED
    BY <2>1 DEF NoFile, FileType
<1>3. ASSUME ReadBlock
      PROVE  /\ reader.pc = "idle" /\ reader'.pc = "hash" /\ reader' \in [pc : {"hash"}, got : FileType]
             /\ reader'.got.block = last_block /\ reader'.got.hash = 0
             /\ reader'.got.price = 0 /\ reader'.got.stamp = 0
  <2> DEFINE g == [NoFile EXCEPT !.block = last_block]
  <2>1. reader.pc = "idle" /\ reader' = [pc |-> "hash", got |-> g]
    BY <1>3 DEF ReadBlock
  <2>2. g \in FileType /\ g.block = last_block /\ g.hash = 0 /\ g.price = 0 /\ g.stamp = 0
    BY <1>1, <1>2 DEF FileType
  <2> HIDE DEF g
  <2> QED
    BY <2>1, <2>2
<1>4. ASSUME ReadHash
      PROVE  /\ reader.pc = "hash" /\ reader'.pc = "first" /\ reader' \in [pc : {"first"}, got : FileType]
             /\ reader'.got.block = reader.got.block /\ reader'.got.hash = hash
             /\ reader'.got.price = reader.got.price /\ reader'.got.stamp = reader.got.stamp
  <2> DEFINE g1 == [reader.got EXCEPT !.hash = hash]
             g == [g1 EXCEPT !.block_stamp = block_stamp]
  <2>1. reader.pc = "hash" /\ reader' = [pc |-> "first", got |-> g]
    BY <1>4 DEF ReadHash
  <2>2. /\ g1 \in FileType /\ g1.block = reader.got.block /\ g1.hash = hash
        /\ g1.price = reader.got.price /\ g1.stamp = reader.got.stamp
    BY <1>1 DEF FileType
  <2> HIDE DEF g1
  <2>3. g \in FileType /\ g.block = g1.block /\ g.hash = g1.hash /\ g.price = g1.price /\ g.stamp = g1.stamp
    BY <1>1, <2>2 DEF FileType
  <2> HIDE DEF g
  <2> QED
    BY <2>1, <2>2, <2>3
<1>5. ASSUME ReadFirst
      PROVE  /\ reader.pc = "first" /\ reader'.pc = "second" /\ reader' \in [pc : {"second"}, got : FileType]
             /\ reader'.got.block = reader.got.block /\ reader'.got.hash = reader.got.hash
             /\ reader'.got.price = price /\ reader'.got.stamp = reader.got.stamp
  <2> DEFINE g == [reader.got EXCEPT !.price = price]
  <2>1. reader.pc = "first" /\ reader' = [pc |-> "second", got |-> g]
    BY <1>5 DEF ReadFirst, Load, Loads
  <2>2. /\ g \in FileType /\ g.block = reader.got.block /\ g.hash = reader.got.hash
        /\ g.price = price /\ g.stamp = reader.got.stamp
    BY <1>1 DEF FileType
  <2> HIDE DEF g
  <2> QED
    BY <2>1, <2>2
<1>6. ASSUME ReadSecond
      PROVE  /\ reader.pc = "second" /\ reader'.pc = "fields" /\ reader' \in [pc : {"fields"}, got : FileType]
             /\ reader'.got.block = reader.got.block /\ reader'.got.hash = reader.got.hash
             /\ reader'.got.price = reader.got.price /\ reader'.got.stamp = stamp
             /\ reader'.got.inner = inner
  <2> DEFINE g1 == [reader.got EXCEPT !.stamp = stamp]
             g == [g1 EXCEPT !.inner = inner]
  <2>1. reader.pc = "second" /\ reader' = [pc |-> "fields", got |-> g]
    BY <1>6 DEF ReadSecond, Load, Loads
  <2>2. /\ g1 \in FileType /\ g1.block = reader.got.block /\ g1.hash = reader.got.hash
        /\ g1.price = reader.got.price /\ g1.stamp = stamp
    BY <1>1 DEF FileType
  <2> HIDE DEF g1
  <2>3. /\ g \in FileType /\ g.block = g1.block /\ g.hash = g1.hash /\ g.price = g1.price /\ g.stamp = g1.stamp
        /\ g.inner = inner
    BY <1>1, <2>2 DEF FileType
  <2> HIDE DEF g
  <2> QED
    BY <2>1, <2>2, <2>3
<1>7. ASSUME ReadFields
      PROVE  /\ reader.pc = "fields" /\ reader'.pc = "write" /\ reader' \in [pc : {"write"}, got : FileType]
             /\ reader'.got.block = reader.got.block /\ reader'.got.hash = reader.got.hash
             /\ reader'.got.price = reader.got.price /\ reader'.got.stamp = reader.got.stamp
             /\ reader.got.inner = inner => reader'.got.inner = inner
  <2> DEFINE m == reader.got.inner
             k == [f \in DOMAIN inner |-> IF f \in Early THEN m[f] ELSE inner[f]]
             g == [reader.got EXCEPT !.inner = k]
  <2>1. reader.pc = "fields" /\ reader' = [pc |-> "write", got |-> g]
    BY <1>7 DEF ReadFields
  <2>2. m \in InnerType
    BY <1>1 DEF FileType
  <2> HIDE DEF m
  <2>3. k \in InnerType
    BY <1>1, <2>2 DEF InnerType, Early
  <2>4. m = inner => k = inner
    BY <1>1 DEF InnerType
  <2> HIDE DEF k
  <2>5. /\ g \in FileType /\ g.block = reader.got.block /\ g.hash = reader.got.hash
        /\ g.price = reader.got.price /\ g.stamp = reader.got.stamp /\ g.inner = k
    BY <1>1, <2>3 DEF FileType
  <2> HIDE DEF g
  <2> QED
    BY <2>1, <2>4, <2>5 DEF m
<1> QED
  BY <1>3, <1>4, <1>5, <1>6, <1>7

LEMMA ReaderTypes ==
    ASSUME Types, ReadBlock \/ ReadHash \/ ReadFirst \/ ReadSecond \/ ReadFields \/ WriteFile
    PROVE  Types'
<1>1. CASE ReadBlock \/ ReadHash \/ ReadFirst \/ ReadSecond \/ ReadFields
  <2>1. reader' \in [pc : {"idle", "hash", "first", "second", "fields", "write"}, got : FileType]
    BY <1>1, ReaderSteps
  <2>2. UNCHANGED <<Rest, slot, file, ingestHistory>>
    BY <1>1 DEF ReadBlock, ReadHash, ReadFirst, ReadSecond, ReadFields
  <2> QED
    BY <2>1, <2>2 DEF Types, Rest, slot, ingestHistory, checkpoint, pubsub
<1>2. CASE WriteFile
  <2>1. NoFile \in FileType
    BY IngestAssumption DEF NoFile, FileType, Tick, Block, DefaultInner, InnerType, Maybe
  <2>2. file' \in FileType /\ reader' = IdleReader /\ UNCHANGED <<Rest, slot, ingestHistory>>
    BY <1>2 DEF WriteFile, Types
  <2> QED
    BY <2>1, <2>2 DEF Types, Rest, slot, ingestHistory, checkpoint, pubsub, IdleReader
<1> QED
  BY <1>1, <1>2

LEMMA SubscriberTypes ==
    ASSUME Types, subscribe \/ Recv
    PROVE  Types'
<1>1. CASE subscribe
  <2>1. cursor' \in Nat
    BY <1>1, LenProperties DEF subscribe, Types
  <2> QED
    BY <1>1, <2>1 DEF subscribe, Types, SubscriberRest, slot, checkpoint
<1>2. CASE Receive
  <2>1. cursor \in 1..Len(channel) /\ channel \in Seq(Tick) /\ shown \in Tick
    BY <1>2, LenProperties DEF Receive, Types
  <2>2. channel[cursor] \in Tick
    BY <2>1, ElementOfSeq
  <2>3. shown' \in Tick
    BY <1>2, <2>1, <2>2, MaxOfTwo DEF Receive
  <2> QED
    BY <1>2, <2>3 DEF Receive, Types, SubscriberRest, slot, checkpoint
<1>3. CASE Lagged
  <2>1. cursor' \in Nat
    <3>1. Len(channel) \in Nat /\ Capacity \in Nat /\ cursor \in Nat /\ Len(channel) - cursor >= Capacity
      BY <1>3, IngestAssumption, LenProperties DEF Lagged, Types
    <3>2. cursor' = Len(channel) - Capacity + 1
      BY <1>3 DEF Lagged
    <3> QED
      BY <3>1, <3>2
  <2> QED
    BY <1>3, <2>1 DEF Lagged, Types, SubscriberRest, slot, checkpoint
<1> QED
  BY <1>1, <1>2, <1>3 DEF Recv

LEMMA RestartTypes ==
    ASSUME Types, NEW n \in 0..Len(wal), Restart(n)
    PROVE  Types'
<1>1. 0 \in Tick /\ 0 \in Block /\ MaxTick \in Nat
  BY IngestAssumption DEF Tick, Block
<1>2. NoFile \in FileType
  BY <1>1 DEF NoFile, FileType, DefaultInner, InnerType, Maybe
<1>3. /\ wal' \in Seq(EntryType)
      /\ DOMAIN wal' \subseteq DOMAIN wal
      /\ \A i \in DOMAIN wal' : wal'[i] = wal[i]
      /\ feed' = IdleFeed /\ indexer' = IdleIndexer /\ reader' = IdleReader
      /\ channel' = <<>> /\ cursor' = 0
      /\ UNCHANGED <<file, ticks, before>>
      /\ block_stamp' = file.block_stamp /\ hash' = file.hash /\ last_block' \in Block
      /\ lost' \in BOOLEAN
  BY RestartFacts
<1>4. file \in FileType /\ shown \in Tick /\ versions \subseteq InnerType
  BY DEF Types
<1>5. price' \in Tick /\ stamp' \in Tick
  <2>1. file.price \in Tick /\ file.stamp \in Tick
    BY <1>4 DEF FileType
  <2>2. CASE TicksIn(wal') = {}
    BY <2>1, <2>2, RestartFacts
  <2>3. CASE TicksIn(wal') # {}
    <3>1. price' \in TicksIn(wal') /\ stamp' = price' /\ TicksIn(wal') \subseteq Tick
      BY <2>3, RestartFacts
    <3> QED
      BY <3>1
  <2> QED
    BY <2>2, <2>3
<1>6. shown' \in Tick
  BY <1>4, <1>5, MaxOfTwo, RestartFacts
<1>7. inner' \in InnerType /\ versions' \subseteq InnerType
  <2>1. file.inner \in InnerType
    BY <1>4 DEF FileType
  <2>2. set_paused(file.inner, TRUE) \in InnerType /\ \A v \in versions : set_paused(v, TRUE) \in InnerType
    BY <1>4, <2>1, set_pausedFields
  <2>3. \/ inner' = file.inner /\ versions' = versions
        \/ inner' = set_paused(file.inner, TRUE) /\ versions' = versions \cup {set_paused(v, TRUE) : v \in versions}
    BY RestartFacts
  <2> QED
    BY <1>4, <2>1, <2>2, <2>3
<1>8. \A i \in DOMAIN wal' : wal'[i].n \in IF wal'[i].kind = "PriceTick" THEN Tick ELSE Block
  BY <1>3 DEF Types
<1>9. channel' \in Seq(Tick)
  BY <1>3
<1>10. file.block_stamp \in Block /\ file.hash \in Block
  BY <1>4 DEF FileType
<1> QED
  BY <1>1, <1>2, <1>3, <1>4, <1>5, <1>6, <1>7, <1>8, <1>9, <1>10 DEF Types, IdleFeed, IdleIndexer, IdleReader

\* A step is one of the feed, of the indexer, of snapshot(), of a receiver, or
\* a restart.
LEMMA NextTypes == Types /\ [IngestNext]_ingestVars => Types'
<1> SUFFICES ASSUME Types, [IngestNext]_ingestVars PROVE Types'
  OBVIOUS
<1>1. CASE UNCHANGED ingestVars
  BY <1>1 DEF ingestVars, Types, slot, checkpoint, pubsub, ingestHistory
<1>2. CASE IngestNext
  BY <1>2, FeedTypes, IndexerTypes, ReaderTypes, SubscriberTypes, RestartTypes DEF IngestNext
<1> QED
  BY <1>1, <1>2

-----------------------------------------------------------------------------
(* The checkpoint.                                                         *)

\* The numbers a step compares are numbers.
LEMMA BlockNumbers ==
    ASSUME Types
    PROVE  /\ last_block \in Nat /\ hash \in Nat /\ indexer.block \in Nat
           /\ reader.got.block \in Nat /\ reader.got.hash \in Nat /\ file.block \in Nat /\ file.hash \in Nat
<1>1. Block \subseteq Nat
  BY IngestAssumption DEF Block
<1>2. reader.got \in FileType /\ file \in FileType /\ last_block \in Block /\ hash \in Block /\ indexer.block \in Block
  BY DEF Types
<1> QED
  BY <1>1, <1>2 DEF FileType

LEMMA IndexerCheckpointed ==
    ASSUME Types, Checkpointed,
           \/ \E b \in Block : SaveBlock(b) \/ \E kind \in {"MarketPaused", "Other"} : LogEvent(b, kind)
           \/ PauseMarket \/ AdvanceBlock \/ SaveStamp \/ SaveHash \/ Set
    PROVE  Checkpointed'
<1>1. /\ last_block \in Nat /\ hash \in Nat /\ indexer.block \in Nat
      /\ reader.got.block \in Nat /\ reader.got.hash \in Nat /\ file.block \in Nat /\ file.hash \in Nat
      /\ Block \subseteq Nat
  BY BlockNumbers, IngestAssumption DEF Block
<1>2. ASSUME NEW b \in Block, SaveBlock(b) PROVE Checkpointed'
  <2>1. /\ last_block' = b /\ b >= last_block /\ indexer'.pc = "save_stamp" /\ indexer'.block = b
        /\ UNCHANGED <<hash, reader, file>>
    BY <1>2 DEF SaveBlock, IndexerRest
  <2> QED
    BY <1>1, <2>1 DEF Checkpointed
<1>3. ASSUME NEW b \in Block, NEW kind \in {"MarketPaused", "Other"}, LogEvent(b, kind) PROVE Checkpointed'
  <2>1. /\ b >= last_block /\ indexer'.pc \in {"pause", "advance"} /\ indexer'.block = b
        /\ UNCHANGED <<last_block, hash, reader, file>>
    BY <1>3 DEF LogEvent, IndexerRest, checkpoint
  <2> QED
    BY <1>1, <2>1 DEF Checkpointed
<1>4. CASE PauseMarket
  <2>1. /\ indexer.pc = "pause" /\ indexer'.pc = "advance" /\ indexer'.block = indexer.block
        /\ UNCHANGED <<last_block, hash, reader, file>>
    BY <1>4 DEF PauseMarket, IndexerRest, checkpoint, Types
  <2> QED
    BY <1>1, <2>1 DEF Checkpointed
<1>5. CASE AdvanceBlock
  <2>1. /\ indexer.pc = "advance" /\ last_block' = indexer.block /\ indexer'.pc = "idle"
        /\ UNCHANGED <<hash, reader, file>>
    BY <1>5 DEF AdvanceBlock, IndexerRest, IdleIndexer
  <2> QED
    BY <1>1, <2>1 DEF Checkpointed
<1>6. CASE SaveStamp
  <2>1. /\ indexer.pc = "save_stamp" /\ indexer'.pc = "save_hash" /\ indexer'.block = indexer.block
        /\ UNCHANGED <<last_block, hash, reader, file>>
    BY <1>6 DEF SaveStamp, IndexerRest, Types
  <2> QED
    BY <1>1, <2>1 DEF Checkpointed
<1>7. CASE SaveHash
  <2>1. /\ indexer.pc = "save_hash" /\ reader.pc # "hash" /\ hash' = indexer.block /\ indexer'.pc = "idle"
        /\ UNCHANGED <<last_block, reader, file>>
    BY <1>7 DEF SaveHash, CheckpointGuarded, IndexerRest, IdleIndexer
  <2> QED
    BY <1>1, <2>1 DEF Checkpointed
<1>8. CASE Set
  <2>1. UNCHANGED <<last_block, hash, indexer, reader, file>>
    BY <1>8 DEF Set, IndexerRest, checkpoint
  <2> QED
    BY <2>1 DEF Checkpointed
<1> QED
  BY <1>2, <1>3, <1>4, <1>5, <1>6, <1>7, <1>8

LEMMA ReaderCheckpointed ==
    ASSUME Types, Checkpointed, ReadBlock \/ ReadHash \/ ReadFirst \/ ReadSecond \/ ReadFields \/ WriteFile
    PROVE  Checkpointed'
<1>1. /\ last_block \in Nat /\ hash \in Nat /\ reader.got.block \in Nat /\ reader.got.hash \in Nat
      /\ file.block \in Nat /\ file.hash \in Nat
  BY BlockNumbers
<1>2. UNCHANGED <<last_block, hash, indexer>>
  BY DEF ReadBlock, ReadHash, ReadFirst, ReadSecond, ReadFields, WriteFile, Rest, checkpoint
<1>3. CASE ReadBlock
  <2>1. reader'.pc = "hash" /\ reader'.got.block = last_block /\ reader'.got.hash = 0 /\ file' = file
    BY <1>3, ReaderSteps DEF ReadBlock
  <2> QED
    BY <1>1, <1>2, <2>1 DEF Checkpointed
<1>4. CASE ReadHash
  <2>1. /\ reader.pc = "hash" /\ reader'.pc = "first" /\ reader'.got.block = reader.got.block /\ reader'.got.hash = hash
        /\ file' = file
    BY <1>4, ReaderSteps DEF ReadHash
  <2> QED
    BY <1>1, <1>2, <2>1 DEF Checkpointed
<1>5. CASE ReadFirst \/ ReadSecond \/ ReadFields
  <2>1. /\ reader.pc \in {"first", "second", "fields"} /\ reader'.pc \in {"second", "fields", "write"}
        /\ reader'.got.block = reader.got.block /\ reader'.got.hash = reader.got.hash
        /\ file' = file
    BY <1>5, ReaderSteps DEF ReadFirst, ReadSecond, ReadFields
  <2> QED
    BY <1>1, <1>2, <2>1 DEF Checkpointed
<1>6. CASE WriteFile
  <2>1. reader.pc = "write" /\ reader'.pc = "idle" /\ file' \in {reader.got, file}
    BY <1>6 DEF WriteFile, IdleReader
  <2> QED
    BY <1>1, <1>2, <2>1 DEF Checkpointed
<1> QED
  BY <1>3, <1>4, <1>5, <1>6

LEMMA NextCheckpointed == Types /\ Checkpointed /\ [IngestNext]_ingestVars => Checkpointed'
<1> SUFFICES ASSUME Types, Checkpointed, [IngestNext]_ingestVars PROVE Checkpointed'
  OBVIOUS
<1>1. CASE UNCHANGED <<last_block, hash, indexer, reader, file>>
  BY <1>1 DEF Checkpointed
<1>2. CASE LogTick \/ FeedStep \/ subscribe \/ Recv \/ UNCHANGED ingestVars
  <2>1. UNCHANGED <<last_block, hash, indexer, reader, file>>
    BY <1>2 DEF LogTick, FeedStep, StorePrice, StoreStamp, Publish, IngestFails, FeedRest, subscribe, Recv, Receive,
                Lagged, SubscriberRest, checkpoint, ingestVars
  <2> QED
    BY <1>1, <2>1
<1>3. ASSUME NEW n \in 0..Len(wal), Restart(n) PROVE Checkpointed'
  <2>1. /\ last_block' \in Nat /\ last_block' >= file.block /\ hash' = file.hash /\ file' = file
        /\ indexer' = IdleIndexer /\ reader' = IdleReader
    <3>1. /\ last_block' \in Block /\ last_block' >= file.block /\ hash' = file.hash /\ file' = file
          /\ indexer' = IdleIndexer /\ reader' = IdleReader
      BY <1>3, RestartFacts
    <3>2. Block \subseteq Nat
      BY IngestAssumption DEF Block
    <3> QED
      BY <3>1, <3>2
  <2>2. indexer'.pc = "idle" /\ reader'.pc = "idle"
    BY <2>1 DEF IdleIndexer, IdleReader
  <2> QED
    BY <2>1, <2>2, BlockNumbers DEF Checkpointed
<1> QED
  BY <1>2, <1>3, IndexerCheckpointed, ReaderCheckpointed DEF IngestNext

-----------------------------------------------------------------------------
(* The locked fields.                                                      *)

LEMMA NextLocked == Types /\ Locked /\ [IngestNext]_ingestVars => Locked'
<1> SUFFICES ASSUME Types, Locked, [IngestNext]_ingestVars PROVE Locked'
  OBVIOUS
<1>1. ASSUME UNCHANGED <<inner, versions, file, reader>> PROVE Locked'
  BY <1>1 DEF Locked
<1>2. CASE LogTick \/ FeedStep \/ subscribe \/ Recv \/ AdvanceBlock \/ SaveStamp \/ SaveHash \/ UNCHANGED ingestVars
  <2>1. UNCHANGED <<inner, versions, file, reader>>
    BY <1>2 DEF LogTick, FeedStep, StorePrice, StoreStamp, Publish, IngestFails, FeedRest, subscribe, Recv, Receive,
                Lagged, SubscriberRest, AdvanceBlock, SaveStamp, SaveHash, IndexerRest, ingestVars, ingestHistory
  <2> QED
    BY <1>1, <2>1
<1>3. ASSUME NEW b \in Block, SaveBlock(b) \/ \E kind \in {"MarketPaused", "Other"} : LogEvent(b, kind) PROVE Locked'
  <2>1. UNCHANGED <<inner, versions, file, reader>>
    BY <1>3 DEF SaveBlock, LogEvent, IndexerRest
  <2> QED
    BY <1>1, <2>1
<1>4. CASE PauseMarket \/ Set
  <2>1. versions' = versions \cup {inner'} /\ reader.pc \notin {"second", "fields"} /\ UNCHANGED <<file, reader>>
    <3>1. CASE PauseMarket
      BY <3>1 DEF PauseMarket, MarketGuarded, IndexerRest
    <3>2. CASE Set
      <4>1. versions' = versions \cup {inner'} /\ UNCHANGED <<wal, checkpoint, indexer, events, IndexerRest>>
        BY <3>2 DEF Set
      <4>2. ~MarketGuarded
        BY <3>2 DEF Set
      <4> QED
        BY <4>1, <4>2 DEF MarketGuarded, IndexerRest
    <3> QED
      BY <1>4, <3>1, <3>2
  <2> QED
    BY <2>1 DEF Locked
<1>5. CASE ReadBlock \/ ReadHash \/ ReadFirst
  <2>1. reader'.pc \in {"hash", "first", "second"} /\ UNCHANGED <<inner, versions, file>>
    BY <1>5, ReaderSteps DEF ReadBlock, ReadHash, ReadFirst, Rest, ingestHistory
  <2> QED
    BY <2>1 DEF Locked
<1>6. CASE ReadSecond
  <2>1. reader'.pc = "fields" /\ reader'.got.inner = inner /\ UNCHANGED <<inner, versions, file>>
    BY <1>6, ReaderSteps DEF ReadSecond, Rest, ingestHistory
  <2> QED
    BY <2>1 DEF Locked
<1>7. CASE ReadFields
  <2>1. /\ reader.pc = "fields" /\ reader'.pc = "write" /\ (reader.got.inner = inner => reader'.got.inner = inner)
        /\ UNCHANGED <<inner, versions, file>>
    BY <1>7, ReaderSteps DEF ReadFields, Rest, ingestHistory
  <2> QED
    BY <2>1 DEF Locked
<1>8. CASE WriteFile
  <2>1. reader.pc = "write" /\ reader'.pc = "idle" /\ file' \in {reader.got, file} /\ UNCHANGED <<inner, versions>>
    BY <1>8 DEF WriteFile, IdleReader, Rest, ingestHistory
  <2> QED
    BY <2>1 DEF Locked
<1>9. ASSUME NEW n \in 0..Len(wal), Restart(n) PROVE Locked'
  <2>1. /\ \/ inner' = file.inner /\ versions' = versions
           \/ inner' = set_paused(file.inner, TRUE) /\ versions' = versions \cup {set_paused(v, TRUE) : v \in versions}
        /\ reader' = IdleReader /\ file' = file
    BY <1>9, RestartFacts
  <2>2. reader'.pc = "idle"
    BY <2>1 DEF IdleReader
  <2> QED
    BY <2>1, <2>2 DEF Locked
<1> QED
  BY <1>2, <1>3, <1>4, <1>5, <1>6, <1>7, <1>8, <1>9 DEF IngestNext

-----------------------------------------------------------------------------
(* Prices.                                                                 *)

LEMMA TickNumbers ==
    ASSUME Types
    PROVE  /\ Tick \subseteq Nat
           /\ price \in Nat /\ stamp \in Nat /\ ticks \in Nat /\ feed.tick \in Tick /\ shown \in Nat
           /\ reader.got.price \in Tick /\ reader.got.stamp \in Tick /\ file.price \in Tick /\ file.stamp \in Tick
           /\ before \in [Tick -> Tick] /\ price \in Tick
           /\ TicksIn(wal) \subseteq Tick
<1>1. Tick \subseteq Nat
  BY IngestAssumption DEF Tick
<1>2. reader.got \in FileType /\ file \in FileType
  BY DEF Types
<1>3. TicksIn(wal) \subseteq Tick
  BY DEF Types, TicksIn
<1> QED
  BY <1>1, <1>2, <1>3 DEF Types, FileType

LEMMA LogTickPrices ==
    ASSUME Types, Prices, LogTick
    PROVE  Prices'
<1>1. /\ ticks' = ticks + 1 /\ wal' = Append(wal, Entry("PriceTick", ticks')) /\ feed.pc = "idle"
      /\ feed'.pc = "price" /\ feed'.tick = ticks'
      /\ UNCHANGED <<price, stamp, before, shown, channel, reader, file, lost>>
  BY DEF LogTick, slot, pubsub, FeedRest
<1>2. TicksIn(wal') = TicksIn(wal) \cup {ticks'}
  <2>1. ticks' \in Nat /\ wal \in Seq(EntryType)
    BY <1>1, TickNumbers DEF Types
  <2>2. Entry("PriceTick", ticks') \in EntryType /\ Entry("PriceTick", ticks').kind = "PriceTick"
        /\ Entry("PriceTick", ticks').n = ticks'
    BY <2>1 DEF Entry, EntryType
  <2> QED
    BY <1>1, <2>1, <2>2, AppendedTicks
<1>3. /\ Tick \subseteq Nat /\ price \in Nat /\ ticks \in Nat /\ ticks' \in Nat
      /\ reader.got.price \in Nat /\ file.price \in Nat /\ TicksIn(wal) \subseteq Nat
  BY <1>1, TickNumbers
<1>4. Forward'
  BY <1>1, <1>2, <1>3 DEF Prices, Forward
<1>5. ~lost' => Whole'
  BY <1>1, <1>2 DEF Prices, Whole
<1> QED
  BY <1>4, <1>5 DEF Prices

LEMMA StorePrices ==
    ASSUME Types, Prices, StorePrice \/ StoreStamp
    PROVE  Prices'
<1>0. /\ Tick \subseteq Nat
      /\ price \in Nat /\ stamp \in Nat /\ ticks \in Nat /\ feed.tick \in Tick /\ shown \in Nat
      /\ reader.got.price \in Tick /\ reader.got.stamp \in Tick /\ file.price \in Tick /\ file.stamp \in Tick
      /\ before \in [Tick -> Tick] /\ price \in Tick /\ shown \in Tick /\ channel \in Seq(Tick)
  BY TickNumbers DEF Types
<1>1. CASE StorePrice
  <2>1. /\ feed.pc = "price" /\ price' = feed.tick /\ before' = [before EXCEPT ![feed.tick] = price]
        /\ shown' = Max({shown, feed.tick}) /\ feed'.pc = "stamp" /\ feed'.tick = feed.tick
        /\ UNCHANGED <<wal, stamp, channel, ticks, reader, file, lost>>
    BY <1>1 DEF StorePrice, pubsub, FeedRest, Types
  <2>2. /\ feed.tick \in TicksIn(wal) /\ feed.tick = ticks /\ price < feed.tick /\ reader.got.price < feed.tick
        /\ file.price < feed.tick
    BY <2>1 DEF Prices, Forward
  <2>3. /\ before'[price'] = price /\ before'[file.price] = before[file.price]
        /\ before'[reader.got.price] = before[reader.got.price]
    BY <1>0, <2>1, <2>2
  <2>4. Forward'
    <3>1. \A n \in Tick : before'[n] <= n
      BY <1>0, <2>1, <2>2 DEF Prices, Forward
    <3>2. \A i \in DOMAIN channel : channel[i] <= price' /\ channel[i] \in Nat
      <4>1. \A i \in DOMAIN channel : channel[i] \in Tick
        BY <1>0, ElementOfSeq, LenProperties
      <4>2. \A i \in DOMAIN channel : channel[i] <= price
        BY DEF Prices, Forward
      <4>3. price \in Nat /\ price' \in Nat /\ price < price'
        BY <1>0, <2>1, <2>2
      <4>4. \A x \in Nat : x <= price => x <= price'
        BY <4>3
      <4> QED
        BY <1>0, <4>1, <4>2, <4>4
    <3> QED
      BY <1>0, <2>1, <2>2, <3>1, <3>2 DEF Prices, Forward
  <2>5. ASSUME ~lost' PROVE Whole'
    <3>1. Whole
      BY <2>1, <2>5 DEF Prices
    <3>2. shown' = price'
      BY <1>0, <2>1, <2>2, <3>1, MaxOfTwo DEF Whole
    <3>3. stamp = price
      BY <2>1, <3>1 DEF Whole
    <3> QED
      BY <1>0, <2>1, <2>2, <2>3, <3>1, <3>2, <3>3 DEF Whole
  <2> QED
    BY <2>4, <2>5 DEF Prices
<1>2. CASE StoreStamp
  <2>1. /\ feed.pc = "stamp" /\ stamp' = feed.tick /\ feed'.pc = "publish" /\ feed'.tick = feed.tick
        /\ UNCHANGED <<wal, price, before, shown, channel, ticks, reader, file, lost>>
    BY <1>2 DEF StoreStamp, pubsub, FeedRest, Types
  <2>2. price = feed.tick /\ before[price] <= price
    BY <1>0, <2>1 DEF Prices, Forward
  <2>3. Forward'
    BY <1>0, <2>1, <2>2 DEF Prices, Forward
  <2>4. ASSUME ~lost' PROVE Whole'
    <3>1. Whole
      BY <2>1, <2>4 DEF Prices
    <3>2. reader.pc = "second" => stamp' >= before[reader.got.price]
      <4>1. before[reader.got.price] \in Nat
        BY <1>0
      <4> QED
        BY <1>0, <2>1, <2>2, <3>1, <4>1 DEF Whole
    <3>3. before[price] \in Nat
      BY <1>0
    <3> QED
      BY <1>0, <2>1, <2>2, <3>1, <3>2, <3>3 DEF Whole
  <2> QED
    BY <2>3, <2>4 DEF Prices
<1> QED
  BY <1>1, <1>2

LEMMA FeedEndPrices ==
    ASSUME Types, Prices, Publish \/ IngestFails
    PROVE  Prices'
<1>1. /\ feed.pc \in {"price", "publish"} /\ feed'.pc = "idle"
      /\ UNCHANGED <<wal, price, stamp, before, shown, ticks, reader, file, lost>>
  BY DEF Publish, IngestFails, slot, FeedRest, IdleFeed
<1>2. \A i \in DOMAIN channel' : channel'[i] <= price
  <2>1. CASE channel' = channel
    BY <2>1 DEF Prices, Forward
  <2>2. CASE channel' = Append(channel, feed.tick) /\ feed.pc = "publish"
    <3>1. feed.tick = price /\ price \in Nat /\ channel \in Seq(Tick) /\ feed.tick \in Tick
      BY <2>2, TickNumbers DEF Prices, Forward, Types
    <3>2. /\ Len(channel) \in Nat /\ DOMAIN channel = 1..Len(channel) /\ DOMAIN channel' = 1..(Len(channel) + 1)
          /\ (\A i \in 1..Len(channel) : channel'[i] = channel[i]) /\ channel'[Len(channel) + 1] = feed.tick
      BY <2>2, <3>1, LenProperties, AppendProperties
    <3>3. \A i \in DOMAIN channel' : i \in DOMAIN channel \/ i = Len(channel) + 1
      BY <3>2
    <3> QED
      BY <3>1, <3>2, <3>3 DEF Prices, Forward
  <2> QED
    BY <2>1, <2>2 DEF Publish, IngestFails, pubsub
<1>3. Forward'
  BY <1>1, <1>2 DEF Prices, Forward
<1>4. ~lost' => Whole'
  BY <1>1 DEF Prices, Whole
<1> QED
  BY <1>3, <1>4 DEF Prices

LEMMA ReaderPrices ==
    ASSUME Types, Prices, ReadBlock \/ ReadHash \/ ReadFirst \/ ReadSecond \/ ReadFields \/ WriteFile
    PROVE  Prices'
<1>0. /\ Tick \subseteq Nat
      /\ price \in Nat /\ stamp \in Nat /\ ticks \in Nat /\ feed.tick \in Tick
      /\ reader.got.price \in Tick /\ reader.got.stamp \in Tick /\ file.price \in Tick /\ file.stamp \in Tick
      /\ before \in [Tick -> Tick] /\ price \in Tick /\ 0 \in Tick
  BY TickNumbers, IngestAssumption DEF Tick
<1>1. UNCHANGED <<wal, feed, price, stamp, channel, before, shown, ticks, lost>>
  BY DEF ReadBlock, ReadHash, ReadFirst, ReadSecond, ReadFields, WriteFile, Rest, slot, ingestHistory, pubsub
<1>2. CASE ReadBlock
  <2>1. reader'.pc = "hash" /\ reader'.got.price = 0 /\ reader'.got.stamp = 0 /\ file' = file
    BY <1>2, ReaderSteps DEF ReadBlock
  <2>2. Forward'
    <3>1. feed.pc = "price" => 0 < feed.tick
      BY <1>0 DEF Prices, Forward
    <3> QED
      BY <1>0, <1>1, <2>1, <3>1 DEF Prices, Forward
  <2>3. ~lost' => Whole'
    BY <1>1, <2>1 DEF Prices, Whole
  <2> QED
    BY <2>2, <2>3 DEF Prices
<1>3. CASE ReadHash
  <2>1. /\ reader'.pc = "first" /\ reader'.got.price = reader.got.price /\ reader'.got.stamp = reader.got.stamp
        /\ file' = file
    BY <1>3, ReaderSteps DEF ReadHash
  <2>2. Forward'
    BY <1>1, <2>1 DEF Prices, Forward
  <2>3. ~lost' => Whole'
    BY <1>1, <2>1 DEF Prices, Whole
  <2> QED
    BY <2>2, <2>3 DEF Prices
<1>4. CASE ReadFirst
  <2>1. reader'.pc = "second" /\ reader'.got.price = price /\ reader'.got.stamp = reader.got.stamp /\ file' = file
    BY <1>4, ReaderSteps DEF ReadFirst
  <2>2. Forward'
    BY <1>1, <2>1 DEF Prices, Forward
  <2>3. ~lost' => Whole'
    BY <1>1, <2>1 DEF Prices, Whole
  <2> QED
    BY <2>2, <2>3 DEF Prices
<1>5. CASE ReadSecond
  <2>1. /\ reader.pc = "second" /\ reader'.pc = "fields" /\ reader'.got.price = reader.got.price
        /\ reader'.got.stamp = stamp /\ file' = file
    BY <1>5, ReaderSteps DEF ReadSecond
  <2>2. Forward'
    BY <1>1, <2>1 DEF Prices, Forward
  <2>3. ~lost' => Whole'
    BY <1>1, <2>1 DEF Prices, Whole
  <2> QED
    BY <2>2, <2>3 DEF Prices
<1>6. CASE ReadFields
  <2>1. /\ reader.pc = "fields" /\ reader'.pc = "write" /\ reader'.got.price = reader.got.price
        /\ reader'.got.stamp = reader.got.stamp /\ file' = file
    BY <1>6, ReaderSteps DEF ReadFields
  <2>2. Forward'
    BY <1>1, <2>1 DEF Prices, Forward
  <2>3. ~lost' => Whole'
    BY <1>1, <2>1 DEF Prices, Whole
  <2> QED
    BY <2>2, <2>3 DEF Prices
<1>7. CASE WriteFile
  <2>1. reader.pc = "write" /\ reader'.pc = "idle" /\ reader'.got.price = 0 /\ reader'.got.stamp = 0 /\ file' \in {reader.got, file}
    BY <1>7 DEF WriteFile, IdleReader, NoFile
  <2>2. Forward'
    <3>1. feed.pc = "price" => 0 < feed.tick
      BY <1>0 DEF Prices, Forward
    <3> QED
      BY <1>0, <1>1, <2>1, <3>1 DEF Prices, Forward
  <2>3. ~lost' => Whole'
    BY <1>1, <2>1 DEF Prices, Whole
  <2> QED
    BY <2>2, <2>3 DEF Prices
<1> QED
  BY <1>2, <1>3, <1>4, <1>5, <1>6, <1>7

LEMMA SubscriberPrices ==
    ASSUME Types, Prices, subscribe \/ Recv
    PROVE  Prices'
<1>1. UNCHANGED <<wal, feed, price, stamp, channel, before, ticks, lost, reader, file>>
  BY DEF subscribe, Recv, Receive, Lagged, SubscriberRest, slot
<1>2. Forward'
  BY <1>1 DEF Prices, Forward
<1>3. ASSUME ~lost' PROVE Whole'
  <2>1. Whole
    BY <1>1, <1>3 DEF Prices
  <2>2. shown' = shown
    <3>1. CASE subscribe \/ Lagged
      BY <3>1 DEF subscribe, Lagged
    <3>2. CASE Receive
      <4>1. cursor \in 1..Len(channel) /\ channel \in Seq(Tick) /\ shown \in Tick /\ Tick \subseteq Nat
        BY <3>2, LenProperties, TickNumbers DEF Receive, Types
      <4>2. channel[cursor] \in Tick /\ channel[cursor] <= price
        BY <4>1, ElementOfSeq, LenProperties DEF Prices, Forward
      <4>3. shown = price
        BY <2>1 DEF Whole
      <4>4. shown' = Max({shown, channel[cursor]})
        BY <3>2 DEF Receive
      <4> QED
        BY <4>1, <4>2, <4>3, <4>4, MaxOfTwo
    <3> QED
      BY <3>1, <3>2 DEF Recv
  <2> QED
    BY <1>1, <2>1, <2>2 DEF Whole
<1> QED
  BY <1>2, <1>3 DEF Prices

LEMMA RestartPrices ==
    ASSUME Types, Prices, NEW n \in 0..Len(wal), Restart(n)
    PROVE  Prices'
<1>0. /\ Tick \subseteq Nat /\ price \in Nat /\ ticks \in Nat
      /\ file.price \in Tick /\ file.stamp \in Tick
      /\ before \in [Tick -> Tick] /\ 0 \in Tick /\ shown \in Tick
  <2>1. 0 \in Tick
    BY IngestAssumption DEF Tick
  <2>2. shown \in Tick
    BY DEF Types
  <2> QED
    BY <2>1, <2>2, TickNumbers
<1>1. /\ TicksIn(wal') \subseteq TicksIn(wal) /\ TicksIn(wal') \subseteq Tick
      /\ lost' = (lost \/ TicksIn(wal') # TicksIn(wal))
      /\ shown' = IF lost' THEN shown ELSE Max({shown, price'})
      /\ feed' = IdleFeed /\ reader' = IdleReader /\ channel' = <<>>
      /\ UNCHANGED <<file, ticks, before>>
  BY RestartFacts
<1>2. \/ TicksIn(wal') = {} /\ price' = file.price /\ stamp' = file.stamp
      \/ price' \in TicksIn(wal') /\ (\A t \in TicksIn(wal') : price' >= t) /\ stamp' = price'
  BY RestartFacts
<1>3. feed'.pc = "idle" /\ reader'.pc = "idle" /\ reader'.got.price = 0 /\ reader'.got.stamp = 0 /\ DOMAIN channel' = {}
  BY <1>1 DEF IdleFeed, IdleReader, NoFile
<1>4. price' \in Tick /\ stamp' \in Tick /\ price' <= ticks /\ before[price'] <= price' /\ before[price'] \in Nat
  <2>1. price' \in Tick /\ stamp' \in Tick /\ price' <= ticks
    BY <1>0, <1>1, <1>2 DEF Prices, Forward
  <2> QED
    BY <1>0, <2>1 DEF Prices, Forward
<1>5. Forward'
  BY <1>0, <1>1, <1>3, <1>4 DEF Prices, Forward
<1>6. ASSUME ~lost' PROVE Whole'
  <2>1. Whole /\ TicksIn(wal') = TicksIn(wal)
    BY <1>1, <1>6 DEF Prices
  <2>2. stamp' = price' /\ price' \in TicksIn(wal) \cup {0} /\ price' >= price
    <3>1. CASE TicksIn(wal') = {} /\ price' = file.price /\ stamp' = file.stamp
      <4>1. file.price = 0 /\ file.stamp = 0 /\ price = 0
        BY <2>1, <3>1 DEF Whole
      <4> QED
        BY <3>1, <4>1
    <3>2. CASE price' \in TicksIn(wal') /\ (\A t \in TicksIn(wal') : price' >= t) /\ stamp' = price'
      <4>1. price \in TicksIn(wal') \/ price = 0
        BY <2>1 DEF Whole
      <4> QED
        BY <1>0, <1>4, <2>1, <3>2, <4>1
    <3> QED
      BY <1>2, <3>1, <3>2
  <2>3. shown' = price'
    <3>1. shown = price
      BY <2>1 DEF Whole
    <3>2. shown' = Max({shown, price'})
      BY <1>1, <1>6
    <3> QED
      BY <1>0, <1>4, <2>2, <3>1, <3>2, MaxOfTwo
  <2> QED
    BY <1>0, <1>1, <1>3, <1>4, <2>1, <2>2, <2>3 DEF Whole
<1> QED
  BY <1>5, <1>6 DEF Prices

LEMMA IndexerPrices ==
    ASSUME Types, Prices,
           \/ \E b \in Block : SaveBlock(b) \/ \E kind \in {"MarketPaused", "Other"} : LogEvent(b, kind)
           \/ PauseMarket \/ AdvanceBlock \/ SaveStamp \/ SaveHash \/ Set
    PROVE  Prices'
<1>1. UNCHANGED IndexerRest
  <2>1. ASSUME NEW b \in Block, SaveBlock(b) PROVE UNCHANGED IndexerRest
    BY <2>1 DEF SaveBlock
  <2>2. ASSUME NEW b \in Block, NEW kind \in {"MarketPaused", "Other"}, LogEvent(b, kind) PROVE UNCHANGED IndexerRest
    BY <2>2 DEF LogEvent
  <2>3. CASE PauseMarket
    BY <2>3 DEF PauseMarket
  <2>4. CASE AdvanceBlock
    BY <2>4 DEF AdvanceBlock
  <2>5. CASE SaveStamp
    BY <2>5 DEF SaveStamp
  <2>6. CASE SaveHash
    BY <2>6 DEF SaveHash
  <2>7. CASE Set
    <3>1. UNCHANGED <<wal, checkpoint, indexer, events, IndexerRest>>
      BY <2>7 DEF Set
    <3> QED
      BY <3>1
  <2> QED
    BY <2>1, <2>2, <2>3, <2>4, <2>5, <2>6, <2>7
<1>2. UNCHANGED <<price, stamp, feed, reader, file, channel, ticks, before, shown, lost>>
  BY <1>1 DEF IndexerRest, slot, pubsub
<1>3. TicksIn(wal') = TicksIn(wal)
  <2>1. ASSUME NEW b \in Block, NEW kind \in {"MarketPaused", "Other"}, LogEvent(b, kind) PROVE TicksIn(wal') = TicksIn(wal)
    <3> DEFINE e == Entry(kind, b)
    <3>1. wal' = Append(wal, e) /\ wal \in Seq(EntryType)
      BY <2>1 DEF LogEvent, Types
    <3>2. e \in EntryType /\ e.kind # "PriceTick"
      BY IngestAssumption DEF Entry, EntryType, Block
    <3> HIDE DEF e
    <3> QED
      BY <3>1, <3>2, AppendedTicks
  <2>2. ASSUME NEW b \in Block, SaveBlock(b) PROVE wal' = wal
    BY <2>2 DEF SaveBlock
  <2>3. CASE PauseMarket \/ AdvanceBlock \/ SaveStamp \/ SaveHash
    BY <2>3 DEF PauseMarket, AdvanceBlock, SaveStamp, SaveHash
  <2>4. CASE Set
    <3>1. UNCHANGED <<wal, checkpoint, indexer, events, IndexerRest>>
      BY <2>4 DEF Set
    <3> QED
      BY <3>1
  <2> QED
    BY <2>1, <2>2, <2>3, <2>4
<1>4. Forward'
  BY <1>2, <1>3 DEF Prices, Forward
<1>5. ~lost' => Whole'
  BY <1>2, <1>3 DEF Prices, Whole
<1> QED
  BY <1>4, <1>5 DEF Prices

LEMMA NextPrices == Types /\ Prices /\ [IngestNext]_ingestVars => Prices'
<1> SUFFICES ASSUME Types, Prices, [IngestNext]_ingestVars PROVE Prices'
  OBVIOUS
<1>1. CASE UNCHANGED ingestVars
  BY <1>1 DEF ingestVars, Prices, Forward, Whole, TicksIn, slot, pubsub, ingestHistory
<1>2. CASE IngestNext
  BY <1>2, LogTickPrices, StorePrices, FeedEndPrices, IndexerPrices, ReaderPrices, SubscriberPrices, RestartPrices
     DEF IngestNext, FeedStep
<1> QED
  BY <1>1, <1>2

-----------------------------------------------------------------------------
(* The theorems.                                                           *)

LEMMA InitParts == IngestInit => Checkpointed /\ Locked /\ Prices
<1> SUFFICES ASSUME IngestInit PROVE Checkpointed /\ Locked /\ Prices
  OBVIOUS
<1>1. /\ last_block = 0 /\ hash = 0 /\ price = 0 /\ stamp = 0 /\ shown = 0 /\ ticks = 0
      /\ indexer.pc = "idle" /\ reader.pc = "idle" /\ feed.pc = "idle"
      /\ reader.got = NoFile /\ file = NoFile /\ NoFile.hash = 0 /\ NoFile.block = 0 /\ NoFile.price = 0
      /\ NoFile.stamp = 0 /\ NoFile.inner = DefaultInner /\ inner = DefaultInner /\ versions = {DefaultInner}
      /\ before = [n \in Tick |-> 0] /\ DOMAIN channel = {} /\ DOMAIN wal = {}
  BY DEF IngestInit, IdleIndexer, IdleReader, IdleFeed, NoFile
<1>2. Checkpointed /\ Locked
  BY <1>1 DEF Checkpointed, Locked
<1>3. TicksIn(wal) = {} /\ Tick \subseteq Nat /\ 0 \in Tick
  BY <1>1, IngestAssumption DEF TicksIn, Tick
<1>4. Forward /\ Whole
  BY <1>1, <1>3 DEF Forward, Whole
<1> QED
  BY <1>2, <1>4 DEF Prices

\* The inductive invariants hold of every behaviour of the engine's callers.
THEOREM Invariance == IngestSpec => [](Types /\ Checkpointed /\ Locked /\ Prices)
<1>1. IngestInit => Types /\ Checkpointed /\ Locked /\ Prices
  BY InitTypes, InitParts
<1>2. Types /\ Checkpointed /\ Locked /\ Prices /\ [IngestNext]_ingestVars => (Types /\ Checkpointed /\ Locked /\ Prices)'
  BY NextTypes, NextCheckpointed, NextLocked, NextPrices
<1> QED
  BY <1>1, <1>2, PTL DEF IngestSpec

\* save() stores the block before the hash, and checkpoint.snapshot() loads
\* them under the guard that save() needs for the hash: in memory, in a file
\* and after open() the hash is never of a later block than the number.
THEOREM HashNeverAhead == IngestSpec => []HashNotAhead
<1>1. Checkpointed => HashNotAhead
  BY DEF Checkpointed, HashNotAhead
<1> QED
  BY <1>1, Invariance, PTL

\* snapshot() reads the fields of a market one by one under one guard: neither
\* what it reads nor what the file has is a mixture of two updates.
THEOREM FieldsOfOneMoment == IngestSpec => []FileOfOneMoment
<1>1. Locked => FileOfOneMoment
  BY DEF Locked, FileOfOneMoment
<1> QED
  BY <1>1, Invariance, PTL

\* A snapshot has the locked fields of one moment.  open() applies one setter
\* after the other to the defaults, and what comes
\* out is the file's fields, every one of them, whatever their values; a
\* replayed event may pause the market and changes nothing else.
THEOREM RestoresTheFile == IngestSpec => RestoreExact
<1> DEFINE Exact ==
             restarts' # restarts =>
               inner' = IF \E e \in EventsIn(wal') : e.kind = "MarketPaused" THEN [file.inner EXCEPT !.paused = TRUE]
                        ELSE file.inner
<1>1. ASSUME Types, [IngestNext]_ingestVars PROVE Exact
  <2> SUFFICES ASSUME restarts' # restarts
               PROVE  inner' = IF \E e \in EventsIn(wal') : e.kind = "MarketPaused" THEN [file.inner EXCEPT !.paused = TRUE]
                               ELSE file.inner
    OBVIOUS
  <2>1. \E n \in 0..Len(wal) : Restart(n)
    <3>1. CASE LogTick \/ FeedStep
      BY <3>1 DEF LogTick, FeedStep, StorePrice, StoreStamp, Publish, IngestFails, FeedRest
    <3>2. CASE \E b \in Block : SaveBlock(b) \/ \E kind \in {"MarketPaused", "Other"} : LogEvent(b, kind)
      BY <3>2 DEF SaveBlock, LogEvent, IndexerRest
    <3>3. CASE PauseMarket \/ AdvanceBlock \/ SaveStamp \/ SaveHash
      BY <3>3 DEF PauseMarket, AdvanceBlock, SaveStamp, SaveHash, IndexerRest
    <3>4. CASE Set
      <4>1. UNCHANGED <<wal, checkpoint, indexer, events, IndexerRest>>
        BY <3>4 DEF Set
      <4> QED
        BY <4>1 DEF IndexerRest
    <3>5. CASE ReadBlock \/ ReadHash \/ ReadFirst \/ ReadSecond \/ ReadFields \/ WriteFile
      BY <3>5 DEF ReadBlock, ReadHash, ReadFirst, ReadSecond, ReadFields, WriteFile, bounds
    <3>6. CASE subscribe \/ Recv
      BY <3>6 DEF subscribe, Recv, Receive, Lagged, SubscriberRest, bounds
    <3>7. CASE UNCHANGED ingestVars
      BY <3>7 DEF ingestVars, bounds
    <3> QED
      BY <1>1, <3>1, <3>2, <3>3, <3>4, <3>5, <3>6, <3>7 DEF IngestNext
  <2>2. PICK n \in 0..Len(wal) : Restart(n)
    BY <2>1
  <2>3. file.inner \in InnerType
    BY <1>1 DEF Types, FileType
  <2>4. RestoreInner(file.inner) = file.inner
    BY <2>3, RestoreIsExact
  <2>5. inner' = IF \E e \in EventsIn(wal') : e.kind = "MarketPaused" THEN set_paused(RestoreInner(file.inner), TRUE)
                 ELSE RestoreInner(file.inner)
    BY <2>2 DEF Restart
  <2> QED
    BY <2>4, <2>5 DEF set_paused
<1> QED
  BY <1>1, Invariance, FieldsOfOneMoment, PTL DEF IngestSpec, RestoreExact

\* Price and timestamp are two atomics without a lock: as long as the log is
\* whole, no reader, no file and no restart pairs a price with a timestamp
\* older than the tick before it.
THEOREM PairsOfNeighbours == IngestSpec => []PairLag
<1>1. Prices => PairLag
  BY DEF Prices, Whole, PairLag
<1> QED
  BY <1>1, Invariance, PTL

\* What a reader or a receiver has seen is never newer than the slot, also
\* after a restart that kept the log.
THEOREM PriceNeverBack == IngestSpec => []NoStepBack
<1>1. Types /\ Prices => NoStepBack
  BY TickNumbers DEF Prices, Whole, NoStepBack
<1> QED
  BY <1>1, Invariance, PTL

=============================================================================
