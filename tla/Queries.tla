------------------------------ MODULE Queries ------------------------------
(***************************************************************************)
(* The range queries of query/time_range.rs over the records of one file.  *)
(* Ticks and candles have the same code twice; a record is anything with a *)
(* timestamp ts.  Rust counts elements from 0: index i there is i + 1 here.*)
(***************************************************************************)
EXTENDS Naturals, Sequences

\* external: slice::partition_point(), a binary search for the first element
\* outside the set of the indices that satisfy the predicate.
partition_point(s, inside) ==
    LET search[w \in (0..Len(s)) \X (0..Len(s))] ==
            LET lo == w[1]
                hi == w[2]
                mid == (lo + hi) \div 2
            IN  IF lo = hi THEN lo
                ELSE IF mid + 1 \in inside THEN search[<<mid + 1, hi>>] ELSE search[<<lo, mid>>]
    IN  search[<<0, Len(s)>>]

\* Mutant: the bound excludes the record at the target.
MutLowerBound(s, t) == partition_point(s, {i \in DOMAIN s : s[i].ts <= t})

lower_bound(s, t) == partition_point(s, {i \in DOMAIN s : s[i].ts < t})
upper_bound(s, t) == partition_point(s, {i \in DOMAIN s : s[i].ts <= t})

\* The slice lo..hi, which panics unless lo <= hi.
InRange(s, lo, hi) == lo <= hi /\ hi <= Len(s)
Slice(s, lo, hi) == SubSeq(s, lo + 1, hi)

\* [a, b) and [a, b].
query_range(s, a, b) == Slice(s, lower_bound(s, a), lower_bound(s, b))
query_range_inclusive(s, a, b) == Slice(s, lower_bound(s, a), upper_bound(s, b))

\* The last n records; saturating_sub().
query_last(s, n) == Slice(s, IF n < Len(s) THEN Len(s) - n ELSE 0, Len(s))

\* The index of the candle find_candle_at() returns, 0 for None.
find_candle_at(s, t) ==
    LET idx == upper_bound(s, t) IN
    IF s = <<>> THEN 0
    ELSE IF idx = 0 THEN (IF s[1].ts <= t THEN 1 ELSE 0)
    ELSE idx

=============================================================================
