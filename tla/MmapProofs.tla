----------------------------- MODULE MmapProofs -----------------------------
(* Proofs about Mmap: its safety invariants, and that it implements Journal. *)
EXTENDS Mmap, FiniteSetTheorems, SequenceTheorems, WellFoundedInduction, TLAPS

-----------------------------------------------------------------------------
(* The inductive invariant.                                                *)

Rec == [ts : Nat, val : Nat]
Written == [ts : Timestamps, val : 1..MaxWrite]
FileType == [len : Nat, size : Nat, recs : [Slot -> Rec]]

Types ==
    /\ file \in FileType /\ disk \in FileType
    /\ up \in BOOLEAN /\ logical_len \in Nat /\ capacity \in Nat
    /\ stage \in {"idle", "flush", "set_len", "remap", "copy", "header", "overwrite"}
    /\ arg \in Rec
    /\ log \in Seq(Rec) /\ flushed \in Seq(Rec)
    /\ torn \in BOOLEAN /\ lost \in BOOLEAN /\ shrunk \in BOOLEAN /\ unordered \in BOOLEAN
    /\ writes \in 0..MaxWrite /\ restarts \in Nat /\ faults \in Nat

\* The process knows the header's length and maps no more than the file; no
\* header claims more records than there were writes.
HeaderAndMapping ==
    /\ up => logical_len = file.len /\ InitialFileSize <= capacity /\ capacity <= file.size
    /\ ~up => stage = "idle"
    /\ file.len <= writes /\ disk.len <= writes
    /\ file.size = 0 => file.len = 0
    /\ file.size # 0 => InitialFileSize <= file.size
    /\ disk.size # 0 => InitialFileSize <= disk.size

\* What the call under way has achieved by each step.
CallState ==
    /\ stage # "idle" => file.len < writes /\ arg \in Written
    /\ stage \in {"flush", "set_len", "remap"} => capacity < logical_len + 1
    /\ stage \in {"copy", "header"} => logical_len + 1 <= capacity
    /\ stage = "remap" => file.size = Grown(logical_len + 1)
    /\ stage = "header" => file.recs[logical_len + 1] = arg
    /\ stage = "overwrite" => /\ 1 <= logical_len /\ logical_len <= capacity
                           /\ file.recs[logical_len].ts = arg.ts

\* While the file keeps its size it holds what its header says, and the
\* header on disk is no newer.
SizeCovers ==
    ~shrunk => /\ disk.len <= file.len /\ file.len <= file.size
               /\ up => file.len <= capacity

\* The flushed records are in the file and on the disk, inside both.
FlushedInPlace ==
    /\ Len(flushed) <= file.len /\ Len(flushed) <= file.size
    /\ Len(flushed) <= disk.len /\ Len(flushed) <= disk.size
    /\ up => Len(flushed) <= capacity
    /\ \A i \in 1..Len(flushed) : file.recs[i] = flushed[i] /\ disk.recs[i] = flushed[i]

\* The file has the completed writes; an upsert cut short keeps the timestamp.
LogInPlace ==
    ~lost => /\ file.len = Len(log)
             /\ \A i \in 1..Len(log) :
                  /\ file.recs[i].ts = log[i].ts
                  /\ file.recs[i] = log[i] \/ (torn /\ file.recs[i].val = Half)

\* The timestamps ascend, and an append under way goes on from there.
Ascending ==
    ~lost /\ ~unordered =>
        /\ \A i \in 1..file.len : \A j \in 1..(i - 1) : file.recs[j].ts < file.recs[i].ts
        /\ stage \in {"flush", "set_len", "remap", "copy", "header"} =>
             \A j \in 1..file.len : file.recs[j].ts < arg.ts

Inv ==
    /\ Types
    /\ HeaderAndMapping
    /\ CallState
    /\ SizeCovers
    /\ FlushedInPlace
    /\ LogInPlace
    /\ Ascending

-----------------------------------------------------------------------------
(* Numbers: minima, powers of two, and the capacity grow() arrives at.     *)

\* Every non-empty set of naturals has a least element.
LEMMA Least ==
    ASSUME NEW T \in SUBSET Nat, T # {}
    PROVE  \E x \in T : \A y \in T : x <= y
<1>1. \E x \in T : \A y \in T : ~ (<<y, x>> \in OpToRel(<, Nat))
  BY NatLessThanWellFounded, WFMin
<1>2. \A x, y \in Nat : y < x => <<y, x>> \in OpToRel(<, Nat)
  BY Zenon DEF OpToRel
<1>3. PICK x \in T : \A y \in T : ~ (<<y, x>> \in OpToRel(<, Nat))
  BY <1>1
<1>4. \A y \in T : ~ (y < x)
  BY <1>2, <1>3
<1> QED
  BY <1>4

\* Min() of a set of naturals is in it and below the others.
LEMMA MinProperties ==
    ASSUME NEW T \in SUBSET Nat, T # {}
    PROVE  Min(T) \in T /\ \A y \in T : Min(T) <= y
BY Least DEF Min

LEMMA MinOfTwo ==
    ASSUME NEW a \in Nat, NEW b \in Nat
    PROVE  Min({a, b}) = IF a < b THEN a ELSE b
<1>1. {a, b} \in SUBSET Nat /\ {a, b} # {}
  OBVIOUS
<1>2. Min({a, b}) \in {a, b} /\ \A y \in {a, b} : Min({a, b}) <= y
  BY <1>1, MinProperties
<1> QED
  BY <1>2

LEMMA LastOrBefore ==
    ASSUME NEW n \in Nat, NEW i \in 1..(n + 1)
    PROVE  i = n + 1 \/ i \in 1..n
OBVIOUS

\* A set of n elements has 2^n subsets, and among them n singletons.
LEMMA PowerOfTwo ==
    ASSUME NEW n \in Nat
    PROVE  2^n \in Nat /\ n <= 2^n
<1> DEFINE S == 1..n
           f == [x \in S |-> {x}]
<1>1. IsFiniteSet(S) /\ Cardinality(S) = n
  BY FS_Interval
<1>2. IsFiniteSet(SUBSET S) /\ Cardinality(SUBSET S) = 2^n
  BY <1>1, FS_SUBSET
<1>3. f \in Injection(S, SUBSET S)
  BY DEF Injection, IsInjective
<1>4. n <= 2^n
  BY <1>1, <1>2, <1>3, FS_Injection
<1> QED
  BY <1>2, <1>4, FS_CardinalityType

LEMMA ProductBound ==
    ASSUME NEW a \in Nat \ {0}, NEW p \in Nat
    PROVE  a * p \in Nat /\ p <= a * p
OBVIOUS

\* Doubling arrives at a capacity that suffices.
LEMMA GrownSuffices ==
    ASSUME capacity \in Nat, InitialFileSize <= capacity, NEW needed \in 1..MaxWrite
    PROVE  Grown(needed) \in Nat /\ needed <= Grown(needed)
<1> DEFINE C == {c \in {InitialFileSize} \cup {capacity * 2^i : i \in 1..MaxWrite} : c >= needed}
<1>1. capacity \in Nat \ {0} /\ MaxWrite \in 1..MaxWrite /\ MaxWrite \in Nat
  BY MmapAssumption
<1>2. \A i \in 1..MaxWrite : 2^i \in Nat
  BY <1>1, PowerOfTwo
<1>3. \A i \in 1..MaxWrite : capacity * 2^i \in Nat
  BY <1>1, <1>2, ProductBound
<1>4. capacity * 2^MaxWrite >= needed
  <2>1. 2^MaxWrite \in Nat /\ MaxWrite <= 2^MaxWrite
    BY <1>1, PowerOfTwo
  <2>2. 2^MaxWrite <= capacity * 2^MaxWrite
    BY <1>1, <2>1, ProductBound
  <2>3. needed <= MaxWrite /\ needed \in Nat
    BY <1>1
  <2> QED
    BY <1>1, <1>3, <2>1, <2>2, <2>3
<1>5. C \in SUBSET Nat /\ C # {}
  BY <1>1, <1>3, <1>4, MmapAssumption
<1>6. Grown(needed) \in C
  BY <1>5, MinProperties DEF Grown
<1> QED
  BY <1>5, <1>6

-----------------------------------------------------------------------------
(* Files.                                                                  *)

\* The parts of a file.
LEMMA FileParts ==
    ASSUME NEW f \in FileType
    PROVE  /\ f.len \in Nat /\ f.size \in Nat /\ f.recs \in [Slot -> Rec]
           /\ \A i \in Slot : f.recs[i] \in Rec /\ f.recs[i].ts \in Nat /\ f.recs[i].val \in Nat
BY DEF FileType, Rec

\* A file with another length, another size, another record.
LEMMA WithLen ==
    ASSUME NEW f \in FileType, NEW n \in Nat
    PROVE  LET g == [f EXCEPT !.len = n] IN
           g \in FileType /\ g.len = n /\ g.size = f.size /\ g.recs = f.recs
BY DEF FileType

LEMMA WithSize ==
    ASSUME NEW f \in FileType, NEW n \in Nat
    PROVE  LET g == [f EXCEPT !.size = n] IN
           g \in FileType /\ g.len = f.len /\ g.size = n /\ g.recs = f.recs
BY DEF FileType

LEMMA WithRecord ==
    ASSUME NEW f \in FileType, NEW i \in Slot, NEW r \in Rec
    PROVE  LET g == [f EXCEPT !.recs[i] = r] IN
           /\ g \in FileType /\ g.len = f.len /\ g.size = f.size
           /\ g.recs[i] = r /\ \A j \in Slot : j # i => g.recs[j] = f.recs[j]
BY DEF FileType

\* A mixed record has the timestamp of one of its two.
LEMMA MixedRecord ==
    ASSUME NEW old \in Rec, NEW new \in Rec, NEW r \in Mixed(old, new)
    PROVE  r \in Rec /\ r.val = Half /\ r.ts \in {old.ts, new.ts}
BY MmapAssumption DEF Mixed, Half, Rec

LEMMA ZeroIsRec == Zero \in Rec
BY DEF Zero, Rec

LEMMA WrittenIsRec ==
    ASSUME NEW r \in Written
    PROVE  r \in Rec /\ r.ts \in Timestamps /\ r.val \in 1..MaxWrite
<1>1. r.ts \in Timestamps /\ r.val \in 1..MaxWrite
  BY DEF Written
<1>2. Timestamps \subseteq Nat
  BY MmapAssumption
<1>3. r.val \in Nat
  BY <1>1, MmapAssumption
<1> QED
  BY <1>1, <1>2, <1>3 DEF Written, Rec

-----------------------------------------------------------------------------
(* One lemma per action.                                                   *)

\* MmapFile::open().
LEMMA OpenStep ==
    ASSUME Inv, open
    PROVE  Inv'
<1> USE DEF Inv, open, history, mmapBounds
<1>0. /\ file' \in FileType /\ file'.len = file.len /\ file'.recs = file.recs
      /\ file'.size = IF file.size = 0 THEN InitialFileSize ELSE file.size
  BY MmapAssumption, WithSize DEF Types
<1>1. Types'
  BY <1>0, FileParts, MmapAssumption DEF Types, HeaderAndMapping
<1>2. HeaderAndMapping'
  BY <1>0, FileParts, MmapAssumption DEF Types, HeaderAndMapping
<1>3. CallState'
  BY <1>0, FileParts DEF Types, HeaderAndMapping, CallState
<1>4. SizeCovers'
  BY <1>0, FileParts, MmapAssumption DEF Types, HeaderAndMapping, SizeCovers
<1>5. FlushedInPlace'
  BY <1>0, FileParts, MmapAssumption DEF Types, HeaderAndMapping, FlushedInPlace
<1>6. LogInPlace'
  BY <1>0 DEF LogInPlace
<1>7. Ascending'
  BY <1>0 DEF Ascending, HeaderAndMapping
<1> QED
  BY <1>1, <1>2, <1>3, <1>4, <1>5, <1>6, <1>7

\* What the beginning of a call leaves alone.
LEMMA BeginStep ==
    ASSUME Inv, NEW ts \in Timestamps, NEW next, BeginWrite(ts, next),
           next \in {"flush", "copy", "overwrite"}, unordered' \in BOOLEAN
    PROVE  /\ Types' /\ HeaderAndMapping' /\ SizeCovers' /\ FlushedInPlace' /\ LogInPlace'
           /\ file'.len < writes' /\ arg' \in Written /\ arg'.ts = ts
<1> USE DEF Inv, BeginWrite, procVars
<1>0. writes \in Nat /\ writes' \in 0..MaxWrite /\ arg' \in Written /\ arg'.ts = ts
  BY MmapAssumption DEF Types, Written
<1>1. Types'
  BY <1>0, WrittenIsRec DEF Types
<1>2. HeaderAndMapping' /\ file'.len < writes'
  BY <1>0, FileParts DEF Types, HeaderAndMapping
<1>3. SizeCovers'
  BY DEF SizeCovers
<1>4. FlushedInPlace'
  BY DEF FlushedInPlace
<1>5. LogInPlace'
  BY DEF LogInPlace
<1> QED
  BY <1>0, <1>1, <1>2, <1>3, <1>4, <1>5

\* append() begins.
LEMMA AppendBegins ==
    ASSUME Inv, NEW ts \in Timestamps, append(ts)
    PROVE  Inv'
<1> USE DEF append
<1>1. AppendStep \in {"flush", "copy", "overwrite"} /\ BeginWrite(ts, AppendStep) /\ unordered' \in BOOLEAN
  BY DEF AppendStep
<1>2. /\ Types' /\ HeaderAndMapping' /\ SizeCovers' /\ FlushedInPlace' /\ LogInPlace'
      /\ file'.len < writes' /\ arg' \in Written
  BY <1>1, BeginStep
<1>3. CallState'
  BY <1>2, FileParts DEF Inv, Types, HeaderAndMapping, CallState, BeginWrite, AppendStep, procVars
<1>4. Ascending'
  BY DEF Ascending
<1> QED
  BY <1>2, <1>3, <1>4 DEF Inv

\* upsert() begins: an append that goes on is of a later bucket, as long as
\* the writes are in order.
LEMMA UpsertBegins ==
    ASSUME Inv, NEW ts \in Timestamps, upsert(ts)
    PROVE  Inv'
<1> USE DEF upsert
<1> DEFINE same == logical_len > 0 /\ SameBucket(ts)
           next == IF same THEN "overwrite" ELSE AppendStep
<1>0. up /\ stage = "idle" /\ logical_len = file.len /\ logical_len \in Nat /\ capacity \in Nat /\ logical_len <= capacity
  BY DEF Inv, Types, HeaderAndMapping, BeginWrite
<1>1. next \in {"flush", "copy", "overwrite"} /\ BeginWrite(ts, next) /\ unordered' \in BOOLEAN
  BY DEF AppendStep, Inv, Types
<1>2. /\ Types' /\ HeaderAndMapping' /\ SizeCovers' /\ FlushedInPlace' /\ LogInPlace'
      /\ file'.len < writes' /\ arg' \in Written /\ arg'.ts = ts
  BY <1>1, BeginStep
<1>3. CallState'
  BY <1>0, <1>1, <1>2 DEF BeginWrite, AppendStep, SameBucket, procVars, CallState
<1>4. Ascending'
  <2> SUFFICES ASSUME ~lost', ~unordered'
               PROVE  /\ \A i \in 1..file'.len : \A j \in 1..(i - 1) : file'.recs[j].ts < file'.recs[i].ts
                      /\ stage' \in {"flush", "set_len", "remap", "copy", "header"} =>
                           \A j \in 1..file'.len : file'.recs[j].ts < arg'.ts
    BY DEF Ascending
  <2>1. ~lost /\ ~unordered /\ file' = file /\ stage' = next /\ (log = <<>> \/ ~(ts < log[Len(log)].ts))
    BY DEF BeginWrite, Inv, Types
  <2>2. \A i \in 1..file.len : \A j \in 1..(i - 1) : file.recs[j].ts < file.recs[i].ts
    BY <2>1 DEF Inv, Ascending
  <2>3. ASSUME stage' # "overwrite", NEW j \in 1..file.len
        PROVE  file.recs[j].ts < ts
    <3> DEFINE n == file.len
    <3>1. n \in Nat /\ n \in 1..n /\ n \in Slot /\ j \in Slot
      BY <2>3, FileParts, MmapAssumption DEF Inv, Types, HeaderAndMapping, Slot
    <3>2. Len(log) = n /\ log # <<>> /\ file.recs[n].ts = log[n].ts
      BY <2>1, <3>1 DEF Inv, Types, LogInPlace
    <3>3. file.recs[n].ts # ts
      BY <1>0, <2>1, <2>3, <3>1 DEF SameBucket
    <3>4. file.recs[n].ts \in Nat /\ file.recs[j].ts \in Nat /\ ts \in Nat
      BY <3>1, FileParts, MmapAssumption DEF Inv, Types
    <3>5. file.recs[n].ts < ts
      BY <2>1, <3>2, <3>3, <3>4
    <3>6. j = n \/ file.recs[j].ts < file.recs[n].ts
      BY <2>2, <3>1
    <3> QED
      BY <3>4, <3>5, <3>6
  <2> QED
    BY <1>2, <2>1, <2>2, <2>3
<1> QED
  BY <1>2, <1>3, <1>4 DEF Inv

\* The first system call of grow(): everything is written back.
LEMMA GrowFlushStep ==
    ASSUME Inv, GrowFlush
    PROVE  Inv'
<1> USE DEF Inv, GrowFlush, procVars, history, mmapBounds
<1>1. Types'
  BY DEF Types
<1>2. HeaderAndMapping'
  BY DEF HeaderAndMapping
<1>3. CallState'
  BY DEF HeaderAndMapping, CallState
<1>4. SizeCovers'
  BY FileParts DEF Types, SizeCovers
<1>5. FlushedInPlace'
  BY DEF FlushedInPlace
<1>6. LogInPlace'
  BY DEF LogInPlace
<1>7. Ascending'
  BY DEF Ascending
<1> QED
  BY <1>1, <1>2, <1>3, <1>4, <1>5, <1>6, <1>7

\* What grow() asks for is within the writes so far.
LEMMA GrowBound ==
    ASSUME Inv, stage \in {"flush", "set_len", "remap"}
    PROVE  /\ Grown(logical_len + 1) \in Nat /\ logical_len + 1 <= Grown(logical_len + 1)
           /\ up /\ logical_len = file.len /\ logical_len \in Nat /\ capacity \in Nat
           /\ capacity < logical_len + 1 /\ InitialFileSize <= capacity
<1>1. up /\ logical_len = file.len /\ logical_len \in Nat /\ capacity \in Nat /\ InitialFileSize <= capacity
  BY DEF Inv, Types, HeaderAndMapping
<1>2. capacity < logical_len + 1
  BY DEF Inv, CallState
<1>3. logical_len + 1 \in 1..MaxWrite
  BY <1>1, MmapAssumption DEF Inv, Types, CallState
<1> QED
  BY <1>1, <1>2, <1>3, GrownSuffices

\* The second: the file grows.
LEMMA GrowSetLenStep ==
    ASSUME Inv, GrowSetLen
    PROVE  Inv'
<1> USE DEF Inv, GrowSetLen, procVars, history, mmapBounds
<1> DEFINE g == Grown(logical_len + 1)
<1>0. /\ g \in Nat /\ logical_len + 1 <= g /\ up /\ logical_len = file.len /\ logical_len \in Nat
      /\ capacity \in Nat /\ capacity < logical_len + 1 /\ InitialFileSize <= capacity
  BY GrowBound
<1>a. file' \in FileType /\ file'.len = file.len /\ file'.size = g /\ file'.recs = file.recs
  BY <1>0, WithSize DEF Types
<1>b. Grown(logical_len + 1)' = g
  BY DEF Grown
<1> HIDE DEF g
<1>1. Types'
  BY <1>a DEF Types
<1>2. HeaderAndMapping'
  BY <1>0, <1>a, MmapAssumption DEF HeaderAndMapping
<1>3. CallState'
  BY <1>0, <1>a, <1>b DEF CallState
<1>4. SizeCovers'
  BY <1>0, <1>a, FileParts DEF Types, SizeCovers
<1>5. FlushedInPlace'
  BY <1>0, <1>a, FileParts DEF Types, FlushedInPlace
<1>6. LogInPlace'
  BY <1>a DEF LogInPlace
<1>7. Ascending'
  BY <1>a DEF Ascending
<1> QED
  BY <1>1, <1>2, <1>3, <1>4, <1>5, <1>6, <1>7

\* The third: the mapping grows.
LEMMA GrowRemapStep ==
    ASSUME Inv, GrowRemap
    PROVE  Inv'
<1> USE DEF Inv, GrowRemap, history, mmapBounds
<1> DEFINE g == Grown(logical_len + 1)
<1>0. /\ g \in Nat /\ logical_len + 1 <= g /\ up /\ logical_len = file.len /\ logical_len \in Nat
      /\ capacity \in Nat /\ capacity < logical_len + 1 /\ InitialFileSize <= capacity
  BY GrowBound
<1>a. capacity' = g /\ file.size = g
  BY DEF CallState
<1> HIDE DEF g
<1>1. Types'
  BY <1>0, <1>a DEF Types
<1>2. HeaderAndMapping'
  BY <1>0, <1>a, MmapAssumption DEF HeaderAndMapping
<1>3. CallState'
  BY <1>0, <1>a DEF CallState
<1>4. SizeCovers'
  BY <1>0, <1>a, FileParts DEF Types, SizeCovers
<1>5. FlushedInPlace'
  BY <1>0, <1>a, FileParts DEF Types, FlushedInPlace
<1>6. LogInPlace'
  BY DEF LogInPlace
<1>7. Ascending'
  BY DEF Ascending
<1> QED
  BY <1>1, <1>2, <1>3, <1>4, <1>5, <1>6, <1>7

\* Any of the three fails.
LEMMA GrowFailsStep ==
    ASSUME Inv, GrowFails
    PROVE  Inv'
<1> USE DEF Inv, GrowFails, procVars, history
<1>1. Types'
  BY DEF Types
<1>2. HeaderAndMapping'
  BY DEF HeaderAndMapping
<1>3. CallState'
  BY DEF CallState
<1>4. SizeCovers'
  BY DEF SizeCovers
<1>5. FlushedInPlace'
  BY DEF FlushedInPlace
<1>6. LogInPlace'
  BY DEF LogInPlace
<1>7. Ascending'
  BY DEF Ascending
<1> QED
  BY <1>1, <1>2, <1>3, <1>4, <1>5, <1>6, <1>7

\* An append under way has a place behind the records, inside the mapping.
LEMMA PlaceBehind ==
    ASSUME Inv, stage \in {"copy", "header"}
    PROVE  /\ up /\ logical_len = file.len /\ logical_len \in Nat /\ capacity \in Nat
           /\ logical_len + 1 \in Slot /\ logical_len + 1 <= capacity
           /\ arg \in Written /\ arg \in Rec
           /\ \A i \in 1..logical_len : i \in Slot /\ i # logical_len + 1
           /\ Len(flushed) \in Nat /\ Len(flushed) <= logical_len
<1>1. up /\ logical_len = file.len /\ logical_len \in Nat /\ capacity \in Nat
  BY DEF Inv, Types, HeaderAndMapping
<1>2. logical_len + 1 \in Slot /\ logical_len + 1 <= capacity /\ arg \in Written
  BY <1>1, MmapAssumption DEF Inv, Types, CallState, Slot
<1>3. \A i \in 1..logical_len : i \in Slot /\ i # logical_len + 1
  BY <1>1, <1>2, MmapAssumption DEF Slot
<1>4. Len(flushed) \in Nat /\ Len(flushed) <= logical_len
  BY <1>1 DEF Inv, Types, FlushedInPlace
<1> QED
  BY <1>1, <1>2, <1>3, <1>4, WrittenIsRec

\* The record is copied.
LEMMA CopyRecordStep ==
    ASSUME Inv, CopyRecord
    PROVE  Inv'
<1> USE DEF Inv, CopyRecord, procVars, history, mmapBounds
<1>0. /\ up /\ logical_len = file.len /\ logical_len \in Nat /\ logical_len + 1 \in Slot
      /\ logical_len + 1 <= capacity /\ arg \in Rec
      /\ \A i \in 1..logical_len : i \in Slot /\ i # logical_len + 1
      /\ Len(flushed) \in Nat /\ Len(flushed) <= logical_len
  BY PlaceBehind
<1>a. /\ file' \in FileType /\ file'.len = file.len /\ file'.size = file.size
      /\ file'.recs[logical_len + 1] = arg
      /\ \A j \in Slot : j # logical_len + 1 => file'.recs[j] = file.recs[j]
  BY <1>0, WithRecord DEF Types
<1>b. \A i \in 1..file.len : file'.recs[i] = file.recs[i]
  BY <1>0, <1>a
<1>1. Types'
  BY <1>a DEF Types
<1>2. HeaderAndMapping'
  BY <1>a DEF HeaderAndMapping
<1>3. CallState'
  BY <1>0, <1>a DEF CallState
<1>4. SizeCovers'
  BY <1>a DEF SizeCovers
<1>5. FlushedInPlace'
  BY <1>0, <1>a, <1>b DEF FlushedInPlace
<1>6. LogInPlace'
  BY <1>0, <1>a, <1>b DEF LogInPlace
<1>7. Ascending'
  BY <1>0, <1>a, <1>b DEF Ascending
<1> QED
  BY <1>1, <1>2, <1>3, <1>4, <1>5, <1>6, <1>7

\* The header is written, and the record counts.
LEMMA WriteHeaderStep ==
    ASSUME Inv, WriteHeader
    PROVE  Inv'
<1> USE DEF Inv, WriteHeader, mmapBounds
<1>0. /\ up /\ logical_len = file.len /\ logical_len \in Nat /\ logical_len + 1 \in Slot
      /\ logical_len + 1 <= capacity /\ arg \in Rec /\ capacity \in Nat
      /\ \A i \in 1..logical_len : i \in Slot /\ i # logical_len + 1
      /\ Len(flushed) \in Nat /\ Len(flushed) <= logical_len
  BY PlaceBehind
<1>a. /\ file' \in FileType /\ file'.len = logical_len + 1 /\ file'.size = file.size /\ file'.recs = file.recs
  <2>1. logical_len + 1 \in Nat /\ file \in FileType
    BY <1>0 DEF Types
  <2> QED
    BY <2>1, WithLen
<1>b. /\ log' \in Seq(Rec) /\ Len(log') = Len(log) + 1 /\ log'[Len(log) + 1] = arg
      /\ \A i \in 1..Len(log) : log'[i] = log[i]
  BY <1>0, AppendProperties DEF Types
<1>c. file.recs[logical_len + 1] = arg /\ file.len < writes
  BY DEF CallState
<1>1. Types'
  BY <1>0, <1>a, <1>b DEF Types
<1>2. HeaderAndMapping'
  BY <1>0, <1>a, <1>c, FileParts DEF Types, HeaderAndMapping
<1>3. CallState'
  BY DEF CallState
<1>4. SizeCovers'
  BY <1>0, <1>a, FileParts DEF Types, HeaderAndMapping, SizeCovers
<1>5. FlushedInPlace'
  BY <1>0, <1>a DEF FlushedInPlace
<1>6. LogInPlace'
  <2> SUFFICES ASSUME ~lost, NEW i \in 1..(Len(log) + 1)
               PROVE  /\ file'.len = Len(log')
                      /\ file'.recs[i].ts = log'[i].ts
                      /\ file'.recs[i] = log'[i] \/ (torn /\ file'.recs[i].val = Half)
    BY <1>b, <1>0, <1>a DEF LogInPlace, Types
  <2>1. Len(log) = logical_len
    BY <1>0 DEF LogInPlace
  <2>2. CASE i = logical_len + 1
    BY <1>a, <1>b, <1>c, <2>1, <2>2
  <2>3. CASE i \in 1..Len(log)
    BY <1>a, <1>b, <2>1, <2>3 DEF LogInPlace
  <2> QED
    BY <1>0, <2>1, <2>2, <2>3
<1>7. Ascending'
  <2> SUFFICES ASSUME ~lost, ~unordered, NEW i \in 1..(logical_len + 1), NEW j \in 1..(i - 1)
               PROVE  file.recs[j].ts < file.recs[i].ts
    BY <1>a DEF Ascending
  <2>1. CASE i = logical_len + 1
    BY <1>0, <1>c, <2>1 DEF Ascending
  <2>2. CASE i \in 1..file.len
    BY <2>2 DEF Ascending
  <2>3. i = logical_len + 1 \/ i \in 1..logical_len
    BY <1>0, LastOrBefore
  <2> QED
    BY <1>0, <2>1, <2>2, <2>3
<1> QED
  BY <1>1, <1>2, <1>3, <1>4, <1>5, <1>6, <1>7

\* What is left of the flushed records before an overwrite: those before the
\* last record.
LEMMA FlushedBeforeOverwrite ==
    ASSUME Inv, stage = "overwrite"
    PROVE  /\ up /\ logical_len = file.len /\ logical_len \in Slot /\ logical_len \in Nat
           /\ 1 <= logical_len /\ logical_len <= capacity /\ capacity \in Nat
           /\ arg \in Written /\ arg \in Rec /\ file.recs[logical_len].ts = arg.ts
           /\ FlushedBefore \in Seq(Rec) /\ Len(FlushedBefore) \in Nat
           /\ Len(FlushedBefore) <= Len(flushed) /\ Len(FlushedBefore) < logical_len
           /\ \A i \in 1..Len(FlushedBefore) : FlushedBefore[i] = flushed[i] /\ i \in Slot /\ i # logical_len
<1>1. /\ up /\ logical_len = file.len /\ logical_len \in Nat /\ 1 <= logical_len /\ logical_len <= capacity
      /\ capacity \in Nat /\ file.recs[logical_len].ts = arg.ts
  BY DEF Inv, Types, HeaderAndMapping, CallState
<1>2. logical_len \in Slot /\ arg \in Written
  BY <1>1, MmapAssumption DEF Inv, Types, CallState, Slot
<1> DEFINE n == Min({Len(flushed), logical_len - 1})
<1>3. Len(flushed) \in Nat /\ logical_len - 1 \in Nat /\ flushed \in Seq(Rec)
  BY <1>1 DEF Inv, Types
<1>4. n = IF Len(flushed) < logical_len - 1 THEN Len(flushed) ELSE logical_len - 1
  BY <1>3, MinOfTwo
<1>5. n \in 0..Len(flushed) /\ n < logical_len
  BY <1>1, <1>3, <1>4
<1>6. FlushedBefore = SubSeq(flushed, 1, n)
  BY DEF FlushedBefore
<1> HIDE DEF n
<1>7. /\ FlushedBefore \in Seq(Rec) /\ Len(FlushedBefore) = n
      /\ \A i \in 1..n : FlushedBefore[i] = flushed[i]
  BY <1>3, <1>5, <1>6
<1>8. \A i \in 1..n : i \in Slot /\ i # logical_len
  BY <1>2, <1>5, MmapAssumption DEF Slot
<1> QED
  BY <1>1, <1>2, <1>5, <1>7, <1>8, <1>3, WrittenIsRec

\* What changing the last record, and nothing else, leaves of the flushed
\* records, and of the order of time when the timestamp stays.
LEMMA LastRecordChanged ==
    ASSUME Inv, stage = "overwrite", NEW r \in Rec, r.ts = arg.ts,
           file' = [file EXCEPT !.recs[logical_len] = r], flushed' = FlushedBefore, UNCHANGED disk
    PROVE  /\ file' \in FileType /\ file'.len = file.len /\ file'.size = file.size
           /\ file'.recs[logical_len] = r
           /\ \A i \in Slot : i # logical_len => file'.recs[i] = file.recs[i]
           /\ \A i \in Slot : file'.recs[i].ts = file.recs[i].ts
           /\ flushed' \in Seq(Rec) /\ Len(flushed') \in Nat
           /\ Len(flushed') <= Len(flushed)
           /\ \A i \in 1..Len(flushed') : file'.recs[i] = flushed'[i] /\ disk'.recs[i] = flushed'[i]
<1>1. /\ logical_len \in Slot /\ file.recs[logical_len].ts = arg.ts
      /\ flushed' \in Seq(Rec) /\ Len(flushed') \in Nat /\ Len(flushed') <= Len(flushed)
      /\ \A i \in 1..Len(flushed') : flushed'[i] = flushed[i] /\ i \in Slot /\ i # logical_len
  BY FlushedBeforeOverwrite
<1>2. /\ file' \in FileType /\ file'.len = file.len /\ file'.size = file.size
      /\ file'.recs[logical_len] = r
      /\ \A i \in Slot : i # logical_len => file'.recs[i] = file.recs[i]
  BY <1>1, WithRecord DEF Inv, Types
<1>3. \A i \in Slot : file'.recs[i].ts = file.recs[i].ts
  BY <1>1, <1>2
<1>4. \A i \in 1..Len(flushed') : file.recs[i] = flushed[i] /\ disk.recs[i] = flushed[i]
  <2>1. Len(flushed) \in Nat /\ \A i \in 1..Len(flushed') : i \in 1..Len(flushed)
    BY <1>1 DEF Inv, Types
  <2> QED
    BY <2>1 DEF Inv, FlushedInPlace
<1> QED
  BY <1>1, <1>2, <1>3, <1>4

\* The last record is written over.
LEMMA OverwriteRecordStep ==
    ASSUME Inv, OverwriteRecord
    PROVE  Inv'
<1> USE DEF Inv, OverwriteRecord, procVars, mmapBounds
<1>0. /\ up /\ logical_len = file.len /\ logical_len \in Slot /\ logical_len \in Nat
      /\ arg \in Rec /\ Len(FlushedBefore) <= Len(flushed)
  BY FlushedBeforeOverwrite
<1>a. /\ file' \in FileType /\ file'.len = file.len /\ file'.size = file.size
      /\ file'.recs[logical_len] = arg
      /\ \A i \in Slot : i # logical_len => file'.recs[i] = file.recs[i]
      /\ \A i \in Slot : file'.recs[i].ts = file.recs[i].ts
      /\ flushed' \in Seq(Rec) /\ Len(flushed') \in Nat /\ Len(flushed') <= Len(flushed)
      /\ \A i \in 1..Len(flushed') : file'.recs[i] = flushed'[i] /\ disk'.recs[i] = flushed'[i]
  BY <1>0, LastRecordChanged
<1>b. \A i \in 1..file.len : i \in Slot
  BY <1>0, MmapAssumption DEF Slot
<1>c. log' \in Seq(Rec) /\ Len(log') = Len(log)
      /\ \A i \in 1..Len(log) : log'[i] = IF i = logical_len THEN arg ELSE log[i]
  <2>1. CASE logical_len \in DOMAIN log
    BY <1>0, <2>1, ExceptSeq, LenProperties DEF Types
  <2>2. CASE logical_len \notin DOMAIN log
    BY <2>2, LenProperties DEF Types
  <2> QED
    BY <2>1, <2>2
<1>1. Types'
  BY <1>a, <1>c DEF Types
<1>2. HeaderAndMapping'
  BY <1>a DEF HeaderAndMapping
<1>3. CallState'
  BY DEF CallState
<1>4. SizeCovers'
  BY <1>a DEF SizeCovers
<1>5. FlushedInPlace'
  <2>1. Len(flushed) \in Nat /\ file.len \in Nat /\ file.size \in Nat /\ disk.len \in Nat /\ disk.size \in Nat /\ capacity \in Nat
    BY FileParts DEF Types
  <2> QED
    BY <1>a, <2>1 DEF FlushedInPlace
<1>6. LogInPlace'
  BY <1>0, <1>a, <1>b, <1>c DEF LogInPlace
<1>7. Ascending'
  <2> SUFFICES ASSUME ~lost, ~unordered, NEW i \in 1..file.len, NEW j \in 1..(i - 1)
               PROVE  file'.recs[j].ts < file'.recs[i].ts
    BY <1>a DEF Ascending
  <2>1. i \in Slot /\ j \in Slot
    BY <1>0, <1>b
  <2> QED
    BY <1>a, <2>1 DEF Ascending
<1> QED
  BY <1>1, <1>2, <1>3, <1>4, <1>5, <1>6, <1>7

\* The records a reader gets at, as a sequence.
LEMMA ContentsProperties ==
    ASSUME Inv, up
    PROVE  /\ Contents \in Seq(Rec) /\ Len(Contents) \in Nat
           /\ Len(Contents) = IF logical_len < capacity THEN logical_len ELSE capacity
           /\ \A i \in 1..Len(Contents) : i \in Slot /\ Contents[i] = file.recs[i]
<1>1. logical_len \in Nat /\ capacity \in Nat /\ logical_len = file.len /\ logical_len <= MaxWrite
  BY MmapAssumption DEF Inv, Types, HeaderAndMapping
<1> DEFINE n == Min({logical_len, capacity})
<1>2. n = IF logical_len < capacity THEN logical_len ELSE capacity
  BY <1>1, MinOfTwo
<1>3. n \in Nat /\ \A i \in 1..n : i \in Slot /\ file.recs[i] \in Rec
  <2>1. n \in Nat /\ n <= MaxWrite /\ MaxWrite \in Nat
    BY <1>1, <1>2, MmapAssumption
  <2> HIDE DEF n
  <2>2. \A i \in 1..n : i \in Slot
    BY <2>1 DEF Slot
  <2> QED
    BY <2>1, <2>2, FileParts DEF Inv, Types
<1>4. Contents = [i \in 1..n |-> file.recs[i]]
  BY DEF Contents
<1> HIDE DEF n
<1>5. Contents \in Seq(Rec) /\ Len(Contents) = n /\ \A i \in 1..n : Contents[i] = file.recs[i]
  BY <1>3, <1>4
<1> QED
  BY <1>2, <1>3, <1>5

\* flush() of the store.
LEMMA FlushStep ==
    ASSUME Inv, flush
    PROVE  Inv'
<1> USE DEF Inv, flush, procVars, mmapBounds
<1>0. /\ Contents \in Seq(Rec) /\ Len(Contents) \in Nat
      /\ Len(Contents) = IF logical_len < capacity THEN logical_len ELSE capacity
      /\ \A i \in 1..Len(Contents) : i \in Slot /\ Contents[i] = file.recs[i]
  BY ContentsProperties
<1>1. Types'
  BY <1>0 DEF Types
<1>2. HeaderAndMapping'
  BY DEF HeaderAndMapping
<1>3. CallState'
  BY DEF CallState
<1>4. SizeCovers'
  BY FileParts DEF Types, SizeCovers
<1>5. FlushedInPlace'
  BY <1>0, FileParts DEF Types, HeaderAndMapping, FlushedInPlace
<1>6. LogInPlace'
  BY DEF LogInPlace
<1>7. Ascending'
  BY DEF Ascending
<1> QED
  BY <1>1, <1>2, <1>3, <1>4, <1>5, <1>6, <1>7

\* The system writes something back: what is flushed is on the disk already,
\* so it is not touched.
LEMMA WriteBackStep ==
    ASSUME Inv, WriteBack
    PROVE  Inv'
<1> USE DEF Inv, WriteBack, procVars, history, mmapBounds
<1>0. file \in FileType /\ disk \in FileType /\ Len(flushed) \in Nat
  BY DEF Types
<1>1. CASE disk' = [disk EXCEPT !.len = file.len]
  <2>0. disk' \in FileType /\ disk'.len = file.len /\ disk'.size = disk.size /\ disk'.recs = disk.recs
    BY <1>0, <1>1, WithLen, FileParts
  <2>1. Types' /\ HeaderAndMapping' /\ SizeCovers'
    BY <1>0, <2>0, FileParts DEF Types, HeaderAndMapping, SizeCovers
  <2>2. CallState' /\ LogInPlace' /\ Ascending'
    BY DEF CallState, LogInPlace, Ascending, Grown
  <2>3. FlushedInPlace'
    BY <2>0 DEF FlushedInPlace
  <2> QED
    BY <2>1, <2>2, <2>3
<1>2. CASE disk' = [disk EXCEPT !.size = file.size]
  <2>0. disk' \in FileType /\ disk'.len = disk.len /\ disk'.size = file.size /\ disk'.recs = disk.recs
    BY <1>0, <1>2, WithSize, FileParts
  <2>1. Types' /\ HeaderAndMapping' /\ SizeCovers'
    BY <1>0, <2>0, FileParts DEF Types, HeaderAndMapping, SizeCovers
  <2>2. CallState' /\ LogInPlace' /\ Ascending'
    BY DEF CallState, LogInPlace, Ascending, Grown
  <2>3. FlushedInPlace'
    BY <2>0 DEF FlushedInPlace
  <2> QED
    BY <2>1, <2>2, <2>3
<1>3. CASE \E i \in {j \in Slot : disk.recs[j] # file.recs[j]} :
             \E r \in {file.recs[i]} \cup Mixed(disk.recs[i], file.recs[i]) :
               disk' = [disk EXCEPT !.recs[i] = r]
  <2>a. PICK i \in {j \in Slot : disk.recs[j] # file.recs[j]} :
             \E r \in {file.recs[i]} \cup Mixed(disk.recs[i], file.recs[i]) :
               disk' = [disk EXCEPT !.recs[i] = r]
    BY <1>3
  <2>b. PICK r \in {file.recs[i]} \cup Mixed(disk.recs[i], file.recs[i]) :
             disk' = [disk EXCEPT !.recs[i] = r]
    BY <2>a
  <2>1. i \in Slot /\ disk.recs[i] # file.recs[i] /\ disk' = [disk EXCEPT !.recs[i] = r]
    BY <2>b
  <2>2. r \in Rec
    <3>1. disk.recs[i] \in Rec /\ file.recs[i] \in Rec
      BY <1>0, <2>1, FileParts
    <3> QED
      BY <3>1, MixedRecord
  <2>0. /\ disk' \in FileType /\ disk'.len = disk.len /\ disk'.size = disk.size
        /\ \A j \in Slot : j # i => disk'.recs[j] = disk.recs[j]
    BY <1>0, <2>1, <2>2, WithRecord
  <2>3. Types' /\ HeaderAndMapping' /\ SizeCovers'
    BY <1>0, <2>0, FileParts DEF Types, HeaderAndMapping, SizeCovers
  <2>4. CallState' /\ LogInPlace' /\ Ascending'
    BY DEF CallState, LogInPlace, Ascending, Grown
  <2>5. \A j \in 1..Len(flushed) : disk.recs[j] = file.recs[j] /\ j \in Slot
    <3>1. \A j \in 1..Len(flushed) : disk.recs[j] = file.recs[j]
      BY DEF FlushedInPlace
    <3>2. Len(flushed) <= MaxWrite
      BY <1>0, FileParts, MmapAssumption DEF FlushedInPlace, HeaderAndMapping, Types
    <3> QED
      BY <1>0, <3>1, <3>2, MmapAssumption DEF Slot
  <2>6. FlushedInPlace'
    BY <2>0, <2>1, <2>5 DEF FlushedInPlace
  <2> QED
    BY <2>3, <2>4, <2>6
<1> QED
  BY <1>1, <1>2, <1>3

\* What the end of the process leaves of the types, apart from the file.
LEMMA ExitTypes ==
    ASSUME Types, Exit, file' \in FileType, flushed' \in Seq(Rec),
           torn' \in BOOLEAN, lost' \in BOOLEAN, shrunk' \in BOOLEAN
    PROVE  Types'
<1>1. arg' \in Rec
  BY ZeroIsRec DEF Exit
<1>2. up' \in BOOLEAN /\ logical_len' \in Nat /\ capacity' \in Nat
  BY DEF Exit
<1>3. stage' \in {"idle", "flush", "set_len", "remap", "copy", "header", "overwrite"}
  BY DEF Exit
<1>4. disk' \in FileType /\ log' \in Seq(Rec) /\ unordered' \in BOOLEAN /\ writes' \in 0..MaxWrite /\ faults' \in Nat
  BY DEF Exit, Types
<1>5. restarts' \in Nat
  BY DEF Exit, Types
<1> QED
  BY <1>1, <1>2, <1>3, <1>4, <1>5 DEF Types

\* The process ends between two steps.
LEMMA ProcessCrashStep ==
    ASSUME Inv, ProcessCrash
    PROVE  Inv'
<1> USE DEF Inv, ProcessCrash, Exit
<1>1. Types'
  <2>1. /\ file' \in FileType /\ flushed' \in Seq(Rec)
        /\ torn' \in BOOLEAN /\ lost' \in BOOLEAN /\ shrunk' \in BOOLEAN
    BY DEF Types
  <2> QED
    BY <2>1, ExitTypes
<1>2. HeaderAndMapping'
  BY DEF HeaderAndMapping
<1>3. CallState'
  BY DEF CallState
<1>4. SizeCovers'
  BY DEF SizeCovers
<1>5. FlushedInPlace'
  BY DEF FlushedInPlace
<1>6. LogInPlace'
  BY DEF LogInPlace
<1>7. Ascending'
  BY DEF Ascending
<1> QED
  BY <1>1, <1>2, <1>3, <1>4, <1>5, <1>6, <1>7

\* The process ends while an append copies: the place is behind the records.
LEMMA CrashInAppendStep ==
    ASSUME Inv, CrashInCopy, stage = "copy"
    PROVE  Inv'
<1> USE DEF Inv, CrashInCopy, Exit
<1>0. /\ up /\ logical_len = file.len /\ logical_len \in Nat /\ logical_len + 1 \in Slot
      /\ arg \in Rec
      /\ \A i \in 1..logical_len : i \in Slot /\ i # logical_len + 1
      /\ Len(flushed) \in Nat /\ Len(flushed) <= logical_len
  BY PlaceBehind
<1>1. PICK r \in Mixed(file.recs[logical_len + 1], arg) : file' = [file EXCEPT !.recs[logical_len + 1] = r]
  OBVIOUS
<1>2. r \in Rec
  BY <1>0, <1>1, MixedRecord, FileParts DEF Types
<1>a. /\ file' \in FileType /\ file'.len = file.len /\ file'.size = file.size
      /\ \A j \in Slot : j # logical_len + 1 => file'.recs[j] = file.recs[j]
  BY <1>0, <1>1, <1>2, WithRecord DEF Types
<1>b. \A i \in 1..file.len : file'.recs[i] = file.recs[i]
  BY <1>0, <1>a
<1>c. torn' = torn /\ flushed' = flushed
  BY DEF Types
<1>3. Types'
  <2>1. /\ file' \in FileType /\ flushed' \in Seq(Rec)
        /\ torn' \in BOOLEAN /\ lost' \in BOOLEAN /\ shrunk' \in BOOLEAN
    BY <1>a, <1>c DEF Types
  <2> QED
    BY <2>1, ExitTypes
<1>4. HeaderAndMapping' /\ CallState' /\ SizeCovers'
  BY <1>a DEF HeaderAndMapping, CallState, SizeCovers
<1>5. FlushedInPlace'
  BY <1>0, <1>a, <1>b, <1>c DEF FlushedInPlace
<1>6. LogInPlace'
  BY <1>0, <1>a, <1>b, <1>c DEF LogInPlace
<1>7. Ascending'
  BY <1>0, <1>a, <1>b DEF Ascending
<1> QED
  BY <1>3, <1>4, <1>5, <1>6, <1>7

\* The process ends while an upsert copies: its record is mixed, but both
\* halves have the timestamp.
LEMMA CrashInUpsertStep ==
    ASSUME Inv, CrashInCopy, stage = "overwrite"
    PROVE  Inv'
<1> USE DEF Inv, CrashInCopy, Exit
<1>0. /\ up /\ logical_len = file.len /\ logical_len \in Slot /\ logical_len \in Nat
      /\ arg \in Rec /\ file.recs[logical_len].ts = arg.ts
  BY FlushedBeforeOverwrite
<1>1. PICK r \in Mixed(file.recs[logical_len], arg) : file' = [file EXCEPT !.recs[logical_len] = r]
  OBVIOUS
<1>2. r \in Rec /\ r.ts = arg.ts /\ r.val = Half
  BY <1>0, <1>1, MixedRecord, FileParts DEF Types
<1>a. /\ file' \in FileType /\ file'.len = file.len /\ file'.size = file.size
      /\ file'.recs[logical_len] = r
      /\ \A i \in Slot : i # logical_len => file'.recs[i] = file.recs[i]
      /\ \A i \in Slot : file'.recs[i].ts = file.recs[i].ts
      /\ flushed' \in Seq(Rec) /\ Len(flushed') \in Nat /\ Len(flushed') <= Len(flushed)
      /\ \A i \in 1..Len(flushed') : file'.recs[i] = flushed'[i] /\ disk'.recs[i] = flushed'[i]
  BY <1>0, <1>1, <1>2, LastRecordChanged
<1>b. \A i \in 1..file.len : i \in Slot
  BY <1>0, MmapAssumption DEF Slot
<1>3. Types'
  <2>1. /\ file' \in FileType /\ flushed' \in Seq(Rec)
        /\ torn' \in BOOLEAN /\ lost' \in BOOLEAN /\ shrunk' \in BOOLEAN
    BY <1>a DEF Types
  <2> QED
    BY <2>1, ExitTypes
<1>4. HeaderAndMapping' /\ CallState' /\ SizeCovers'
  BY <1>a DEF HeaderAndMapping, CallState, SizeCovers
<1>5. FlushedInPlace'
  <2>1. Len(flushed) \in Nat /\ file.len \in Nat /\ file.size \in Nat /\ disk.len \in Nat /\ disk.size \in Nat
    BY FileParts DEF Types
  <2> QED
    BY <1>a, <2>1 DEF FlushedInPlace
<1>6. LogInPlace'
  <2> SUFFICES ASSUME ~lost
               PROVE  /\ file'.len = Len(log)
                      /\ \A i \in 1..Len(log) :
                           /\ file'.recs[i].ts = log[i].ts
                           /\ file'.recs[i] = log[i] \/ (torn' /\ file'.recs[i].val = Half)
    BY DEF LogInPlace
  <2>1. /\ file.len = Len(log) /\ torn'
        /\ \A i \in 1..Len(log) : /\ file.recs[i].ts = log[i].ts
                                  /\ file.recs[i] = log[i] \/ (torn /\ file.recs[i].val = Half)
    BY DEF LogInPlace
  <2> QED
    BY <1>2, <1>a, <1>b, <2>1
<1>7. Ascending'
  <2> SUFFICES ASSUME ~lost, ~unordered, NEW i \in 1..file.len, NEW j \in 1..(i - 1)
               PROVE  file'.recs[j].ts < file'.recs[i].ts
    BY <1>a DEF Ascending
  <2>1. i \in Slot /\ j \in Slot
    BY <1>0, <1>b
  <2> QED
    BY <1>a, <2>1 DEF Ascending
<1> QED
  BY <1>3, <1>4, <1>5, <1>6, <1>7

\* What a loss of power leaves of the file.
LEMMA AfterPowerLoss ==
    ASSUME Inv, PowerLoss
    PROVE  /\ file' \in FileType
           /\ file'.len = IF disk.size = 0 THEN 0 ELSE disk.len
           /\ file'.size = disk.size
           /\ \A i \in 1..Len(flushed) : i \in Slot /\ file'.recs[i] = flushed[i]
<1>1. file \in FileType /\ disk \in FileType /\ Len(flushed) \in Nat /\ writes \in Nat /\ writes <= MaxWrite
  BY MmapAssumption DEF Inv, Types
<1>2. disk.len \in Nat /\ disk.size \in Nat /\ \A i \in Slot : disk.recs[i] \in Rec
  BY <1>1, FileParts
<1>3. Zero \in Rec
  BY ZeroIsRec
<1>4. [i \in Slot |-> IF i <= disk.size THEN disk.recs[i] ELSE Zero] \in [Slot -> Rec]
  BY <1>2, <1>3
<1>5. file' \in FileType
  BY <1>2, <1>4 DEF FileType, PowerLoss
<1>6. \A i \in 1..Len(flushed) : i \in Slot /\ i <= disk.size
  BY <1>1, <1>2, MmapAssumption DEF Inv, FlushedInPlace, HeaderAndMapping, Slot
<1>7. \A i \in 1..Len(flushed) : file'.recs[i] = disk.recs[i]
  BY <1>6 DEF PowerLoss
<1> QED
  BY <1>5, <1>6, <1>7 DEF Inv, FlushedInPlace, PowerLoss

\* Power is lost.
LEMMA PowerLossStep ==
    ASSUME Inv, PowerLoss
    PROVE  Inv'
<1> USE DEF Inv, PowerLoss, Exit
<1>0. /\ file' \in FileType
      /\ file'.len = IF disk.size = 0 THEN 0 ELSE disk.len
      /\ file'.size = disk.size
      /\ \A i \in 1..Len(flushed) : i \in Slot /\ file'.recs[i] = flushed[i]
  BY AfterPowerLoss
<1>a. file \in FileType /\ disk \in FileType /\ Len(flushed) \in Nat /\ writes \in Nat
  BY MmapAssumption DEF Types
<1>1. Types'
  <2>1. /\ file' \in FileType /\ flushed' \in Seq(Rec)
        /\ torn' \in BOOLEAN /\ lost' \in BOOLEAN /\ shrunk' \in BOOLEAN
    BY <1>0 DEF Types
  <2> QED
    BY <2>1, ExitTypes
<1>2. HeaderAndMapping'
  BY <1>0, <1>a, FileParts DEF HeaderAndMapping
<1>3. CallState'
  BY DEF CallState
<1>4. SizeCovers'
  <2>1. file.size # 0
    BY <1>a, FileParts, MmapAssumption DEF HeaderAndMapping, Types
  <2>2. file.len \in Nat /\ file.size \in Nat /\ disk.len \in Nat /\ disk.size \in Nat
    BY <1>a, FileParts
  <2>3. ~shrunk' => ~shrunk /\ disk.size = file.size
    OBVIOUS
  <2>4. ~shrunk' => disk.len <= file'.len /\ file'.len <= file'.size
    BY <1>0, <2>1, <2>2, <2>3 DEF SizeCovers
  <2> QED
    BY <2>4 DEF SizeCovers
<1>5. FlushedInPlace'
  BY <1>0, <1>a, FileParts DEF FlushedInPlace
<1>6. LogInPlace'
  BY DEF LogInPlace
<1>7. Ascending'
  BY DEF Ascending
<1> QED
  BY <1>1, <1>2, <1>3, <1>4, <1>5, <1>6, <1>7

-----------------------------------------------------------------------------
(* The invariants.                                                         *)

LEMMA InvInit == MmapInit => Inv
<1> SUFFICES ASSUME MmapInit PROVE Inv
  OBVIOUS
<1> USE DEF MmapInit
<1>1. EmptyFile \in FileType /\ EmptyFile.len = 0 /\ EmptyFile.size = 0
  BY DEF EmptyFile, FileType, Rec, Zero
<1>2. Types
  <2>1. file \in FileType /\ disk \in FileType /\ arg \in Rec
    BY <1>1, ZeroIsRec
  <2>2. log \in Seq(Rec) /\ flushed \in Seq(Rec) /\ writes \in 0..MaxWrite
    BY MmapAssumption
  <2> QED
    BY <2>1, <2>2 DEF Types
<1>3. HeaderAndMapping /\ CallState /\ SizeCovers /\ FlushedInPlace /\ LogInPlace /\ Ascending
  BY <1>1 DEF HeaderAndMapping, CallState, SizeCovers, FlushedInPlace, LogInPlace, Ascending
<1> QED
  BY <1>2, <1>3 DEF Inv

LEMMA InvNext == Inv /\ [MmapNext]_mmapVars => Inv'
<1> SUFFICES ASSUME Inv, [MmapNext]_mmapVars PROVE Inv'
  OBVIOUS
<1>1. CASE open
  BY <1>1, OpenStep
<1>2. ASSUME NEW ts \in Timestamps, append(ts) PROVE Inv'
  BY <1>2, AppendBegins
<1>3. ASSUME NEW ts \in Timestamps, upsert(ts) PROVE Inv'
  BY <1>3, UpsertBegins
<1>4. CASE GrowFlush
  BY <1>4, GrowFlushStep
<1>5. CASE GrowSetLen
  BY <1>5, GrowSetLenStep
<1>6. CASE GrowRemap
  BY <1>6, GrowRemapStep
<1>7. CASE GrowFails
  BY <1>7, GrowFailsStep
<1>8. CASE CopyRecord
  BY <1>8, CopyRecordStep
<1>9. CASE WriteHeader
  BY <1>9, WriteHeaderStep
<1>10. CASE OverwriteRecord
  BY <1>10, OverwriteRecordStep
<1>11. CASE flush
  BY <1>11, FlushStep
<1>12. CASE WriteBack
  BY <1>12, WriteBackStep
<1>13. CASE ProcessCrash
  BY <1>13, ProcessCrashStep
<1>14. CASE CrashInCopy
  <2>1. stage = "copy" \/ stage = "overwrite"
    BY <1>14 DEF CrashInCopy
  <2> QED
    BY <1>14, <2>1, CrashInAppendStep, CrashInUpsertStep
<1>15. CASE PowerLoss
  BY <1>15, PowerLossStep
<1>16. CASE UNCHANGED mmapVars
  BY <1>16 DEF mmapVars, procVars, history, mmapBounds, Inv, Types, HeaderAndMapping, CallState,
               SizeCovers, FlushedInPlace, LogInPlace, Ascending, Grown
<1> QED
  BY <1>1, <1>2, <1>3, <1>4, <1>5, <1>6, <1>7, <1>8, <1>9, <1>10, <1>11, <1>12, <1>13,
     <1>14, <1>15, <1>16 DEF MmapNext

\* The inductive invariant holds of every reachable state.
THEOREM Invariance == MmapSpec => []Inv
BY InvInit, InvNext, PTL DEF MmapSpec

\* However the process ends and whichever system call of grow() fails, the
\* file holds the completed writes in order.
THEOREM CrashSafety == MmapSpec => []CrashKeepsRecords
<1>1. Inv => CrashKeepsRecords
  BY DEF Inv, Types, HeaderAndMapping, LogInPlace, CrashKeepsRecords
<1> QED
  BY <1>1, Invariance, PTL

\* What flush() wrote is there, at its place and inside the mapping, after any
\* crashes and power losses.
THEOREM Durability == MmapSpec => []FlushedSurvives
<1>1. Inv => FlushedSurvives
  BY DEF Inv, Types, HeaderAndMapping, FlushedInPlace, FlushedSurvives
<1> QED
  BY <1>1, Invariance, PTL

\* upsert() in the order of time keeps the file sorted by bucket.
THEOREM Sortedness == MmapSpec => []UpsertsSorted
<1>1. Inv => UpsertsSorted
  BY DEF Inv, HeaderAndMapping, Ascending, UpsertsSorted
<1> QED
  BY <1>1, Invariance, PTL

\* Between two calls the mapping covers the records and the file the mapping,
\* unless a loss of power has shrunk the file.
THEOREM Covering == MmapSpec => []MappingCovers
<1>1. Inv => MappingCovers
  BY DEF Inv, HeaderAndMapping, SizeCovers, MappingCovers
<1> QED
  BY <1>1, Invariance, PTL

-----------------------------------------------------------------------------
(* The binary search.                                                      *)

\* The recursion of partition_point(), as an equation for its function.
Windows(n) == (0..n) \X (0..n)
Probe(g, inside, lo, hi) ==
    LET mid == (lo + hi) \div 2 IN
    IF lo = hi THEN lo ELSE IF mid + 1 \in inside THEN g[<<mid + 1, hi>>] ELSE g[<<lo, mid>>]
Searches(g, inside, n) == g = [w \in Windows(n) |-> Probe(g, inside, w[1], w[2])]

\* The middle lies between the ends, or crosses with them.
LEMMA Middle ==
    ASSUME NEW lo \in Nat, NEW hi \in Nat
    PROVE  LET mid == (lo + hi) \div 2 IN
           /\ mid \in Nat
           /\ lo < hi => lo <= mid /\ mid < hi
           /\ hi < lo => hi <= mid /\ mid < lo
OBVIOUS

\* The first index outside 1..k, between lo and hi.
Clamped(k, lo, hi) == IF hi < lo THEN 0 ELSE IF k < lo THEN lo ELSE IF hi < k THEN hi ELSE k

LEMMA SearchExists ==
    ASSUME NEW n \in Nat, NEW k \in 0..n
    PROVE  \E g : Searches(g, 1..k, n)
<1> DEFINE g == [w \in Windows(n) |-> Clamped(k, w[1], w[2])]
<1>1. ASSUME NEW lo \in 0..n, NEW hi \in 0..n
      PROVE  Clamped(k, lo, hi) = Probe(g, 1..k, lo, hi)
  <2> DEFINE mid == (lo + hi) \div 2
  <2>1. CASE lo = hi
    BY <2>1 DEF Probe, Clamped
  <2>2. CASE lo < hi
    <3>1. mid \in 0..n /\ mid + 1 \in 0..n /\ lo <= mid /\ mid < hi
      BY <2>2, Middle
    <3>2. g[<<mid + 1, hi>>] = Clamped(k, mid + 1, hi) /\ g[<<lo, mid>>] = Clamped(k, lo, mid)
      BY <3>1 DEF Windows
    <3>3. Clamped(k, lo, hi) = IF mid + 1 \in 1..k THEN Clamped(k, mid + 1, hi) ELSE Clamped(k, lo, mid)
      <4> HIDE DEF mid
      <4> QED
        BY <3>1, <2>2 DEF Clamped
    <3> QED
      BY <2>2, <3>2, <3>3 DEF Probe
  <2>3. CASE hi < lo
    <3>1. mid \in 0..n /\ mid + 1 \in 0..n /\ hi <= mid /\ mid < lo
      BY <2>3, Middle
    <3>2. g[<<mid + 1, hi>>] = Clamped(k, mid + 1, hi) /\ g[<<lo, mid>>] = Clamped(k, lo, mid)
      BY <3>1 DEF Windows
    <3>3. Clamped(k, lo, hi) = 0 /\ Clamped(k, mid + 1, hi) = 0 /\ Clamped(k, lo, mid) = 0
      <4> HIDE DEF mid
      <4> QED
        BY <3>1, <2>3 DEF Clamped
    <3> QED
      BY <2>3, <3>2, <3>3 DEF Probe
  <2> QED
    BY <2>1, <2>2, <2>3
<1>2. ASSUME NEW w \in Windows(n)
      PROVE  Clamped(k, w[1], w[2]) = Probe(g, 1..k, w[1], w[2])
  <2>1. w[1] \in 0..n /\ w[2] \in 0..n
    BY DEF Windows
  <2> QED
    BY <1>1, <2>1
<1>3. g = [w \in Windows(n) |-> Probe(g, 1..k, w[1], w[2])]
  BY <1>2
<1> QED
  BY <1>3 DEF Searches

LEMMA SearchAt ==
    ASSUME NEW n \in Nat, NEW inside, NEW g, Searches(g, inside, n), NEW lo \in 0..n, NEW hi \in 0..n
    PROVE  g[<<lo, hi>>] = Probe(g, inside, lo, hi)
<1> DEFINE G(h) == [w \in Windows(n) |-> Probe(h, inside, w[1], w[2])]
<1>1. G(g)[<<lo, hi>>] = Probe(g, inside, lo, hi)
  BY DEF Windows
<1>2. g = G(g)
  BY DEF Searches
<1> HIDE DEF G
<1> QED
  BY <1>1, <1>2

\* Whatever solves the equation finds the place.
LEMMA SearchFinds ==
    ASSUME NEW n \in Nat, NEW k \in 0..n, NEW g, Searches(g, 1..k, n)
    PROVE  \A lo, hi \in 0..n : lo <= hi => g[<<lo, hi>>] = Clamped(k, lo, hi)
<1> DEFINE Right(lo, hi) == lo <= hi => g[<<lo, hi>>] = Clamped(k, lo, hi)
           Bad == {d \in Nat : \E lo, hi \in 0..n : d = hi - lo /\ ~Right(lo, hi)}
<1>1. ASSUME NEW lo \in 0..n, NEW hi \in 0..n, lo <= hi,
             \A l, h \in 0..n : h - l < hi - lo => Right(l, h)
      PROVE  g[<<lo, hi>>] = Clamped(k, lo, hi)
  <2> DEFINE mid == (lo + hi) \div 2
  <2>0. g[<<lo, hi>>] = Probe(g, 1..k, lo, hi)
    BY SearchAt
  <2>1. CASE lo = hi
    <3>1. Clamped(k, lo, hi) = lo
      BY <2>1 DEF Clamped
    <3> QED
      BY <2>0, <2>1, <3>1 DEF Probe
  <2>2. CASE lo < hi
    <3>1. mid \in 0..n /\ mid + 1 \in 0..n /\ lo <= mid /\ mid < hi
      BY <2>2, Middle
    <3>2. g[<<lo, hi>>] = IF mid + 1 \in 1..k THEN g[<<mid + 1, hi>>] ELSE g[<<lo, mid>>]
      BY <2>0, <2>2 DEF Probe
    <3> HIDE DEF mid
    <3>3. Right(mid + 1, hi) /\ Right(lo, mid)
      <4>1. hi - (mid + 1) < hi - lo /\ mid - lo < hi - lo
        BY <3>1
      <4> HIDE DEF Right
      <4> QED
        BY <1>1, <3>1, <4>1
    <3>4. g[<<mid + 1, hi>>] = Clamped(k, mid + 1, hi) /\ g[<<lo, mid>>] = Clamped(k, lo, mid)
      BY <3>1, <3>3
    <3>5. Clamped(k, lo, hi) = IF mid + 1 \in 1..k THEN Clamped(k, mid + 1, hi) ELSE Clamped(k, lo, mid)
      BY <3>1, <2>2 DEF Clamped
    <3> QED
      BY <3>2, <3>4, <3>5
  <2> QED
    BY <1>1, <2>1, <2>2
<1>2. ASSUME Bad # {} PROVE FALSE
  <2>1. PICK d \in Bad : \A e \in Bad : d <= e
    <3>1. Bad \in SUBSET Nat
      OBVIOUS
    <3> HIDE DEF Bad
    <3> QED
      BY <1>2, <3>1, Least
  <2>2. PICK lo \in 0..n, hi \in 0..n : d = hi - lo /\ ~Right(lo, hi)
    BY <2>1
  <2>3. ASSUME NEW l \in 0..n, NEW h \in 0..n, h - l < hi - lo PROVE Right(l, h)
    <3>1. CASE l <= h
      <4>1. h - l \in Nat /\ h - l \notin Bad
        <5> HIDE DEF Bad
        <5> QED
          BY <2>1, <2>2, <2>3, <3>1
      <4> QED
        BY <4>1
    <3> QED
      BY <3>1
  <2> QED
    BY <1>1, <2>2, <2>3
<1>3. \A lo, hi \in 0..n : lo <= hi => hi - lo \in Nat
  OBVIOUS
<1> QED
  BY <1>2, <1>3

\* partition_point() over a prefix returns its length.
LEMMA PartitionPoint ==
    ASSUME NEW s, Len(s) \in Nat, NEW k \in 0..Len(s)
    PROVE  partition_point(s, 1..k) = k
<1> DEFINE g == CHOOSE h : Searches(h, 1..k, Len(s))
<1>1. Searches(g, 1..k, Len(s))
  BY SearchExists
<1>2. partition_point(s, 1..k) = g[<<0, Len(s)>>]
  BY DEF partition_point, Searches, Probe, Windows
<1> HIDE DEF g
<1>3. g[<<0, Len(s)>>] = Clamped(k, 0, Len(s))
  BY <1>1, SearchFinds
<1> QED
  BY <1>2, <1>3 DEF Clamped
-----------------------------------------------------------------------------
(* The queries over a file that holds the log.                             *)

\* The parts of a sequence of records.
LEMMA RecordSeq ==
    ASSUME NEW s \in Seq(Rec)
    PROVE  /\ Len(s) \in Nat /\ DOMAIN s = 1..Len(s)
           /\ \A i \in 1..Len(s) : s[i] \in Rec /\ s[i].ts \in Nat
<1>1. Len(s) \in Nat /\ DOMAIN s = 1..Len(s) /\ \A i \in 1..Len(s) : s[i] \in Rec
  OBVIOUS
<1>2. \A r \in Rec : r.ts \in Nat
  BY DEF Rec
<1> QED
  BY <1>1, <1>2

\* What precedes a timestamp in a sorted sequence is a prefix of it.
LEMMA PrefixBefore ==
    ASSUME NEW s \in Seq(Rec), InOrder(s), NEW inside \in SUBSET (1..Len(s)),
           \A i \in inside : \A j \in 1..Len(s) : s[j].ts <= s[i].ts => j \in inside
    PROVE  \E k \in 0..Len(s) : inside = 1..k
<1> DEFINE outside == {i \in 1..(Len(s) + 1) : i \notin inside}
<1>1. outside \in SUBSET Nat /\ Len(s) + 1 \in outside
  OBVIOUS
<1>2. PICK n \in outside : \A m \in outside : n <= m
  <2> HIDE DEF outside
  <2> QED
    BY <1>1, Least
<1>3. n \in 1..(Len(s) + 1) /\ n \notin inside
  OBVIOUS
<1>4. ASSUME NEW i \in 1..(n - 1) PROVE i \in inside
  <2>1. i \in 1..(Len(s) + 1) /\ ~(n <= i)
    BY <1>3
  <2> QED
    BY <1>2, <2>1
<1>5. ASSUME NEW i \in inside, n <= i PROVE FALSE
  <2>1. n \in 1..Len(s) /\ i \in 1..Len(s) /\ n \in 1..i
    BY <1>3, <1>5
  <2>2. s[n].ts <= s[i].ts
    BY <2>1 DEF InOrder
  <2> QED
    BY <1>3, <2>1, <2>2
<1>6. inside = 1..(n - 1)
  <2>1. \A i \in inside : i \in 1..Len(s) /\ ~(n <= i)
    BY <1>5
  <2>2. n \in Nat
    BY <1>3
  <2>3. \A i \in inside : i \in 1..(n - 1)
    BY <2>1, <2>2
  <2> QED
    BY <1>4, <2>3
<1> QED
  BY <1>3, <1>6

\* The two searches of the queries: the records before b, the records up to b.
LEMMA Bounds ==
    ASSUME NEW s \in Seq(Rec), InOrder(s), NEW b \in Nat
    PROVE  /\ lower_bound(s, b) \in 0..Len(s) /\ {i \in 1..Len(s) : s[i].ts < b} = 1..lower_bound(s, b)
           /\ upper_bound(s, b) \in 0..Len(s) /\ {i \in 1..Len(s) : s[i].ts <= b} = 1..upper_bound(s, b)
<1> DEFINE before == {i \in DOMAIN s : s[i].ts < b}
           upto == {i \in DOMAIN s : s[i].ts <= b}
<1>1. Len(s) \in Nat /\ DOMAIN s = 1..Len(s) /\ \A i \in 1..Len(s) : s[i].ts \in Nat
  BY RecordSeq
<1>2. PICK k \in 0..Len(s) : before = 1..k
  <2>1. \A i \in before : \A j \in 1..Len(s) : s[j].ts <= s[i].ts => j \in before
    BY <1>1
  <2>2. before \in SUBSET (1..Len(s))
    BY <1>1
  <2> HIDE DEF before
  <2> QED
    BY <2>1, <2>2, PrefixBefore
<1>3. PICK l \in 0..Len(s) : upto = 1..l
  <2>1. \A i \in upto : \A j \in 1..Len(s) : s[j].ts <= s[i].ts => j \in upto
    BY <1>1
  <2>2. upto \in SUBSET (1..Len(s))
    BY <1>1
  <2> HIDE DEF upto
  <2> QED
    BY <2>1, <2>2, PrefixBefore
<1>4. lower_bound(s, b) = partition_point(s, before) /\ upper_bound(s, b) = partition_point(s, upto)
  BY DEF lower_bound, upper_bound
<1>5. before = {i \in 1..Len(s) : s[i].ts < b} /\ upto = {i \in 1..Len(s) : s[i].ts <= b}
  BY <1>1
<1> HIDE DEF before, upto
<1>6. lower_bound(s, b) = k /\ upper_bound(s, b) = l
  BY <1>1, <1>2, <1>3, <1>4, PartitionPoint
<1> QED
  BY <1>2, <1>3, <1>5, <1>6

\* A slice is what the sequence holds in the interval.
LEMMA SliceKept ==
    ASSUME NEW s \in Seq(Rec), NEW lo \in 0..Len(s), NEW hi \in lo..Len(s)
    PROVE  Kept(Slice(s, lo, hi), s, (lo + 1)..hi)
<1>1. /\ \A i \in (lo + 1)..hi : s[i] \in Rec
      /\ lo \in Nat /\ hi \in Nat /\ lo + 1 \in Int /\ hi \in Int
  BY RecordSeq
<1>2. /\ Len(Slice(s, lo, hi)) = hi - lo
      /\ \A i \in 1..(hi - lo) : Slice(s, lo, hi)[i] = s[lo + i]
  BY <1>1, SubSeqProperties DEF Slice
<1>3. \A i \in lo..hi : Cardinality((lo + 1)..i) = i - lo
  <2> TAKE i \in lo..hi
  <2>1. i \in Int /\ lo <= i
    BY <1>1
  <2>2. Cardinality((lo + 1)..i) = IF lo + 1 > i THEN 0 ELSE i - (lo + 1) + 1
    BY <1>1, <2>1, FS_Interval
  <2> QED
    BY <1>1, <2>1, <2>2
<1>4. ASSUME NEW i \in (lo + 1)..hi
      PROVE  Slice(s, lo, hi)[Cardinality({j \in (lo + 1)..hi : j <= i})] = s[i]
  <2>1. {j \in (lo + 1)..hi : j <= i} = (lo + 1)..i
    BY <1>1
  <2>2. i \in lo..hi /\ i - lo \in 1..(hi - lo) /\ lo + (i - lo) = i
    BY <1>1
  <2>3. Cardinality((lo + 1)..i) = i - lo
    BY <1>3, <2>2
  <2> QED
    BY <1>2, <2>1, <2>2, <2>3
<1>5. Cardinality((lo + 1)..hi) = hi - lo
  BY <1>1, <1>3
<1> QED
  BY <1>2, <1>4, <1>5 DEF Kept

\* Max() of zero and an initial interval.
LEMMA MaxOfInterval ==
    ASSUME NEW k \in Nat
    PROVE  Max({0} \cup 1..k) = k
<1>1. k \in {0} \cup 1..k /\ \A i \in {0} \cup 1..k : k >= i
  OBVIOUS
<1>2. \A m \in {0} \cup 1..k : (\A i \in {0} \cup 1..k : m >= i) => m = k
  OBVIOUS
<1> QED
  BY <1>1, <1>2 DEF Max

\* The answers over a sorted sequence, for any ends.
LEMMA QueriesExact ==
    ASSUME Contents = log, log \in Seq(Rec), InOrder(log), NEW a \in Nat, NEW b \in Nat
    PROVE  RangeExact(a, b)
<1> DEFINE n == Len(log)
           la == lower_bound(log, a)
           lb == lower_bound(log, b)
           ua == upper_bound(log, a)
           ub == upper_bound(log, b)
<1>1. n \in Nat /\ DOMAIN log = 1..n /\ \A i \in 1..n : log[i] \in Rec /\ log[i].ts \in Nat
  BY RecordSeq
<1>2. /\ la \in 0..n /\ {i \in 1..n : log[i].ts < a} = 1..la
      /\ lb \in 0..n /\ {i \in 1..n : log[i].ts < b} = 1..lb
      /\ ua \in 0..n /\ {i \in 1..n : log[i].ts <= a} = 1..ua
      /\ ub \in 0..n /\ {i \in 1..n : log[i].ts <= b} = 1..ub
  BY Bounds
<1> HIDE DEF la, lb, ua, ub
<1>3. ASSUME a <= b
      PROVE  /\ InRange(log, la, lb)
             /\ Kept(Slice(log, la, lb), log, {i \in DOMAIN log : a <= log[i].ts /\ log[i].ts < b})
             /\ Kept(Slice(log, la, ub), log, {i \in DOMAIN log : a <= log[i].ts /\ log[i].ts <= b})
  <2>1. \A i \in 1..n : (i <= la <=> log[i].ts < a) /\ (i <= lb <=> log[i].ts < b) /\ (i <= ub <=> log[i].ts <= b)
    BY <1>2
  <2>2. la <= lb /\ la <= ub
    <3>1. CASE la = 0
      BY <3>1, <1>2
    <3>2. CASE la # 0
      <4>1. la \in 1..n /\ log[la].ts < a
        BY <3>2, <1>2, <2>1
      <4> QED
        BY <4>1, <1>1, <1>3, <2>1
    <3> QED
      BY <3>1, <3>2
  <2>3. {i \in DOMAIN log : a <= log[i].ts /\ log[i].ts < b} = (la + 1)..lb
    BY <1>1, <1>2, <2>1
  <2>4. {i \in DOMAIN log : a <= log[i].ts /\ log[i].ts <= b} = (la + 1)..ub
    BY <1>1, <1>2, <2>1
  <2>5. lb \in la..n /\ ub \in la..n
    BY <1>2, <2>2
  <2>6. Kept(Slice(log, la, lb), log, (la + 1)..lb) /\ Kept(Slice(log, la, ub), log, (la + 1)..ub)
    BY <1>2, <2>5, SliceKept
  <2>7. Kept(Slice(log, la, lb), log, {i \in DOMAIN log : a <= log[i].ts /\ log[i].ts < b})
    BY <2>3, <2>6
  <2>8. Kept(Slice(log, la, ub), log, {i \in DOMAIN log : a <= log[i].ts /\ log[i].ts <= b})
    BY <2>4, <2>6
  <2>9. InRange(log, la, lb)
    BY <1>2, <2>2 DEF InRange
  <2> QED
    BY <2>7, <2>8, <2>9
<1>4. LET q == query_last(log, a) IN
      Len(q) = Min({a, n}) /\ \A i \in DOMAIN q : q[i] = log[n - Len(q) + i]
  <2> DEFINE skip == IF a < n THEN n - a ELSE 0
             q == query_last(log, a)
  <2>1. skip \in 0..n /\ n - skip = Min({a, n})
    BY <1>1, MinOfTwo
  <2>2. \A i \in (skip + 1)..n : log[i] \in Rec
    BY <2>1
  <2>3. q = SubSeq(log, skip + 1, n)
    BY DEF query_last, Slice
  <2> HIDE DEF skip
  <2>4. /\ q \in Seq(Rec) /\ Len(q) = n - skip
        /\ \A i \in 1..(n - skip) : q[i] = log[skip + i]
    <3>1. skip + 1 \in Int /\ n \in Int /\ n - (skip + 1) + 1 = n - skip /\ (skip + 1 <= n \/ n - skip = 0)
      <4>1. n \in Nat /\ skip \in 0..n
        BY <1>1, <2>1
      <4> HIDE DEF n
      <4> QED
        BY <4>1
    <3>2. /\ q \in Seq(Rec) /\ Len(q) = IF skip + 1 <= n THEN n - (skip + 1) + 1 ELSE 0
          /\ \A i \in 1..(n - (skip + 1) + 1) : q[i] = log[skip + 1 + i - 1]
      BY <2>2, <2>3, <3>1, SubSeqProperties
    <3>3. \A i \in 1..(n - skip) : skip + 1 + i - 1 = skip + i
      BY <1>1, <2>1
    <3> HIDE DEF q
    <3> QED
      BY <3>1, <3>2, <3>3
  <2> HIDE DEF q
  <2>5. \A i \in DOMAIN q : q[i] = log[n - Len(q) + i]
    BY <1>1, <2>1, <2>4
  <2> QED
    BY <2>1, <2>4, <2>5 DEF q
<1>5. find_candle_at(log, a) = Max({0} \cup {i \in DOMAIN log : log[i].ts <= a})
  <2>1. {i \in DOMAIN log : log[i].ts <= a} = 1..ua
    BY <1>1, <1>2
  <2>2. Max({0} \cup 1..ua) = ua
    BY <1>2, MaxOfInterval
  <2>3. log = <<>> => ua = 0
    BY <1>2
  <2>4. log # <<>> /\ ua = 0 => ~(log[1].ts <= a)
    BY <1>1, <1>2
  <2> QED
    BY <2>1, <2>2, <2>3, <2>4 DEF find_candle_at, ua
<1>6. /\ query_range(log, a, b) = Slice(log, la, lb) /\ query_range_inclusive(log, a, b) = Slice(log, la, ub)
      /\ lower_bound(log, a) = la /\ lower_bound(log, b) = lb
  BY DEF query_range, query_range_inclusive, la, lb, ub
<1> QED
  BY <1>3, <1>4, <1>5, <1>6 DEF RangeExact

\* Only a loss of power takes away some of the file.
Shrinking == shrunk => lost

LEMMA ShrinkingInit == MmapInit => Shrinking
BY DEF MmapInit, Shrinking

LEMMA ShrinkingNext == Shrinking /\ [MmapNext]_mmapVars => Shrinking'
<1> SUFFICES ASSUME Shrinking, [MmapNext]_mmapVars PROVE Shrinking'
  OBVIOUS
<1>1. CASE PowerLoss
  BY <1>1 DEF PowerLoss, Shrinking
<1>2. CASE UNCHANGED <<shrunk, lost>>
  BY <1>2 DEF Shrinking
<1>3. PowerLoss \/ UNCHANGED <<shrunk, lost>>
  BY DEF MmapNext, open, append, upsert, BeginWrite, GrowFlush, GrowSetLen, GrowRemap, GrowFails, CopyRecord, WriteHeader,
     OverwriteRecord, flush, WriteBack, ProcessCrash, CrashInCopy, mmapVars, history
<1> QED
  BY <1>1, <1>2, <1>3

\* A reader sees the completed writes, in the middle of a call too.
LEMMA ContentsIsLog ==
    ASSUME Inv, Shrinking, up, ~lost, ~torn
    PROVE  Contents = log /\ log \in Seq(Rec)
<1>1. /\ log \in Seq(Rec) /\ logical_len = file.len /\ file.len = Len(log) /\ capacity \in Nat /\ ~shrunk
      /\ file.len <= capacity /\ \A i \in 1..Len(log) : file.recs[i] = log[i]
  BY DEF Inv, Types, HeaderAndMapping, SizeCovers, LogInPlace, Shrinking
<1>2. Len(log) \in Nat /\ Min({logical_len, capacity}) = Len(log)
  <2>1. Len(log) \in Nat
    BY <1>1
  <2> QED
    BY <1>1, <2>1, MinOfTwo
<1>3. Contents = [i \in 1..Len(log) |-> log[i]]
  BY <1>1, <1>2 DEF Contents
<1>4. log = [i \in 1..Len(log) |-> log[i]]
  BY <1>1
<1> QED
  BY <1>1, <1>3, <1>4

\* After any crashes, growth and failed growth, and whatever call is under way,
\* the range queries over a file that was written in the order of time, with no
\* loss of power and no overwriting cut off, return the completed writes of the
\* range from a to b for every a <= b that is next to a timestamp, and
\* find_candle_at() the latest record that is not later.  A start behind the
\* end panics and is not covered.
THEOREM RangesExact == MmapSpec => []RangeMatches
<1>1. Inv /\ Shrinking => RangeMatches
  <2> SUFFICES ASSUME Inv, Shrinking, up, ~lost, ~torn, InOrder(log), NEW a \in Ends, NEW b \in Ends
               PROVE  RangeExact(a, b)
    BY DEF RangeMatches
  <2>1. a \in Nat /\ b \in Nat
    BY MmapAssumption DEF Ends
  <2> QED
    BY <2>1, ContentsIsLog, QueriesExact
<1> QED
  BY <1>1, Invariance, ShrinkingInit, ShrinkingNext, PTL DEF MmapSpec

-----------------------------------------------------------------------------
(* The refinement.                                                         *)

\* The records a caller sees: the refinement mapping.
RecordsOf(f) == [i \in 1..f.len |-> f.recs[i]]

LEMMA RecordsSequence ==
    ASSUME NEW f \in FileType, f.len <= MaxWrite
    PROVE  /\ RecordsOf(f) \in Seq(Rec) /\ Len(RecordsOf(f)) = f.len /\ f.len \in Nat
           /\ \A i \in 1..f.len : i \in Slot /\ RecordsOf(f)[i] = f.recs[i]
<1>1. f.len \in Nat /\ MaxWrite \in Nat
  BY FileParts, MmapAssumption
<1>2. \A i \in 1..f.len : i \in Slot
  BY <1>1 DEF Slot
<1>3. \A i \in 1..f.len : f.recs[i] \in Rec
  BY <1>2, FileParts
<1> QED
  BY <1>1, <1>2, <1>3 DEF RecordsOf

\* The same of the file before and after a step.
LEMMA RecordsOfFile ==
    ASSUME Inv
    PROVE  /\ RecordsOf(file) \in Seq(Rec) /\ Len(RecordsOf(file)) = file.len /\ file.len \in Nat
           /\ \A i \in 1..file.len : i \in Slot /\ RecordsOf(file)[i] = file.recs[i]
<1>1. file \in FileType /\ file.len <= MaxWrite
  BY FileParts, MmapAssumption DEF Inv, Types, HeaderAndMapping
<1> QED
  BY <1>1, RecordsSequence

LEMMA RecordsOfNextFile ==
    ASSUME Inv'
    PROVE  /\ RecordsOf(file') \in Seq(Rec) /\ Len(RecordsOf(file')) = file'.len /\ file'.len \in Nat
           /\ \A i \in 1..file'.len : i \in Slot /\ RecordsOf(file')[i] = file'.recs[i]
<1>1. file' \in FileType /\ file'.len <= MaxWrite
  BY FileParts, MmapAssumption DEF Inv, Types, HeaderAndMapping
<1> QED
  BY <1>1, RecordsSequence

LEMMA SameSequence ==
    ASSUME NEW S, NEW s \in Seq(S), NEW t \in Seq(S), Len(s) = Len(t),
           \A i \in 1..Len(s) : s[i] = t[i]
    PROVE  s = t
OBVIOUS

\* A prefix.
LEMMA PrefixSequence ==
    ASSUME NEW S, NEW s \in Seq(S), NEW n \in 0..Len(s)
    PROVE  /\ SubSeq(s, 1, n) \in Seq(S) /\ Len(SubSeq(s, 1, n)) = n
           /\ \A i \in 1..n : SubSeq(s, 1, n)[i] = s[i]
OBVIOUS

\* A step that leaves the header and the records before it shows nothing.
LEMMA RecordsUnchanged ==
    ASSUME Inv, file'.len = file.len, \A i \in 1..file.len : file'.recs[i] = file.recs[i]
    PROVE  RecordsOf(file') = RecordsOf(file)
BY DEF RecordsOf

\* The step that writes the header adds the record.
LEMMA HeaderAdds ==
    ASSUME Inv, Inv', WriteHeader
    PROVE  RecordsOf(file') = Append(RecordsOf(file), arg) /\ arg \in Written /\ up
<1> DEFINE s == RecordsOf(file)
           t == RecordsOf(file')
<1>1. /\ up /\ logical_len = file.len /\ logical_len \in Nat /\ arg \in Written /\ arg \in Rec
  BY PlaceBehind DEF WriteHeader
<1>2. file'.len = logical_len + 1 /\ file'.recs = file.recs /\ file.recs[logical_len + 1] = arg
  <2>1. logical_len + 1 \in Nat /\ file \in FileType
    BY <1>1 DEF Inv, Types
  <2> QED
    BY <2>1, WithLen DEF WriteHeader, Inv, CallState
<1>3. s \in Seq(Rec) /\ Len(s) = logical_len /\ \A i \in 1..logical_len : s[i] = file.recs[i]
  BY <1>1, RecordsOfFile
<1>4. /\ t \in Seq(Rec) /\ Len(t) = logical_len + 1
      /\ \A i \in 1..(logical_len + 1) : t[i] = file.recs[i]
  BY <1>2, RecordsOfNextFile
<1> HIDE DEF s, t
<1>5. /\ Append(s, arg) \in Seq(Rec) /\ Len(Append(s, arg)) = logical_len + 1
      /\ \A i \in 1..logical_len : Append(s, arg)[i] = s[i]
      /\ Append(s, arg)[logical_len + 1] = arg
  BY <1>1, <1>3, AppendProperties
<1>6. \A i \in 1..(logical_len + 1) : t[i] = Append(s, arg)[i]
  <2> TAKE i \in 1..(logical_len + 1)
  <2>1. i = logical_len + 1 \/ i \in 1..logical_len
    BY <1>1, LastOrBefore
  <2> QED
    BY <1>2, <1>3, <1>4, <1>5, <2>1
<1>7. t = Append(s, arg)
  BY <1>4, <1>5, <1>6, SameSequence
<1> QED
  BY <1>1, <1>7 DEF s, t

\* What both an overwrite and one that is cut short show: a change of the last
\* record, and the flushed prefix cut before it.
LEMMA LastRecordShown ==
    ASSUME Inv, Inv', stage = "overwrite", NEW r \in Rec, r.ts = arg.ts,
           file' = [file EXCEPT !.recs[logical_len] = r], flushed' = FlushedBefore, UNCHANGED disk
    PROVE  LET s == RecordsOf(file)
               t == RecordsOf(file')
               n == Len(s) IN
           /\ n \in Nat /\ n > 0 /\ Len(t) = n /\ s # <<>>
           /\ t = [s EXCEPT ![n] = r]
           /\ SubSeq(t, 1, n - 1) = SubSeq(s, 1, n - 1)
           /\ t[n].ts = s[n].ts
           /\ flushed' = SubSeq(flushed, 1, IF Len(flushed) < n - 1 THEN Len(flushed) ELSE n - 1)
<1> DEFINE s == RecordsOf(file)
           t == RecordsOf(file')
           n == file.len
<1>1. n = logical_len /\ n \in Slot /\ n \in Nat /\ 1 <= n
  BY FlushedBeforeOverwrite
<1>2. /\ file'.len = n /\ file'.recs[n] = r
      /\ \A i \in Slot : i # n => file'.recs[i] = file.recs[i]
      /\ file'.recs[n].ts = file.recs[n].ts
  BY <1>1, LastRecordChanged
<1>3. s \in Seq(Rec) /\ Len(s) = n /\ \A i \in 1..n : i \in Slot /\ s[i] = file.recs[i]
  BY RecordsOfFile
<1>4. t \in Seq(Rec) /\ Len(t) = n /\ \A i \in 1..n : t[i] = file'.recs[i]
  BY <1>2, RecordsOfNextFile
<1>5. flushed' = SubSeq(flushed, 1, IF Len(flushed) < n - 1 THEN Len(flushed) ELSE n - 1)
  <2>1. Len(flushed) \in Nat /\ logical_len - 1 \in Nat
    BY <1>1 DEF Inv, Types
  <2> QED
    BY <1>1, <2>1, MinOfTwo DEF FlushedBefore
<1> HIDE DEF s, t, n
<1>6. /\ [s EXCEPT ![n] = r] \in Seq(Rec) /\ Len([s EXCEPT ![n] = r]) = n
      /\ \A i \in 1..n : [s EXCEPT ![n] = r][i] = IF i = n THEN r ELSE s[i]
  BY <1>1, <1>3, ExceptSeq, LenProperties
<1>7. t = [s EXCEPT ![n] = r]
  <2>1. \A i \in 1..n : t[i] = [s EXCEPT ![n] = r][i]
    BY <1>2, <1>3, <1>4, <1>6
  <2> QED
    BY <1>4, <1>6, <2>1, SameSequence
<1>8. SubSeq(t, 1, n - 1) = SubSeq(s, 1, n - 1)
  <2>1. n - 1 \in 0..Len(s) /\ n - 1 \in 0..Len(t) /\ \A i \in 1..(n - 1) : i \in 1..n /\ i # n
    BY <1>1, <1>3, <1>4
  <2>2. /\ SubSeq(s, 1, n - 1) \in Seq(Rec) /\ Len(SubSeq(s, 1, n - 1)) = n - 1
        /\ \A i \in 1..(n - 1) : SubSeq(s, 1, n - 1)[i] = s[i]
    BY <1>3, <2>1, PrefixSequence
  <2>3. /\ SubSeq(t, 1, n - 1) \in Seq(Rec) /\ Len(SubSeq(t, 1, n - 1)) = n - 1
        /\ \A i \in 1..(n - 1) : SubSeq(t, 1, n - 1)[i] = t[i]
    BY <1>4, <2>1, PrefixSequence
  <2>4. \A i \in 1..(n - 1) : s[i] = t[i]
    BY <1>2, <1>3, <1>4, <2>1
  <2> QED
    BY <2>2, <2>3, <2>4, SameSequence
<1>9. t[n].ts = s[n].ts /\ n > 0 /\ s # <<>>
  BY <1>1, <1>2, <1>3, <1>4
<1> QED
  BY <1>1, <1>3, <1>4, <1>5, <1>7, <1>8, <1>9 DEF s, t, n

\* flush() makes a prefix safe, all of it while the file has its size.
LEMMA FlushShown ==
    ASSUME Inv, flush
    PROVE  \E n \in 0..Len(RecordsOf(file)) :
              /\ flushed' = SubSeq(RecordsOf(file), 1, n)
              /\ ~shrunk => n = Len(RecordsOf(file))
<1> DEFINE s == RecordsOf(file)
           n == Len(Contents)
<1>1. /\ Contents \in Seq(Rec) /\ n \in Nat
      /\ n = IF logical_len < capacity THEN logical_len ELSE capacity
      /\ \A i \in 1..n : Contents[i] = file.recs[i]
  BY ContentsProperties DEF flush
<1>2. s \in Seq(Rec) /\ Len(s) = file.len /\ file.len \in Nat /\ \A i \in 1..file.len : s[i] = file.recs[i]
  BY RecordsOfFile
<1>3. logical_len = file.len /\ capacity \in Nat /\ (~shrunk => file.len <= capacity)
  BY DEF Inv, Types, HeaderAndMapping, SizeCovers, flush
<1>4. flushed' = Contents
  BY DEF flush
<1> HIDE DEF s, n
<1>5. n \in 0..Len(s) /\ (~shrunk => n = Len(s))
  BY <1>1, <1>2, <1>3
<1>6. SubSeq(s, 1, n) = Contents
  <2>1. /\ SubSeq(s, 1, n) \in Seq(Rec) /\ Len(SubSeq(s, 1, n)) = n
        /\ \A i \in 1..n : SubSeq(s, 1, n)[i] = s[i]
    BY <1>2, <1>5, PrefixSequence
  <2>2. \A i \in 1..n : SubSeq(s, 1, n)[i] = Contents[i]
    BY <1>1, <1>2, <1>5, <2>1
  <2> QED
    BY <1>1, <2>1, <2>2, SameSequence DEF n
<1> QED
  BY <1>4, <1>5, <1>6 DEF s

\* A loss of power leaves the flushed prefix.
LEMMA PowerLossShown ==
    ASSUME Inv, Inv', PowerLoss
    PROVE  /\ Len(flushed) <= Len(RecordsOf(file'))
           /\ SubSeq(RecordsOf(file'), 1, Len(flushed)) = flushed
<1> DEFINE t == RecordsOf(file')
<1>1. t \in Seq(Rec) /\ Len(t) = file'.len /\ file'.len \in Nat /\ \A i \in 1..file'.len : t[i] = file'.recs[i]
  BY RecordsOfNextFile
<1>2. flushed \in Seq(Rec) /\ Len(flushed) \in Nat /\ flushed' = flushed
  BY DEF Inv, Types, PowerLoss
<1>3. Len(flushed) <= file'.len /\ \A i \in 1..Len(flushed) : file'.recs[i] = flushed[i]
  BY <1>2 DEF Inv, FlushedInPlace
<1> HIDE DEF t
<1>4. /\ SubSeq(t, 1, Len(flushed)) \in Seq(Rec) /\ Len(SubSeq(t, 1, Len(flushed))) = Len(flushed)
      /\ \A i \in 1..Len(flushed) : SubSeq(t, 1, Len(flushed))[i] = t[i]
  <2>1. Len(flushed) \in 0..Len(t)
    BY <1>1, <1>2, <1>3
  <2> QED
    BY <1>1, <2>1, PrefixSequence
<1>5. \A i \in 1..Len(flushed) : SubSeq(t, 1, Len(flushed))[i] = flushed[i]
  BY <1>1, <1>2, <1>3, <1>4
<1>6. SubSeq(t, 1, Len(flushed)) = flushed
  BY <1>2, <1>4, <1>5, SameSequence
<1> QED
  BY <1>1, <1>3, <1>6 DEF t

\* Every step is a step of the journal, or shows nothing.
LEMMA JournalStep ==
    ASSUME Inv, Inv', [MmapNext]_mmapVars
    PROVE  [J!Next]_(J!vars)
<1> USE DEF procVars, history, mmapBounds
<1> DEFINE Stutters == RecordsOf(file') = RecordsOf(file) /\ UNCHANGED <<flushed, up, shrunk>>
<1>0. Stutters => [J!Next]_(J!vars)
  BY DEF J!vars, RecordsOf
<1>1. CASE open
  <2>1. file'.len = file.len /\ file'.recs = file.recs
    BY <1>1, MmapAssumption, WithSize DEF open, Inv, Types
  <2>2. RecordsOf(file') = RecordsOf(file)
    BY <2>1, RecordsUnchanged
  <2> QED
    BY <1>1, <2>2 DEF open, J!Next, J!Open, RecordsOf
<1>2. ASSUME NEW ts \in Timestamps, append(ts) \/ upsert(ts) PROVE Stutters
  BY <1>2 DEF append, upsert, BeginWrite
<1>3. CASE GrowFlush
  BY <1>0, <1>3 DEF GrowFlush
<1>4. CASE GrowSetLen
  <2>1. file'.len = file.len /\ file'.recs = file.recs
    <3>1. Grown(logical_len + 1) \in Nat /\ file \in FileType
      BY <1>4, GrowBound DEF GrowSetLen, Inv, Types
    <3> QED
      BY <1>4, <3>1, WithSize DEF GrowSetLen
  <2> QED
    BY <1>0, <1>4, <2>1, RecordsUnchanged DEF GrowSetLen
<1>5. CASE GrowRemap
  BY <1>0, <1>5 DEF GrowRemap
<1>6. CASE GrowFails
  BY <1>0, <1>6 DEF GrowFails
<1>7. CASE CopyRecord
  <2>1. /\ logical_len = file.len /\ logical_len + 1 \in Slot /\ arg \in Rec
        /\ \A i \in 1..logical_len : i \in Slot /\ i # logical_len + 1
    BY <1>7, PlaceBehind DEF CopyRecord
  <2>2. file'.len = file.len /\ \A j \in Slot : j # logical_len + 1 => file'.recs[j] = file.recs[j]
    BY <1>7, <2>1, WithRecord DEF CopyRecord, Inv, Types
  <2>3. RecordsOf(file') = RecordsOf(file)
    BY <2>1, <2>2, RecordsUnchanged
  <2> QED
    BY <1>0, <1>7, <2>3 DEF CopyRecord
<1>8. CASE WriteHeader
  <2>1. RecordsOf(file') = Append(RecordsOf(file), arg) /\ arg \in Written /\ up
    BY <1>8, HeaderAdds
  <2>2. J!Add(arg)
    BY <1>8, <2>1 DEF WriteHeader, J!Add, RecordsOf
  <2>4. arg \in [ts : Timestamps, val : 1..MaxWrite]
    BY <2>1 DEF Written
  <2>5. \E r \in [ts : Timestamps, val : 1..MaxWrite] : J!Add(r) \/ J!Overwrite(r)
    BY <2>2, <2>4 DEF J!Add, J!Overwrite
  <2>6. J!Next
    BY <2>5, Zenon DEF J!Next
  <2> QED
    BY <2>6
<1>9. CASE OverwriteRecord
  <2>1. arg \in Written /\ arg \in Rec /\ up
    BY <1>9, FlushedBeforeOverwrite DEF OverwriteRecord
  <2>2. LET s == RecordsOf(file)
            n == Len(s) IN
        /\ s # <<>> /\ RecordsOf(file') = [s EXCEPT ![n] = arg]
        /\ flushed' = SubSeq(flushed, 1, IF Len(flushed) < n - 1 THEN Len(flushed) ELSE n - 1)
    BY <1>9, <2>1, LastRecordShown DEF OverwriteRecord
  <2>3. J!Overwrite(arg)
    BY <1>9, <2>1, <2>2 DEF OverwriteRecord, J!Overwrite, J!Prefix, J!Less, RecordsOf
  <2>4. arg \in [ts : Timestamps, val : 1..MaxWrite]
    BY <2>1 DEF Written
  <2>5. \E r \in [ts : Timestamps, val : 1..MaxWrite] : J!Add(r) \/ J!Overwrite(r)
    BY <2>3, <2>4 DEF J!Add, J!Overwrite
  <2>6. J!Next
    BY <2>5, Zenon DEF J!Next
  <2> QED
    BY <2>6
<1>10. CASE flush
  <2>1. \E n \in 0..Len(RecordsOf(file)) :
           /\ flushed' = SubSeq(RecordsOf(file), 1, n)
           /\ ~shrunk => n = Len(RecordsOf(file))
    BY <1>10, FlushShown
  <2>2. J!Flush
    BY <1>10, <2>1 DEF flush, J!Flush, J!Prefix, RecordsOf
  <2> QED
    BY <2>2 DEF J!Next
<1>11. CASE WriteBack
  BY <1>0, <1>11 DEF WriteBack
<1>12. CASE ProcessCrash
  <2>1. J!Exit
    BY <1>12 DEF ProcessCrash, Exit, J!Exit
  <2> QED
    BY <2>1 DEF J!Next
<1>13. CASE CrashInCopy /\ stage = "copy"
  <2>1. /\ logical_len = file.len /\ logical_len + 1 \in Slot /\ arg \in Rec
        /\ \A i \in 1..logical_len : i \in Slot /\ i # logical_len + 1
    BY <1>13, PlaceBehind
  <2>2. PICK r \in Mixed(file.recs[logical_len + 1], arg) : file' = [file EXCEPT !.recs[logical_len + 1] = r]
    BY <1>13 DEF CrashInCopy
  <2>3. r \in Rec
    BY <2>1, <2>2, MixedRecord, FileParts DEF Inv, Types
  <2>4. file'.len = file.len /\ \A j \in Slot : j # logical_len + 1 => file'.recs[j] = file.recs[j]
    BY <2>1, <2>2, <2>3, WithRecord DEF Inv, Types
  <2>5. RecordsOf(file') = RecordsOf(file)
    BY <2>1, <2>4, RecordsUnchanged
  <2>6. J!Exit
    BY <1>13, <2>5 DEF CrashInCopy, Exit, J!Exit, RecordsOf
  <2> QED
    BY <2>6 DEF J!Next
<1>14. CASE CrashInCopy /\ stage = "overwrite"
  <2>1. /\ logical_len = file.len /\ logical_len \in Slot /\ arg \in Rec /\ file.recs[logical_len].ts = arg.ts
    BY <1>14, FlushedBeforeOverwrite
  <2>2. PICK r \in Mixed(file.recs[logical_len], arg) : file' = [file EXCEPT !.recs[logical_len] = r]
    BY <1>14 DEF CrashInCopy
  <2>3. r \in Rec /\ r.ts = arg.ts
    <3>1. file.recs[logical_len] \in Rec
      BY <2>1, FileParts DEF Inv, Types
    <3>2. r \in Rec /\ r.ts \in {file.recs[logical_len].ts, arg.ts}
      BY <2>1, <2>2, <3>1, MixedRecord
    <3> QED
      BY <2>1, <3>2
  <2>4. LET s == RecordsOf(file)
            t == RecordsOf(file')
            n == Len(s) IN
        /\ n > 0 /\ Len(t) = n
        /\ SubSeq(t, 1, n - 1) = SubSeq(s, 1, n - 1)
        /\ t[n].ts = s[n].ts
        /\ flushed' = SubSeq(flushed, 1, IF Len(flushed) < n - 1 THEN Len(flushed) ELSE n - 1)
    BY <1>14, <2>1, <2>2, <2>3, LastRecordShown DEF CrashInCopy, Exit
  <2>5. J!Exit
    BY <1>14, <2>4 DEF CrashInCopy, Exit, J!Exit, J!Prefix, J!Less, RecordsOf
  <2> QED
    BY <2>5 DEF J!Next
<1>15. CASE PowerLoss
  <2>1. /\ Len(flushed) <= Len(RecordsOf(file'))
        /\ SubSeq(RecordsOf(file'), 1, Len(flushed)) = flushed
    BY <1>15, PowerLossShown
  <2>2. J!Lose
    BY <1>15, <2>1 DEF PowerLoss, Exit, J!Lose, J!Prefix, RecordsOf
  <2> QED
    BY <2>2 DEF J!Next
<1>16. CASE UNCHANGED mmapVars
  BY <1>0, <1>16 DEF mmapVars
<1>17. CrashInCopy => stage = "copy" \/ stage = "overwrite"
  BY DEF CrashInCopy
<1> QED
  BY <1>0, <1>1, <1>2, <1>3, <1>4, <1>5, <1>6, <1>7, <1>8, <1>9, <1>10, <1>11, <1>12,
     <1>13, <1>14, <1>15, <1>16, <1>17 DEF MmapNext

LEMMA JournalInit == MmapInit => J!Init
<1> SUFFICES ASSUME MmapInit PROVE J!Init
  OBVIOUS
<1>1. file.len = 0
  BY DEF MmapInit, EmptyFile
<1>2. [i \in 1..file.len |-> file.recs[i]] = <<>>
  BY <1>1
<1> QED
  BY <1>2 DEF MmapInit, J!Init

\* Refinement: growing in three system calls, the copy before the header and
\* pages written back in any order show a caller a journal.
THEOREM Refinement == MmapSpec => ImplementsJournal
<1>1. Inv /\ Inv' /\ [MmapNext]_mmapVars => [J!Next]_(J!vars)
  BY JournalStep
<1> QED
  BY <1>1, JournalInit, Invariance, PTL DEF MmapSpec, ImplementsJournal, J!Spec

=============================================================================
