-------------------------------- MODULE Mmap --------------------------------
(***************************************************************************)
(* One file of the tick store or the candle store: MmapFile of             *)
(* storage/mmap.rs under TickStore::append, CandleStore::append and        *)
(* CandleStore::upsert.  The stores are behind a mutex and the methods     *)
(* take &mut self, so calls do not overlap; what can come between their    *)
(* steps is a failing system call, the end of the process, or the loss of  *)
(* power.                                                                  *)
(*                                                                         *)
(* A file is the length in its header, its size, and its records; lengths  *)
(* and sizes count records and leave the header out.  file is what the     *)
(* operating system shows, which a mapping writes at once and the end of   *)
(* the process leaves alone; disk is what a loss of power leaves, and the  *)
(* system writes parts of file back to it in any order.                    *)
(***************************************************************************)
EXTENDS Naturals, Sequences, FiniteSetsExt, Queries

CONSTANTS
    InitialFileSize,  \* records a new file has room for
    Timestamps,       \* timestamps of the records
    BucketWidth,      \* what a candle covers from its timestamp on
    MaxWrite,         \* bound: calls that write
    MaxRestart,       \* bound: how often the process ends
    MaxFault          \* bound: failing system calls

ASSUME MmapAssumption ==
    /\ InitialFileSize \in Nat \ {0}
    /\ Timestamps \subseteq Nat \ {0}
    /\ BucketWidth \in Nat \ {0}
    /\ MaxWrite \in Nat
    /\ MaxRestart \in Nat
    /\ MaxFault \in Nat

VARIABLES
    file, disk,             \* [len, size, recs] as above
    up,                     \* a process has the file open
    logical_len, capacity,  \* MmapFile
    stage,                     \* the next step of the call under way, "idle" outside
    arg,                    \* the record the call writes
    log,        \* history: the records whose write was completed
    flushed,    \* history: the records of the last flush that succeeded, up to
                \* one an upsert has touched since
    torn,       \* history: the process ended inside an upsert's record
    lost,       \* history: power was lost
    shrunk,     \* history: the file lost some of its size with the power
    unordered,  \* history: some write was no upsert, or went back in time
    writes, restarts, faults  \* counters for the bounds

procVars == <<up, logical_len, capacity>>
history == <<log, flushed, torn, lost, shrunk, unordered>>
mmapBounds == <<writes, restarts, faults>>
mmapVars == <<file, disk, procVars, stage, arg, history, mmapBounds>>

Slot == 1..MaxWrite
Zero == [ts |-> 0, val |-> 0]
EmptyFile == [len |-> 0, size |-> 0, recs |-> [i \in Slot |-> Zero]]

\* A record that is part old, part new: a page or a copy ended inside it.
Half == MaxWrite + 1
Mixed(old, new) == {[ts |-> r.ts, val |-> Half] : r \in {old, new}}

MmapInit ==
    /\ file = EmptyFile /\ disk = EmptyFile
    /\ up = FALSE /\ logical_len = 0 /\ capacity = 0
    /\ stage = "idle" /\ arg = Zero
    /\ log = <<>> /\ flushed = <<>>
    /\ torn = FALSE /\ lost = FALSE /\ shrunk = FALSE /\ unordered = FALSE
    /\ writes = 0 /\ restarts = 0 /\ faults = 0

\* MmapFile::open(): a file without bytes gets its first allocation, any
\* other is taken at its size and at the length its header says.
open ==
    /\ ~up
    /\ file' = IF file.size = 0 THEN [file EXCEPT !.size = InitialFileSize] ELSE file
    /\ logical_len' = IF file.size = 0 THEN 0 ELSE file.len
    /\ capacity' = file'.size
    /\ up' = TRUE
    /\ UNCHANGED <<disk, stage, arg, history, mmapBounds>>

-----------------------------------------------------------------------------
(* append() and upsert().                                                  *)

BeginWrite(ts, next) ==
    /\ up /\ stage = "idle"
    /\ writes < MaxWrite
    /\ writes' = writes + 1
    /\ arg' = [ts |-> ts, val |-> writes + 1]
    /\ stage' = next
    /\ UNCHANGED <<file, disk, procVars, log, flushed, torn, lost, shrunk, restarts, faults>>

AppendStep == IF logical_len + 1 > capacity THEN "flush" ELSE "copy"

\* TickStore::append(), CandleStore::append(): no look at what is there.
append(ts) ==
    /\ BeginWrite(ts, AppendStep)
    /\ unordered' = TRUE

\* Mutant: upsert() looks at the first record instead of the last.
MutSameBucket(ts) == file.recs[1].ts = ts

\* The last stored record has this timestamp.
SameBucket(ts) == file.recs[logical_len].ts = ts

\* CandleStore::upsert().  Reading the last record behind the end of the
\* mapping panics, so it must lie inside.
upsert(ts) ==
    /\ logical_len <= capacity
    /\ BeginWrite(ts, IF logical_len > 0 /\ SameBucket(ts) THEN "overwrite" ELSE AppendStep)
    /\ unordered' = (unordered \/ (log # <<>> /\ ts < log[Len(log)].ts))

\* grow(): the capacity doubles until it suffices, from the initial one at least.
Grown(needed) ==
    Min({c \in {InitialFileSize} \cup {capacity * 2^i : i \in 1..MaxWrite} : c >= needed})

\* Mutant: grow() takes over the new capacity before it has the space.
MutGrowFlush ==
    /\ stage = "flush"
    /\ disk' = file
    /\ capacity' = Grown(logical_len + 1)
    /\ stage' = "set_len"
    /\ UNCHANGED <<file, up, logical_len, arg, history, mmapBounds>>

\* Its three system calls: msync, ftruncate, mmap.
GrowFlush ==
    /\ stage = "flush"
    /\ disk' = file
    /\ stage' = "set_len"
    /\ UNCHANGED <<file, procVars, arg, history, mmapBounds>>

GrowSetLen ==
    /\ stage = "set_len"
    /\ file' = [file EXCEPT !.size = Grown(logical_len + 1)]
    /\ stage' = "remap"
    /\ UNCHANGED <<disk, procVars, arg, history, mmapBounds>>

GrowRemap ==
    /\ stage = "remap"
    /\ capacity' = Grown(logical_len + 1)
    /\ stage' = "copy"
    /\ UNCHANGED <<file, disk, up, logical_len, arg, history, mmapBounds>>

\* One of the three fails, and append() returns the error from there.
GrowFails ==
    /\ stage \in {"flush", "set_len", "remap"}
    /\ faults < MaxFault
    /\ faults' = faults + 1
    /\ stage' = "idle"
    /\ UNCHANGED <<file, disk, procVars, arg, history, writes, restarts>>

\* Mutant: the header goes before the bytes.
MutCopyRecord ==
    /\ stage = "copy"
    /\ IF file.len = logical_len
       THEN file' = [file EXCEPT !.len = logical_len + 1] /\ stage' = "copy"
       ELSE file' = [file EXCEPT !.recs[logical_len + 1] = arg] /\ stage' = "header"
    /\ UNCHANGED <<disk, procVars, arg, history, mmapBounds>>

\* The bytes go behind the logical length.
CopyRecord ==
    /\ stage = "copy"
    /\ file' = [file EXCEPT !.recs[logical_len + 1] = arg]
    /\ stage' = "header"
    /\ UNCHANGED <<disk, procVars, arg, history, mmapBounds>>

\* The header, then the atomic, and append() returns.
WriteHeader ==
    /\ stage = "header"
    /\ file' = [file EXCEPT !.len = logical_len + 1]
    /\ logical_len' = logical_len + 1
    /\ log' = Append(log, arg)
    /\ stage' = "idle"
    /\ UNCHANGED <<disk, up, capacity, arg, flushed, torn, lost, shrunk, unordered, mmapBounds>>

\* What is flushed for sure once the last record is written over.
FlushedBefore == SubSeq(flushed, 1, Min({Len(flushed), logical_len - 1}))

\* write_at() on the last record, and upsert() returns.
OverwriteRecord ==
    /\ stage = "overwrite"
    /\ file' = [file EXCEPT !.recs[logical_len] = arg]
    /\ log' = IF logical_len \in DOMAIN log THEN [log EXCEPT ![logical_len] = arg] ELSE log
    /\ flushed' = FlushedBefore
    /\ stage' = "idle"
    /\ UNCHANGED <<disk, procVars, arg, torn, lost, shrunk, unordered, mmapBounds>>

\* The records a reader can get at.
Contents == [i \in 1..Min({logical_len, capacity}) |-> file.recs[i]]

\* Mutant: flush_async(), the writing back is only begun.
MutFlush ==
    /\ up /\ stage = "idle"
    /\ flushed' = Contents
    /\ UNCHANGED <<file, disk, procVars, stage, arg, log, torn, lost, shrunk, unordered, mmapBounds>>

\* flush() of the store, which PerfDb::shutdown() calls.
flush ==
    /\ up /\ stage = "idle"
    /\ disk' = file
    /\ flushed' = Contents
    /\ UNCHANGED <<file, procVars, stage, arg, log, torn, lost, shrunk, unordered, mmapBounds>>

-----------------------------------------------------------------------------
(* The operating system.                                                   *)

\* It writes something back: the header, the size, or a record, which may lie
\* on two pages.
WriteBack ==
    /\ \/ disk' = [disk EXCEPT !.len = file.len]
       \/ disk' = [disk EXCEPT !.size = file.size]
       \/ \E i \in {j \in Slot : disk.recs[j] # file.recs[j]} :
            \E r \in {file.recs[i]} \cup Mixed(disk.recs[i], file.recs[i]) :
              disk' = [disk EXCEPT !.recs[i] = r]
    /\ disk' # disk
    /\ UNCHANGED <<file, procVars, stage, arg, history, mmapBounds>>

Exit ==
    /\ up
    /\ restarts < MaxRestart
    /\ restarts' = restarts + 1
    /\ up' = FALSE /\ logical_len' = 0 /\ capacity' = 0
    /\ stage' = "idle" /\ arg' = Zero
    /\ UNCHANGED <<disk, log, unordered, writes, faults>>

\* The process ends between two steps.
ProcessCrash ==
    /\ Exit
    /\ UNCHANGED <<file, flushed, torn, lost, shrunk>>

\* The process ends inside the copying of a record.
CrashInCopy ==
    /\ Exit
    /\ stage \in {"copy", "overwrite"}
    /\ LET i == IF stage = "copy" THEN logical_len + 1 ELSE logical_len IN
       \E r \in Mixed(file.recs[i], arg) : file' = [file EXCEPT !.recs[i] = r]
    /\ torn' = (torn \/ stage = "overwrite")
    /\ flushed' = IF stage = "overwrite" THEN FlushedBefore ELSE flushed
    /\ UNCHANGED <<lost, shrunk>>

\* The machine stops: the file is what the disk has of it within its size.
PowerLoss ==
    /\ Exit
    /\ file' = [len |-> IF disk.size = 0 THEN 0 ELSE disk.len,
                size |-> disk.size,
                recs |-> [i \in Slot |-> IF i <= disk.size THEN disk.recs[i] ELSE Zero]]
    /\ lost' = TRUE
    /\ shrunk' = (shrunk \/ disk.size # file.size)
    /\ UNCHANGED <<flushed, torn>>

MmapNext ==
    \/ open
    \/ \E ts \in Timestamps : append(ts) \/ upsert(ts)
    \/ GrowFlush
    \/ GrowSetLen
    \/ GrowRemap
    \/ GrowFails
    \/ CopyRecord
    \/ WriteHeader
    \/ OverwriteRecord
    \/ flush
    \/ WriteBack
    \/ ProcessCrash
    \/ CrashInCopy
    \/ PowerLoss

MmapSpec == MmapInit /\ [][MmapNext]_mmapVars

-----------------------------------------------------------------------------
(* Properties.                                                             *)

InOrder(s) == \A i \in DOMAIN s : \A j \in 1..i : s[j].ts <= s[i].ts

\* However the process ends and whichever step of growing fails, the file
\* holds exactly the completed writes, in order; an upsert that was cut short
\* may have left its one record mixed.  A loss of power is another matter.
CrashKeepsRecords ==
    up /\ ~lost =>
        /\ logical_len = Len(log)
        /\ \A i \in DOMAIN log : file.recs[i] = log[i] \/ (torn /\ file.recs[i].val = Half)

\* What was flushed is there after any number of crashes and power losses, at
\* its place and inside the mapping.
FlushedSurvives ==
    up => /\ Len(flushed) <= logical_len /\ Len(flushed) <= capacity
          /\ \A i \in DOMAIN flushed : file.recs[i] = flushed[i]

\* Upserts in the order of time leave one record per bucket, sorted, which
\* the binary search of the range queries needs; crashes and failed growing
\* in between do not matter.
UpsertsSorted ==
    up /\ ~lost /\ ~unordered =>
        \A i \in 1..logical_len : \A j \in 1..(i - 1) : file.recs[j].ts < file.recs[i].ts

\* Between two calls the mapping covers the logical length and the file covers
\* the mapping: as_slice() and read_at() (mmap.rs:150) stay inside.  Only a power loss that
\* takes the file's size back, but not the header, breaks this.
MappingCovers ==
    up /\ ~shrunk /\ stage = "idle" => logical_len <= capacity /\ capacity <= file.size

\* q is what s holds at the indices in keep, in the same order.
Kept(q, s, keep) ==
    /\ Len(q) = Cardinality(keep)
    /\ \A i \in keep : q[Cardinality({j \in keep : j <= i})] = s[i]

\* What the queries owe a caller who asks for the range from a to b.
RangeExact(a, b) ==
    /\ a <= b =>
         /\ InRange(Contents, lower_bound(Contents, a), lower_bound(Contents, b))
         /\ Kept(query_range(Contents, a, b), log, {i \in DOMAIN log : a <= log[i].ts /\ log[i].ts < b})
         /\ Kept(query_range_inclusive(Contents, a, b), log, {i \in DOMAIN log : a <= log[i].ts /\ log[i].ts <= b})
    /\ LET n == query_last(Contents, a) IN
       Len(n) = Min({a, Len(log)}) /\ \A i \in DOMAIN n : n[i] = log[Len(log) - Len(n) + i]
    /\ find_candle_at(Contents, a) = Max({0} \cup {i \in DOMAIN log : log[i].ts <= a})

\* The ends a range may have: the timestamps, and what lies next to them.
Ends == {0} \cup Timestamps \cup {t + 1 : t \in Timestamps}

\* The range queries over a file whose records were written in the order of
\* time return exactly the completed writes of the range, whatever crashes,
\* growth and failed growth lie behind it, as long as power was not lost and no
\* overwriting was cut off: a range whose start is not behind its end does not
\* panic, the ends are treated as they say, the last n are the last n, and
\* find_candle_at() is the latest record that is not later, which is not what
\* its comment says (CandleAtContains); an end in front of the start panics
\* (EveryRangeHasSlice).
RangeMatches ==
    up /\ ~lost /\ ~torn /\ InOrder(log) => \A a, b \in Ends : RangeExact(a, b)

\* The file as its callers see it.
J == INSTANCE Journal WITH
        Record <- [ts : Timestamps, val : 1..MaxWrite],
        records <- [i \in 1..file.len |-> file.recs[i]],
        safe <- flushed, open <- up, intact <- ~shrunk

\* Refinement: growing in three system calls, the copy before the header and
\* pages written back in any order show nothing to a caller but records
\* added, a last record written over, and a flushed prefix that stays.
ImplementsJournal == J!Spec

-----------------------------------------------------------------------------
(* What the comments say, and the code does not keep.                      *)

Settled == up /\ ~lost /\ ~torn /\ InOrder(log)

\* find_candle_at() finds the candle whose bucket contains the timestamp, and
\* returns None if none does.  The code takes the latest candle that is not
\* later and never looks where its bucket ends: after a gap in the ticks it
\* returns a candle that was over long before.
CandleAtContains ==
    Settled => \A a \in Ends :
        LET i == find_candle_at(Contents, a) IN
        i # 0 => log[i].ts <= a /\ a < log[i].ts + BucketWidth

\* query_tick_range() is the slice of the records in [start, end), which has
\* none when the start lies behind the end: there the code makes a slice that
\* starts behind its end, and panics.
EveryRangeHasSlice ==
    Settled => \A a, b \in Ends : InRange(Contents, lower_bound(Contents, a), lower_bound(Contents, b))

=============================================================================
