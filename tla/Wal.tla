-------------------------------- MODULE Wal --------------------------------
(***************************************************************************)
(* The write-ahead log of PerfDB: storage/wal.rs.                          *)
(*                                                                         *)
(* A WAL is a directory of numbered segment files.  WalWriter owns one     *)
(* open segment through a 64 KB BufWriter; append() writes an entry into   *)
(* that buffer, syncs according to the sync policy and rotates when the    *)
(* segment is full.  replay() reads every segment in order and leaves a    *)
(* segment at the first entry that is short or fails its CRC.              *)
(*                                                                         *)
(* An entry is the number of the append() that wrote it (1, 2, ...).  A    *)
(* segment is the sequence of the entries written to it, where Torn stands *)
(* for a partial entry: a strict, non-empty prefix of an entry's bytes     *)
(* that nothing will complete.  Whatever follows those bytes, the reader   *)
(* misreads as their payload or header and stops there (a CRC collision is *)
(* ignored).  Three tiers hold the open segment: the first `synced' cells  *)
(* are on stable storage, the first `flushed' ones have reached the        *)
(* operating system, the rest is still in the BufWriter.                   *)
(***************************************************************************)
EXTENDS Naturals, Sequences

CONSTANTS
    Policies,        \* the SyncPolicy values a writer may be configured with
    MaxSegmentSize,  \* WalConfig::max_segment_size, in entries
    MaxEntry,        \* bound: append() calls
    MaxSegment,      \* bound: highest segment number
    MaxRestart,      \* bound: crashes and orderly exits
    MaxFault,        \* bound: failed system calls
    MaxAhead         \* bound: how far past current_segment() a call of truncate_before() may reach

ASSUME PoliciesAssumption == Policies \subseteq {"EveryWrite", "Interval", "None"}
ASSUME BoundsAssumption ==
    /\ MaxSegmentSize \in Nat \ {0}
    /\ MaxEntry \in Nat
    /\ MaxSegment \in Nat
    /\ MaxRestart \in Nat
    /\ MaxFault \in Nat
    /\ MaxAhead \in Nat

VARIABLES
    segs,            \* segment files: number -> cells, the buffered ones included
    synced,          \* number -> how many cells of that file are on stable storage
    unlinked,        \* TRUE: the file the writer has open lost its name to truncate_before()
    policy,          \* WalConfig::sync_policy
    current_segment, \* WalWriter::current_segment
    handle,          \* the segment whose file WalWriter::writer has open
    segment_bytes,   \* WalWriter::segment_bytes, in entries
    flushed,         \* cells of segs[handle] the BufWriter has handed to the OS
    mid,             \* TRUE: and a part of the next cell as well
    pc,              \* where the call in progress is; "idle" outside calls, "down" without a process
    caller,          \* which function called sync()
    last,            \* history: number of the latest append() that wrote its entry
    acked,           \* history: the appends that returned Ok
    durable,         \* history: the entries some successful fsync covered
    dropped,         \* history: the entries truncate_before() deleted
    orphaned,        \* history: the entries written to a file that had lost its name
    birth,           \* history: entry -> the value of restarts when it was written
    restarts,        \* how often the process ended
    faults           \* how often a system call failed

writerVars == <<current_segment, handle, segment_bytes, flushed, mid>>
history == <<last, acked, durable, dropped, orphaned, birth>>
vars == <<segs, synced, unlinked, policy, writerVars, pc, caller, history, restarts, faults>>

Torn == 0
Entry == 1..MaxEntry
Cell == Entry \cup {Torn}
Segment == 0..MaxSegment

-----------------------------------------------------------------------------
(* Reading the log.                                                        *)

\* list_segments(): a file the writer still has open may have no name left.
list_segments == IF unlinked THEN DOMAIN segs \ {handle} ELSE DOMAIN segs

Cells(s) == 1..Len(segs[s])

\* replay() passes segs[s][i] to its callback: nothing before it in its
\* segment, and not itself, is a partial entry.
Reachable(s, i) == \A j \in 1..i : segs[s][j] # Torn

\* The entries replay() passes to its callback.
Replayed == {e \in Entry : \E s \in list_segments : \E i \in Cells(s) : segs[s][i] = e /\ Reachable(s, i)}

\* The entries that are in some segment file, or on their way into one.
Present == {e \in Entry : \E s \in list_segments : \E i \in Cells(s) : segs[s][i] = e}

\* Mutant: the smallest number instead of the largest.
MutFirstSegment ==
    IF list_segments = {} THEN 0 ELSE CHOOSE s \in list_segments : \A t \in list_segments : s <= t

\* find_latest_segment()
find_latest_segment ==
    IF list_segments = {} THEN 0 ELSE CHOOSE s \in list_segments : \A t \in list_segments : t <= s

-----------------------------------------------------------------------------
(* The BufWriter and the files under it.                                   *)

\* A write of the BufWriter's n cells fails half way: the BufWriter keeps
\* what the file did not take.
PartialFlush(n) ==
    /\ flushed' \in flushed..n
    /\ mid' \in BOOLEAN
    /\ mid' => flushed' < n
    /\ flushed' = flushed /\ mid => mid'

\* An entry is added to n cells.  The BufWriter empties itself first when a
\* piece does not fit: at the header, or at the payload with the header
\* already taken; a payload larger than the buffer is written through.
AutoFlush(n) ==
    \/ UNCHANGED <<flushed, mid>>
    \/ flushed' = n /\ mid' \in BOOLEAN
    \/ flushed' = n + 1 /\ mid' = FALSE

\* What the operating system holds of segment s: the buffer is not in it.
FileLen(s) == IF s = handle /\ pc # "down" THEN flushed ELSE Len(segs[s])

\* Mutant: OpenOptions without append(true), truncating what is there.
MutOpenFile(n) ==
    /\ segs' = [s \in list_segments \cup {n} |-> IF s = n THEN <<>> ELSE segs[s]]
    /\ synced' = [s \in list_segments \cup {n} |-> IF s = n THEN 0 ELSE synced[s]]

\* OpenOptions::new().create(true).append(true).open() on segment n.
OpenFile(n) ==
    /\ segs' = [s \in list_segments \cup {n} |-> IF s \in list_segments THEN segs[s] ELSE <<>>]
    /\ synced' = [s \in list_segments \cup {n} |-> IF s \in list_segments THEN synced[s] ELSE 0]

\* A file, or a buffered file, of which n cells and perhaps a part of the
\* next one are left.
Truncate(seg, n, torn) == SubSeq(seg, 1, n) \o (IF torn THEN <<Torn>> ELSE <<>>)

-----------------------------------------------------------------------------
Init ==
    /\ segs = [s \in {} |-> <<>>]
    /\ synced = [s \in {} |-> 0]
    /\ unlinked = FALSE
    /\ policy \in Policies
    /\ current_segment = 0
    /\ handle = 0
    /\ segment_bytes = 0
    /\ flushed = 0
    /\ mid = FALSE
    /\ pc = "down"
    /\ caller = "append"
    /\ last = 0
    /\ acked = {}
    /\ durable = {}
    /\ dropped = {}
    /\ orphaned = {}
    /\ birth = [e \in Entry |-> 0]
    /\ restarts = 0
    /\ faults = 0

\* WalWriter::open(): append to the latest segment, whatever it ends with.
open ==
    /\ pc = "down"
    /\ LET h == find_latest_segment IN
       /\ OpenFile(h)
       /\ handle' = h
       /\ current_segment' = h
       /\ segment_bytes' = Len(segs'[h])
       /\ flushed' = Len(segs'[h])
    /\ mid' = FALSE
    /\ pc' = "idle"
    /\ UNCHANGED <<unlinked, policy, caller, history, restarts, faults>>

\* Mutant: EveryWrite falls into the arm of Interval.
MutSyncDecision == IF policy = "None" THEN {FALSE} ELSE BOOLEAN

\* The match on sync_policy in append().  Under Interval the outcome depends
\* on the time since the last sync.
SyncDecision ==
    CASE policy = "EveryWrite" -> {TRUE}
      [] policy = "Interval" -> BOOLEAN
      [] policy = "None" -> {FALSE}

\* append(), up to the sync decision.
WriteEntry(sync) ==
    /\ pc = "idle"
    /\ last < MaxEntry
    /\ sync \in SyncDecision
    /\ segs' = [segs EXCEPT ![handle] = Append(@, last + 1)]
    /\ AutoFlush(Len(segs[handle]))
    /\ segment_bytes' = segment_bytes + 1
    /\ last' = last + 1
    /\ birth' = [birth EXCEPT ![last + 1] = restarts]
    /\ pc' = IF sync THEN "flush" ELSE "sized"
    /\ caller' = "append"
    /\ orphaned' = IF unlinked THEN orphaned \cup {last + 1} ELSE orphaned
    /\ UNCHANGED <<synced, unlinked, policy, current_segment, handle, acked, durable, dropped, restarts, faults>>

\* append() whose write_all() fails after the header went into the buffer:
\* the call returns an error and the header stays.
WriteEntryFails ==
    /\ pc = "idle"
    /\ faults < MaxFault
    /\ segs' = [segs EXCEPT ![handle] = Append(@, Torn)]
    /\ PartialFlush(Len(segs[handle]) + 1)
    /\ faults' = faults + 1
    /\ UNCHANGED <<synced, unlinked, policy, current_segment, handle, segment_bytes, pc, caller, history,
                   restarts>>

\* sync(): BufWriter::flush() and then File::sync_data().
Flush ==
    /\ pc = "flush"
    /\ flushed' = Len(segs[handle]) /\ mid' = FALSE
    /\ pc' = "fsync"
    /\ UNCHANGED <<segs, synced, unlinked, policy, current_segment, handle, segment_bytes, caller, history,
                   restarts, faults>>

\* Mutant: sync() called by sync_wal() ends like the one in append().
MutReturnFromSync ==
    CASE caller \in {"append", "sync"} -> "sized"
      [] caller = "rotate" -> "create"

\* Where sync() returns to.
ReturnFromSync ==
    CASE caller = "append" -> "sized"
      [] caller = "rotate" -> "create"
      [] caller = "sync" -> "idle"

Fsync ==
    /\ pc = "fsync"
    /\ synced' = [synced EXCEPT ![handle] = flushed]
    /\ durable' = durable \cup {e \in Entry : \E i \in 1..flushed : segs[handle][i] = e}
    /\ pc' = ReturnFromSync
    /\ UNCHANGED <<segs, unlinked, policy, writerVars, caller, last, acked, dropped, orphaned, birth, restarts,
                   faults>>

\* Either half of sync() fails: the calls in progress return the error.
FlushFails ==
    /\ pc = "flush"
    /\ faults < MaxFault
    /\ PartialFlush(Len(segs[handle]))
    /\ pc' = "idle"
    /\ faults' = faults + 1
    /\ UNCHANGED <<segs, synced, unlinked, policy, current_segment, handle, segment_bytes, caller, history, restarts>>

FsyncFails ==
    /\ pc = "fsync"
    /\ faults < MaxFault
    /\ pc' = "idle"
    /\ faults' = faults + 1
    /\ UNCHANGED <<segs, synced, unlinked, policy, writerVars, caller, history, restarts>>

\* Mutant: rotate() without its sync().
MutCheckSize ==
    /\ pc = "sized"
    /\ IF segment_bytes >= MaxSegmentSize
         THEN pc' = "create" /\ caller' = "rotate" /\ UNCHANGED acked
         ELSE pc' = "idle" /\ acked' = acked \cup {last} /\ UNCHANGED caller
    /\ UNCHANGED <<segs, synced, unlinked, policy, writerVars, last, durable, dropped, orphaned, birth,
                   restarts, faults>>

\* The end of append(): return Ok, or rotate() first when the segment is full.
CheckSize ==
    /\ pc = "sized"
    /\ IF segment_bytes >= MaxSegmentSize
         THEN pc' = "flush" /\ caller' = "rotate" /\ UNCHANGED acked
         ELSE pc' = "idle" /\ acked' = acked \cup {last} /\ UNCHANGED caller
    /\ UNCHANGED <<segs, synced, unlinked, policy, writerVars, last, durable, dropped, orphaned, birth,
                   restarts, faults>>

\* rotate() after its sync(): create the next file and return Ok to append().
\* A file without a name is gone when the writer lets go of it.
CreateSegment ==
    /\ pc = "create"
    /\ current_segment < MaxSegment
    /\ LET n == current_segment + 1 IN
       /\ OpenFile(n)
       /\ current_segment' = n
       /\ handle' = n
    /\ unlinked' = FALSE
    /\ segment_bytes' = 0
    /\ flushed' = 0 /\ mid' = FALSE
    /\ acked' = acked \cup {last}
    /\ pc' = "idle"
    /\ UNCHANGED <<policy, caller, last, durable, dropped, orphaned, birth, restarts, faults>>

\* The new file cannot be created: the number is used up, the writer stays
\* on the old file and append() returns the error.
CreateSegmentFails ==
    /\ pc = "create"
    /\ current_segment < MaxSegment
    /\ faults < MaxFault
    /\ current_segment' = current_segment + 1
    /\ pc' = "idle"
    /\ faults' = faults + 1
    /\ UNCHANGED <<segs, synced, unlinked, policy, handle, segment_bytes, flushed, mid, caller, history, restarts>>

\* sync_wal() and shutdown() call sync() outside append().
SyncWal ==
    /\ pc = "idle"
    /\ pc' = "flush"
    /\ caller' = "sync"
    /\ UNCHANGED <<segs, synced, unlinked, policy, writerVars, history, restarts, faults>>

\* truncate_before(keep_from), a free function that needs no writer: it
\* removes every segment below keep_from, or a part of them in any order when
\* a remove_file() fails or the process dies on the way.  A file the writer
\* has open only loses its name.
truncate_before(keep_from) ==
    \E gone \in SUBSET {s \in list_segments : s < keep_from} \ {{}} :
        LET kept == {s \in DOMAIN segs : s \notin gone \/ (s = handle /\ pc # "down")} IN
        /\ segs' = [s \in kept |-> segs[s]]
        /\ synced' = [s \in kept |-> synced[s]]
        /\ unlinked' = (unlinked \/ (handle \in gone /\ pc # "down"))
        /\ dropped' = dropped \cup {e \in Entry : \E s \in gone : \E i \in Cells(s) : segs[s][i] = e}
        /\ UNCHANGED <<policy, writerVars, pc, caller, last, acked, durable, orphaned, birth, restarts,
                       faults>>

-----------------------------------------------------------------------------
(* The environment.                                                        *)

\* The process ends, and its buffer and a file without a name with it.
End ==
    /\ pc' = "down"
    /\ restarts < MaxRestart /\ restarts' = restarts + 1
    /\ unlinked' = FALSE
    /\ flushed' = 0 /\ mid' = FALSE
    /\ UNCHANGED <<policy, current_segment, handle, segment_bytes, caller, history, faults>>

\* The writer is dropped outside a call: BufWriter's destructor flushes it.
DropWriter ==
    /\ pc = "idle"
    /\ End
    /\ segs' = [s \in list_segments |-> segs[s]]
    /\ synced' = [s \in list_segments |-> synced[s]]

\* The process dies: the buffer is gone, the files keep what they got.
ProcessCrash ==
    /\ pc # "down"
    /\ End
    /\ segs' = [s \in list_segments |-> IF s = handle THEN Truncate(segs[s], flushed, mid) ELSE segs[s]]
    /\ synced' = [s \in list_segments |-> synced[s]]

\* The machine stops: each file is cut at a cell behind its last fsync, or
\* inside the cell after that one.
PowerLoss ==
    /\ DOMAIN segs # {}
    /\ End
    /\ \E len \in [list_segments -> UNION {synced[s]..FileLen(s) : s \in list_segments}],
          torn \in [list_segments -> BOOLEAN] :
         /\ \A s \in list_segments :
              /\ len[s] \in synced[s]..FileLen(s)
              /\ torn[s] => len[s] < FileLen(s) \/ (s = handle /\ mid)
         /\ segs' = [s \in list_segments |-> Truncate(segs[s], len[s], torn[s])]
         /\ synced' = [s \in list_segments |-> Len(segs'[s])]

Writer == open \/ Flush \/ Fsync \/ CheckSize \/ CreateSegment

Next ==
    \/ Writer
    \/ \E sync \in BOOLEAN : WriteEntry(sync)
    \/ WriteEntryFails
    \/ FlushFails
    \/ FsyncFails
    \/ CreateSegmentFails
    \/ SyncWal
    \/ \E keep_from \in 0..(current_segment + MaxAhead) : truncate_before(keep_from)
    \/ DropWriter
    \/ ProcessCrash
    \/ PowerLoss

Spec == Init /\ [][Next]_vars

-----------------------------------------------------------------------------
(* Properties.                                                             *)

FilesTypeOK ==
    /\ DOMAIN segs \subseteq Segment
    /\ segs \in [DOMAIN segs -> Seq(Cell)]
    /\ synced \in [DOMAIN segs -> Nat]
    /\ unlinked \in BOOLEAN

WriterTypeOK ==
    /\ policy \in Policies
    /\ current_segment \in Segment
    /\ handle \in Segment
    /\ segment_bytes \in Nat
    /\ flushed \in Nat
    /\ mid \in BOOLEAN
    /\ pc \in {"down", "idle", "flush", "fsync", "sized", "create"}
    /\ caller \in {"append", "rotate", "sync"}

HistoryTypeOK ==
    /\ last \in 0..MaxEntry
    /\ acked \subseteq Entry
    /\ durable \subseteq Entry
    /\ dropped \subseteq Entry
    /\ orphaned \subseteq Entry
    /\ birth \in [Entry -> Nat]
    /\ restarts \in Nat
    /\ faults \in Nat

\* Every variable has its type: in particular only entries some append()
\* wrote are ever acknowledged, and no segment number is skipped past the
\* bound by failed rotations.
TypeOK == FilesTypeOK /\ WriterTypeOK /\ HistoryTypeOK

\* replay() visits the segments in ascending order and each one from its
\* start; whatever mix of crashes, failed writes, failed rotations,
\* truncations and restarts came before, it meets the entries in the order of
\* the append() calls and none of them twice.
ReplayInAppendOrder ==
    \A s, t \in list_segments : \A i \in Cells(s), j \in Cells(t) :
        (s < t \/ (s = t /\ i < j)) /\ segs[s][i] # Torn /\ segs[t][j] # Torn
            => segs[s][i] < segs[t][j]

\* An entry that a successful sync() covered stays on file until
\* truncate_before() deletes its segment: reopening, rotation, failed calls
\* and power loss never erase it.  (replay() may still not get to it: a
\* partial entry in front of it in its segment hides it.)  The entries that
\* went into a file after truncate_before() had taken its name are left out:
\* see TruncationKeepsLater.
FsyncedSurvives ==
    \A e \in durable \ (dropped \cup orphaned) :
        \E s \in list_segments : \E i \in Cells(s) : segs[s][i] = e

\* What a crash erases is a suffix of what the process wrote: no entry is
\* on file when an older entry of the same process is gone, but for the ones
\* truncate_before() deleted or cut off from the log.  rotate() has to sync
\* the old segment before the new one takes entries.
LossIsSuffix ==
    \A e \in 1..last : \A f \in Present :
        e < f /\ birth[e] = birth[f] => e \in Present \cup dropped \cup orphaned

\* Under SyncPolicy::EveryWrite append() returns Ok for fsynced entries only.
AckedIsFsynced == policy = "EveryWrite" => acked \subseteq durable

\* What README.md says of the log: "an acknowledged write survives a crash".
\* An acknowledged entry that is still in a segment is one that replay()
\* returns.  open() appends behind the partial entry a crash left, where
\* replay() never gets to.
AckedIsReplayed == acked \cap Present \subseteq Replayed

\* What the comment on truncate_before() says: it deletes the segments before
\* the given number, so every fsynced entry it did not delete is still on
\* file.  A rotation that fails has counted current_segment up already: the
\* file the writer goes on writing to is below that number, and what it gets
\* afterwards is lost.
TruncationKeepsLater == durable \ dropped \subseteq Present

\* A state that refutes the disjunction refutes both.  (Under the strongest
\* policy.)
LogKeepsWord == policy = "EveryWrite" => AckedIsReplayed \/ TruncationKeepsLater

=============================================================================
