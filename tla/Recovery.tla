------------------------------ MODULE Recovery ------------------------------
(***************************************************************************)
(* Snapshots, the log and the recovery of PerfDB: PerfDb::open,            *)
(* process_event, save_checkpoint and snapshot in engine.rs, with          *)
(* storage/snapshot.rs and relational/checkpoint.rs.                       *)
(*                                                                         *)
(* The indexer thread hands events to process_event(), which appends to    *)
(* the log, updates one store after the other and then advances the        *)
(* checkpoint block.  Another thread may call snapshot() at any time: it   *)
(* reads the checkpoint first, then one store after the other, and writes  *)
(* the file.  Neither call locks out the other.  open() loads the snapshot *)
(* with the highest block and replays every log entry of a higher block.   *)
(*                                                                         *)
(* A call of process_event() is identified by its number n; block[n] is    *)
(* the block of its event.  What a store holds is how often each call was  *)
(* applied to it: an increment is right when that is once.  The log is the *)
(* set of the calls it has an entry of: module Wal shows that replay meets *)
(* them in order and that a crash takes a suffix.                          *)
(***************************************************************************)
EXTENDS Naturals, Sequences

CONSTANTS
    MaxCall,      \* bound: calls of process_event()
    MaxBlock,     \* bound: highest block number
    MaxSnapshot,  \* bound: calls of snapshot()
    MaxRestart,   \* bound: how often the process ends
    MaxFault      \* bound: failed appends and file writes

ASSUME RecoveryAssumption ==
    /\ MaxCall \in Nat
    /\ MaxBlock \in Nat
    /\ MaxSnapshot \in Nat
    /\ MaxRestart \in Nat
    /\ MaxFault \in Nat

VARIABLES
    wal,         \* the calls with an entry in the log
    files,       \* snapshot files: block -> [data, state]
    mem,         \* the stores: store -> how often each call was applied
    last_block,  \* CheckpointStore::last_block
    up,          \* a process has the database open
    stage,       \* process_event(): 0 outside, else the next of its steps
    snap,        \* snapshot(): 0 outside, else the next of its steps
    capture,     \* what snapshot() has read so far: [block, data]
    calls,       \* calls of process_event() that reached the log, so far
    block,       \* call -> the block of its event
    tip,         \* the lowest block the indexer may still deliver events of
    acked,       \* history: the calls that returned Ok
    truncated,   \* history: the calls whose entries the operator removed from the log
    late,        \* history: calls not above a checkpoint that some snapshot had read
                 \* before they were through
    overlapped,  \* history: calls that ran while snapshot() was reading the stores
    snapshots, restarts, faults  \* counters for the bounds

engineVars == <<mem, last_block, up>>
history == <<acked, truncated, late, overlapped>>
bounds == <<snapshots, restarts, faults>>
vars == <<wal, files, engineVars, stage, snap, capture, calls, block, tip, history, bounds>>

Call == 1..MaxCall
Block == 0..MaxBlock

\* The stores in the order process_event() updates them for a PositionClosed
\* event, the one that touches most of them, and in the order snapshot()
\* reads them.  The event log is in no snapshot.
Handler == <<"events", "positions", "trader_stats", "daily_stats">>
Captured == <<"daily_stats", "positions", "trader_stats">>
Store == {Handler[i] : i \in DOMAIN Handler}
Persisted == {Captured[i] : i \in DOMAIN Captured}

Unapplied == [n \in Call |-> 0]
EmptyStores == [st \in Store |-> Unapplied]

-----------------------------------------------------------------------------
Init ==
    /\ wal = {}
    /\ files = [b \in {} |-> <<>>]
    /\ mem = EmptyStores
    /\ last_block = 0
    /\ up = FALSE
    /\ stage = 0
    /\ snap = 0
    /\ capture = [block |-> 0, data |-> EmptyStores]
    /\ calls = 0
    /\ block = [n \in Call |-> 0]
    /\ tip = 0
    /\ acked = {} /\ truncated = {} /\ late = {} /\ overlapped = {}
    /\ snapshots = 0 /\ restarts = 0 /\ faults = 0

\* The file load_latest_snapshot() picks, when there is one.
Latest == CHOOSE b \in DOMAIN files : \A c \in DOMAIN files : c <= b

\* open(): the block of the snapshot, 0 when there is none.
snap_block == IF DOMAIN files = {} THEN 0 ELSE Latest

\* Mutants: an entry of the block after the snapshot's counts as covered; an
\* entry of the snapshot's own block does not.
MutSkipsNext(n) == block[n] <= snap_block + 1
MutKeepsOwn(n) == block[n] < snap_block

\* replay_wal_entry() ignores the entry of call n.
Skipped(n) == block[n] <= snap_block

Replayed == {n \in wal : ~Skipped(n)}

\* PerfDb::open(): restore_snapshot(), then the replay.  Without a whole
\* latest file it returns an error and changes nothing.
open ==
    /\ ~up
    /\ DOMAIN files # {} => files[Latest].state # "partial"
    /\ LET restored == IF DOMAIN files = {} THEN EmptyStores ELSE files[Latest].data IN
       mem' = [st \in Store |-> [n \in Call |-> restored[st][n] + IF n \in Replayed THEN 1 ELSE 0]]
    /\ last_block' = IF Replayed = {} THEN snap_block
                     ELSE block[CHOOSE n \in Replayed : \A m \in Replayed : m <= n]
    /\ tip' = last_block'
    /\ up' = TRUE
    /\ UNCHANGED <<wal, files, stage, snap, capture, calls, block, history, bounds>>

-----------------------------------------------------------------------------
(* The indexer thread.                                                     *)

\* snapshot() has read the checkpoint and not yet all stores.
Reading == snap \in DOMAIN Captured

\* Some snapshot has read a checkpoint that is not below block b.
Claimed(b) ==
    \/ b = 0
    \/ \E c \in DOMAIN files : b <= c
    \/ snap # 0 /\ b <= capture.block

\* process_event() for an event of block b: the append to the log.  The
\* indexer delivers in block order, after a restart from the checkpoint on.
LogEvent(b) ==
    /\ up /\ stage = 0
    /\ calls < MaxCall /\ b >= tip
    /\ calls' = calls + 1
    /\ block' = [block EXCEPT ![calls + 1] = b]
    /\ tip' = b
    /\ wal' = wal \cup {calls + 1}
    /\ stage' = 1
    /\ late' = IF Claimed(b) THEN late \cup {calls + 1} ELSE late
    /\ overlapped' = IF Reading THEN overlapped \cup {calls + 1} ELSE overlapped
    /\ UNCHANGED <<files, engineVars, snap, capture, acked, truncated, bounds>>

\* The append fails and process_event() returns, but the entry may already
\* be in the log.
LogEventFails(b) ==
    /\ up /\ stage = 0
    /\ calls < MaxCall
    /\ faults < MaxFault /\ b >= tip
    /\ calls' = calls + 1
    /\ block' = [block EXCEPT ![calls + 1] = b]
    /\ tip' = b
    /\ wal' \in {wal, wal \cup {calls + 1}}
    /\ faults' = faults + 1
    /\ UNCHANGED <<files, engineVars, stage, snap, capture, history, snapshots, restarts>>

\* process_event() updates the next store.
Apply ==
    /\ up /\ stage \in DOMAIN Handler
    /\ mem' = [mem EXCEPT ![Handler[stage]][calls] = @ + 1]
    /\ stage' = stage + 1
    /\ UNCHANGED <<wal, files, last_block, up, snap, capture, calls, block, tip, history, bounds>>

\* Mutant: the call is not over after the checkpoint moved.
MutAdvanceBlock ==
    /\ up /\ stage = Len(Handler) + 1
    /\ last_block' = block[calls]
    /\ stage' = stage + 1
    /\ acked' = acked \cup {calls}
    /\ UNCHANGED <<wal, files, mem, up, snap, capture, calls, block, tip, truncated, late, overlapped, bounds>>

\* process_event() ends: checkpoint.advance_block().
AdvanceBlock ==
    /\ up /\ stage = Len(Handler) + 1
    /\ last_block' = block[calls]
    /\ stage' = 0
    /\ acked' = acked \cup {calls}
    /\ UNCHANGED <<wal, files, mem, up, snap, capture, calls, block, tip, truncated, late, overlapped, bounds>>

\* save_checkpoint() at the end of a batch: block b is complete.  It writes
\* nothing to the log.
save_checkpoint(b) ==
    /\ up /\ stage = 0
    /\ b >= tip
    /\ last_block' = b
    /\ tip' = b + 1
    /\ UNCHANGED <<wal, files, mem, up, stage, snap, capture, calls, block, history, bounds>>

-----------------------------------------------------------------------------
(* The thread that calls snapshot().                                       *)

\* checkpoint.snapshot()
ReadCheckpoint ==
    /\ up /\ snap = 0
    /\ snapshots < MaxSnapshot
    /\ snapshots' = snapshots + 1
    /\ capture' = [block |-> last_block, data |-> EmptyStores]
    /\ snap' = 1
    /\ late' = IF stage # 0 /\ block[calls] <= last_block THEN late \cup {calls} ELSE late
    /\ overlapped' = IF stage # 0 THEN overlapped \cup {calls} ELSE overlapped
    /\ UNCHANGED <<wal, files, engineVars, stage, calls, block, tip, acked, truncated, restarts, faults>>

\* The all() of the next store.
ReadStore ==
    /\ up /\ Reading
    /\ capture' = [capture EXCEPT !.data[Captured[snap]] = mem[Captured[snap]]]
    /\ snap' = snap + 1
    /\ UNCHANGED <<wal, files, engineVars, stage, calls, block, tip, history, bounds>>

\* write_snapshot() is one fs::write() on the final name: it empties or
\* creates the file and then fills it.
WithFile(b, f) == [c \in DOMAIN files \cup {b} |-> IF c = b THEN f ELSE files[c]]

CreateFile ==
    /\ up /\ snap = Len(Captured) + 1
    /\ files' = WithFile(capture.block, [data |-> EmptyStores, state |-> "partial"])
    /\ snap' = snap + 1
    /\ UNCHANGED <<wal, engineVars, stage, capture, calls, block, tip, history, bounds>>

FillFile ==
    /\ up /\ snap = Len(Captured) + 2
    /\ files' = WithFile(capture.block, [data |-> capture.data, state |-> "written"])
    /\ snap' = 0
    /\ UNCHANGED <<wal, engineVars, stage, capture, calls, block, tip, history, bounds>>

\* fs::write() fails, on a full disk say: snapshot() returns the error and the
\* partial file stays.
FillFileFails ==
    /\ up /\ snap = Len(Captured) + 2
    /\ faults < MaxFault
    /\ faults' = faults + 1
    /\ snap' = 0
    /\ UNCHANGED <<wal, files, engineVars, stage, capture, calls, block, tip, history, snapshots, restarts>>

-----------------------------------------------------------------------------
(* Operator and environment.                                               *)

\* cleanup_snapshots(keep_from_block), keeping the latest.
cleanup_snapshots(keep_from_block) ==
    /\ \E b \in DOMAIN files : b < keep_from_block
    /\ keep_from_block <= Latest
    /\ files' = [b \in {c \in DOMAIN files : c >= keep_from_block} |-> files[b]]
    /\ UNCHANGED <<wal, engineVars, stage, snap, capture, calls, block, tip, history, bounds>>

\* truncate_before(), used on entries the latest snapshot claims to cover.
TruncateLog(k) ==
    /\ DOMAIN files # {}
    /\ files[Latest].state # "partial"
    /\ \E n \in wal : n <= k
    /\ \A n \in wal : n <= k => block[n] <= Latest
    /\ wal' = {n \in wal : n > k}
    /\ truncated' = truncated \cup {n \in wal : n <= k}
    /\ UNCHANGED <<files, engineVars, stage, snap, capture, calls, block, tip, acked, late, overlapped, bounds>>

\* The process ends, in whatever it was doing.  The log keeps what was synced
\* and perhaps more, at least a prefix: under Interval and None any.  Memory
\* is gone.
Down(k) ==
    /\ restarts < MaxRestart
    /\ restarts' = restarts + 1
    /\ wal' = {n \in wal : n <= k}
    /\ up' = FALSE
    /\ mem' = EmptyStores
    /\ last_block' = 0
    /\ stage' = 0
    /\ snap' = 0
    /\ capture' = [block |-> 0, data |-> EmptyStores]
    /\ tip' = 0
    /\ UNCHANGED <<calls, block, history, snapshots, faults>>

Crash(k) ==
    /\ up
    /\ Down(k)
    /\ UNCHANGED files

\* The machine stops: a snapshot file was never fsynced and may be damaged
\* until it has survived once.
PowerLoss(k) ==
    /\ up
    /\ Down(k)
    /\ \E damaged \in SUBSET {b \in DOMAIN files : files[b].state = "written"} :
         files' = [b \in DOMAIN files |->
                     CASE b \in damaged -> [data |-> EmptyStores, state |-> "partial"]
                       [] b \notin damaged /\ files[b].state = "written" -> [files[b] EXCEPT !.state = "durable"]
                       [] OTHER -> files[b]]

Next ==
    \/ open
    \/ \E b \in Block : LogEvent(b) \/ LogEventFails(b)
    \/ Apply
    \/ AdvanceBlock
    \/ \E b \in Block : save_checkpoint(b)
    \/ ReadCheckpoint
    \/ ReadStore
    \/ CreateFile
    \/ FillFile
    \/ FillFileFails
    \/ \E b \in Block : cleanup_snapshots(b)
    \/ \E k \in Call : TruncateLog(k)
    \/ \E k \in 0..MaxCall : Crash(k) \/ PowerLoss(k)

Spec == Init /\ [][Next]_vars

-----------------------------------------------------------------------------
(* Properties.                                                             *)

Counts == [Store -> [Call -> Nat]]

\* Every variable has its type, and the two threads are inside their calls.
TypeOK ==
    /\ wal \subseteq Call
    /\ DOMAIN files \subseteq Block
    /\ \A b \in DOMAIN files : files[b].data \in Counts /\ files[b].state \in {"partial", "written", "durable"}
    /\ mem \in Counts
    /\ last_block \in Block
    /\ up \in BOOLEAN
    /\ stage \in 0..(Len(Handler) + 1)
    /\ snap \in 0..(Len(Captured) + 2)
    /\ capture \in [block : Block, data : Counts]
    /\ calls \in 0..MaxCall
    /\ block \in [Call -> Block]
    /\ tip \in 0..(MaxBlock + 1)
    /\ acked \subseteq Call /\ truncated \subseteq Call /\ late \subseteq Call /\ overlapped \subseteq Call
    /\ snapshots \in Nat /\ restarts \in Nat /\ faults \in Nat

\* Recovery loses nothing that is in the log, or was removed from it on the
\* word of a snapshot, but late events: those whose block a snapshot claimed
\* before they were through.  snapshot() belongs between two blocks.
NoLoss ==
    up => \A n \in acked \cap (wal \cup truncated) : n \notin late =>
        \A st \in Persisted : mem[st][n] >= 1

\* Recovery applies nothing twice, failed appends included, but events whose
\* process_event() ran while snapshot() read the stores.
NoDouble == \A n \in Call \ overlapped : \A st \in Store : mem[st][n] <= 1

\* What replay_wal_entry() says of the entries it skips: already in the
\* snapshot.  Not so for the rest of a block whose first events a snapshot
\* saw, even when no event comes while snapshot() reads and block 0 is left out.
SkippedIsInSnapshot ==
    \A b \in DOMAIN files : files[b].state # "partial" =>
        \A n \in (acked \cap wal) \ overlapped : block[n] \in 1..b =>
            \A st \in Persisted : files[b].data[st][n] >= 1

\* What the documentation says of crashes: the engine survives them.  open()
\* needs the latest snapshot file to be whole.
OpensAfterCrash == DOMAIN files # {} => files[Latest].state # "partial"

\* Both, of what a crash leaves behind.  A state that refutes the disjunction
\* refutes each of the two.
RecoveryKeepsWord == ~up => SkippedIsInSnapshot \/ OpensAfterCrash

=============================================================================
