----------------------------- MODULE WalProofs -----------------------------
(* Proofs about Wal: its type invariant and its safety invariants.         *)
EXTENDS Wal, SequenceTheorems, WellFoundedInduction, TLAPS

-----------------------------------------------------------------------------
(* The inductive invariant.                                                *)

\* The writer's file is the newest one and exists while the writer lives; it
\* may have lost its name.  Without a process only files with a name are left.
HandleIsLatest ==
    /\ handle <= current_segment
    /\ pc # "down" => handle \in DOMAIN segs
    /\ \A s \in DOMAIN segs : s <= handle
    /\ unlinked => pc # "down"

\* The cursors of the open segment are in order; sync() is half done at "fsync".
CursorsOrdered ==
    /\ \A s \in DOMAIN segs : synced[s] <= Len(segs[s])
    /\ pc # "down" =>
         /\ synced[handle] <= flushed
         /\ flushed <= Len(segs[handle])
         /\ mid => flushed < Len(segs[handle])
         /\ pc \in {"fsync", "create"} => flushed = Len(segs[handle])
         /\ pc = "create" => synced[handle] = Len(segs[handle])
    /\ pc = "down" => ~mid

\* Every closed segment is on stable storage.
OldSegmentsSynced == \A s \in DOMAIN segs : s # handle => synced[s] = Len(segs[s])

\* Cells hold entries that were written.
CellsWritten == \A s \in DOMAIN segs : \A i \in Cells(s) : segs[s][i] <= last

\* The cells are in the order of the append() calls, in the file without a
\* name as well.
CellsInOrder ==
    \A s, t \in DOMAIN segs : \A i \in Cells(s), j \in Cells(t) :
        (s < t \/ (s = t /\ i < j)) /\ segs[s][i] # Torn /\ segs[t][j] # Torn
            => segs[s][i] < segs[t][j]

\* The entries in the files there are, the one without a name included.
Held == {e \in Entry : \E s \in DOMAIN segs : \E i \in Cells(s) : segs[s][i] = e}

\* What the file without a name holds counts as deleted, or came after that.
UnlinkedGone ==
    unlinked => \A i \in Cells(handle) : segs[handle][i] \in Entry => segs[handle][i] \in dropped \cup orphaned

\* An fsynced entry lies in the durable part of its file.
FsyncedInPlace ==
    \A e \in durable \ (dropped \cup orphaned) :
        \E s \in DOMAIN segs : \E i \in Cells(s) : segs[s][i] = e /\ i <= synced[s]

\* What the living process wrote is all there; birth never lies ahead.
LifeComplete ==
    /\ \A e \in 1..last : birth[e] <= restarts
    /\ pc = "down" => \A e \in 1..last : birth[e] < restarts
    /\ \A e \in 1..last : birth[e] = restarts => e \in Held \cup dropped \cup orphaned

\* No entry is held whose process wrote an older one that is gone.
LossBehind ==
    \A e \in 1..last : \A f \in Held :
        e < f /\ birth[e] = birth[f] => e \in Held \cup dropped \cup orphaned

\* The entry of the append() in progress.
InProgress ==
    /\ pc \in {"sized", "create"} => last # 0
    /\ pc \in {"flush", "fsync"} /\ caller # "sync" => last # 0
    /\ pc = "create" => caller = "rotate"
    /\ pc = "sized" => caller = "append"
    /\ pc \in {"flush", "fsync"} /\ caller = "append" =>
         Len(segs[handle]) # 0 /\ segs[handle][Len(segs[handle])] = last

\* Under EveryWrite the entry is durable by the time append() looks at the size.
EveryWriteSynced ==
    policy = "EveryWrite" =>
        /\ acked \subseteq durable
        /\ pc \in {"sized", "create"} => last \in durable
        /\ pc \in {"flush", "fsync"} /\ caller = "rotate" => last \in durable

Inv ==
    /\ TypeOK
    /\ HandleIsLatest
    /\ CursorsOrdered
    /\ OldSegmentsSynced
    /\ CellsWritten
    /\ CellsInOrder
    /\ UnlinkedGone
    /\ FsyncedInPlace
    /\ LifeComplete
    /\ LossBehind
    /\ InProgress
    /\ EveryWriteSynced

-----------------------------------------------------------------------------
(* Facts about the files.                                                  *)

\* The length of a file cut behind n cells.
CutLen(n, torn) == IF torn THEN n + 1 ELSE n

\* What is left of a file cut behind n cells.
LEMMA TruncateProperties ==
    ASSUME NEW seg \in Seq(Cell), NEW n \in 0..Len(seg), NEW torn
    PROVE  /\ Truncate(seg, n, torn) \in Seq(Cell)
           /\ Len(Truncate(seg, n, torn)) = IF torn THEN n + 1 ELSE n
           /\ \A i \in 1..n : Truncate(seg, n, torn)[i] = seg[i]
           /\ torn => Truncate(seg, n, torn)[n + 1] = Torn
<1> DEFINE sub == SubSeq(seg, 1, n)
<1>0. Torn \in Cell
  BY DEF Cell
<1>1. sub \in Seq(Cell) /\ Len(sub) = n /\ \A i \in 1..n : sub[i] = seg[i]
  OBVIOUS
<1> HIDE DEF sub
<1>2. CASE torn
  <2>1. Truncate(seg, n, torn) = sub \o <<Torn>>
    BY <1>2 DEF Truncate, sub
  <2>2. <<Torn>> \in Seq(Cell) /\ Len(<<Torn>>) = 1 /\ <<Torn>>[1] = Torn
    BY <1>0
  <2>3. sub \o <<Torn>> \in Seq(Cell) /\ Len(sub \o <<Torn>>) = n + 1
    BY <1>1, <2>2
  <2>4. \A i \in 1..n : (sub \o <<Torn>>)[i] = seg[i]
    BY <1>1, <2>2
  <2>5. (sub \o <<Torn>>)[n + 1] = Torn
    BY <1>1, <2>2
  <2> QED
    BY <1>2, <2>1, <2>3, <2>4, <2>5
<1>3. CASE ~torn
  <2>1. Truncate(seg, n, torn) = sub \o <<>>
    BY <1>3 DEF Truncate, sub
  <2>2. sub \o <<>> = sub
    BY <1>1
  <2> QED
    BY <1>1, <1>3, <2>1, <2>2
<1> QED
  BY <1>2, <1>3

\* A cell behind the n cells that are left is the partial entry.
LEMMA CutBound ==
    ASSUME NEW n \in Nat, NEW j \in Nat, NEW torn \in BOOLEAN, n < j, j <= CutLen(n, torn)
    PROVE  torn /\ j = n + 1
BY DEF CutLen

\* Its length, and the cells it keeps, each as a fact of its own.
LEMMA TruncateLen ==
    ASSUME NEW seg \in Seq(Cell), NEW n \in 0..Len(seg), NEW torn
    PROVE  Len(Truncate(seg, n, torn)) = CutLen(n, torn)
BY TruncateProperties DEF CutLen

\* The cells in front of the cut are kept.
LEMMA TruncateKeeps ==
    ASSUME NEW seg \in Seq(Cell), NEW n \in 0..Len(seg), NEW torn
    PROVE  \A i \in 1..n : Truncate(seg, n, torn)[i] = seg[i]
BY TruncateProperties

\* A cell is a number: an entry's, or Torn.
LEMMA CellIsNat ==
    ASSUME TypeOK, NEW s \in DOMAIN segs, NEW i \in Cells(s)
    PROVE  segs[s][i] \in Nat /\ (segs[s][i] # Torn => segs[s][i] \in Entry)
BY BoundsAssumption DEF TypeOK, FilesTypeOK, Cells, Cell, Entry, Torn

\* A non-empty set of segment numbers has a largest one.
LEMMA LargestSegment ==
    ASSUME NEW S \in SUBSET Segment, S # {}
    PROVE  \E s \in S : \A t \in S : t <= s
<1> DEFINE D == {MaxSegment - s : s \in S}
<1>0. MaxSegment \in Nat /\ \A s \in S : s \in Nat /\ MaxSegment - s \in Nat
  BY BoundsAssumption DEF Segment
<1>1. D \subseteq Nat /\ D # {}
  BY <1>0
<1> HIDE DEF D
<1>2. \E d \in D : \A c \in D : ~ (<<c, d>> \in OpToRel(<, Nat))
  BY <1>1, NatLessThanWellFounded, WFMin
<1>3. \A x, y \in Nat : y < x => <<y, x>> \in OpToRel(<, Nat)
  BY Zenon DEF OpToRel
<1>4. PICK d \in D : \A c \in D : ~ (<<c, d>> \in OpToRel(<, Nat))
  BY <1>2
<1>5. \A c \in D : ~ (c < d)
  BY <1>1, <1>3, <1>4
<1>6. PICK s \in S : d = MaxSegment - s
  BY DEF D
<1>7. \A t \in S : MaxSegment - t \in D
  BY DEF D
<1>8. \A t \in S : t <= s
  BY <1>0, <1>5, <1>6, <1>7
<1> QED
  BY <1>8

\* find_latest_segment() finds the largest number with a file, or 0 in an
\* empty directory.
LEMMA LatestSegment ==
    ASSUME TypeOK
    PROVE  /\ list_segments = {} => find_latest_segment = 0
           /\ list_segments # {} => /\ find_latest_segment \in list_segments
                                    /\ \A t \in list_segments : t <= find_latest_segment
<1>1. CASE list_segments = {}
  BY <1>1 DEF find_latest_segment
<1>2. CASE list_segments # {}
  <2>1. list_segments \in SUBSET Segment
    BY DEF list_segments, TypeOK, FilesTypeOK
  <2>2. \E s \in list_segments : \A t \in list_segments : t <= s
    BY <1>2, <2>1, LargestSegment
  <2> QED
    BY <1>2, <2>2 DEF find_latest_segment
<1> QED
  BY <1>1, <1>2

\* The files with a name are the files there are, but for the writer's.
LEMMA NamedFiles ==
    /\ list_segments \subseteq DOMAIN segs
    /\ \A s \in DOMAIN segs : s # handle => s \in list_segments
    /\ ~unlinked => list_segments = DOMAIN segs
    /\ handle \in list_segments => list_segments = DOMAIN segs
    /\ handle \in DOMAIN segs /\ handle \notin list_segments => unlinked
BY DEF list_segments

-----------------------------------------------------------------------------
(* Steps that leave the files alone.                                       *)

\* The conjuncts about entries and processes survive every step that changes
\* neither files nor entries, and does not end the process.
LEMMA FrameEntries ==
    ASSUME Inv, UNCHANGED <<segs, synced, unlinked, last, durable, dropped, orphaned, birth, restarts>>,
           pc' = "down" => pc = "down"
    PROVE  /\ FilesTypeOK'
           /\ CellsWritten'
           /\ CellsInOrder'
           /\ FsyncedInPlace'
           /\ LifeComplete'
           /\ LossBehind'
<1> USE DEF Inv
<1>1. FilesTypeOK'
  BY DEF TypeOK, FilesTypeOK
<1>2. CellsWritten'
  BY DEF CellsWritten, Cells
<1>3. CellsInOrder'
  BY DEF CellsInOrder, Cells
<1>4. FsyncedInPlace'
  BY DEF FsyncedInPlace, Cells
<1>5. Held' = Held
  BY DEF Held, Cells
<1>6. LifeComplete' /\ LossBehind'
  BY <1>5 DEF LifeComplete, LossBehind
<1> QED
  BY <1>1, <1>2, <1>3, <1>4, <1>6

\* With the same file open, the ones about that file do too.
LEMMA Frame ==
    ASSUME Inv,
           UNCHANGED <<segs, synced, unlinked, handle, last, durable, dropped, orphaned, birth, restarts>>,
           pc' = "down" => pc = "down"
    PROVE  /\ FilesTypeOK'
           /\ OldSegmentsSynced'
           /\ CellsWritten'
           /\ CellsInOrder'
           /\ UnlinkedGone'
           /\ FsyncedInPlace'
           /\ LifeComplete'
           /\ LossBehind'
<1>1. OldSegmentsSynced'
  BY DEF Inv, OldSegmentsSynced
<1>2. UnlinkedGone'
  BY DEF Inv, UnlinkedGone, Cells
<1> QED
  BY <1>1, <1>2, FrameEntries

\* BufWriter::flush() moves the cursor of the open segment to its end.
LEMMA FlushStep == Inv /\ Flush => Inv'
<1> SUFFICES ASSUME Inv, Flush PROVE Inv'
  OBVIOUS
<1> USE BoundsAssumption DEF Inv, TypeOK, Flush, history
<1>1. WriterTypeOK'
  <2>1. mid' \in BOOLEAN
    OBVIOUS
  <2>2. Len(segs[handle]) \in Nat
    BY DEF FilesTypeOK, HandleIsLatest
  <2> QED
    BY <2>1, <2>2 DEF WriterTypeOK
<1>2. HistoryTypeOK'
  BY DEF HistoryTypeOK, Entry, InProgress
<1>3. HandleIsLatest'
  BY DEF FilesTypeOK, WriterTypeOK, HandleIsLatest, Segment
<1>4. CursorsOrdered'
  BY DEF FilesTypeOK, WriterTypeOK, HandleIsLatest, CursorsOrdered, InProgress, Segment
<1>5. InProgress'
  BY DEF WriterTypeOK, InProgress
<1>6. EveryWriteSynced'
  BY DEF EveryWriteSynced, InProgress, WriterTypeOK
<1> QED
  BY <1>1, <1>2, <1>3, <1>4, <1>5, <1>6, Frame

\* A failed flush leaves the cursors in order.
LEMMA FlushFailsStep == Inv /\ FlushFails => Inv'
<1> SUFFICES ASSUME Inv, FlushFails PROVE Inv'
  OBVIOUS
<1> USE BoundsAssumption DEF Inv, TypeOK, FlushFails, PartialFlush, history
<1>1. WriterTypeOK'
  BY DEF WriterTypeOK, FilesTypeOK, HandleIsLatest, Segment, Torn
<1>2. HistoryTypeOK'
  BY DEF HistoryTypeOK, Entry, InProgress
<1>3. HandleIsLatest'
  BY DEF FilesTypeOK, WriterTypeOK, HandleIsLatest, Segment
<1>4. CursorsOrdered'
  BY DEF FilesTypeOK, WriterTypeOK, HandleIsLatest, CursorsOrdered, InProgress, Segment
<1>5. InProgress'
  BY DEF WriterTypeOK, InProgress
<1>6. EveryWriteSynced'
  BY DEF EveryWriteSynced, InProgress, WriterTypeOK
<1> QED
  BY <1>1, <1>2, <1>3, <1>4, <1>5, <1>6, Frame

\* A failed sync_data() changes no file.
LEMMA FsyncFailsStep == Inv /\ FsyncFails => Inv'
<1> SUFFICES ASSUME Inv, FsyncFails PROVE Inv'
  OBVIOUS
<1> USE BoundsAssumption DEF Inv, TypeOK, FsyncFails, writerVars, history
<1>1. WriterTypeOK'
  BY DEF WriterTypeOK, FilesTypeOK, HandleIsLatest, Segment, Torn
<1>2. HistoryTypeOK'
  BY DEF HistoryTypeOK, Entry, InProgress
<1>3. HandleIsLatest'
  BY DEF FilesTypeOK, WriterTypeOK, HandleIsLatest, Segment
<1>4. CursorsOrdered'
  BY DEF FilesTypeOK, WriterTypeOK, HandleIsLatest, CursorsOrdered, InProgress, Segment
<1>5. InProgress'
  BY DEF WriterTypeOK, InProgress
<1>6. EveryWriteSynced'
  BY DEF EveryWriteSynced, InProgress, WriterTypeOK
<1> QED
  BY <1>1, <1>2, <1>3, <1>4, <1>5, <1>6, Frame

\* Acknowledging, or going on to rotate(), an entry that is already synced.
LEMMA CheckSizeStep == Inv /\ CheckSize => Inv'
<1> SUFFICES ASSUME Inv, CheckSize PROVE Inv'
  OBVIOUS
<1> USE BoundsAssumption DEF Inv, TypeOK, CheckSize, writerVars, history
<1>1. WriterTypeOK'
  BY DEF WriterTypeOK, FilesTypeOK, HandleIsLatest, Segment, Torn
<1>2. HistoryTypeOK'
  <2>1. last \in Entry
    BY DEF HistoryTypeOK, Entry, InProgress
  <2>2. acked' \subseteq Entry
    BY <2>1 DEF HistoryTypeOK
  <2> QED
    BY <2>2 DEF HistoryTypeOK
<1>3. HandleIsLatest'
  BY DEF FilesTypeOK, WriterTypeOK, HandleIsLatest, Segment
<1>4. CursorsOrdered'
  BY DEF FilesTypeOK, WriterTypeOK, HandleIsLatest, CursorsOrdered, InProgress, Segment
<1>5. InProgress'
  BY DEF WriterTypeOK, InProgress
<1>6. EveryWriteSynced'
  BY DEF EveryWriteSynced, InProgress, WriterTypeOK
<1> QED
  BY <1>1, <1>2, <1>3, <1>4, <1>5, <1>6, Frame

\* A failed rotation uses up a number and changes no file.
LEMMA CreateSegmentFailsStep == Inv /\ CreateSegmentFails => Inv'
<1> SUFFICES ASSUME Inv, CreateSegmentFails PROVE Inv'
  OBVIOUS
<1> USE BoundsAssumption DEF Inv, TypeOK, CreateSegmentFails, history
<1>1. WriterTypeOK'
  BY DEF WriterTypeOK, FilesTypeOK, HandleIsLatest, Segment, Torn
<1>2. HistoryTypeOK'
  BY DEF HistoryTypeOK, Entry, InProgress
<1>3. HandleIsLatest'
  BY DEF FilesTypeOK, WriterTypeOK, HandleIsLatest, Segment
<1>4. CursorsOrdered'
  BY DEF FilesTypeOK, WriterTypeOK, HandleIsLatest, CursorsOrdered, InProgress, Segment
<1>5. InProgress'
  BY DEF WriterTypeOK, InProgress
<1>6. EveryWriteSynced'
  BY DEF EveryWriteSynced, InProgress, WriterTypeOK
<1> QED
  BY <1>1, <1>2, <1>3, <1>4, <1>5, <1>6, Frame

\* sync_wal() enters sync() without an entry in progress.
LEMMA SyncWalStep == Inv /\ SyncWal => Inv'
<1> SUFFICES ASSUME Inv, SyncWal PROVE Inv'
  OBVIOUS
<1> USE BoundsAssumption DEF Inv, TypeOK, SyncWal, writerVars, history
<1>1. WriterTypeOK'
  BY DEF WriterTypeOK, FilesTypeOK, HandleIsLatest, Segment, Torn
<1>2. HistoryTypeOK'
  BY DEF HistoryTypeOK, Entry, InProgress
<1>3. HandleIsLatest'
  BY DEF FilesTypeOK, WriterTypeOK, HandleIsLatest, Segment
<1>4. CursorsOrdered'
  BY DEF FilesTypeOK, WriterTypeOK, HandleIsLatest, CursorsOrdered, InProgress, Segment
<1>5. InProgress'
  BY DEF WriterTypeOK, InProgress
<1>6. EveryWriteSynced'
  BY DEF EveryWriteSynced, InProgress, WriterTypeOK
<1> QED
  BY <1>1, <1>2, <1>3, <1>4, <1>5, <1>6, Frame

-----------------------------------------------------------------------------
(* fsync.                                                                  *)

\* sync_data() makes the whole open segment durable.
LEMMA FsyncStep == Inv /\ Fsync => Inv'
<1> SUFFICES ASSUME Inv, Fsync PROVE Inv'
  OBVIOUS
<1> USE BoundsAssumption DEF Inv, TypeOK, Fsync, writerVars, history
<1>0. handle \in DOMAIN segs /\ flushed = Len(segs[handle]) /\ flushed \in Nat
  BY DEF HandleIsLatest, CursorsOrdered, WriterTypeOK
<1>1. /\ synced' \in [DOMAIN segs -> Nat] /\ synced'[handle] = flushed
      /\ \A s \in DOMAIN segs : s # handle => synced'[s] = synced[s]
      /\ \A s \in DOMAIN segs : synced[s] <= synced'[s]
  BY <1>0 DEF FilesTypeOK, CursorsOrdered
<1>2. TypeOK'
  <2>1. FilesTypeOK'
    BY <1>1 DEF FilesTypeOK
  <2>2. WriterTypeOK'
    BY DEF WriterTypeOK, ReturnFromSync
  <2>3. HistoryTypeOK'
    BY DEF HistoryTypeOK
  <2> QED
    BY <2>1, <2>2, <2>3
<1>3. HandleIsLatest'
  BY DEF HandleIsLatest, ReturnFromSync, WriterTypeOK
<1>4. CursorsOrdered'
  BY <1>0, <1>1 DEF CursorsOrdered, ReturnFromSync, WriterTypeOK, InProgress
<1>5. OldSegmentsSynced'
  BY <1>1 DEF OldSegmentsSynced
<1>6. CellsWritten' /\ CellsInOrder'
  BY DEF CellsWritten, CellsInOrder, Cells
<1>6u. UnlinkedGone'
  BY DEF UnlinkedGone, Cells
<1>7. FsyncedInPlace'
  <2> SUFFICES ASSUME NEW e \in durable' \ (dropped' \cup orphaned')
               PROVE  \E s \in DOMAIN segs : \E i \in Cells(s) : segs[s][i] = e /\ i <= synced'[s]
    BY DEF FsyncedInPlace, Cells
  <2>1. CASE e \in durable
    <3>1. PICK s \in DOMAIN segs : \E i \in Cells(s) : segs[s][i] = e /\ i <= synced[s]
      BY <2>1 DEF FsyncedInPlace
    <3>2. PICK i \in Cells(s) : segs[s][i] = e /\ i <= synced[s]
      BY <3>1
    <3>3. i <= synced'[s]
      BY <1>1, <3>2 DEF FilesTypeOK, Cells
    <3> QED
      BY <3>2, <3>3
  <2>2. CASE e \notin durable
    <3>1. PICK i \in 1..flushed : segs[handle][i] = e
      BY <2>2
    <3> QED
      BY <1>0, <1>1, <3>1 DEF Cells
  <2> QED
    BY <2>1, <2>2
<1>8. LifeComplete' /\ LossBehind'
  <2>1. Held' = Held
    BY DEF Held, Cells
  <2> QED
    BY <2>1 DEF LifeComplete, LossBehind, ReturnFromSync, WriterTypeOK
<1>9. InProgress'
  BY DEF InProgress, ReturnFromSync, WriterTypeOK
<1>10. EveryWriteSynced'
  <2>1. caller = "append" => last \in durable'
    <3> SUFFICES ASSUME caller = "append" PROVE last \in durable'
      OBVIOUS
    <3>1. flushed # 0 /\ segs[handle][flushed] = last /\ last \in Entry
      BY <1>0 DEF InProgress, HistoryTypeOK, Entry
    <3> QED
      BY <1>0, <3>1
  <2> QED
    BY <2>1 DEF EveryWriteSynced, InProgress, ReturnFromSync, WriterTypeOK
<1> QED
  BY <1>2, <1>3, <1>4, <1>5, <1>6, <1>6u, <1>7, <1>8, <1>9, <1>10

-----------------------------------------------------------------------------
(* Steps that add to the files.                                            *)

\* Opening the log: the directory as it is, or a first empty segment.
LEMMA OpenStep == Inv /\ open => Inv'
<1> SUFFICES ASSUME Inv, open PROVE Inv'
  OBVIOUS
<1> USE BoundsAssumption DEF Inv, TypeOK, history
<1>0. /\ pc = "down" /\ pc' = "idle" /\ ~mid'
      /\ UNCHANGED <<policy, caller, last, acked, durable, dropped, orphaned, birth, restarts, faults>>
  BY DEF open
<1>m. mid' \in BOOLEAN
  BY DEF open
<1>n. ~unlinked /\ ~unlinked' /\ unlinked' = unlinked /\ list_segments = DOMAIN segs
  BY <1>0, NamedFiles DEF open, HandleIsLatest
<1>1. CASE DOMAIN segs # {}
  <2> DEFINE h == find_latest_segment
  <2>1. h \in DOMAIN segs /\ \A t \in DOMAIN segs : t <= h
    BY <1>1, <1>n, LatestSegment
  <2>2. segs' = segs /\ synced' = synced
    BY <1>n, <2>1 DEF open, OpenFile, FilesTypeOK
  <2>3. handle' = h /\ current_segment' = h /\ flushed' = Len(segs[h]) /\ segment_bytes' = Len(segs[h])
    BY <2>1, <2>2 DEF open
  <2> HIDE DEF h
  <2>4. h \in Segment /\ Len(segs[h]) \in Nat
    BY <2>1 DEF FilesTypeOK
  <2>5. WriterTypeOK' /\ HistoryTypeOK'
    BY <1>0, <1>m, <2>3, <2>4 DEF WriterTypeOK, HistoryTypeOK
  <2>6. HandleIsLatest'
    BY <1>0, <1>n, <2>1, <2>2, <2>3, <2>4 DEF HandleIsLatest, Segment
  <2>7. CursorsOrdered'
    BY <1>0, <2>1, <2>2, <2>3, <2>4 DEF CursorsOrdered, FilesTypeOK
  <2>8. OldSegmentsSynced'
    <3> SUFFICES ASSUME NEW s \in DOMAIN segs, s # h PROVE s # handle
      BY <2>2, <2>3 DEF OldSegmentsSynced
    <3>1. s <= h /\ h <= handle /\ s \in Nat /\ h \in Nat /\ handle \in Nat
      BY <2>1, <2>4 DEF HandleIsLatest, FilesTypeOK, WriterTypeOK, Segment
    <3> QED
      BY <3>1
  <2>9. InProgress' /\ EveryWriteSynced' /\ UnlinkedGone'
    BY <1>0, <1>n DEF InProgress, EveryWriteSynced, UnlinkedGone
  <2> QED
    BY <1>0, <1>n, <2>2, <2>5, <2>6, <2>7, <2>8, <2>9, FrameEntries
<1>2. CASE DOMAIN segs = {}
  <2>1. find_latest_segment = 0
    BY <1>2, <1>n, LatestSegment
  <2>2. /\ DOMAIN segs' = {0} /\ segs'[0] = <<>> /\ segs' = [s \in {0} |-> <<>>]
        /\ synced' = [s \in {0} |-> 0]
    BY <1>2, <1>n, <2>1 DEF open, OpenFile
  <2>3. handle' = 0 /\ current_segment' = 0 /\ flushed' = 0 /\ segment_bytes' = 0
    BY <2>1, <2>2 DEF open
  <2>4. TypeOK'
    <3>1. FilesTypeOK'
      <4>1. <<>> \in Seq(Cell)
        OBVIOUS
      <4> QED
        BY <1>n, <2>2, <4>1 DEF FilesTypeOK, Segment
    <3>2. WriterTypeOK'
      BY <1>0, <1>m, <2>3 DEF WriterTypeOK, Segment
    <3>3. HistoryTypeOK'
      BY <1>0 DEF HistoryTypeOK
    <3> QED
      BY <3>1, <3>2, <3>3
  <2>5. HandleIsLatest' /\ CursorsOrdered' /\ OldSegmentsSynced'
    BY <1>0, <1>n, <2>2, <2>3 DEF HandleIsLatest, CursorsOrdered, OldSegmentsSynced
  <2>6. CellsWritten' /\ CellsInOrder' /\ UnlinkedGone'
    BY <1>n, <2>2 DEF CellsWritten, CellsInOrder, UnlinkedGone, Cells
  <2>7. FsyncedInPlace'
    BY <1>0, <1>2 DEF FsyncedInPlace
  <2>8. LifeComplete'
    BY <1>0, <1>2 DEF LifeComplete, Held, HistoryTypeOK
  <2>9. LossBehind'
    BY <2>2 DEF LossBehind, Held, Cells
  <2>10. InProgress' /\ EveryWriteSynced'
    BY <1>0 DEF InProgress, EveryWriteSynced
  <2> QED
    BY <2>4, <2>5, <2>6, <2>7, <2>8, <2>9, <2>10
<1> QED
  BY <1>1, <1>2

\* One more cell at the end of the open segment.
LEMMA AppendCell ==
    ASSUME FilesTypeOK, handle \in DOMAIN segs, NEW x \in Cell,
           segs' = [segs EXCEPT ![handle] = Append(@, x)]
    PROVE  /\ DOMAIN segs' = DOMAIN segs
           /\ segs' \in [DOMAIN segs -> Seq(Cell)]
           /\ \A s \in DOMAIN segs : s # handle => segs'[s] = segs[s]
           /\ Len(segs[handle]) \in Nat
           /\ Len(segs'[handle]) = Len(segs[handle]) + 1
           /\ segs'[handle][Len(segs[handle]) + 1] = x
           /\ \A s \in DOMAIN segs : \A i \in Cells(s) : i \in Cells(s)' /\ segs'[s][i] = segs[s][i]
           /\ \A s \in DOMAIN segs : \A i \in Cells(s)' :
                i \in Cells(s) \/ (s = handle /\ i = Len(segs[handle]) + 1)
<1>1. segs[handle] \in Seq(Cell)
  BY DEF FilesTypeOK
<1>2. /\ Append(segs[handle], x) \in Seq(Cell)
      /\ Len(segs[handle]) \in Nat
      /\ Len(Append(segs[handle], x)) = Len(segs[handle]) + 1
      /\ \A i \in 1..Len(segs[handle]) : Append(segs[handle], x)[i] = segs[handle][i]
      /\ Append(segs[handle], x)[Len(segs[handle]) + 1] = x
  BY <1>1
<1>3. segs'[handle] = Append(segs[handle], x) /\ \A s \in DOMAIN segs : s # handle => segs'[s] = segs[s]
  BY DEF FilesTypeOK
<1>4. DOMAIN segs' = DOMAIN segs /\ segs' \in [DOMAIN segs -> Seq(Cell)]
  BY <1>2 DEF FilesTypeOK
<1>5. ASSUME NEW s \in DOMAIN segs
      PROVE  /\ \A i \in Cells(s) : i \in Cells(s)' /\ segs'[s][i] = segs[s][i]
             /\ \A i \in Cells(s)' : i \in Cells(s) \/ (s = handle /\ i = Len(segs[handle]) + 1)
  <2>1. CASE s = handle
    BY <1>2, <1>3, <2>1 DEF Cells
  <2>2. CASE s # handle
    BY <1>3, <2>2 DEF Cells
  <2> QED
    BY <2>1, <2>2
<1> QED
  BY <1>2, <1>3, <1>4, <1>5

\* append() writes its entry behind everything that was written before.
LEMMA WriteEntryStep ==
    ASSUME Inv, NEW sync \in BOOLEAN, WriteEntry(sync)
    PROVE  Inv'
<1> USE BoundsAssumption DEF Inv, TypeOK
<1> DEFINE n == Len(segs[handle])
<1>0. /\ handle \in DOMAIN segs
      /\ last + 1 \in Entry
      /\ UNCHANGED <<synced, unlinked, policy, current_segment, handle, acked, durable, dropped, restarts,
                     faults>>
      /\ last' = last + 1 /\ pc = "idle" /\ caller' = "append"
      /\ pc' = IF sync THEN "flush" ELSE "sized"
  BY DEF WriteEntry, HandleIsLatest, HistoryTypeOK, Entry
<1>1. /\ DOMAIN segs' = DOMAIN segs
      /\ segs' \in [DOMAIN segs -> Seq(Cell)]
      /\ \A s \in DOMAIN segs : s # handle => segs'[s] = segs[s]
      /\ n \in Nat
      /\ Len(segs'[handle]) = n + 1
      /\ segs'[handle][n + 1] = last + 1
      /\ \A s \in DOMAIN segs : \A i \in Cells(s) : i \in Cells(s)' /\ segs'[s][i] = segs[s][i]
      /\ \A s \in DOMAIN segs : \A i \in Cells(s)' : i \in Cells(s) \/ (s = handle /\ i = n + 1)
  <2>1. segs' = [segs EXCEPT ![handle] = Append(@, last + 1)]
    BY DEF WriteEntry
  <2> QED
    BY <1>0, <2>1, AppendCell DEF Cell
<1>2. /\ flushed' \in Nat
      /\ flushed <= flushed' /\ flushed' <= n + 1
      /\ mid' \in BOOLEAN
      /\ mid' => flushed' < n + 1
  <2>1. flushed \in Nat /\ mid \in BOOLEAN /\ flushed <= n /\ (mid => flushed < n)
    BY <1>0 DEF CursorsOrdered, WriterTypeOK
  <2>2. AutoFlush(n)
    BY DEF WriteEntry
  <2>3. flushed' \in Nat /\ flushed <= flushed' /\ flushed' <= n + 1
    BY <1>1, <2>1, <2>2 DEF AutoFlush
  <2>4. mid' \in BOOLEAN
    BY <2>1, <2>2, Zenon DEF AutoFlush
  <2>5. mid' => (flushed' = flushed /\ mid) \/ flushed' = n
    BY <2>2, Zenon DEF AutoFlush
  <2> QED
    BY <1>1, <2>1, <2>3, <2>4, <2>5
<1>o. /\ orphaned \subseteq orphaned' /\ orphaned' \subseteq orphaned \cup {last + 1}
      /\ unlinked => last + 1 \in orphaned'
  BY DEF WriteEntry
<1>3. birth' \in [Entry -> Nat] /\ birth'[last + 1] = restarts
      /\ \A e \in Entry : e # last + 1 => birth'[e] = birth[e]
  BY <1>0 DEF WriteEntry, HistoryTypeOK
<1> HIDE DEF n
<1>4. TypeOK'
  <2>1. FilesTypeOK'
    BY <1>0, <1>1 DEF FilesTypeOK
  <2>2. WriterTypeOK'
    BY <1>0, <1>2 DEF WriteEntry, WriterTypeOK
  <2>3. HistoryTypeOK'
    BY <1>0, <1>o, <1>3 DEF HistoryTypeOK, Entry
  <2> QED
    BY <2>1, <2>2, <2>3
<1>5. HandleIsLatest' /\ OldSegmentsSynced'
  BY <1>0, <1>1 DEF HandleIsLatest, OldSegmentsSynced
<1>6. CursorsOrdered'
  <2>1. \A s \in DOMAIN segs : synced[s] <= Len(segs'[s])
    <3>1. \A s \in DOMAIN segs : s # handle => synced[s] <= Len(segs'[s])
      BY <1>1 DEF CursorsOrdered
    <3>2. synced[handle] <= n /\ synced[handle] \in Nat
      BY <1>0 DEF CursorsOrdered, FilesTypeOK, n
    <3> QED
      BY <1>1, <3>1, <3>2
  <2>2. synced[handle] <= flushed'
    BY <1>0, <1>2 DEF CursorsOrdered, FilesTypeOK, WriterTypeOK
  <2> QED
    BY <1>0, <1>1, <1>2, <2>1, <2>2 DEF CursorsOrdered
<1>7. CellsWritten'
  <2> SUFFICES ASSUME NEW s \in DOMAIN segs, NEW i \in Cells(s)' PROVE segs'[s][i] <= last + 1
    BY <1>0, <1>1 DEF CellsWritten
  <2>1. CASE i \in Cells(s)
    <3>1. segs[s][i] <= last /\ segs[s][i] \in Nat
      BY <2>1, CellIsNat DEF CellsWritten
    <3> QED
      BY <1>1, <2>1, <3>1 DEF HistoryTypeOK
  <2>2. CASE s = handle /\ i = n + 1
    BY <1>0, <1>1, <2>2 DEF HistoryTypeOK
  <2> QED
    BY <1>1, <2>1, <2>2
<1>8. CellsInOrder'
  <2> SUFFICES ASSUME NEW s \in DOMAIN segs, NEW t \in DOMAIN segs, NEW i \in Cells(s)', NEW j \in Cells(t)',
                      s < t \/ (s = t /\ i < j), segs'[s][i] # Torn, segs'[t][j] # Torn
               PROVE  segs'[s][i] < segs'[t][j]
    BY <1>1 DEF CellsInOrder
  <2>1. CASE i \in Cells(s) /\ j \in Cells(t)
    BY <1>1, <2>1 DEF CellsInOrder
  <2>2. CASE i \in Cells(s) /\ t = handle /\ j = n + 1
    <3>1. segs[s][i] <= last /\ segs[s][i] \in Nat
      BY <2>2, CellIsNat DEF CellsWritten
    <3> QED
      BY <1>0, <1>1, <2>2, <3>1 DEF HistoryTypeOK
  <2>3. ~(s = handle /\ i = n + 1)
    <3> SUFFICES ASSUME s = handle, i = n + 1 PROVE FALSE
      OBVIOUS
    <3>1. t <= handle /\ handle \in Nat /\ t \in Nat
      BY DEF HandleIsLatest, FilesTypeOK, Segment
    <3>2. t = handle /\ i < j
      BY <3>1
    <3> QED
      BY <1>1, <3>2 DEF Cells, n
  <2> QED
    BY <1>1, <2>1, <2>2, <2>3
<1>8u. UnlinkedGone'
  <2> SUFFICES ASSUME unlinked, NEW i \in Cells(handle)', segs'[handle][i] \in Entry
               PROVE  segs'[handle][i] \in dropped \cup orphaned'
    BY <1>0 DEF UnlinkedGone
  <2>1. CASE i \in Cells(handle)
    BY <1>0, <1>1, <1>o, <2>1 DEF UnlinkedGone
  <2>2. CASE i = n + 1
    BY <1>1, <1>o, <2>2
  <2> QED
    BY <1>0, <1>1, <2>1, <2>2
<1>9. FsyncedInPlace'
  <2> SUFFICES ASSUME NEW e \in durable \ (dropped \cup orphaned)
               PROVE  \E s \in DOMAIN segs : \E i \in Cells(s)' : segs'[s][i] = e /\ i <= synced[s]
    BY <1>0, <1>1, <1>o DEF FsyncedInPlace
  <2>1. PICK s \in DOMAIN segs : \E i \in Cells(s) : segs[s][i] = e /\ i <= synced[s]
    BY DEF FsyncedInPlace
  <2> QED
    BY <1>1, <2>1
<1>10. /\ \A e \in Held : e \in Held'
       /\ Held' \subseteq Held \cup {last + 1}
       /\ last + 1 \in Held'
  <2>1. \A e \in Held : e \in Held'
    BY <1>1 DEF Held
  <2>2. Held' \subseteq Held \cup {last + 1}
    BY <1>1 DEF Held
  <2>3. n + 1 \in Cells(handle)'
    BY <1>0, <1>1 DEF Cells
  <2>4. last + 1 \in Held'
    BY <1>0, <1>1, <2>3 DEF Held
  <2> QED
    BY <2>1, <2>2, <2>4
<1>11. LifeComplete' /\ LossBehind'
  <2>1. LifeComplete'
    <3> SUFFICES ASSUME NEW e \in 1..(last + 1)
                 PROVE  birth'[e] <= restarts /\ (birth'[e] = restarts => e \in Held' \cup dropped \cup orphaned')
      BY <1>0 DEF LifeComplete
    <3>1. CASE e = last + 1
      BY <1>3, <1>10, <3>1 DEF HistoryTypeOK
    <3>2. CASE e # last + 1
      <4>1. e \in 1..last /\ e \in Entry
        BY <1>0, <3>2 DEF HistoryTypeOK, Entry
      <4> QED
        BY <1>3, <1>10, <1>o, <3>2, <4>1 DEF LifeComplete
    <3> QED
      BY <3>1, <3>2
  <2>2. LossBehind'
    <3> SUFFICES ASSUME NEW e \in 1..(last + 1), NEW f \in Held', e < f, birth'[e] = birth'[f]
                 PROVE  e \in Held' \cup dropped \cup orphaned'
      BY <1>0 DEF LossBehind
    <3>1. CASE f = last + 1
      BY <1>0, <1>3, <1>10, <1>o, <3>1 DEF LifeComplete, HistoryTypeOK, Entry
    <3>2. CASE f \in Held /\ f # last + 1
      <4>1. f <= last /\ f \in Nat /\ f \in Entry
        BY <3>2, CellIsNat DEF Held, CellsWritten, Entry
      <4>2. e \in 1..last /\ birth[e] = birth[f]
        BY <1>0, <1>3, <3>2, <4>1 DEF HistoryTypeOK, Entry
      <4> QED
        BY <1>10, <1>o, <3>2, <4>2 DEF LossBehind
    <3> QED
      BY <1>10, <3>1, <3>2
  <2> QED
    BY <2>1, <2>2
<1>12. InProgress'
  BY <1>0, <1>1 DEF InProgress, HistoryTypeOK
<1>13. EveryWriteSynced'
  BY <1>0 DEF EveryWriteSynced, WriteEntry, SyncDecision
<1> QED
  BY <1>4, <1>5, <1>6, <1>7, <1>8, <1>8u, <1>9, <1>11, <1>12, <1>13

\* A failed append() leaves the start of its entry behind and no entry.
LEMMA WriteEntryFailsStep == Inv /\ WriteEntryFails => Inv'
<1> SUFFICES ASSUME Inv, WriteEntryFails PROVE Inv'
  OBVIOUS
<1> USE BoundsAssumption DEF Inv, TypeOK
<1> DEFINE n == Len(segs[handle])
<1>0. /\ handle \in DOMAIN segs /\ pc = "idle"
      /\ UNCHANGED <<synced, unlinked, policy, current_segment, handle, segment_bytes, pc, caller, last, acked,
                     durable, dropped, orphaned, birth, restarts>>
      /\ faults' = faults + 1
  BY DEF WriteEntryFails, HandleIsLatest, history
<1>1. /\ DOMAIN segs' = DOMAIN segs
      /\ segs' \in [DOMAIN segs -> Seq(Cell)]
      /\ \A s \in DOMAIN segs : s # handle => segs'[s] = segs[s]
      /\ n \in Nat
      /\ Len(segs'[handle]) = n + 1
      /\ segs'[handle][n + 1] = Torn
      /\ \A s \in DOMAIN segs : \A i \in Cells(s) : i \in Cells(s)' /\ segs'[s][i] = segs[s][i]
      /\ \A s \in DOMAIN segs : \A i \in Cells(s)' : i \in Cells(s) \/ (s = handle /\ i = n + 1)
  <2>1. segs' = [segs EXCEPT ![handle] = Append(@, Torn)]
    BY DEF WriteEntryFails
  <2> QED
    BY <1>0, <2>1, AppendCell DEF Cell
<1>2. /\ flushed' \in Nat /\ mid' \in BOOLEAN
      /\ flushed <= flushed' /\ flushed' <= n + 1
      /\ mid' => flushed' < n + 1
  BY <1>0, <1>1 DEF WriteEntryFails, PartialFlush, WriterTypeOK
<1> HIDE DEF n
<1>3. TypeOK'
  <2>1. FilesTypeOK'
    BY <1>0, <1>1 DEF FilesTypeOK
  <2>2. WriterTypeOK'
    BY <1>0, <1>2 DEF WriterTypeOK
  <2>3. HistoryTypeOK'
    BY <1>0 DEF HistoryTypeOK
  <2> QED
    BY <2>1, <2>2, <2>3
<1>4. HandleIsLatest' /\ OldSegmentsSynced'
  BY <1>0, <1>1 DEF HandleIsLatest, OldSegmentsSynced
<1>5. CursorsOrdered'
  <2>1. \A s \in DOMAIN segs : s # handle => synced[s] <= Len(segs'[s])
    BY <1>1 DEF CursorsOrdered
  <2>2. synced[handle] \in Nat /\ synced[handle] <= n /\ synced[handle] <= flushed
    BY <1>0 DEF CursorsOrdered, FilesTypeOK, n
  <2>3. synced[handle] <= n + 1 /\ synced[handle] <= flushed'
    BY <1>1, <1>2, <2>2 DEF WriterTypeOK
  <2> QED
    BY <1>0, <1>1, <1>2, <2>1, <2>3 DEF CursorsOrdered
<1>6. CellsWritten'
  BY <1>0, <1>1 DEF CellsWritten, HistoryTypeOK, Torn
<1>7. CellsInOrder'
  <2> SUFFICES ASSUME NEW s \in DOMAIN segs, NEW t \in DOMAIN segs, NEW i \in Cells(s)', NEW j \in Cells(t)',
                      s < t \/ (s = t /\ i < j), segs'[s][i] # Torn, segs'[t][j] # Torn
               PROVE  segs'[s][i] < segs'[t][j]
    BY <1>1 DEF CellsInOrder
  <2>1. i \in Cells(s) /\ j \in Cells(t)
    BY <1>1
  <2> QED
    BY <1>1, <2>1 DEF CellsInOrder
<1>7u. UnlinkedGone'
  <2>1. Torn \notin Entry
    BY DEF Torn, Entry
  <2> QED
    BY <1>0, <1>1, <2>1 DEF UnlinkedGone
<1>8. FsyncedInPlace'
  <2> SUFFICES ASSUME NEW e \in durable \ (dropped \cup orphaned)
               PROVE  \E s \in DOMAIN segs : \E i \in Cells(s)' : segs'[s][i] = e /\ i <= synced[s]
    BY <1>0, <1>1 DEF FsyncedInPlace
  <2>1. PICK s \in DOMAIN segs : \E i \in Cells(s) : segs[s][i] = e /\ i <= synced[s]
    BY DEF FsyncedInPlace
  <2> QED
    BY <1>1, <2>1
<1>9. Held' = Held
  <2>1. Torn \notin Entry
    BY DEF Torn, Entry
  <2> QED
    BY <1>1, <2>1 DEF Held
<1>10. LifeComplete' /\ LossBehind'
  BY <1>0, <1>9 DEF LifeComplete, LossBehind
<1>11. InProgress' /\ EveryWriteSynced'
  BY <1>0 DEF InProgress, EveryWriteSynced
<1> QED
  BY <1>3, <1>4, <1>5, <1>6, <1>7, <1>7u, <1>8, <1>10, <1>11

\* Nothing but what counts as deleted is in a file without a name.
LEMMA NamelessFile ==
    ASSUME Inv, NEW s \in DOMAIN segs, s \notin list_segments, NEW i \in Cells(s), segs[s][i] \in Entry
    PROVE  segs[s][i] \in dropped \cup orphaned
<1>1. s = handle /\ unlinked
  BY NamedFiles
<1> QED
  BY <1>1 DEF Inv, UnlinkedGone

\* Rotation closes a segment that is on stable storage, or one without a name.
LEMMA CreateSegmentStep == Inv /\ CreateSegment => Inv'
<1> SUFFICES ASSUME Inv, CreateSegment PROVE Inv'
  OBVIOUS
<1> USE BoundsAssumption DEF Inv, TypeOK
<1> DEFINE n == current_segment + 1
<1>0. /\ handle \in DOMAIN segs /\ pc = "create" /\ pc' = "idle"
      /\ handle' = n /\ current_segment' = n /\ segment_bytes' = 0 /\ flushed' = 0
      /\ ~unlinked' /\ unlinked' \in BOOLEAN
      /\ acked' = acked \cup {last}
      /\ UNCHANGED <<policy, caller, last, durable, dropped, orphaned, birth, restarts, faults>>
  BY DEF CreateSegment, HandleIsLatest
<1>m. mid' \in BOOLEAN /\ ~mid'
  BY DEF CreateSegment
<1>1. n \in Segment /\ \A s \in DOMAIN segs : s < n
  BY SMTT(60) DEF CreateSegment, HandleIsLatest, FilesTypeOK, WriterTypeOK, Segment
<1>l. list_segments \subseteq DOMAIN segs
  BY NamedFiles
<1>2. n \notin list_segments
  BY <1>1, <1>l DEF Segment
<1>3. /\ segs' = [s \in list_segments \cup {n} |-> IF s \in list_segments THEN segs[s] ELSE <<>>]
      /\ synced' = [s \in list_segments \cup {n} |-> IF s \in list_segments THEN synced[s] ELSE 0]
  BY DEF CreateSegment, OpenFile
<1>4. /\ DOMAIN segs' = list_segments \cup {n}
      /\ segs'[n] = <<>> /\ synced'[n] = 0
      /\ \A s \in list_segments : segs'[s] = segs[s] /\ synced'[s] = synced[s]
      /\ \A s \in list_segments : Cells(s)' = Cells(s)
      /\ \A s \in DOMAIN segs' : s \notin list_segments => Cells(s)' = {}
  <2> HIDE DEF n
  <2>1. /\ DOMAIN segs' = list_segments \cup {n}
        /\ segs'[n] = <<>> /\ synced'[n] = 0
        /\ \A s \in list_segments : segs'[s] = segs[s] /\ synced'[s] = synced[s]
    BY <1>2, <1>3
  <2>2. \A s \in list_segments : Cells(s)' = Cells(s)
    BY <2>1 DEF Cells
  <2>3. \A s \in DOMAIN segs' : s \notin list_segments => Cells(s)' = {}
    BY <2>1 DEF Cells
  <2> QED
    BY <2>1, <2>2, <2>3
<1> HIDE DEF n
<1>5. TypeOK'
  <2>1. FilesTypeOK'
    <3>1. <<>> \in Seq(Cell)
      OBVIOUS
    <3> QED
      BY <1>0, <1>l, <1>1, <1>3, <3>1 DEF FilesTypeOK
  <2>2. WriterTypeOK'
    BY <1>0, <1>m, <1>1 DEF WriterTypeOK
  <2>3. HistoryTypeOK'
    <3>1. last \in Entry
      BY <1>0 DEF InProgress, HistoryTypeOK, Entry
    <3> QED
      BY <1>0, <3>1 DEF HistoryTypeOK
  <2> QED
    BY <2>1, <2>2, <2>3
<1>6. HandleIsLatest'
  BY <1>0, <1>l, <1>1, <1>4 DEF HandleIsLatest, Segment, FilesTypeOK
<1>7. CursorsOrdered' /\ OldSegmentsSynced'
  <2>1. CursorsOrdered'
    BY <1>0, <1>m, <1>l, <1>4 DEF CursorsOrdered
  <2>2. OldSegmentsSynced'
    BY <1>0, <1>l, <1>4 DEF CursorsOrdered, OldSegmentsSynced
  <2> QED
    BY <2>1, <2>2
<1>8. CellsWritten'
  BY <1>0, <1>l, <1>4 DEF CellsWritten
<1>9. CellsInOrder' /\ UnlinkedGone'
  <2>1. CellsInOrder'
    BY <1>l, <1>4 DEF CellsInOrder
  <2>2. UnlinkedGone'
    BY <1>0 DEF UnlinkedGone
  <2> QED
    BY <2>1, <2>2
<1>10. FsyncedInPlace'
  <2> SUFFICES ASSUME NEW e \in durable \ (dropped \cup orphaned)
               PROVE  \E s \in DOMAIN segs' : \E i \in Cells(s)' : segs'[s][i] = e /\ i <= synced'[s]
    BY <1>0 DEF FsyncedInPlace
  <2>1. PICK s \in DOMAIN segs : \E i \in Cells(s) : segs[s][i] = e /\ i <= synced[s]
    BY DEF FsyncedInPlace
  <2>2. s \in list_segments
    BY <2>1, NamelessFile DEF HistoryTypeOK
  <2> QED
    BY <1>4, <2>1, <2>2
<1>11. Held' \subseteq Held /\ Held \subseteq Held' \cup dropped \cup orphaned
  <2>1. Held' \subseteq Held
    BY <1>l, <1>4 DEF Held
  <2>2. Held \subseteq Held' \cup dropped \cup orphaned
    BY <1>4, NamelessFile DEF Held
  <2> QED
    BY <2>1, <2>2
<1>12. LifeComplete' /\ LossBehind'
  <2>1. LifeComplete'
    BY <1>0, <1>11 DEF LifeComplete
  <2>2. LossBehind'
    BY <1>0, <1>11 DEF LossBehind
  <2> QED
    BY <2>1, <2>2
<1>13. InProgress' /\ EveryWriteSynced'
  BY <1>0 DEF InProgress, EveryWriteSynced
<1> QED
  BY <1>5, <1>6, <1>7, <1>8, <1>9, <1>10, <1>12, <1>13

-----------------------------------------------------------------------------
(* Steps that take from the files.                                         *)

\* Deleting segments takes whole segments; the writer's own stays with it,
\* without its name.
LEMMA TruncateBeforeStep ==
    ASSUME Inv, NEW keep_from, truncate_before(keep_from)
    PROVE  Inv'
<1> USE BoundsAssumption DEF Inv, TypeOK
<1>p. PICK gone \in SUBSET {s \in list_segments : s < keep_from} \ {{}} :
        LET kept == {s \in DOMAIN segs : s \notin gone \/ (s = handle /\ pc # "down")} IN
        /\ segs' = [s \in kept |-> segs[s]]
        /\ synced' = [s \in kept |-> synced[s]]
        /\ unlinked' = (unlinked \/ (handle \in gone /\ pc # "down"))
        /\ dropped' = dropped \cup {e \in Entry : \E s \in gone : \E i \in Cells(s) : segs[s][i] = e}
        /\ UNCHANGED <<policy, writerVars, pc, caller, last, acked, durable, orphaned, birth, restarts,
                       faults>>
  BY DEF truncate_before
<1> DEFINE kept == {s \in DOMAIN segs : s \notin gone \/ (s = handle /\ pc # "down")}
           lost == {e \in Entry : \E s \in gone : \E i \in Cells(s) : segs[s][i] = e}
<1>0. /\ UNCHANGED <<policy, current_segment, handle, segment_bytes, flushed, mid, pc, caller, last,
                     acked, durable, orphaned, birth, restarts, faults>>
      /\ segs' = [s \in kept |-> segs[s]] /\ synced' = [s \in kept |-> synced[s]]
      /\ dropped' = dropped \cup lost
  BY <1>p DEF writerVars
<1>1. pc # "down" => handle \in kept
  BY DEF HandleIsLatest
<1>u. /\ unlinked' \in BOOLEAN
      /\ unlinked' => pc # "down"
      /\ unlinked' => unlinked \/ handle \in gone
  BY <1>p DEF HandleIsLatest
<1>2. /\ kept \subseteq DOMAIN segs /\ DOMAIN segs' = kept
      /\ \A s \in kept : segs'[s] = segs[s] /\ synced'[s] = synced[s] /\ Cells(s)' = Cells(s)
      /\ lost \subseteq Entry
  BY <1>0 DEF Cells
<1>3. \A s \in DOMAIN segs : \A i \in Cells(s) : segs[s][i] \in Entry => s \in kept \/ segs[s][i] \in lost
  OBVIOUS
<1>g. handle \in gone => \A i \in Cells(handle) : segs[handle][i] \in Entry => segs[handle][i] \in lost
  OBVIOUS
<1> HIDE DEF kept, lost
<1>4. TypeOK'
  <2>1. FilesTypeOK'
    BY <1>0, <1>u, <1>2 DEF FilesTypeOK
  <2>2. WriterTypeOK'
    BY <1>0 DEF WriterTypeOK
  <2>3. HistoryTypeOK'
    BY <1>0, <1>2 DEF HistoryTypeOK
  <2> QED
    BY <2>1, <2>2, <2>3
<1>5. HandleIsLatest' /\ CursorsOrdered' /\ OldSegmentsSynced'
  BY <1>0, <1>1, <1>u, <1>2 DEF HandleIsLatest, CursorsOrdered, OldSegmentsSynced
<1>6. CellsWritten' /\ CellsInOrder'
  BY <1>0, <1>2 DEF CellsWritten, CellsInOrder
<1>6u. UnlinkedGone'
  <2> SUFFICES ASSUME unlinked', NEW i \in Cells(handle)', segs'[handle][i] \in Entry
               PROVE  segs'[handle][i] \in dropped' \cup orphaned
    BY <1>0 DEF UnlinkedGone
  <2>1. i \in Cells(handle) /\ segs'[handle][i] = segs[handle][i]
    BY <1>0, <1>1, <1>u, <1>2 DEF Cells
  <2> QED
    BY <1>0, <1>u, <1>g, <2>1 DEF UnlinkedGone
<1>7. FsyncedInPlace'
  <2> SUFFICES ASSUME NEW e \in durable, e \notin dropped, e \notin orphaned, e \notin lost
               PROVE  \E s \in kept : \E i \in Cells(s) : segs[s][i] = e /\ i <= synced[s]
    BY <1>0, <1>2 DEF FsyncedInPlace
  <2>1. PICK s \in DOMAIN segs : \E i \in Cells(s) : segs[s][i] = e /\ i <= synced[s]
    BY DEF FsyncedInPlace
  <2>2. s \in kept
    BY <1>3, <2>1 DEF HistoryTypeOK
  <2> QED
    BY <2>1, <2>2
<1>8. Held' \subseteq Held /\ Held \cup dropped \cup orphaned \subseteq Held' \cup dropped' \cup orphaned'
  BY <1>0, <1>2, <1>3 DEF Held
<1>9. LifeComplete' /\ LossBehind'
  <2>1. LifeComplete'
    BY <1>0, <1>8 DEF LifeComplete
  <2>2. LossBehind'
    BY <1>0, <1>8 DEF LossBehind
  <2> QED
    BY <2>1, <2>2
<1>10. InProgress' /\ EveryWriteSynced'
  BY <1>0, <1>1, <1>2 DEF InProgress, EveryWriteSynced
<1> QED
  BY <1>4, <1>5, <1>6, <1>6u, <1>7, <1>9, <1>10

\* The open segment is cut behind its last fsync, all others are whole, and
\* the process is gone: what a crash of either kind does.
LEMMA CutStep ==
    ASSUME Inv, handle \in DOMAIN segs,
           NEW n \in synced[handle]..Len(segs[handle]), NEW torn \in BOOLEAN,
           segs' = [segs EXCEPT ![handle] = Truncate(@, n, torn)],
           synced' \in [DOMAIN segs -> Nat],
           \A s \in DOMAIN segs : synced[s] <= synced'[s] /\ synced'[s] <= Len(segs'[s]),
           flushed' = 0, mid' \in BOOLEAN, ~mid', unlinked' \in BOOLEAN, ~unlinked',
           pc' = "down", restarts' = restarts + 1,
           UNCHANGED <<policy, current_segment, handle, segment_bytes, caller, last, acked, durable,
                       dropped, orphaned, birth, faults>>
    PROVE  Inv'
<1> USE BoundsAssumption DEF Inv, TypeOK
<1>0. /\ segs[handle] \in Seq(Cell) /\ Len(segs[handle]) \in Nat
      /\ n \in 0..Len(segs[handle]) /\ synced[handle] \in Nat /\ synced[handle] <= n
  BY DEF FilesTypeOK, WriterTypeOK, CursorsOrdered
<1>1. /\ DOMAIN segs' = DOMAIN segs
      /\ segs'[handle] = Truncate(segs[handle], n, torn)
      /\ \A s \in DOMAIN segs : s # handle => segs'[s] = segs[s]
  BY DEF FilesTypeOK
<1>2. /\ segs'[handle] \in Seq(Cell)
      /\ Len(segs'[handle]) = CutLen(n, torn)
      /\ \A i \in 1..n : segs'[handle][i] = segs[handle][i]
      /\ torn => segs'[handle][n + 1] = Torn
  <2>1. Truncate(segs[handle], n, torn) \in Seq(Cell)
    BY <1>0, TruncateProperties, Zenon
  <2>2. Len(Truncate(segs[handle], n, torn)) = CutLen(n, torn)
    BY <1>0, TruncateLen, Zenon
  <2>3. \A i \in 1..n : Truncate(segs[handle], n, torn)[i] = segs[handle][i]
    BY <1>0, TruncateKeeps, ZenonT(60)
  <2>4. torn => Truncate(segs[handle], n, torn)[n + 1] = Torn
    BY <1>0, TruncateProperties, Zenon
  <2> QED
    BY <1>1, <2>1, <2>2, <2>3, <2>4, Zenon
\* The cells that are left are old ones or the partial entry.
<1>3. ASSUME NEW s \in DOMAIN segs, NEW i \in Cells(s)'
      PROVE  (i \in Cells(s) /\ segs'[s][i] = segs[s][i]) \/ segs'[s][i] = Torn
  <2>1. CASE s # handle
    BY <1>1, <2>1 DEF Cells
  <2>2. CASE s = handle
    BY SMTT(60), <1>0, <1>2, <2>2 DEF Cells, CutLen
  <2> QED
    BY <2>1, <2>2
\* The cells that are gone were the last ones written.
<1>4. ASSUME NEW s \in DOMAIN segs, NEW i \in Cells(s)
      PROVE  \/ i \in Cells(s)' /\ segs'[s][i] = segs[s][i]
             \/ s = handle /\ n < i
  <2>1. CASE s # handle
    BY <1>1, <2>1 DEF Cells
  <2>2. CASE s = handle
    BY <1>0, <1>2, <2>2 DEF Cells, CutLen
  <2> QED
    BY <2>1, <2>2
<1>5. TypeOK'
  <2>1. FilesTypeOK'
    BY <1>1, <1>2 DEF FilesTypeOK
  <2>2. WriterTypeOK'
    BY <1>0, <1>2 DEF WriterTypeOK
  <2>3. HistoryTypeOK'
    BY DEF HistoryTypeOK
  <2> QED
    BY <2>1, <2>2, <2>3
<1>6. HandleIsLatest'
  BY <1>1 DEF HandleIsLatest
<1>7. CursorsOrdered'
  BY <1>0, <1>1, <1>2 DEF CursorsOrdered
<1>8. OldSegmentsSynced'
  <2> SUFFICES ASSUME NEW s \in DOMAIN segs, s # handle PROVE synced'[s] = Len(segs'[s])
    BY <1>1 DEF OldSegmentsSynced
  <2>1. synced[s] = Len(segs[s]) /\ segs'[s] = segs[s] /\ Len(segs[s]) \in Nat /\ synced'[s] \in Nat
    BY <1>1 DEF OldSegmentsSynced, FilesTypeOK
  <2> QED
    BY <2>1
<1>9u. UnlinkedGone'
  BY DEF UnlinkedGone
<1>9. CellsWritten' /\ CellsInOrder'
  <2>1. CellsWritten'
    BY <1>1, <1>3 DEF CellsWritten, HistoryTypeOK, Torn
  <2>2. CellsInOrder'
    BY <1>1, <1>3 DEF CellsInOrder
  <2> QED
    BY <2>1, <2>2
<1>10. FsyncedInPlace'
  <2> SUFFICES ASSUME NEW e \in durable \ (dropped \cup orphaned)
               PROVE  \E s \in DOMAIN segs : \E i \in Cells(s)' : segs'[s][i] = e /\ i <= synced'[s]
    BY <1>1 DEF FsyncedInPlace
  <2>1. PICK s \in DOMAIN segs : \E i \in Cells(s) : segs[s][i] = e /\ i <= synced[s]
    BY DEF FsyncedInPlace
  <2>2. PICK i \in Cells(s) : segs[s][i] = e /\ i <= synced[s]
    BY <2>1
  <2>3. i \in Cells(s)' /\ segs'[s][i] = segs[s][i]
    BY SMTT(60), <1>0, <1>4, <2>2 DEF Cells
  <2>4. i <= synced'[s]
    BY <2>2 DEF Cells, FilesTypeOK
  <2> QED
    BY <2>2, <2>3, <2>4
<1>11. LifeComplete'
  BY SMTT(60) DEF LifeComplete, HistoryTypeOK, Entry
<1>12. Held' \subseteq Held
  <2>1. Torn \notin Entry
    BY DEF Torn, Entry
  <2> QED
    BY <1>1, <1>3, <2>1 DEF Held
<1>13. LossBehind'
  <2> SUFFICES ASSUME NEW e \in 1..last, NEW f \in Held', e < f, birth[e] = birth[f], e \notin dropped,
                      e \notin orphaned, e \notin Held'
               PROVE  FALSE
    BY DEF LossBehind
  <2>1. f \in Held /\ f \in Entry
    BY <1>12 DEF Held
  <2>2. e \in Held /\ e \in Entry
    BY <2>1 DEF LossBehind, Held
  <2>3. PICK s \in DOMAIN segs : \E i \in Cells(s) : segs[s][i] = e
    BY <2>2 DEF Held
  <2>4. PICK i \in Cells(s) : segs[s][i] = e
    BY <2>3
  <2>5. s = handle /\ n < i
    BY <1>1, <1>4, <2>2, <2>4 DEF Held
  <2>6. PICK t \in DOMAIN segs : \E j \in Cells(t)' : segs'[t][j] = f
    BY <1>1 DEF Held
  <2>7. PICK j \in Cells(t)' : segs'[t][j] = f
    BY <2>6
  <2>8. f # Torn /\ e # Torn /\ e \in Nat /\ f \in Nat
    BY <2>1, <2>2 DEF Torn, Entry
  <2>9. j \in Cells(t) /\ segs[t][j] = f
    BY <1>3, <2>7, <2>8
  <2>10. ~(t < s \/ (t = s /\ j < i))
    BY <2>4, <2>8, <2>9 DEF CellsInOrder
  <2>11. t <= handle /\ t \in Nat /\ handle \in Nat /\ i \in Nat /\ j \in Nat
    <3>1. t <= handle /\ t \in Nat /\ handle \in Nat
      BY DEF HandleIsLatest, FilesTypeOK, WriterTypeOK, Segment
    <3>2. i \in Nat /\ j \in Nat
      BY SMTT(60), <2>4, <2>9 DEF Cells
    <3> QED
      BY <3>1, <3>2
  <2>12. t = handle /\ i <= j
    BY <2>5, <2>10, <2>11
  <2>13. j \in 1..Len(segs'[handle])
    BY <2>7, <2>12 DEF Cells
  <2>14. CASE j <= n
    BY <1>0, <2>5, <2>11, <2>12, <2>14
  <2>15. CASE n < j
    <3>0. n \in Nat /\ j <= CutLen(n, torn)
      <4>1. Len(segs'[handle]) = CutLen(n, torn)
        BY <1>2, Zenon
      <4>2. j \in 1..CutLen(n, torn)
        BY <2>13, <4>1, Zenon
      <4> HIDE DEF Inv, TypeOK
      <4>3. n \in Nat
        BY <1>0
      <4> QED
        BY <4>2, <4>3 DEF CutLen
    <3>1. torn /\ j = n + 1
      BY <2>11, <2>15, <3>0, CutBound, Zenon
    <3>2. segs'[handle][j] = Torn
      BY <1>2, <3>1
    <3> QED
      BY <2>7, <2>8, <2>12, <3>2
  <2> QED
    BY <1>0, <2>11, <2>14, <2>15
<1>14. InProgress' /\ EveryWriteSynced'
  BY DEF InProgress, EveryWriteSynced
<1> QED
  BY <1>5, <1>6, <1>7, <1>8, <1>9, <1>9u, <1>10, <1>11, <1>13, <1>14

\* The process ends and the file it had open has no name: the other files
\* are what is left.
LEMMA ForgetStep ==
    ASSUME Inv, handle \notin list_segments,
           segs' = [s \in list_segments |-> segs[s]],
           synced' = [s \in list_segments |-> synced[s]],
           flushed' = 0, mid' \in BOOLEAN, ~mid', unlinked' \in BOOLEAN, ~unlinked',
           pc' = "down", restarts' = restarts + 1,
           UNCHANGED <<policy, current_segment, handle, segment_bytes, caller, last, acked, durable,
                       dropped, orphaned, birth, faults>>
    PROVE  Inv'
<1> USE BoundsAssumption DEF Inv, TypeOK
<1>1. /\ list_segments \subseteq DOMAIN segs /\ DOMAIN segs' = list_segments
      /\ \A s \in list_segments : segs'[s] = segs[s] /\ synced'[s] = synced[s] /\ Cells(s)' = Cells(s)
  <2>1. list_segments \subseteq DOMAIN segs
    BY NamedFiles
  <2> QED
    BY <2>1 DEF Cells
<1>2. TypeOK'
  <2>1. FilesTypeOK'
    BY <1>1 DEF FilesTypeOK
  <2>2. WriterTypeOK'
    BY DEF WriterTypeOK
  <2>3. HistoryTypeOK'
    BY DEF HistoryTypeOK
  <2> QED
    BY <2>1, <2>2, <2>3
<1>3. HandleIsLatest' /\ CursorsOrdered' /\ OldSegmentsSynced' /\ UnlinkedGone'
  BY <1>1 DEF HandleIsLatest, CursorsOrdered, OldSegmentsSynced, UnlinkedGone
<1>4. CellsWritten' /\ CellsInOrder'
  BY <1>1 DEF CellsWritten, CellsInOrder
<1>5. FsyncedInPlace'
  <2> SUFFICES ASSUME NEW e \in durable \ (dropped \cup orphaned)
               PROVE  \E s \in list_segments : \E i \in Cells(s) : segs[s][i] = e /\ i <= synced[s]
    BY <1>1 DEF FsyncedInPlace
  <2>1. PICK s \in DOMAIN segs : \E i \in Cells(s) : segs[s][i] = e /\ i <= synced[s]
    BY DEF FsyncedInPlace
  <2>2. s \in list_segments
    BY <2>1, NamelessFile DEF HistoryTypeOK
  <2> QED
    BY <2>1, <2>2
<1>6. Held' \subseteq Held /\ Held \subseteq Held' \cup dropped \cup orphaned
  <2>1. Held' \subseteq Held
    BY <1>1 DEF Held
  <2>2. Held \subseteq Held' \cup dropped \cup orphaned
    BY <1>1, NamelessFile DEF Held
  <2> QED
    BY <2>1, <2>2
<1>7. LifeComplete'
  BY SMTT(60) DEF LifeComplete, HistoryTypeOK, Entry
<1>8. LossBehind'
  BY <1>6 DEF LossBehind
<1>9. InProgress' /\ EveryWriteSynced'
  BY DEF InProgress, EveryWriteSynced
<1> QED
  BY <1>2, <1>3, <1>4, <1>5, <1>7, <1>8, <1>9

\* What every end of the process leaves alone.
LEMMA EndFacts ==
    ASSUME End
    PROVE  /\ flushed' = 0 /\ mid' \in BOOLEAN /\ ~mid' /\ unlinked' \in BOOLEAN /\ ~unlinked'
           /\ pc' = "down" /\ restarts' = restarts + 1
           /\ UNCHANGED <<policy, current_segment, handle, segment_bytes, caller, last, acked, durable,
                          dropped, orphaned, birth, faults>>
BY DEF End, history

\* An orderly exit flushes the buffer and cuts nothing.
LEMMA DropWriterStep == Inv /\ DropWriter => Inv'
<1> SUFFICES ASSUME Inv, DropWriter PROVE Inv'
  OBVIOUS
<1> USE BoundsAssumption DEF Inv, TypeOK
<1>e. End
  BY DEF DropWriter
<1>0. segs' = [s \in list_segments |-> segs[s]] /\ synced' = [s \in list_segments |-> synced[s]]
  BY DEF DropWriter
<1>1. CASE handle \notin list_segments
  BY <1>e, <1>0, <1>1, EndFacts, ForgetStep, Zenon
<1>2. CASE handle \in list_segments
  <2>1. segs' = segs /\ synced' = synced
    BY <1>0, <1>2, NamedFiles DEF FilesTypeOK
  <2>2. /\ ~mid' /\ mid' \in BOOLEAN /\ flushed' = 0 /\ ~unlinked' /\ unlinked' \in BOOLEAN
        /\ pc' = "down" /\ restarts' = restarts + 1
        /\ UNCHANGED <<policy, current_segment, handle, segment_bytes, caller, last, acked, durable,
                       dropped, orphaned, birth, faults>>
    BY <1>e, EndFacts, Zenon
  <2>3. TypeOK'
    <3>1. FilesTypeOK'
      BY <2>1, <2>2 DEF FilesTypeOK
    <3>2. WriterTypeOK'
      BY <2>2 DEF WriterTypeOK
    <3>3. HistoryTypeOK'
      BY <2>2 DEF HistoryTypeOK
    <3> QED
      BY <3>1, <3>2, <3>3
  <2>4. HandleIsLatest' /\ OldSegmentsSynced' /\ CursorsOrdered' /\ UnlinkedGone'
    BY <2>1, <2>2 DEF HandleIsLatest, OldSegmentsSynced, CursorsOrdered, UnlinkedGone
  <2>5. CellsWritten' /\ CellsInOrder' /\ FsyncedInPlace'
    BY <2>1, <2>2 DEF CellsWritten, CellsInOrder, FsyncedInPlace, Cells
  <2>6. Held' = Held
    BY <2>1 DEF Held, Cells
  <2>7. LossBehind'
    BY <2>2, <2>6 DEF LossBehind
  <2>8. LifeComplete'
    BY <2>2 DEF LifeComplete, HistoryTypeOK, Entry
  <2>9. InProgress' /\ EveryWriteSynced'
    BY <2>2 DEF InProgress, EveryWriteSynced
  <2> QED
    BY <2>3, <2>4, <2>5, <2>7, <2>8, <2>9
<1> QED
  BY <1>1, <1>2

\* A dying process loses its buffer.
LEMMA ProcessCrashStep == Inv /\ ProcessCrash => Inv'
<1> SUFFICES ASSUME Inv, ProcessCrash PROVE Inv'
  OBVIOUS
<1> USE BoundsAssumption DEF Inv, TypeOK
<1>e. End /\ pc # "down"
  BY DEF ProcessCrash
<1>0. /\ segs' = [s \in list_segments |-> IF s = handle THEN Truncate(segs[s], flushed, mid) ELSE segs[s]]
      /\ synced' = [s \in list_segments |-> synced[s]]
  BY DEF ProcessCrash
<1>1. CASE handle \notin list_segments
  <2>1. segs' = [s \in list_segments |-> segs[s]]
    BY <1>0, <1>1
  <2> QED
    BY <1>e, <1>0, <1>1, <2>1, EndFacts, ForgetStep, Zenon
<1>2. CASE handle \in list_segments
  <2>1. handle \in DOMAIN segs /\ list_segments = DOMAIN segs
    BY <1>2, NamedFiles
  <2>2. /\ segs' = [segs EXCEPT ![handle] = Truncate(@, flushed, mid)]
        /\ synced' = synced /\ synced' \in [DOMAIN segs -> Nat]
    BY <1>0, <2>1 DEF FilesTypeOK
  <2>3. /\ flushed \in synced[handle]..Len(segs[handle])
        /\ segs[handle] \in Seq(Cell) /\ flushed \in 0..Len(segs[handle]) /\ mid \in BOOLEAN
    BY <1>e, <2>1 DEF CursorsOrdered, FilesTypeOK, WriterTypeOK
  <2>4. ASSUME NEW s \in DOMAIN segs
        PROVE  synced[s] <= synced'[s] /\ synced'[s] <= Len(segs'[s])
    <3>1. synced'[s] = synced[s] /\ synced[s] \in Nat
      BY <2>2 DEF FilesTypeOK
    <3>2. CASE s # handle
      BY <2>2, <3>1, <3>2 DEF FilesTypeOK, CursorsOrdered
    <3>3. CASE s = handle
      <4>1. segs'[handle] = Truncate(segs[handle], flushed, mid)
        BY <2>1, <2>2 DEF FilesTypeOK
      <4>2. Len(Truncate(segs[handle], flushed, mid)) = CutLen(flushed, mid)
        BY <2>3, TruncateLen, Zenon
      <4>3. flushed <= Len(segs'[handle])
        BY <2>3, <4>1, <4>2 DEF CutLen
      <4> QED
        BY <2>3, <3>1, <3>3, <4>3
    <3> QED
      BY <3>2, <3>3
  <2> HIDE DEF Inv
  <2> QED
    BY <1>e, <2>1, <2>2, <2>3, <2>4, EndFacts, CutStep
<1> QED
  BY <1>1, <1>2

\* Losing power cuts the open segment only: the others are synced.
LEMMA PowerLossStep == Inv /\ PowerLoss => Inv'
<1> SUFFICES ASSUME Inv, PowerLoss PROVE Inv'
  OBVIOUS
<1> USE BoundsAssumption DEF Inv, TypeOK
<1>1. PICK len \in [list_segments -> UNION {synced[s]..FileLen(s) : s \in list_segments}],
           torn \in [list_segments -> BOOLEAN] :
        /\ \A s \in list_segments :
              /\ len[s] \in synced[s]..FileLen(s)
              /\ torn[s] => len[s] < FileLen(s) \/ (s = handle /\ mid)
        /\ segs' = [s \in list_segments |-> Truncate(segs[s], len[s], torn[s])]
        /\ synced' = [s \in list_segments |-> Len(segs'[s])]
  BY DEF PowerLoss
<1>e. End
  BY DEF PowerLoss
<1>l. list_segments \subseteq DOMAIN segs
  BY NamedFiles
<1>2. ASSUME NEW s \in list_segments
      PROVE  /\ segs[s] \in Seq(Cell) /\ synced[s] \in Nat
             /\ len[s] \in 0..Len(segs[s]) /\ synced[s] <= len[s] /\ torn[s] \in BOOLEAN
             /\ s # handle => len[s] = Len(segs[s]) /\ ~torn[s] /\ synced[s] = Len(segs[s])
  <2>1. s \in DOMAIN segs /\ segs[s] \in Seq(Cell) /\ Len(segs[s]) \in Nat /\ synced[s] \in Nat
    <3>1. s \in DOMAIN segs /\ segs[s] \in Seq(Cell) /\ synced[s] \in Nat
      BY <1>l DEF FilesTypeOK
    <3> QED
      BY <3>1
  <2>2. torn[s] \in BOOLEAN /\ len[s] \in synced[s]..FileLen(s)
        /\ (torn[s] => len[s] < FileLen(s) \/ (s = handle /\ mid))
    BY <1>1
  <2>3. CASE s = handle
    <3>1. FileLen(s) <= Len(segs[s]) /\ FileLen(s) \in Nat
      BY <2>1, <2>3 DEF FileLen, CursorsOrdered, WriterTypeOK
    <3> QED
      BY <2>1, <2>2, <2>3, <3>1
  <2>4. CASE s # handle
    <3>1. FileLen(s) = Len(segs[s]) /\ synced[s] = Len(segs[s])
      BY <2>1, <2>4 DEF FileLen, OldSegmentsSynced
    <3> QED
      BY <2>1, <2>2, <2>4, <3>1
  <2> QED
    BY <2>3, <2>4
<1>3. ASSUME NEW s \in list_segments
      PROVE  /\ segs'[s] = Truncate(segs[s], len[s], torn[s])
             /\ segs'[s] \in Seq(Cell)
             /\ Len(segs'[s]) = CutLen(len[s], torn[s])
             /\ s # handle => segs'[s] = segs[s]
  <2>1. segs'[s] = Truncate(segs[s], len[s], torn[s])
    BY <1>1
  <2>2. segs[s] \in Seq(Cell) /\ len[s] \in 0..Len(segs[s])
    BY <1>2
  <2>3. /\ Truncate(segs[s], len[s], torn[s]) \in Seq(Cell)
        /\ Len(Truncate(segs[s], len[s], torn[s])) = CutLen(len[s], torn[s])
        /\ \A i \in 1..len[s] : Truncate(segs[s], len[s], torn[s])[i] = segs[s][i]
    <3>1. Truncate(segs[s], len[s], torn[s]) \in Seq(Cell)
      BY <2>2, TruncateProperties, Zenon
    <3>2. Len(Truncate(segs[s], len[s], torn[s])) = CutLen(len[s], torn[s])
      BY <2>2, TruncateLen, Zenon
    <3>3. \A i \in 1..len[s] : Truncate(segs[s], len[s], torn[s])[i] = segs[s][i]
      BY <2>2, TruncateKeeps, Zenon
    <3> QED
      BY <3>1, <3>2, <3>3, Zenon
  <2>4. ASSUME s # handle PROVE Truncate(segs[s], len[s], torn[s]) = segs[s]
    <3> DEFINE r == Truncate(segs[s], len[s], torn[s])
    <3>1. Len(r) = Len(segs[s]) /\ r \in Seq(Cell) /\ segs[s] \in Seq(Cell)
      BY <1>2, <2>3, <2>4 DEF CutLen
    <3>2. \A i \in 1..Len(segs[s]) : r[i] = segs[s][i]
      BY <1>2, <2>3, <2>4
    <3> HIDE DEF r
    <3>3. r = segs[s]
      BY <3>1, <3>2, SeqEqual
    <3> QED
      BY <3>3 DEF r
  <2> QED
    BY <2>1, <2>3, <2>4
<1>4. CASE handle \notin list_segments
  <2>1. \A s \in list_segments : segs'[s] = segs[s] /\ synced'[s] = synced[s]
    BY <1>1, <1>2, <1>3, <1>4
  <2>2. /\ segs' = [s \in list_segments |-> segs[s]]
        /\ synced' = [s \in list_segments |-> synced[s]]
    BY <1>1, <2>1
  <2> QED
    BY <1>e, <1>4, <2>2, EndFacts, ForgetStep, Zenon
<1>5. CASE handle \in list_segments
  <2>1. handle \in DOMAIN segs /\ list_segments = DOMAIN segs
    BY <1>5, NamedFiles
  <2>2. segs' = [segs EXCEPT ![handle] = Truncate(@, len[handle], torn[handle])]
    BY <1>1, <1>3, <2>1 DEF FilesTypeOK
  <2>3. synced' \in [DOMAIN segs -> Nat]
    BY <1>1, <1>3, <2>1
  <2>4. ASSUME NEW s \in DOMAIN segs
        PROVE  synced[s] <= synced'[s] /\ synced'[s] <= Len(segs'[s])
    <3>0. s \in list_segments
      BY <2>1
    <3>1. synced'[s] = Len(segs'[s]) /\ Len(segs'[s]) \in Nat
      BY <1>1, <1>3, <3>0
    <3>2. len[s] <= Len(segs'[s])
      <4>1. len[s] \in Nat /\ Len(segs'[s]) = CutLen(len[s], torn[s])
        BY SMTT(60), <1>2, <1>3, <3>0
      <4> QED
        BY <4>1 DEF CutLen
    <3>3. synced[s] \in Nat /\ len[s] \in Nat /\ synced[s] <= len[s]
      BY <1>2, <3>0
    <3> QED
      BY <3>1, <3>2, <3>3
  <2>5. len[handle] \in synced[handle]..Len(segs[handle]) /\ torn[handle] \in BOOLEAN
    BY <1>2, <1>5
  <2> HIDE DEF Inv
  <2> QED
    BY <1>e, <2>1, <2>2, <2>3, <2>4, <2>5, EndFacts, CutStep
<1> QED
  BY <1>4, <1>5

-----------------------------------------------------------------------------
(* The theorems.                                                           *)

\* An empty directory satisfies the invariant.
LEMMA InitStep == Init => Inv
<1> SUFFICES ASSUME Init PROVE Inv
  OBVIOUS
<1> USE BoundsAssumption DEF Init, Entry
<1>1. DOMAIN segs = {} /\ DOMAIN synced = {}
  OBVIOUS
<1>2. TypeOK
  <2>1. FilesTypeOK
    BY <1>1 DEF FilesTypeOK
  <2>2. mid \in BOOLEAN
    OBVIOUS
  <2>3. WriterTypeOK
    BY <2>2 DEF WriterTypeOK, Segment
  <2>4. HistoryTypeOK
    BY DEF HistoryTypeOK
  <2> QED
    BY <2>1, <2>3, <2>4 DEF TypeOK
<1>3. HandleIsLatest /\ CursorsOrdered /\ OldSegmentsSynced
  BY <1>1 DEF HandleIsLatest, CursorsOrdered, OldSegmentsSynced
<1>4. CellsWritten /\ CellsInOrder /\ UnlinkedGone /\ FsyncedInPlace
  BY <1>1 DEF CellsWritten, CellsInOrder, UnlinkedGone, FsyncedInPlace
<1>5. LifeComplete /\ LossBehind
  BY DEF LifeComplete, LossBehind
<1>6. InProgress /\ EveryWriteSynced
  BY DEF InProgress, EveryWriteSynced
<1> QED
  BY <1>2, <1>3, <1>4, <1>5, <1>6 DEF Inv

\* A step that changes nothing preserves the invariant.
LEMMA StutterStep == Inv /\ UNCHANGED vars => Inv'
<1> SUFFICES ASSUME Inv, UNCHANGED vars PROVE Inv'
  OBVIOUS
<1> USE DEF Inv, vars, writerVars, history
<1>1. TypeOK'
  BY DEF TypeOK, FilesTypeOK, WriterTypeOK, HistoryTypeOK
<1>2. HandleIsLatest' /\ CursorsOrdered'
  BY DEF HandleIsLatest, CursorsOrdered
<1>3. InProgress' /\ EveryWriteSynced'
  BY DEF InProgress, EveryWriteSynced
<1> QED
  BY <1>1, <1>2, <1>3, Frame

\* Every step of the writer, of truncate_before() and of the environment
\* preserves the invariant.
LEMMA NextStep == Inv /\ [Next]_vars => Inv'
<1> SUFFICES ASSUME Inv, [Next]_vars PROVE Inv'
  OBVIOUS
<1>1. CASE Writer
  BY <1>1, OpenStep, FlushStep, FsyncStep, CheckSizeStep, CreateSegmentStep DEF Writer
<1>2. CASE \E sync \in BOOLEAN : WriteEntry(sync)
  BY <1>2, WriteEntryStep
<1>3. CASE WriteEntryFails
  BY <1>3, WriteEntryFailsStep
<1>4. CASE FlushFails \/ FsyncFails \/ CreateSegmentFails
  BY <1>4, FlushFailsStep, FsyncFailsStep, CreateSegmentFailsStep
<1>5. CASE SyncWal
  BY <1>5, SyncWalStep
<1>6. CASE \E keep_from \in 0..(current_segment + MaxAhead) : truncate_before(keep_from)
  BY <1>6, TruncateBeforeStep
<1>7. CASE DropWriter \/ ProcessCrash \/ PowerLoss
  BY <1>7, DropWriterStep, ProcessCrashStep, PowerLossStep
<1>8. CASE UNCHANGED vars
  BY <1>8, StutterStep
<1> QED
  BY <1>1, <1>2, <1>3, <1>4, <1>5, <1>6, <1>7, <1>8 DEF Next

\* The inductive invariant holds in every state the log can reach.
THEOREM Invariance == Spec => []Inv
BY InitStep, NextStep, PTL DEF Spec

\* Every variable has its type in every reachable state: no entry that was
\* never appended is acknowledged, synced or dropped.
THEOREM TypeCorrect == Spec => []TypeOK
<1>1. Inv => TypeOK
  BY DEF Inv
<1> QED
  BY <1>1, Invariance, PTL

\* Whatever crashes, failed calls, truncations and restarts came before,
\* replay() meets the entries in the order of the append() calls that wrote
\* them.
THEOREM ReplayOrder == Spec => []ReplayInAppendOrder
<1>1. Inv => ReplayInAppendOrder
  BY NamedFiles DEF Inv, CellsInOrder, ReplayInAppendOrder
<1> QED
  BY <1>1, Invariance, PTL

\* No reopening, rotation, failed call or power loss erases an entry that a
\* successful sync() covered, unless truncate_before() deleted its segment or
\* had taken the name of the file it was written to.
THEOREM FsyncDurability == Spec => []FsyncedSurvives
<1>1. Inv => FsyncedSurvives
  <2> SUFFICES ASSUME Inv, NEW e \in durable \ (dropped \cup orphaned)
               PROVE  \E s \in list_segments : \E i \in Cells(s) : segs[s][i] = e
    BY DEF FsyncedSurvives
  <2>1. PICK s \in DOMAIN segs : \E i \in Cells(s) : segs[s][i] = e /\ i <= synced[s]
    BY DEF Inv, FsyncedInPlace
  <2>2. e \in Entry
    BY DEF Inv, TypeOK, HistoryTypeOK
  <2>3. s \in list_segments
    BY <2>1, <2>2, NamelessFile
  <2> QED
    BY <2>1, <2>3
<1> QED
  BY <1>1, Invariance, PTL

\* Under every policy a crash takes the latest entries of its process only,
\* whatever truncate_before() deleted or cut off from the log.
THEOREM SuffixLoss == Spec => []LossIsSuffix
<1>1. Inv => LossIsSuffix
  <2> SUFFICES ASSUME Inv, NEW e \in 1..last, NEW f \in Present, e < f, birth[e] = birth[f]
               PROVE  e \in Present \cup dropped \cup orphaned
    BY DEF LossIsSuffix
  <2>1. f \in Held
    BY NamedFiles DEF Present, Held
  <2>2. e \in Held \cup dropped \cup orphaned
    BY <2>1 DEF Inv, LossBehind
  <2>3. CASE e \in Held
    BY <2>3, NamelessFile DEF Held, Present
  <2> QED
    BY <2>2, <2>3
<1> QED
  BY <1>1, Invariance, PTL

\* Under SyncPolicy::EveryWrite append() acknowledges fsynced entries only.
THEOREM EveryWriteDurability == Spec => []AckedIsFsynced
<1>1. Inv => AckedIsFsynced
  BY DEF Inv, EveryWriteSynced, AckedIsFsynced
<1> QED
  BY <1>1, Invariance, PTL

=============================================================================
