--------------------------- MODULE RecoveryProofs ---------------------------
(* Proofs about Recovery: what recovery applies, it applies once.          *)
EXTENDS Recovery, WellFoundedInduction, TLAPS

-----------------------------------------------------------------------------
(* The inductive invariant.                                                *)

\* A call that has not happened has left no trace.
Numbering ==
    /\ \A n \in wal \cup acked \cup truncated : n <= calls
    /\ \A n \in Call : n > calls => \A st \in Store :
         /\ mem[st][n] = 0 /\ capture.data[st][n] = 0
         /\ \A b \in DOMAIN files : files[b].data[st][n] = 0

\* A call under way has been applied to the stores before its stage, once.
Progress ==
    /\ stage # 0 => /\ up /\ calls \in Call /\ block[calls] = tip
                    /\ \A i \in DOMAIN Handler :
                         IF i < stage THEN mem[Handler[i]][calls] >= 1 ELSE mem[Handler[i]][calls] = 0
    /\ snap # 0 => up
    /\ ~up => mem = EmptyStores

\* The log is in the order of blocks, and the indexer goes on from its end.
BlockOrder ==
    /\ \A n, m \in wal : n <= m => block[n] <= block[m]
    /\ up => last_block <= tip /\ \A n \in wal : block[n] <= tip

\* What the stores, the snapshot under way and the files hold of a call that
\* did not overlap with snapshot() is below the block they claim.
Once ==
    /\ Reading /\ stage # 0 => calls \in overlapped
    /\ \A n \in Call \ overlapped : \A st \in Store :
         /\ mem[st][n] <= 1 /\ capture.data[st][n] <= 1
         /\ mem[st][n] > 0 => block[n] <= last_block \/ (stage # 0 /\ n = calls)
         /\ mem[st][n] > 0 /\ Reading => block[n] <= capture.block
         /\ capture.data[st][n] > 0 => block[n] <= capture.block
         /\ \A b \in DOMAIN files : /\ files[b].data[st][n] <= 1
                                    /\ files[b].data[st][n] > 0 => block[n] <= b

\* A call under way whose block is claimed is late.
ClaimedIsLate ==
    /\ \A n \in acked : block[n] = 0 => n \in late
    /\ stage # 0 => /\ block[calls] = 0 => calls \in late
                    /\ \A c \in DOMAIN files : block[calls] <= c => calls \in late
                    /\ snap # 0 /\ block[calls] <= capture.block => calls \in late

\* The calls recovery must not lose.
Owed == (acked \cap (wal \cup truncated)) \ late

\* They are in the stores, and in every file and every store read that claims
\* their block.
Kept ==
    /\ \A n \in truncated : \E c \in DOMAIN files : block[n] <= c
    /\ \A n \in Owed : \A st \in Persisted :
         /\ up => mem[st][n] >= 1
         /\ \A c \in DOMAIN files : files[c].state # "partial" /\ block[n] <= c => files[c].data[st][n] >= 1
         /\ snap # 0 /\ block[n] <= capture.block =>
              \A i \in DOMAIN Captured : i < snap /\ Captured[i] = st => capture.data[st][n] >= 1

Inv ==
    /\ TypeOK
    /\ Numbering
    /\ Progress
    /\ BlockOrder
    /\ Once
    /\ ClaimedIsLate
    /\ Kept

-----------------------------------------------------------------------------
(* Stores, counts and the latest file.                                     *)

LEMMA Least ==
    ASSUME NEW T \in SUBSET Nat, T # {}
    PROVE  \E x \in T : \A y \in T : x <= y
<1>1. \E x \in T : \A y \in T : ~ (<<y, x>> \in OpToRel(<, Nat))
  BY NatLessThanWellFounded, WFMin
<1>2. \A x, y \in Nat : y < x => <<y, x>> \in OpToRel(<, Nat)
  BY Zenon DEF OpToRel
<1>3. PICK x \in T : \A y \in T : ~ (<<y, x>> \in OpToRel(<, Nat))
  BY <1>1
<1>4. \A y \in T : ~ (y < x)
  BY <1>2, <1>3
<1> QED
  BY <1>4

\* A non-empty set of numbers up to N has a greatest.
LEMMA Greatest ==
    ASSUME NEW N \in Nat, NEW T \in SUBSET (0..N), T # {}
    PROVE  \E x \in T : \A y \in T : y <= x
<1> DEFINE D == {N - x : x \in T}
<1>0. \A y \in T : y \in Nat /\ N - y \in Nat
  <2>1. \A y \in T : y \in 0..N
    OBVIOUS
  <2> QED
    BY <2>1
<1>1. D \in SUBSET Nat /\ D # {}
  BY <1>0
<1>2. PICK d \in D : \A e \in D : d <= e
  BY <1>1, Least
<1>3. PICK x \in T : d = N - x
  OBVIOUS
<1>4. \A y \in T : N - x <= N - y
  BY <1>2, <1>3
<1>5. \A y \in T : y <= x
  BY <1>0, <1>4
<1> QED
  BY <1>5

LEMMA LatestProperties ==
    ASSUME TypeOK, DOMAIN files # {}
    PROVE  Latest \in DOMAIN files /\ \A c \in DOMAIN files : c <= Latest
<1>1. \E b \in DOMAIN files : \A c \in DOMAIN files : c <= b
  BY Greatest, RecoveryAssumption DEF TypeOK, Block
<1> QED
  BY <1>1 DEF Latest

LEMMA HandlerFacts ==
    /\ DOMAIN Handler = 1..4 /\ Len(Handler) = 4
    /\ \A i \in 1..4 : Handler[i] \in Store
    /\ \A i, j \in 1..4 : Handler[i] = Handler[j] => i = j
    /\ \A st \in Store : \E i \in 1..4 : st = Handler[i]
<1>1. DOMAIN Handler = 1..4 /\ Len(Handler) = 4
  BY DEF Handler
<1>2. \A i, j \in 1..4 : Handler[i] = Handler[j] => i = j
  BY DEF Handler
<1> QED
  BY <1>1, <1>2 DEF Store

LEMMA CapturedFacts ==
    /\ DOMAIN Captured = 1..3 /\ Len(Captured) = 3
    /\ \A i \in 1..3 : Captured[i] \in Persisted
    /\ \A st \in Persisted : st \in Store /\ \E i \in 1..3 : st = Captured[i]
    /\ \A i, j \in 1..3 : Captured[i] = Captured[j] => i = j
<1>1. DOMAIN Captured = 1..3 /\ Len(Captured) = 3
  BY DEF Captured
<1>2. \A i, j \in 1..3 : Captured[i] = Captured[j] => i = j
  BY DEF Captured
<1>3. \A i \in 1..3 : Captured[i] \in Store
  <2>1. Captured[1] = Handler[4] /\ Captured[2] = Handler[2] /\ Captured[3] = Handler[3]
    BY DEF Captured, Handler
  <2> QED
    BY <2>1, HandlerFacts
<1> QED
  BY <1>1, <1>2, <1>3 DEF Persisted

LEMMA CountsElements ==
    ASSUME NEW c \in Counts, NEW st \in Store, NEW n \in Call
    PROVE  c[st][n] \in Nat
BY DEF Counts

LEMMA EmptyStoresCounts ==
    EmptyStores \in Counts /\ \A st \in Store, n \in Call : EmptyStores[st][n] = 0
BY DEF EmptyStores, Unapplied, Counts

\* The parts of the type invariant the proofs below keep using.
LEMMA TypeFacts ==
    ASSUME TypeOK
    PROVE  /\ mem \in Counts /\ capture.data \in Counts /\ capture.block \in Nat
           /\ \A b \in DOMAIN files : b \in Nat /\ files[b].data \in Counts
           /\ last_block \in Nat /\ tip \in Nat /\ calls \in Nat /\ MaxCall \in Nat /\ MaxBlock \in Nat
           /\ stage \in Nat /\ snap \in Nat
           /\ block \in [Call -> Block] /\ \A n \in Call : n \in Nat /\ block[n] \in Nat
           /\ \A n \in wal \cup acked \cup truncated : n \in Call
<1>1. last_block \in Nat /\ tip \in Nat /\ calls \in Nat /\ MaxCall \in Nat /\ MaxBlock \in Nat
  BY RecoveryAssumption DEF TypeOK, Block
<1>2. capture.block \in Block /\ capture.data \in Counts
  BY DEF TypeOK
<1>3. stage \in Nat /\ snap \in Nat
  BY HandlerFacts, CapturedFacts DEF TypeOK
<1>4. \A n \in Call : n \in Nat /\ block[n] \in Block
  BY <1>1 DEF TypeOK, Call
<1>5. \A b \in Block : b \in Nat
  BY <1>1 DEF Block
<1> QED
  BY <1>1, <1>2, <1>3, <1>4, <1>5 DEF TypeOK

-----------------------------------------------------------------------------
(* One lemma per action.                                                   *)

\* What both outcomes of the append have in common: the call is new, and its
\* block is not below that of any other in the log.
LEMMA NewCall ==
    ASSUME Inv, NEW b \in Block, up, stage = 0, calls < MaxCall, b >= tip,
           calls' = calls + 1, block' = [block EXCEPT ![calls + 1] = b], tip' = b,
           wal' \in {wal, wal \cup {calls + 1}}, late \subseteq late', overlapped \subseteq overlapped',
           UNCHANGED <<files, engineVars, snap, capture, acked, truncated>>
    PROVE  /\ calls + 1 \in Call /\ calls' \in 0..MaxCall /\ tip' \in 0..(MaxBlock + 1)
           /\ wal' \subseteq Call /\ block' \in [Call -> Block]
           /\ block'[calls + 1] = b /\ \A n \in Call : n # calls + 1 => block'[n] = block[n]
           /\ \A n \in wal \cup acked \cup truncated : n # calls + 1
           /\ \A st \in Store : mem[st][calls + 1] = 0
           /\ \A n \in Call \ overlapped' : \A st \in Store :
                /\ mem[st][n] <= 1 /\ capture.data[st][n] <= 1
                /\ mem[st][n] > 0 => block'[n] <= last_block
                /\ mem[st][n] > 0 /\ Reading => block'[n] <= capture.block
                /\ capture.data[st][n] > 0 => block'[n] <= capture.block
                /\ \A c \in DOMAIN files : /\ files[c].data[st][n] <= 1
                                           /\ files[c].data[st][n] > 0 => block'[n] <= c
           /\ Numbering' /\ BlockOrder' /\ Kept'
<1> USE DEF engineVars
<1> DEFINE new == calls + 1
<1>1. /\ mem \in Counts /\ capture.data \in Counts /\ calls \in Nat /\ MaxCall \in Nat /\ MaxBlock \in Nat
      /\ \A c \in DOMAIN files : files[c].data \in Counts
      /\ tip \in Nat /\ last_block \in Nat /\ block \in [Call -> Block]
      /\ \A n \in Call : n \in Nat /\ block[n] \in Nat
      /\ \A n \in wal \cup acked \cup truncated : n \in Call
  BY TypeFacts DEF Inv
<1>2. new \in Call /\ calls' \in 0..MaxCall /\ b \in Nat /\ b \in 0..(MaxBlock + 1)
  BY <1>1 DEF Call, Block
<1>3. block' \in [Call -> Block] /\ block'[new] = b /\ \A n \in Call : n # new => block'[n] = block[n]
  BY <1>1, <1>2
<1>4. \A n \in wal \cup acked \cup truncated : n <= calls /\ n # new
  BY <1>1 DEF Inv, Numbering
<1>5. \A st \in Store : mem[st][new] = 0
  BY <1>1, <1>2 DEF Inv, Numbering
<1>6. Numbering'
  <2>1. \A n \in (wal \cup acked \cup truncated)' : n <= calls'
    BY <1>1, <1>4
  <2>2. \A n \in Call : n > calls' => n > calls
    BY <1>1
  <2> QED
    BY <2>1, <2>2 DEF Inv, Numbering
<1>7. BlockOrder'
  <2>1. \A n \in wal : block'[n] = block[n] /\ block[n] <= b /\ block[n] \in Nat /\ n \in Nat
    BY <1>1, <1>2, <1>3, <1>4 DEF Inv, BlockOrder
  <2>2. ASSUME NEW n \in wal', NEW m \in wal', n <= m PROVE block'[n] <= block'[m]
    <3>1. CASE m = new
      BY <1>2, <1>3, <2>1, <3>1
    <3>2. CASE m # new
      <4>1. m \in wal /\ n \in wal
        BY <1>1, <1>2, <1>4, <2>2, <3>2
      <4> QED
        BY <2>1, <2>2, <4>1 DEF Inv, BlockOrder
    <3> QED
      BY <3>1, <3>2
  <2>3. last_block <= b /\ \A n \in wal' : block'[n] <= b
    BY <1>1, <1>2, <1>3, <2>1 DEF Inv, BlockOrder
  <2> QED
    BY <2>2, <2>3 DEF BlockOrder
<1>8. Kept'
  <2>1. \A n \in acked \cup truncated : block'[n] = block[n]
    BY <1>1, <1>3, <1>4
  <2>2. \A n \in truncated : \E c \in DOMAIN files : block'[n] <= c
    BY <2>1 DEF Inv, Kept
  <2>3. \A n \in Owed' : n \in Owed /\ n \in acked
    BY <1>4 DEF Owed
  <2> QED
    BY <2>1, <2>2, <2>3 DEF Inv, Kept
<1>9. ASSUME NEW n \in Call \ overlapped', NEW st \in Store
      PROVE  /\ mem[st][n] <= 1 /\ capture.data[st][n] <= 1
             /\ mem[st][n] > 0 => block'[n] <= last_block
             /\ mem[st][n] > 0 /\ Reading => block'[n] <= capture.block
             /\ capture.data[st][n] > 0 => block'[n] <= capture.block
             /\ \A c \in DOMAIN files : /\ files[c].data[st][n] <= 1
                                        /\ files[c].data[st][n] > 0 => block'[n] <= c
  <2>1. CASE n = new
    <3>1. new > calls
      BY <1>1
    <3>2. mem[st][new] = 0 /\ capture.data[st][new] = 0 /\ \A c \in DOMAIN files : files[c].data[st][new] = 0
      BY <1>2, <3>1 DEF Inv, Numbering
    <3> QED
      BY <2>1, <3>2
  <2>2. CASE n # new
    <3>1. n \in Call \ overlapped /\ block'[n] = block[n]
      BY <1>3, <2>2
    <3> QED
      BY <3>1 DEF Inv, Once
  <2> QED
    BY <2>1, <2>2
<1> QED
  BY <1>1, <1>2, <1>3, <1>4, <1>5, <1>6, <1>7, <1>8, <1>9

\* process_event() appends to the log.
LEMMA LogEventStep ==
    ASSUME Inv, NEW b \in Block, LogEvent(b)
    PROVE  Inv'
<1> USE DEF LogEvent, engineVars, bounds
<1> DEFINE new == calls + 1
<1>0. /\ new \in Call /\ calls' \in 0..MaxCall /\ tip' \in 0..(MaxBlock + 1)
      /\ wal' \subseteq Call /\ block' \in [Call -> Block]
      /\ block'[new] = b /\ \A n \in Call : n # new => block'[n] = block[n]
      /\ \A n \in wal \cup acked \cup truncated : n # new
      /\ \A st \in Store : mem[st][new] = 0
      /\ \A n \in Call \ overlapped' : \A st \in Store :
           /\ mem[st][n] <= 1 /\ capture.data[st][n] <= 1
           /\ mem[st][n] > 0 => block'[n] <= last_block
           /\ mem[st][n] > 0 /\ Reading => block'[n] <= capture.block
           /\ capture.data[st][n] > 0 => block'[n] <= capture.block
           /\ \A c \in DOMAIN files : /\ files[c].data[st][n] <= 1
                                      /\ files[c].data[st][n] > 0 => block'[n] <= c
      /\ Numbering' /\ BlockOrder' /\ Kept'
  <2>1. late \subseteq late' /\ overlapped \subseteq overlapped'
    OBVIOUS
  <2> QED
    BY <2>1, NewCall
<1>b. \A n \in acked : n \in Call
  BY TypeFacts DEF Inv
<1>1. TypeOK'
  <2>1. late' \subseteq Call /\ overlapped' \subseteq Call
    BY <1>0 DEF Inv, TypeOK
  <2>2. stage' \in 0..(Len(Handler) + 1)
    BY HandlerFacts
  <2> QED
    BY <1>0, <2>1, <2>2 DEF Inv, TypeOK
<1>2. Progress'
  BY <1>0, HandlerFacts DEF Inv, Progress
<1>3. Once'
  <2>1. Reading' = Reading /\ (Reading => new \in overlapped')
    BY DEF Reading
  <2> QED
    BY <1>0, <2>1 DEF Once
<1>4. ClaimedIsLate'
  <2>1. \A n \in acked : block'[n] = 0 => n \in late'
    BY <1>0, <1>b DEF Inv, ClaimedIsLate
  <2>2. Claimed(b) => new \in late'
    OBVIOUS
  <2> QED
    BY <1>0, <2>1, <2>2 DEF ClaimedIsLate, Claimed
<1> QED
  BY <1>0, <1>1, <1>2, <1>3, <1>4 DEF Inv

\* The append fails.
LEMMA LogEventFailsStep ==
    ASSUME Inv, NEW b \in Block, LogEventFails(b)
    PROVE  Inv'
<1> USE DEF LogEventFails, engineVars, history
<1> DEFINE new == calls + 1
<1>0. /\ new \in Call /\ calls' \in 0..MaxCall /\ tip' \in 0..(MaxBlock + 1)
      /\ wal' \subseteq Call /\ block' \in [Call -> Block]
      /\ block'[new] = b /\ \A n \in Call : n # new => block'[n] = block[n]
      /\ \A n \in wal \cup acked \cup truncated : n # new
      /\ \A st \in Store : mem[st][new] = 0
      /\ \A n \in Call \ overlapped' : \A st \in Store :
           /\ mem[st][n] <= 1 /\ capture.data[st][n] <= 1
           /\ mem[st][n] > 0 => block'[n] <= last_block
           /\ mem[st][n] > 0 /\ Reading => block'[n] <= capture.block
           /\ capture.data[st][n] > 0 => block'[n] <= capture.block
           /\ \A c \in DOMAIN files : /\ files[c].data[st][n] <= 1
                                      /\ files[c].data[st][n] > 0 => block'[n] <= c
      /\ Numbering' /\ BlockOrder' /\ Kept'
  BY NewCall
<1>b. \A n \in acked : n \in Call
  BY TypeFacts DEF Inv
<1>1. TypeOK'
  BY <1>0 DEF Inv, TypeOK
<1>2. Progress'
  BY DEF Inv, Progress
<1>3. Once'
  <2>1. Reading' = Reading
    BY DEF Reading
  <2> QED
    BY <1>0, <2>1 DEF Once
<1>4. ClaimedIsLate'
  BY <1>0, <1>b DEF Inv, ClaimedIsLate
<1> QED
  BY <1>0, <1>1, <1>2, <1>3, <1>4 DEF Inv

\* process_event() updates the next store.
LEMMA ApplyStep ==
    ASSUME Inv, Apply
    PROVE  Inv'
<1> USE DEF Apply, history, bounds
<1> DEFINE target == Handler[stage]
<1>0. stage \in 1..4 /\ target \in Store /\ calls \in Call /\ stage # 0
  BY HandlerFacts DEF Inv, Progress
<1>a. mem \in Counts
  BY DEF Inv, TypeOK
<1>b. /\ mem' \in Counts /\ mem'[target][calls] = mem[target][calls] + 1
      /\ \A st \in Store, n \in Call : st # target \/ n # calls => mem'[st][n] = mem[st][n]
  <2>1. mem' = [mem EXCEPT ![target][calls] = @ + 1]
    OBVIOUS
  <2> HIDE DEF target, Apply
  <2> QED
    BY <1>0, <1>a, <2>1 DEF Counts
<1>c. mem[target][calls] = 0
  BY <1>0, HandlerFacts DEF Inv, Progress
<1>d. \A n \in Call : n \in Nat /\ \A st \in Store : mem[st][n] \in Nat
  BY <1>a, CountsElements, TypeFacts DEF Inv
<1>e. \A n \in Call : \A st \in Store : mem'[st][n] >= mem[st][n]
  BY <1>b, <1>c, <1>d
<1>1. TypeOK'
  <2>1. stage' \in 0..(Len(Handler) + 1)
    BY <1>0, HandlerFacts
  <2> QED
    BY <1>b, <2>1 DEF Inv, TypeOK
<1>2. Numbering'
  <2>1. \A n \in Call : n > calls => n # calls
    BY <1>0, <1>d
  <2> QED
    BY <1>b, <2>1 DEF Inv, Numbering
<1>3. Progress'
  <2>1. up /\ block[calls] = tip /\ \A j \in 1..4 : IF j < stage THEN mem[Handler[j]][calls] >= 1 ELSE mem[Handler[j]][calls] = 0
    BY <1>0, HandlerFacts DEF Inv, Progress
  <2>2. ASSUME NEW j \in 1..4
        PROVE  IF j < stage + 1 THEN mem'[Handler[j]][calls] >= 1 ELSE mem'[Handler[j]][calls] = 0
    <3>1. CASE j = stage
      BY <1>0, <1>b, <1>c, <3>1
    <3>2. CASE j # stage
      <4>1. Handler[j] # target /\ Handler[j] \in Store
        BY <1>0, <3>2, HandlerFacts
      <4>2. mem'[Handler[j]][calls] = mem[Handler[j]][calls]
        BY <1>0, <1>b, <4>1
      <4>3. j < stage + 1 <=> j < stage
        BY <1>0, <3>2
      <4> QED
        BY <2>1, <4>2, <4>3
    <3> QED
      BY <3>1, <3>2
  <2> QED
    BY <1>0, <2>1, <2>2, HandlerFacts DEF Inv, Progress
<1>4. BlockOrder'
  BY DEF Inv, BlockOrder
<1>5. Once'
  <2>1. Reading' = Reading
    BY DEF Reading
  <2>2. stage' # 0
    BY <1>0
  <2>3. ASSUME NEW n \in Call \ overlapped, NEW st \in Store
        PROVE  /\ mem'[st][n] <= 1
               /\ mem'[st][n] > 0 => block[n] <= last_block \/ n = calls
               /\ mem'[st][n] > 0 /\ Reading => block[n] <= capture.block
    <3>1. CASE n = calls /\ st = target
      BY <1>0, <1>b, <1>c, <3>1 DEF Inv, Once
    <3>2. CASE ~(n = calls /\ st = target)
      BY <1>b, <3>2 DEF Inv, Once
    <3> QED
      BY <3>1, <3>2
  <2> QED
    BY <1>0, <2>1, <2>2, <2>3 DEF Inv, Once
<1>6. ClaimedIsLate'
  BY <1>0 DEF Inv, ClaimedIsLate
<1>7. Kept'
  <2>1. ASSUME NEW n \in Owed, NEW st \in Persisted, up
        PROVE  mem'[st][n] >= 1
    <3>1. n \in Call /\ st \in Store /\ mem[st][n] >= 1
      BY <2>1, TypeFacts, CapturedFacts DEF Inv, Kept, Owed
    <3>2. mem[st][n] \in Nat /\ mem'[st][n] >= mem[st][n] /\ mem'[st][n] \in Nat
      BY <1>b, <1>d, <1>e, <3>1, CountsElements
    <3> QED
      BY <3>1, <3>2
  <2> QED
    BY <2>1 DEF Inv, Kept, Owed
<1> QED
  BY <1>1, <1>2, <1>3, <1>4, <1>5, <1>6, <1>7 DEF Inv

\* process_event() ends, and the checkpoint is at its block.
LEMMA AdvanceBlockStep ==
    ASSUME Inv, AdvanceBlock
    PROVE  Inv'
<1> USE DEF AdvanceBlock, bounds
<1>0. stage = 5 /\ stage # 0 /\ calls \in Call /\ block[calls] = tip
  BY HandlerFacts DEF Inv, Progress
<1>a. \A st \in Persisted : mem[st][calls] >= 1
  <2>1. \A j \in 1..4 : mem[Handler[j]][calls] >= 1
    BY <1>0, HandlerFacts DEF Inv, Progress
  <2> QED
    BY <2>1, HandlerFacts, CapturedFacts
<1>b. last_block \in Nat /\ tip \in Nat /\ last_block <= tip /\ \A n \in Call : block[n] \in Nat
  BY TypeFacts DEF Inv, BlockOrder
<1>1. TypeOK'
  BY <1>0, HandlerFacts DEF Inv, TypeOK
<1>2. Numbering'
  BY <1>0, TypeFacts DEF Inv, Numbering
<1>3. Progress'
  BY DEF Inv, Progress
<1>4. BlockOrder'
  BY <1>0, <1>b DEF Inv, BlockOrder
<1>5. Once'
  <2>1. Reading' = Reading
    BY DEF Reading
  <2>2. ASSUME NEW n \in Call \ overlapped, NEW st \in Store, mem[st][n] > 0
        PROVE  block[n] <= last_block'
    <3>1. block[n] <= last_block \/ n = calls
      BY <2>2 DEF Inv, Once
    <3> QED
      BY <1>0, <1>b, <3>1
  <2> QED
    BY <2>1, <2>2 DEF Inv, Once
<1>6. ClaimedIsLate'
  BY <1>0 DEF Inv, ClaimedIsLate
<1>7. Kept'
  <2>1. Owed' \subseteq Owed \cup {calls} /\ late' = late
    BY DEF Owed
  <2>2. ASSUME calls \notin late
        PROVE  /\ \A c \in DOMAIN files : ~(block[calls] <= c)
               /\ ~(snap # 0 /\ block[calls] <= capture.block)
    BY <1>0, <2>2 DEF Inv, ClaimedIsLate
  <2>3. calls \in Owed' => calls \notin late
    BY <2>1 DEF Owed
  <2> QED
    BY <1>a, <2>1, <2>2, <2>3 DEF Inv, Kept
<1> QED
  BY <1>1, <1>2, <1>3, <1>4, <1>5, <1>6, <1>7 DEF Inv

\* save_checkpoint() completes a block.
LEMMA SaveCheckpointStep ==
    ASSUME Inv, NEW b \in Block, save_checkpoint(b)
    PROVE  Inv'
<1> USE DEF save_checkpoint, history, bounds
<1>0. b \in Nat /\ b + 1 \in 0..(MaxBlock + 1)
  BY RecoveryAssumption DEF Block
<1>b. last_block \in Nat /\ tip \in Nat /\ last_block <= tip /\ \A n \in Call : block[n] \in Nat
  BY TypeFacts DEF Inv, BlockOrder
<1>c. \A n \in wal : n \in Call
  BY TypeFacts DEF Inv
<1>1. TypeOK'
  BY <1>0 DEF Inv, TypeOK
<1>2. Numbering'
  BY DEF Inv, Numbering
<1>3. Progress'
  BY DEF Inv, Progress
<1>4. BlockOrder'
  BY <1>0, <1>b, <1>c DEF Inv, BlockOrder
<1>5. Once'
  <2>1. Reading' = Reading
    BY DEF Reading
  <2>2. ASSUME NEW n \in Call \ overlapped, NEW st \in Store, mem[st][n] > 0
        PROVE  block[n] <= last_block'
    <3>1. block[n] <= last_block
      BY <2>2 DEF Inv, Once
    <3> QED
      BY <1>0, <1>b, <3>1
  <2> QED
    BY <2>1, <2>2 DEF Inv, Once
<1>6. ClaimedIsLate'
  BY DEF Inv, ClaimedIsLate
<1>7. Kept'
  BY DEF Inv, Kept, Owed
<1> QED
  BY <1>1, <1>2, <1>3, <1>4, <1>5, <1>6, <1>7 DEF Inv

\* snapshot() reads the checkpoint.
LEMMA ReadCheckpointStep ==
    ASSUME Inv, ReadCheckpoint
    PROVE  Inv'
<1> USE DEF ReadCheckpoint, engineVars
<1>0. /\ capture'.block = last_block /\ capture'.data = EmptyStores
      /\ EmptyStores \in Counts /\ \A st \in Store, n \in Call : EmptyStores[st][n] = 0
  BY EmptyStoresCounts
<1>a. stage # 0 => calls \in Call /\ calls \in overlapped'
  BY DEF Inv, Progress
<1>b. overlapped \subseteq overlapped' /\ late \subseteq late'
  OBVIOUS
<1>1. TypeOK'
  <2>1. capture' \in [block : Block, data : Counts]
    BY <1>0 DEF Inv, TypeOK
  <2>2. late' \subseteq Call /\ overlapped' \subseteq Call
    BY <1>a DEF Inv, TypeOK
  <2>3. snap' \in 0..(Len(Captured) + 2) /\ snapshots' \in Nat
    BY CapturedFacts DEF Inv, TypeOK
  <2> QED
    BY <2>1, <2>2, <2>3 DEF Inv, TypeOK
<1>2. Numbering'
  BY <1>0 DEF Inv, Numbering
<1>3. Progress'
  BY DEF Inv, Progress
<1>4. BlockOrder'
  BY DEF Inv, BlockOrder
<1>5. Once'
  <2>2. ASSUME NEW n \in Call \ overlapped', NEW st \in Store
        PROVE  /\ mem[st][n] <= 1 /\ capture'.data[st][n] <= 1
               /\ mem[st][n] > 0 => block[n] <= last_block
               /\ ~(capture'.data[st][n] > 0)
               /\ \A b \in DOMAIN files : /\ files[b].data[st][n] <= 1
                                          /\ files[b].data[st][n] > 0 => block[n] <= b
    <3>1. n \in Call \ overlapped /\ (stage # 0 => n # calls)
      BY <1>a, <1>b
    <3>2. capture'.data[st][n] = 0
      BY <1>0
    <3> QED
      BY <3>1, <3>2 DEF Inv, Once
  <2> QED
    BY <1>0, <1>a, <2>2 DEF Once
<1>6. ClaimedIsLate'
  BY <1>0, <1>b DEF Inv, ClaimedIsLate
<1>7. Kept'
  <2>1. Owed' \subseteq Owed
    BY <1>b DEF Owed
  <2>2. \A j \in DOMAIN Captured : ~(j < snap')
    BY CapturedFacts
  <2> QED
    BY <2>1, <2>2 DEF Inv, Kept
<1> QED
  BY <1>1, <1>2, <1>3, <1>4, <1>5, <1>6, <1>7 DEF Inv

\* snapshot() reads the next store.
LEMMA ReadStoreStep ==
    ASSUME Inv, ReadStore
    PROVE  Inv'
<1> USE DEF ReadStore, engineVars, history, bounds
<1> DEFINE read == Captured[snap]
<1>0. snap \in 1..3 /\ read \in Persisted /\ read \in Store
  BY CapturedFacts DEF Reading
<1>a. mem \in Counts /\ capture.data \in Counts /\ capture \in [block : Block, data : Counts]
  BY TypeFacts DEF Inv, TypeOK
<1>b. /\ capture' \in [block : Block, data : Counts] /\ capture'.block = capture.block
      /\ \A n \in Call : capture'.data[read][n] = mem[read][n]
      /\ \A st \in Store, n \in Call : st # read => capture'.data[st][n] = capture.data[st][n]
  <2>1. capture'.block = capture.block /\ capture'.data = [capture.data EXCEPT ![read] = mem[read]]
    BY <1>a
  <2>2. capture'.data \in Counts
    BY <1>0, <1>a, <2>1 DEF Counts
  <2>3. capture' \in [block : Block, data : Counts]
    BY <1>a, <2>1, <2>2
  <2>4. /\ \A n \in Call : capture'.data[read][n] = mem[read][n]
        /\ \A st \in Store, n \in Call : st # read => capture'.data[st][n] = capture.data[st][n]
    <3> HIDE DEF read, ReadStore
    <3> QED
      BY <1>0, <1>a, <2>1 DEF Counts
  <2> QED
    BY <2>1, <2>3, <2>4
<1>1. TypeOK'
  <2>1. snap' \in 0..(Len(Captured) + 2)
    BY <1>0, CapturedFacts
  <2> QED
    BY <1>b, <2>1 DEF Inv, TypeOK
<1>2. Numbering'
  <2>1. ASSUME NEW n \in Call, n > calls, NEW st \in Store
        PROVE  capture'.data[st][n] = 0
    BY <1>0, <1>b, <2>1 DEF Inv, Numbering
  <2> QED
    BY <2>1 DEF Inv, Numbering
<1>3. Progress'
  BY DEF Inv, Progress
<1>4. BlockOrder'
  BY DEF Inv, BlockOrder
<1>5. Once'
  <2>1. Reading' => Reading
    OBVIOUS
  <2>2. ASSUME NEW n \in Call \ overlapped, NEW st \in Store
        PROVE  /\ capture'.data[st][n] <= 1
               /\ capture'.data[st][n] > 0 => block[n] <= capture'.block
    BY <1>0, <1>b DEF Inv, Once
  <2> QED
    BY <1>b, <2>1, <2>2 DEF Inv, Once
<1>6. ClaimedIsLate'
  <2>1. snap # 0
    BY <1>0
  <2> QED
    BY <1>b, <2>1 DEF Inv, ClaimedIsLate
<1>7. Kept'
  <2>1. ASSUME NEW n \in Owed, NEW st \in Persisted, block[n] <= capture.block,
               NEW j \in DOMAIN Captured, j < snap + 1, Captured[j] = st
        PROVE  capture'.data[st][n] >= 1
    <3>1. n \in Call /\ st \in Store
      BY TypeFacts, CapturedFacts DEF Inv, Owed
    <3>2. CASE j = snap
      BY <1>b, <2>1, <3>1, <3>2 DEF Inv, Kept
    <3>3. CASE j # snap
      <4>1. j < snap /\ snap # 0
        BY <1>0, <2>1, <3>3, CapturedFacts
      <4>2. st # read
        BY <1>0, <2>1, <3>3, CapturedFacts
      <4>3. capture.data[st][n] >= 1
        BY <2>1, <4>1 DEF Inv, Kept
      <4> QED
        BY <1>b, <3>1, <4>2, <4>3
    <3> QED
      BY <3>2, <3>3
  <2> QED
    BY <1>b, <2>1 DEF Inv, Kept, Owed
<1> QED
  BY <1>1, <1>2, <1>3, <1>4, <1>5, <1>6, <1>7 DEF Inv

\* A file is written or damaged, and the calls are left alone: what must hold
\* of the new files, and of the snapshot under way.
LEMMA FilesChanged ==
    ASSUME Inv, UNCHANGED <<mem, last_block, up, stage, capture, calls, block, tip, acked, truncated, late, overlapped, wal>>,
           snap' = 0 \/ (snap' = snap + 1 /\ snap \notin DOMAIN Captured),
           snap # 0,
           \A b \in DOMAIN files : b \in DOMAIN files',
           \A b \in DOMAIN files' : b \in DOMAIN files \/ b = capture.block,
           \A b \in DOMAIN files' :
              \/ files'[b].data = EmptyStores /\ files'[b].state = "partial"
              \/ b = capture.block /\ files'[b].data = capture.data /\ snap = 5
              \/ b \in DOMAIN files /\ files'[b] = files[b]
    PROVE  Numbering' /\ Progress' /\ BlockOrder' /\ Once' /\ ClaimedIsLate' /\ Kept'
<1>0. \A st \in Store, n \in Call : EmptyStores[st][n] = 0
  BY EmptyStoresCounts
<1>1. Numbering'
  BY <1>0 DEF Inv, Numbering
<1>2. Progress'
  BY DEF Inv, Progress
<1>3. BlockOrder'
  BY DEF Inv, BlockOrder
<1>4. Once'
  <2>1. Reading' => Reading
    BY CapturedFacts, TypeFacts DEF Inv, Reading
  <2>2. ASSUME NEW n \in Call \ overlapped, NEW st \in Store, NEW b \in DOMAIN files'
        PROVE  files'[b].data[st][n] <= 1 /\ (files'[b].data[st][n] > 0 => block[n] <= b)
    BY <1>0 DEF Inv, Once
  <2> QED
    BY <2>1, <2>2 DEF Inv, Once
<1>5. ClaimedIsLate'
  BY DEF Inv, ClaimedIsLate
<1>6. Kept'
  <2>1. ASSUME NEW n \in Owed, NEW st \in Persisted, NEW c \in DOMAIN files', files'[c].state # "partial", block[n] <= c
        PROVE  files'[c].data[st][n] >= 1
    <3>1. CASE c = capture.block /\ files'[c].data = capture.data /\ snap = 5
      <4>1. PICK j \in DOMAIN Captured : Captured[j] = st /\ j < snap
        BY <3>1, CapturedFacts
      <4> QED
        BY <2>1, <3>1, <4>1 DEF Inv, Kept
    <3>2. CASE c \in DOMAIN files /\ files'[c] = files[c]
      BY <2>1, <3>2 DEF Inv, Kept
    <3> QED
      BY <2>1, <3>1, <3>2
  <2>2. ASSUME snap' # 0, NEW j \in DOMAIN Captured
        PROVE  j < snap
    BY <2>2, CapturedFacts, TypeFacts DEF Inv
  <2> QED
    BY <2>1, <2>2 DEF Inv, Kept, Owed
<1> QED
  BY <1>1, <1>2, <1>3, <1>4, <1>5, <1>6

\* write_snapshot() creates the file.
LEMMA CreateFileStep ==
    ASSUME Inv, CreateFile
    PROVE  Inv'
<1> USE DEF CreateFile, engineVars, history, bounds
<1>0. snap = 4 /\ capture.block \in Block
  BY CapturedFacts DEF Inv, TypeOK
<1>1. /\ DOMAIN files' = DOMAIN files \cup {capture.block}
      /\ \A b \in DOMAIN files' : IF b = capture.block THEN files'[b] = [data |-> EmptyStores, state |-> "partial"]
                                  ELSE files'[b] = files[b]
  BY DEF WithFile
<1>2. TypeOK'
  <2>1. snap' \in 0..(Len(Captured) + 2)
    BY <1>0, CapturedFacts
  <2>2. \A b \in DOMAIN files' : files'[b].data \in Counts /\ files'[b].state \in {"partial", "written", "durable"}
    BY <1>1, EmptyStoresCounts DEF Inv, TypeOK
  <2> QED
    BY <1>0, <1>1, <2>1, <2>2 DEF Inv, TypeOK
<1>3. Numbering' /\ Progress' /\ BlockOrder' /\ Once' /\ ClaimedIsLate' /\ Kept'
  <2>1. snap' = snap + 1 /\ snap \notin DOMAIN Captured /\ snap # 0
    BY <1>0, CapturedFacts
  <2>2. \A b \in DOMAIN files' : \/ files'[b].data = EmptyStores /\ files'[b].state = "partial"
                                 \/ b \in DOMAIN files /\ files'[b] = files[b]
    BY <1>1
  <2> QED
    BY <1>1, <2>1, <2>2, FilesChanged
<1> QED
  BY <1>2, <1>3 DEF Inv

\* write_snapshot() fills it.
LEMMA FillFileStep ==
    ASSUME Inv, FillFile
    PROVE  Inv'
<1> USE DEF FillFile, engineVars, history, bounds
<1>0. snap = 5 /\ capture.block \in Block /\ capture.data \in Counts
  BY CapturedFacts DEF Inv, TypeOK
<1>1. /\ DOMAIN files' = DOMAIN files \cup {capture.block}
      /\ \A b \in DOMAIN files' : IF b = capture.block THEN files'[b] = [data |-> capture.data, state |-> "written"]
                                  ELSE files'[b] = files[b]
  BY DEF WithFile
<1>2. TypeOK'
  <2>1. snap' \in 0..(Len(Captured) + 2)
    BY CapturedFacts
  <2>2. \A b \in DOMAIN files' : files'[b].data \in Counts /\ files'[b].state \in {"partial", "written", "durable"}
    BY <1>0, <1>1 DEF Inv, TypeOK
  <2> QED
    BY <1>0, <1>1, <2>1, <2>2 DEF Inv, TypeOK
<1>3. Numbering' /\ Progress' /\ BlockOrder' /\ Once' /\ ClaimedIsLate' /\ Kept'
  <2>2. \A b \in DOMAIN files' : \/ b = capture.block /\ files'[b].data = capture.data /\ snap = 5
                                 \/ b \in DOMAIN files /\ files'[b] = files[b]
    BY <1>0, <1>1
  <2> QED
    BY <1>0, <1>1, <2>2, FilesChanged
<1> QED
  BY <1>2, <1>3 DEF Inv

\* Or it does not.
LEMMA FillFileFailsStep ==
    ASSUME Inv, FillFileFails
    PROVE  Inv'
<1> USE DEF FillFileFails, engineVars, history
<1>0. snap = 5
  BY CapturedFacts
<1>2. TypeOK'
  BY CapturedFacts DEF Inv, TypeOK
<1>3. Numbering' /\ Progress' /\ BlockOrder' /\ Once' /\ ClaimedIsLate' /\ Kept'
  BY <1>0, FilesChanged
<1> QED
  BY <1>2, <1>3 DEF Inv

\* The operator removes snapshots before the latest.
LEMMA CleanupStep ==
    ASSUME Inv, NEW k \in Block, cleanup_snapshots(k)
    PROVE  Inv'
<1> USE DEF cleanup_snapshots, engineVars, history, bounds
<1>1. /\ \A b \in DOMAIN files' : b \in DOMAIN files /\ files'[b] = files[b]
      /\ DOMAIN files' = {c \in DOMAIN files : c >= k}
  OBVIOUS
<1>2. Latest \in DOMAIN files' /\ \A c \in DOMAIN files : c <= Latest
  BY <1>1, LatestProperties DEF Inv
<1>3. TypeOK'
  BY <1>1 DEF Inv, TypeOK
<1>4. Numbering'
  BY <1>1 DEF Inv, Numbering
<1>5. Progress' /\ BlockOrder'
  BY DEF Inv, Progress, BlockOrder
<1>6. Once'
  BY <1>1 DEF Inv, Once, Reading
<1>7. ClaimedIsLate'
  BY <1>1 DEF Inv, ClaimedIsLate
<1>8. Kept'
  <2>1. ASSUME NEW n \in truncated PROVE block[n] <= Latest
    <3>1. PICK c \in DOMAIN files : block[n] <= c
      BY DEF Inv, Kept
    <3> QED
      BY <1>1, <1>2, <3>1, TypeFacts DEF Inv
  <2> QED
    BY <1>1, <1>2, <2>1 DEF Inv, Kept, Owed
<1> QED
  BY <1>3, <1>4, <1>5, <1>6, <1>7, <1>8 DEF Inv

\* The operator removes entries the latest snapshot claims.
LEMMA TruncateLogStep ==
    ASSUME Inv, NEW k \in Call, TruncateLog(k)
    PROVE  Inv'
<1> USE DEF TruncateLog, engineVars, bounds
<1>1. wal' \subseteq wal /\ wal' \cup truncated' = wal \cup truncated /\ truncated' \subseteq wal \cup truncated
  BY TypeFacts DEF Inv
<1>2. \A n \in truncated' : n \in truncated \/ block[n] <= Latest
  OBVIOUS
<1>3. TypeOK'
  BY <1>1 DEF Inv, TypeOK
<1>4. Numbering'
  BY <1>1 DEF Inv, Numbering
<1>5. Progress' /\ BlockOrder'
  BY <1>1 DEF Inv, Progress, BlockOrder
<1>6. Once'
  BY DEF Inv, Once, Reading
<1>7. ClaimedIsLate'
  BY DEF Inv, ClaimedIsLate
<1>8. Kept'
  <2>1. \A n \in truncated' : \E c \in DOMAIN files : block[n] <= c
    BY <1>2, LatestProperties DEF Inv, Kept
  <2>2. Owed' = Owed
    BY <1>1 DEF Owed
  <2> QED
    BY <2>1, <2>2 DEF Inv, Kept
<1> QED
  BY <1>3, <1>4, <1>5, <1>6, <1>7, <1>8 DEF Inv

\* The process ends: a prefix of the log stays, memory is gone, and the files
\* are as they were or damaged.
LEMMA DownStep ==
    ASSUME Inv, NEW k \in 0..MaxCall, Down(k), DOMAIN files' = DOMAIN files,
           \A b \in DOMAIN files :
              \/ files'[b].data = EmptyStores /\ files'[b].state = "partial"
              \/ /\ files'[b].data = files[b].data /\ files'[b].state \in {"partial", "written", "durable"}
                 /\ files[b].state = "partial" => files'[b].state = "partial"
    PROVE  Inv'
<1> USE DEF Down, history
<1>0. EmptyStores \in Counts /\ \A st \in Store, n \in Call : EmptyStores[st][n] = 0
  BY EmptyStoresCounts
<1>a. wal' \subseteq wal /\ Owed' \subseteq Owed
  BY DEF Owed
<1>b. capture'.block = 0 /\ capture'.data = EmptyStores /\ ~Reading'
  BY CapturedFacts DEF Reading
<1>1. TypeOK'
  <2>1. capture' \in [block : Block, data : Counts] /\ 0 \in Block /\ 0 \in 0..(MaxBlock + 1)
    BY <1>0, RecoveryAssumption DEF Block
  <2>2. \A b \in DOMAIN files' : files'[b].data \in Counts /\ files'[b].state \in {"partial", "written", "durable"}
    BY <1>0 DEF Inv, TypeOK
  <2>3. stage' \in 0..(Len(Handler) + 1) /\ snap' \in 0..(Len(Captured) + 2)
    BY HandlerFacts, CapturedFacts
  <2>4. up' \in BOOLEAN /\ mem' \in Counts
    BY <1>0
  <2>6. wal' \subseteq Call /\ restarts' \in Nat
    BY <1>a DEF Inv, TypeOK
  <2> HIDE DEF Down
  <2>5. last_block' = 0 /\ tip' = 0 /\ UNCHANGED <<calls, block, acked, truncated, late, overlapped, snapshots, faults>>
    BY DEF Down
  <2> QED
    BY <2>1, <2>2, <2>3, <2>4, <2>5, <2>6 DEF Inv, TypeOK
<1>2. Numbering'
  BY <1>0, <1>a, <1>b DEF Inv, Numbering
<1>3. Progress'
  BY DEF Progress
<1>4. BlockOrder'
  BY <1>a DEF Inv, BlockOrder
<1>5. Once'
  <2>1. ASSUME NEW n \in Call \ overlapped, NEW st \in Store, NEW b \in DOMAIN files
        PROVE  files'[b].data[st][n] <= 1 /\ (files'[b].data[st][n] > 0 => block[n] <= b)
    BY <1>0 DEF Inv, Once
  <2> QED
    BY <1>0, <1>b, <2>1 DEF Once
<1>6. ClaimedIsLate'
  BY DEF Inv, ClaimedIsLate
<1>7. Kept'
  <2>1. ASSUME NEW n \in Owed, NEW st \in Persisted, NEW c \in DOMAIN files, files'[c].state # "partial", block[n] <= c
        PROVE  files'[c].data[st][n] >= 1
    BY <2>1 DEF Inv, Kept
  <2> QED
    BY <1>a, <2>1 DEF Inv, Kept
<1> QED
  BY <1>1, <1>2, <1>3, <1>4, <1>5, <1>6, <1>7 DEF Inv

LEMMA CrashStep ==
    ASSUME Inv, NEW k \in 0..MaxCall, Crash(k)
    PROVE  Inv'
<1>1. Down(k) /\ files' = files
  BY DEF Crash
<1>2. \A b \in DOMAIN files : files[b].state \in {"partial", "written", "durable"}
  BY DEF Inv, TypeOK
<1> QED
  BY <1>1, <1>2, DownStep

LEMMA PowerLossStep ==
    ASSUME Inv, NEW k \in 0..MaxCall, PowerLoss(k)
    PROVE  Inv'
<1>1. PICK damaged \in SUBSET {b \in DOMAIN files : files[b].state = "written"} :
         files' = [b \in DOMAIN files |->
                     CASE b \in damaged -> [data |-> EmptyStores, state |-> "partial"]
                       [] b \notin damaged /\ files[b].state = "written" -> [files[b] EXCEPT !.state = "durable"]
                       [] OTHER -> files[b]]
  BY DEF PowerLoss
<1>2. \A b \in DOMAIN files : files[b].state \in {"partial", "written", "durable"}
  BY DEF Inv, TypeOK
<1>3. ASSUME NEW b \in DOMAIN files
      PROVE  \/ files'[b] = [data |-> EmptyStores, state |-> "partial"]
             \/ files[b].state = "written" /\ files'[b] = [files[b] EXCEPT !.state = "durable"]
             \/ files'[b] = files[b]
  BY <1>1
<1>4. ASSUME NEW b \in DOMAIN files
      PROVE  \/ files'[b].data = EmptyStores /\ files'[b].state = "partial"
             \/ /\ files'[b].data = files[b].data /\ files'[b].state \in {"partial", "written", "durable"}
                /\ files[b].state = "partial" => files'[b].state = "partial"
  <2>1. CASE files'[b] = [data |-> EmptyStores, state |-> "partial"]
    BY <2>1
  <2>2. CASE files[b].state = "written" /\ files'[b] = [files[b] EXCEPT !.state = "durable"]
    BY <2>2
  <2>3. CASE files'[b] = files[b]
    BY <1>2, <2>3
  <2> QED
    BY <1>3, <2>1, <2>2, <2>3
<1>5. DOMAIN files' = DOMAIN files /\ Down(k)
  BY <1>1 DEF PowerLoss
<1> QED
  BY <1>4, <1>5, DownStep

\* The checkpoint after the replay is not below the snapshot, nor below any
\* entry that was replayed.
LEMMA ReplayBlock ==
    ASSUME Inv, open
    PROVE  /\ last_block' \in Block /\ snap_block \in Nat /\ snap_block <= last_block'
           /\ \A n \in wal : block[n] <= last_block'
           /\ DOMAIN files # {} => snap_block = Latest /\ Latest \in DOMAIN files
<1> USE DEF open
<1>0. /\ \A b \in DOMAIN files : b \in Nat /\ b \in Block
      /\ \A n \in wal : n \in Call /\ n \in Nat /\ block[n] \in Nat /\ block[n] \in Block
      /\ MaxCall \in Nat /\ 0 \in Block
  <2>1. \A b \in DOMAIN files : b \in Nat /\ b \in Block
    BY TypeFacts DEF Inv, TypeOK
  <2>2. \A n \in wal : n \in Call /\ n \in Nat /\ block[n] \in Nat /\ block[n] \in Block
    BY TypeFacts DEF Inv, TypeOK
  <2> QED
    BY <2>1, <2>2, RecoveryAssumption DEF Block
<1>1. DOMAIN files # {} => snap_block = Latest /\ Latest \in DOMAIN files
  BY LatestProperties DEF Inv, snap_block
<1>2. snap_block \in Nat /\ snap_block \in Block
  BY <1>0, <1>1 DEF snap_block
<1>3. CASE Replayed = {}
  <2>1. \A n \in wal : block[n] <= snap_block
    BY <1>3 DEF Replayed, Skipped
  <2> QED
    BY <1>1, <1>2, <1>3, <2>1
<1>4. CASE Replayed # {}
  <2> DEFINE last == CHOOSE n \in Replayed : \A m \in Replayed : m <= n
  <2>1. Replayed \in SUBSET (0..MaxCall)
    BY <1>0 DEF Replayed, Call
  <2>2. \E n \in Replayed : \A m \in Replayed : m <= n
    BY <1>0, <1>4, <2>1, Greatest
  <2>3. last \in Replayed /\ \A m \in Replayed : m <= last
    BY <2>2
  <2>4. last_block' = block[last]
    BY <1>4
  <2> HIDE DEF last
  <2>5. last \in wal /\ ~(block[last] <= snap_block)
    BY <2>3 DEF Replayed, Skipped
  <2>6. block[last] \in Nat /\ block[last] \in Block /\ snap_block <= block[last]
    BY <1>0, <1>2, <2>5
  <2>7. ASSUME NEW n \in wal PROVE block[n] <= block[last]
    <3>1. CASE n \in Replayed
      BY <2>3, <2>5, <3>1 DEF Inv, BlockOrder
    <3>2. CASE n \notin Replayed
      <4>1. block[n] <= snap_block
        BY <3>2 DEF Replayed, Skipped
      <4> QED
        BY <1>0, <1>2, <2>6, <4>1
    <3> QED
      BY <3>1, <3>2
  <2> QED
    BY <1>1, <1>2, <2>4, <2>6, <2>7
<1> QED
  BY <1>3, <1>4

\* open(): the snapshot and the replay together.
LEMMA OpenStep ==
    ASSUME Inv, open
    PROVE  Inv'
<1> USE DEF open, history, bounds
<1> DEFINE restored == IF DOMAIN files = {} THEN EmptyStores ELSE files[Latest].data
<1>0. /\ last_block' \in Block /\ snap_block \in Nat /\ snap_block <= last_block'
      /\ \A n \in wal : block[n] <= last_block'
      /\ DOMAIN files # {} => snap_block = Latest /\ Latest \in DOMAIN files
  BY ReplayBlock
<1>a. /\ EmptyStores \in Counts /\ \A st \in Store, n \in Call : EmptyStores[st][n] = 0
  BY EmptyStoresCounts
<1>b. restored \in Counts
  BY <1>0, <1>a, TypeFacts DEF Inv
<1>c. mem' = [st \in Store |-> [n \in Call |-> restored[st][n] + IF n \in Replayed THEN 1 ELSE 0]]
  OBVIOUS
<1>d. \A st \in Store, n \in Call :
         (restored[st][n] = 0 \/ (DOMAIN files # {} /\ restored[st][n] = files[Latest].data[st][n]))
  BY <1>a
<1>e. DOMAIN files # {} => files[Latest].state # "partial"
  OBVIOUS
<1>k. ~up /\ up' = TRUE /\ UNCHANGED <<wal, files, stage, snap, capture, calls, block, history, bounds>>
  OBVIOUS
<1>j. last_block' \in Nat /\ tip' = last_block' /\ tip' \in 0..(MaxBlock + 1) /\ \A n \in Call : block[n] \in Nat /\ n \in Nat
  BY <1>0, TypeFacts, RecoveryAssumption DEF Inv, Block
<1> HIDE DEF restored, open
<1>f. \A st \in Store, n \in Call : restored[st][n] \in Nat
  BY <1>b, CountsElements
<1>g. \A st \in Store, n \in Call : mem'[st][n] = restored[st][n] + IF n \in Replayed THEN 1 ELSE 0
  BY <1>c
<1>h. mem' \in Counts
  BY <1>c, <1>f DEF Counts
<1>i. stage = 0 /\ snap = 0
  BY <1>k DEF Inv, Progress
<1>1. TypeOK'
  BY <1>0, <1>h, <1>j, <1>k DEF Inv, TypeOK
<1>2. Numbering'
  <2>1. ASSUME NEW n \in Call, n > calls, NEW st \in Store PROVE mem'[st][n] = 0
    <3>1. n \notin Replayed
      BY <1>j, <2>1, TypeFacts DEF Inv, Numbering, Replayed
    <3>2. restored[st][n] = 0
      BY <1>0, <1>d, <2>1 DEF Inv, Numbering
    <3> QED
      BY <1>g, <3>1, <3>2
  <2> QED
    BY <1>k, <2>1 DEF Inv, Numbering
<1>3. Progress'
  BY <1>i, <1>k DEF Progress
<1>4. BlockOrder'
  BY <1>0, <1>j, <1>k DEF Inv, BlockOrder
<1>5. Once'
  <2>1. ~Reading'
    BY <1>i, <1>k, CapturedFacts DEF Reading
  <2>2. ASSUME NEW n \in Call \ overlapped, NEW st \in Store
        PROVE  mem'[st][n] <= 1 /\ (mem'[st][n] > 0 => block[n] <= last_block')
    <3>1. restored[st][n] <= 1 /\ (restored[st][n] > 0 => block[n] <= snap_block)
      BY <1>0, <1>d DEF Inv, Once
    <3>2. n \in Replayed => n \in wal /\ ~(block[n] <= snap_block)
      BY DEF Replayed, Skipped
    <3>3. restored[st][n] \in Nat /\ block[n] \in Nat
      BY <1>f, <1>j
    <3>4. CASE n \in Replayed
      <4>1. restored[st][n] = 0
        BY <3>1, <3>2, <3>3, <3>4
      <4>2. mem'[st][n] = 1
        BY <1>g, <3>4, <4>1
      <4> QED
        BY <1>0, <3>2, <3>4, <4>2
    <3>5. CASE n \notin Replayed
      <4>1. mem'[st][n] = restored[st][n]
        BY <1>g, <3>3, <3>5
      <4> QED
        BY <1>0, <1>j, <3>1, <3>3, <4>1
    <3> QED
      BY <3>4, <3>5
  <2> QED
    BY <1>k, <2>1, <2>2 DEF Inv, Once
<1>6. ClaimedIsLate'
  BY <1>i, <1>k DEF Inv, ClaimedIsLate
<1>7. Kept'
  <2>1. ASSUME NEW n \in Owed, NEW st \in Persisted PROVE mem'[st][n] >= 1
    <3>1. n \in Call /\ st \in Store /\ n \in acked /\ n \notin late /\ (n \in wal \/ n \in truncated) /\ block[n] # 0
      BY TypeFacts, CapturedFacts DEF Inv, Owed, ClaimedIsLate
    <3>2. restored[st][n] \in Nat /\ mem'[st][n] = restored[st][n] + IF n \in Replayed THEN 1 ELSE 0
      BY <1>f, <1>g, <3>1
    <3>3. CASE n \in Replayed
      BY <3>2, <3>3
    <3>4. CASE n \notin Replayed
      <4>1. DOMAIN files # {} /\ block[n] <= Latest
        <5>1. CASE n \in truncated
          <6>1. PICK c \in DOMAIN files : block[n] <= c
            BY <5>1 DEF Inv, Kept
          <6> QED
            BY <1>0, <3>1, <6>1, LatestProperties, TypeFacts DEF Inv
        <5>2. CASE n \in wal
          <6>1. block[n] <= snap_block
            BY <3>4, <5>2 DEF Replayed, Skipped
          <6>2. DOMAIN files # {}
            <7>1. block[n] \in Nat /\ block[n] # 0
              BY <1>j, <3>1
            <7>2. DOMAIN files = {} => snap_block = 0
              BY Zenon DEF snap_block
            <7>3. snap_block # 0
              BY <6>1, <7>1
            <7> QED
              BY <7>2, <7>3
          <6> QED
            BY <1>0, <6>1, <6>2
        <5> QED
          BY <3>1, <5>1, <5>2
      <4>2. files[Latest].data[st][n] >= 1 /\ restored[st][n] = files[Latest].data[st][n]
        BY <1>0, <1>e, <4>1 DEF Inv, Kept, restored
      <4> QED
        BY <3>2, <3>4, <4>2
    <3> QED
      BY <3>3, <3>4
  <2> QED
    BY <1>i, <1>k, <2>1 DEF Inv, Kept, Owed
<1> QED
  BY <1>1, <1>2, <1>3, <1>4, <1>5, <1>6, <1>7 DEF Inv

-----------------------------------------------------------------------------
(* The theorems.                                                           *)

LEMMA InvInit == Init => Inv
<1> SUFFICES ASSUME Init PROVE Inv
  OBVIOUS
<1> USE DEF Init
<1>0. EmptyStores \in Counts /\ \A st \in Store, n \in Call : EmptyStores[st][n] = 0
  BY EmptyStoresCounts
<1>a. DOMAIN files = {} /\ capture.block = 0 /\ capture.data = EmptyStores
  OBVIOUS
<1>1. TypeOK
  <2>1. capture \in [block : Block, data : Counts] /\ 0 \in Block /\ 0 \in 0..(MaxBlock + 1) /\ 0 \in 0..MaxCall
    BY <1>0, RecoveryAssumption DEF Block
  <2>2. stage \in 0..(Len(Handler) + 1) /\ snap \in 0..(Len(Captured) + 2)
    BY HandlerFacts, CapturedFacts
  <2>3. block \in [Call -> Block]
    BY <2>1
  <2> QED
    BY <1>0, <1>a, <2>1, <2>2, <2>3 DEF TypeOK
<1>2. Numbering /\ Progress /\ BlockOrder /\ ClaimedIsLate
  BY <1>0, <1>a DEF Numbering, Progress, BlockOrder, ClaimedIsLate
<1>3. Once
  BY <1>0, <1>a, CapturedFacts DEF Once, Reading
<1>4. Kept
  BY DEF Kept, Owed
<1> QED
  BY <1>1, <1>2, <1>3, <1>4 DEF Inv

LEMMA InvNext == Inv /\ [Next]_vars => Inv'
<1> SUFFICES ASSUME Inv, [Next]_vars PROVE Inv'
  OBVIOUS
<1>1. CASE open
  BY <1>1, OpenStep
<1>2. ASSUME NEW b \in Block, LogEvent(b) PROVE Inv'
  BY <1>2, LogEventStep
<1>3. ASSUME NEW b \in Block, LogEventFails(b) PROVE Inv'
  BY <1>3, LogEventFailsStep
<1>4. CASE Apply
  BY <1>4, ApplyStep
<1>5. CASE AdvanceBlock
  BY <1>5, AdvanceBlockStep
<1>6. ASSUME NEW b \in Block, save_checkpoint(b) PROVE Inv'
  BY <1>6, SaveCheckpointStep
<1>7. CASE ReadCheckpoint
  BY <1>7, ReadCheckpointStep
<1>8. CASE ReadStore
  BY <1>8, ReadStoreStep
<1>9. CASE CreateFile
  BY <1>9, CreateFileStep
<1>10. CASE FillFile
  BY <1>10, FillFileStep
<1>11. CASE FillFileFails
  BY <1>11, FillFileFailsStep
<1>12. ASSUME NEW b \in Block, cleanup_snapshots(b) PROVE Inv'
  BY <1>12, CleanupStep
<1>13. ASSUME NEW k \in Call, TruncateLog(k) PROVE Inv'
  BY <1>13, TruncateLogStep
<1>14. ASSUME NEW k \in 0..MaxCall, Crash(k) PROVE Inv'
  BY <1>14, CrashStep
<1>15. ASSUME NEW k \in 0..MaxCall, PowerLoss(k) PROVE Inv'
  BY <1>15, PowerLossStep
<1>16. CASE UNCHANGED vars
  BY <1>16 DEF vars, engineVars, history, bounds, Inv, TypeOK, Numbering, Progress, BlockOrder,
               Once, ClaimedIsLate, Kept, Owed, Reading
<1> QED
  BY <1>1, <1>2, <1>3, <1>4, <1>5, <1>6, <1>7, <1>8, <1>9, <1>10, <1>11, <1>12, <1>13,
     <1>14, <1>15, <1>16 DEF Next

\* The inductive invariant holds of every reachable state.
THEOREM Invariance == Spec => []Inv
BY InvInit, InvNext, PTL DEF Spec

\* The stores, the snapshots and the two threads keep their types.
THEOREM TypeCorrect == Spec => []TypeOK
<1>1. Inv => TypeOK
  BY DEF Inv
<1> QED
  BY <1>1, Invariance, PTL

\* open() loses no acknowledged event that the log has, or that was removed
\* from it on the word of a snapshot, unless its block was claimed before it
\* was through.
THEOREM RecoveryLosesNothing == Spec => []NoLoss
<1>1. Inv => NoLoss
  BY DEF Inv, Kept, Owed, NoLoss
<1> QED
  BY <1>1, Invariance, PTL

\* open() and process_event() apply no event twice, unless snapshot() read the
\* stores while process_event() ran.
THEOREM RecoveryAppliesOnce == Spec => []NoDouble
<1>1. Inv => NoDouble
  BY DEF Inv, Once, NoDouble
<1> QED
  BY <1>1, Invariance, PTL

=============================================================================
