------------------------------ MODULE Journal ------------------------------
(***************************************************************************)
(* What a tick or candle file promises to its caller, without mapping,     *)
(* growth, header or pages: a sequence of records that only grows at its   *)
(* end, whose last record alone may be written again, and of which a       *)
(* flushed prefix outlives every crash and every loss of power.  Module    *)
(* Mmap is shown to implement it.                                          *)
(***************************************************************************)
EXTENDS Naturals, Sequences

CONSTANT Record  \* the records a caller may write

VARIABLES
    records,  \* the records of the file
    safe,     \* the prefix that is on disk for good
    open,     \* a process has the file open
    intact    \* no loss of power has taken back the size of the file

vars == <<records, safe, open, intact>>

Prefix(s, n) == SubSeq(s, 1, n)
Less(m, n) == IF m < n THEN m ELSE n

Init ==
    /\ records = <<>> /\ safe = <<>>
    /\ open = FALSE
    /\ intact = TRUE

Open ==
    /\ ~open /\ open' = TRUE
    /\ UNCHANGED <<records, safe, intact>>

Add(r) ==
    /\ open
    /\ records' = Append(records, r)
    /\ UNCHANGED <<safe, open, intact>>

Overwrite(r) ==
    /\ open /\ records # <<>>
    /\ records' = [records EXCEPT ![Len(records)] = r]
    /\ safe' = Prefix(safe, Less(Len(safe), Len(records) - 1))
    /\ UNCHANGED <<open, intact>>

\* All of the file, when its size is what it was.
Flush ==
    /\ open
    /\ \E n \in 0..Len(records) : safe' = Prefix(records, n) /\ (intact => n = Len(records))
    /\ UNCHANGED <<records, open, intact>>

\* The process ends, possibly inside an overwrite: then the last record keeps
\* its place and its timestamp and nothing else.
Exit ==
    /\ open /\ open' = FALSE
    /\ \/ UNCHANGED <<records, safe>>
       \/ LET n == Len(records) IN
          /\ n > 0 /\ Len(records') = n
          /\ Prefix(records', n - 1) = Prefix(records, n - 1)
          /\ records'[n].ts = records[n].ts
          /\ safe' = Prefix(safe, Less(Len(safe), n - 1))
    /\ UNCHANGED intact

\* Power is lost.
Lose ==
    /\ open /\ open' = FALSE
    /\ Len(safe) <= Len(records') /\ Prefix(records', Len(safe)) = safe
    /\ intact' => intact
    /\ UNCHANGED safe

Next ==
    \/ Open
    \/ \E r \in Record : Add(r) \/ Overwrite(r)
    \/ Flush
    \/ Exit
    \/ Lose

Spec == Init /\ [][Next]_vars

=============================================================================
