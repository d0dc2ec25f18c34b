------------------------------ MODULE MCStores ------------------------------
(* Model checking of the stores that queries read: the tables in memory of  *)
(* Tables and the tick and candle files of Mmap.  The two share no state; a *)
(* run says which of them move in one behaviour.                            *)
EXTENDS Tables, Mmap

CONSTANT Together  \* the sets of modules that move in one behaviour

VARIABLE moving  \* the modules that move in this one

allVars == <<moving, vars, mmapVars>>

\* A module that does not move has one initial state.
MCInit ==
    /\ moving \in Together
    /\ Init /\ MmapInit
    /\ "Tables" \in moving \/ table = CHOOSE kind \in Kinds : TRUE

MCNext ==
    /\ UNCHANGED moving
    /\ \/ "Tables" \in moving /\ Next /\ UNCHANGED mmapVars
       \/ "Mmap" \in moving /\ MmapNext /\ UNCHANGED vars

\* A table at rest asks for nothing, so its fairness is that of Tables throughout.
MCSpec == MCInit /\ [][MCNext]_allVars /\ Fairness

OneByOne == {{"Tables"}, {"Mmap"}}
Both == {{"Tables", "Mmap"}}

\* Two writers, one reader, and three rows of two users in two markets, so
\* that rows share a user, a market, or neither.  A new file has room for one
\* record, so that the second and the third write grow it.
MCOwner == [id \in Id |-> IF id = "r3" THEN "u2" ELSE "u1"]
MCLevel == [id \in Id |-> IF id = "r2" THEN "m2" ELSE "m1"]

-----------------------------------------------------------------------------

\* What the comments say of a row and of a range: the indexes of a table catch
\* up with its rows; find_candle_at() finds the candle whose bucket has the
\* timestamp; and every range has a slice.  A state that refutes the
\* disjunction refutes each of the three.
StoresKeepWord == IndexesCatchUp \/ CandleAtContains \/ EveryRangeHasSlice

=============================================================================
