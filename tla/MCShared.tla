------------------------------ MODULE MCShared ------------------------------
(* Model checking of what request handlers share with the feed and the      *)
(* indexer: market slot, checkpoint and price channel of Ingest, and the    *)
(* users, alerts, keys and competitions of Relational.  The two share no    *)
(* state; a run says which of them move in one behaviour.                   *)
EXTENDS Ingest, Relational

CONSTANT Together  \* the sets of modules that move in one behaviour

VARIABLE moving  \* the modules that move in this one

allVars == <<moving, ingestVars, vars>>

\* A module that does not move has one initial state.
MCInit ==
    /\ moving \in Together
    /\ IngestInit /\ Init
    /\ "Ingest" \in moving \/ callers = CHOOSE d \in Deployments : TRUE
    /\ "Relational" \in moving \/ store = CHOOSE s \in Stores : TRUE

MCNext ==
    /\ UNCHANGED moving
    /\ \/ "Ingest" \in moving /\ IngestNext /\ UNCHANGED vars
       \/ "Relational" \in moving /\ Next /\ UNCHANGED ingestVars

\* A module at rest asks for nothing, so the fairness is that of both throughout.
MCSpec == MCInit /\ [][MCNext]_allVars /\ IngestFairness /\ Fairness

Both == {{"Ingest", "Relational"}}

-----------------------------------------------------------------------------
(* Ingest: a channel with room for one message, so that a receiver can fall *)
(* behind, and the callers that share state side by side.                   *)

MCDeployments ==
    {{"feed", "receiver"}, {"feed", "snapshot"}, {"indexer", "snapshot"}, {"market", "snapshot"}}

-----------------------------------------------------------------------------
(* Relational: two callers, two users, codes and ids, and a table of tiers  *)
(* where the upper one asks for a referral and a volume.                    *)

MCTiers == {<<Tier(0, 0), Tier(1, 1)>>, <<Tier(1, 0), Tier(1, 1), Tier(2, 1)>>}

MCMaxCall == [s \in Stores |-> IF s \in {"AlertStore", "CompetitionStore"} THEN 4 ELSE 3]

-----------------------------------------------------------------------------

\* What the comments say of the checkpoint and of the user store: save()
\* updates it atomically; upsert() keeps the index of codes; and the store
\* takes concurrent writes without external synchronization.  A state that
\* refutes the disjunction refutes each of the three.
SharedKeepsWord == SaveIsAtomic \/ UpsertUpdatesIndex \/ CodesFindRows

=============================================================================
