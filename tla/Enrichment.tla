------------------------------ MODULE Enrichment ------------------------------
(***************************************************************************)
(* ml/refresh.py: a worker that runs three stages over the graph, at its   *)
(* start and every ten minutes.  ml/embeddings.py and ml/communities.py    *)
(* write a property of the nodes from a projection that they make and drop *)
(* by its name; ml/link_prediction.py deletes the predictions of earlier   *)
(* runs, scores the pairs without an edge and stores its own.              *)
(*                                                                         *)
(* A second worker is "make ml-refresh", which runs the stages once beside *)
(* the service.  Every call of the database may fail and a worker may die. *)
(***************************************************************************)
EXTENDS Naturals, FiniteSets, FiniteSetsExt

CONSTANTS
  Workers,        \* refresh processes
  Kinds,          \* the labels scored: broker to property, broker to tenant
  Pairs,          \* pairs of nodes of each kind
  HasProcedures,  \* does GDS list procedures of link prediction?
  TopK,           \* DEFAULT_TOP_K
  MaxRuns,        \* bound: runs that get as far as their links
  MaxUpsets,      \* bound: failed calls and deaths
  MaxLinkings     \* bound: edges that come into being

ASSUME EnrichmentConstants ==
  /\ DOMAIN Pairs = Kinds
  /\ HasProcedures \in BOOLEAN
  /\ TopK \in Nat \ {0}
  /\ MaxRuns \in Nat /\ MaxUpsets \in Nat /\ MaxLinkings \in Nat

VARIABLES
  projections,  \* names in the graph catalogue
  at,           \* stage and step of each worker
  computedAt,   \* the stamp of its link prediction, 0 outside one
  toScore,      \* kinds it has not scored yet
  scored,       \* all_predictions
  predictions,  \* PredictedLink nodes: the stamp of each pair, 0 without one
  lastRun,      \* last_run_at, as the last stamp before it
  linked,       \* pairs that have an edge
  stamps,       \* link predictions begun
  beside,       \* history: runs that were going when a run pruned, by its stamp
  upsets, linkings

enrichmentVars ==
  <<projections, at, computedAt, toScore, scored, predictions, lastRun, linked, stamps, beside,
    upsets, linkings>>

AllPairs == UNION {Pairs[k] : k \in Kinds}
Idle == <<"idle", "idle">>

\* The two stages that write a property come first.
StageAfter == [embeddings |-> <<"communities", "drop">>, communities |-> <<"links", "detect">>]

EnrichmentInit ==
  /\ projections = {}
  /\ at = [w \in Workers |-> Idle]
  /\ computedAt = [w \in Workers |-> 0]
  /\ toScore = [w \in Workers |-> {}]
  /\ scored = [w \in Workers |-> {}]
  /\ predictions = [p \in AllPairs |-> 0]
  /\ lastRun = 0
  /\ linked = {}
  /\ stamps = 0
  /\ beside = [r \in {} |-> {}]
  /\ upsets = 0 /\ linkings = 0

Goto(w, place) == at' = [at EXCEPT ![w] = place]

\* run_ml_pipeline begins, at the start of a worker or by the clock.
BeginRun(w) ==
  /\ at[w] = Idle
  /\ stamps + Cardinality({v \in Workers : at[v] # Idle /\ computedAt[v] = 0}) < MaxRuns
  /\ Goto(w, <<"embeddings", "drop">>)
  /\ UNCHANGED <<projections, computedAt, toScore, scored, predictions, lastRun, linked, stamps,
                 beside, upsets, linkings>>

\* Between two runs the scheduler waits for its clock.
Wait(w) == at[w] = Idle /\ UNCHANGED enrichmentVars

\* A run that ended, well or with an error, has nothing left but what it stored.
EndRun(w) ==
  /\ Goto(w, Idle)
  /\ computedAt' = [computedAt EXCEPT ![w] = 0]
  /\ toScore' = [toScore EXCEPT ![w] = {}]
  /\ scored' = [scored EXCEPT ![w] = {}]

\* _drop_projection_if_exists: a drop that fails is passed over in silence.
Drop(w) ==
  \/ projections' = projections \ {at[w][1]} /\ UNCHANGED upsets
  \/ upsets < MaxUpsets /\ upsets' = upsets + 1 /\ UNCHANGED projections

DropProjection(w) ==
  /\ at[w][2] = "drop"
  /\ Drop(w)
  /\ Goto(w, <<at[w][1], "project">>)
  /\ UNCHANGED <<computedAt, toScore, scored, predictions, lastRun, linked, stamps, beside, linkings>>

\* gds.graph.project: a name that is taken is an error.
Project(w) ==
  /\ at[w][2] = "project"
  /\ at[w][1] \notin projections
  /\ projections' = projections \cup {at[w][1]}
  /\ Goto(w, <<at[w][1], IF at[w][1] = "links" THEN "score" ELSE "write">>)
  /\ UNCHANGED <<computedAt, toScore, scored, predictions, lastRun, linked, stamps, beside, upsets, linkings>>

\* The write of the property reads the projection of that name, whosever it is.
WriteProperty(w) ==
  /\ at[w][2] = "write"
  /\ at[w][1] \in projections
  /\ Goto(w, <<at[w][1], "clean">>)
  /\ UNCHANGED <<projections, computedAt, toScore, scored, predictions, lastRun, linked, stamps,
                 beside, upsets, linkings>>

\* Afterwards the projection is dropped, to free it.
DropAgain(w) ==
  /\ at[w][2] = "clean"
  /\ Drop(w)
  /\ Goto(w, IF at[w][1] = "links" THEN <<"links", "persist">> ELSE StageAfter[at[w][1]])
  /\ UNCHANGED <<computedAt, toScore, scored, predictions, lastRun, linked, stamps, beside, linkings>>

-----------------------------------------------------------------------------
\* run_link_prediction takes its stamp, and looks for a procedure; a list that
\* cannot be read means the fallback.
Detect(w) ==
  /\ at[w] = <<"links", "detect">>
  /\ stamps' = stamps + 1
  /\ computedAt' = [computedAt EXCEPT ![w] = stamps + 1]
  /\ toScore' = [toScore EXCEPT ![w] = Kinds]
  /\ \/ /\ Goto(w, <<"links", IF HasProcedures THEN "prune, drop" ELSE "prune, score">>)
        /\ UNCHANGED upsets
     \/ /\ HasProcedures /\ upsets < MaxUpsets
        /\ upsets' = upsets + 1
        /\ Goto(w, <<"links", "prune, score">>)
  /\ UNCHANGED <<projections, scored, predictions, lastRun, linked, beside, linkings>>

\* Mutant: stale is what was there before the last run that was recorded.
StaleSinceLastRun(w, p) == predictions[p] < lastRun

\* computed_at < $current_run_at
Stale(w, p) == predictions[p] < computedAt[w]

\* _prune_stale_predictions; to count first and delete only then changes nothing.
Prune(w) ==
  /\ at[w][2] \in {"prune, drop", "prune, score"}
  /\ predictions' = [p \in AllPairs |-> IF Stale(w, p) THEN 0 ELSE predictions[p]]
  /\ beside' = [r \in DOMAIN beside \cup {computedAt[w]} |->
                  IF r = computedAt[w] THEN {computedAt[v] : v \in Workers} ELSE beside[r]]
  /\ Goto(w, <<"links", IF at[w][2] = "prune, drop" THEN "drop" ELSE "score alone">>)
  /\ UNCHANGED <<projections, computedAt, toScore, scored, lastRun, linked, stamps, upsets, linkings>>

\* Without a projection of its own the procedure's path is given up.
FallBack(w) ==
  /\ at[w] = <<"links", "project">>
  /\ \/ "links" \in projections /\ UNCHANGED upsets
     \/ upsets < MaxUpsets /\ upsets' = upsets + 1
  /\ Goto(w, <<"links", "score alone">>)
  /\ UNCHANGED <<projections, computedAt, toScore, scored, predictions, lastRun, linked, stamps,
                 beside, linkings>>

\* The best pairs of a kind that have no edge and some neighbour in common.
Score(w, k) ==
  /\ at[w] \in {<<"links", "score">>, <<"links", "score alone">>}
  /\ k \in toScore[w]
  /\ at[w][2] = "score" => "links" \in projections
  /\ \E best \in SUBSET (Pairs[k] \ linked) :
       /\ Cardinality(best) <= TopK
       /\ scored' = [scored EXCEPT ![w] = @ \cup best]
  /\ toScore' = [toScore EXCEPT ![w] = @ \ {k}]
  /\ UNCHANGED <<projections, at, computedAt, predictions, lastRun, linked, stamps, beside, upsets, linkings>>

\* A score that fails is a warning, and no pair.
ScoreNothing(w, k) ==
  /\ at[w] \in {<<"links", "score">>, <<"links", "score alone">>}
  /\ k \in toScore[w]
  /\ \/ at[w][2] = "score" /\ "links" \notin projections /\ UNCHANGED upsets
     \/ upsets < MaxUpsets /\ upsets' = upsets + 1
  /\ toScore' = [toScore EXCEPT ![w] = @ \ {k}]
  /\ UNCHANGED <<projections, at, computedAt, scored, predictions, lastRun, linked, stamps, beside, linkings>>

Scored(w) ==
  /\ at[w] \in {<<"links", "score">>, <<"links", "score alone">>}
  /\ toScore[w] = {}
  /\ Goto(w, <<"links", IF at[w][2] = "score" THEN "clean" ELSE "persist">>)
  /\ UNCHANGED <<projections, computedAt, toScore, scored, predictions, lastRun, linked, stamps,
                 beside, upsets, linkings>>

\* _persist_predictions merges by the pair.
Persist(w) ==
  /\ at[w] = <<"links", "persist">>
  /\ predictions' = [p \in AllPairs |-> IF p \in scored[w] THEN computedAt[w] ELSE predictions[p]]
  /\ Goto(w, <<"links", "record">>)
  /\ UNCHANGED <<projections, computedAt, toScore, scored, lastRun, linked, stamps, beside, upsets, linkings>>

\* _update_last_run_time writes the time it is then.
RecordRun(w) ==
  /\ at[w] = <<"links", "record">>
  /\ lastRun' = stamps
  /\ EndRun(w)
  /\ UNCHANGED <<projections, predictions, linked, stamps, beside, upsets, linkings>>

-----------------------------------------------------------------------------
\* A call that cannot succeed, because the other worker has made or dropped the
\* projection of that name, ends the run; so does one that fails by chance.
RunFails(w) ==
  /\ at[w] # Idle
  /\ \/ /\ \/ at[w][2] = "project" /\ at[w][1] # "links" /\ at[w][1] \in projections
           \/ at[w][2] = "write" /\ at[w][1] \notin projections
        /\ UNCHANGED upsets
     \/ /\ upsets < MaxUpsets
        /\ upsets' = upsets + 1
  /\ EndRun(w)
  /\ UNCHANGED <<projections, predictions, lastRun, linked, stamps, beside, linkings>>

\* The backfill makes an edge.
LinkPair ==
  /\ linkings < MaxLinkings
  /\ linkings' = linkings + 1
  /\ \E p \in AllPairs \ linked : linked' = linked \cup {p}
  /\ UNCHANGED <<projections, at, computedAt, toScore, scored, predictions, lastRun, stamps, beside, upsets>>

EnrichmentNext ==
  \/ \E w \in Workers :
       \/ BeginRun(w) \/ Wait(w) \/ DropProjection(w) \/ Project(w) \/ WriteProperty(w) \/ DropAgain(w)
       \/ Detect(w) \/ Prune(w) \/ FallBack(w) \/ Scored(w) \/ Persist(w) \/ RecordRun(w)
       \/ RunFails(w)
       \/ \E k \in Kinds : Score(w, k) \/ ScoreNothing(w, k)
  \/ LinkPair

EnrichmentSpec == EnrichmentInit /\ [][EnrichmentNext]_enrichmentVars

-----------------------------------------------------------------------------
\* What a run has pruned stays away: a prediction older than that run is of one
\* that was still going when it pruned, however runs fail, die or meet ("Delete
\* PredictedLink nodes from previous runs").
StaleOnlyIfConcurrent ==
  \A p \in AllPairs, r \in DOMAIN beside :
     predictions[p] # 0 /\ predictions[p] < r => predictions[p] \in beside[r]
===============================================================================
