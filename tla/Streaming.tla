----------------------------- MODULE Streaming -----------------------------
(***************************************************************************)
(* ingester/streaming.py: the process that copies market insights from     *)
(* Snowflake into the graph of Neo4j.  On its start it backfills from the  *)
(* source table what the graph does not have; then it polls the delta      *)
(* table, which a task of the warehouse (sql/streams/insights_stream.sql)  *)
(* fills from a stream on the source table.                                *)
(*                                                                         *)
(* Each statement is a transaction of its own, in Neo4j as in Snowflake,   *)
(* and may fail; the process may die between two of them, and is started   *)
(* again.  Insights have distinct ids.                                     *)
(***************************************************************************)
EXTENDS Naturals, FiniteSets

CONSTANTS
  Insights,  \* rows of CRE_MARKET_INSIGHTS that may come to exist
  Seeded,    \* those inserted before the stream was created
  Topics,    \* markets, submarkets, asset classes, tenants and properties
  Properties,  \* the properties among them, whose nodes another backfill makes
  About,     \* the topics that the columns and tags of an insight name
  Limit,     \* LIMIT of FETCH_UNPROCESSED_SQL
  MaxFaults  \* bound: failed statements and crashes

ASSUME StreamingConstants ==
  /\ IsFiniteSet(Insights)
  /\ Seeded \subseteq Insights
  /\ Properties \subseteq Topics
  /\ About \in [Insights -> SUBSET Topics]
  /\ Limit \in Nat \ {0}
  /\ MaxFaults \in Nat

VARIABLES
  source,     \* rows of CRE_MARKET_INSIGHTS
  stream,     \* rows in CRE_INSIGHTS_STREAM
  created,    \* DELTA_CREATED_AT of the row of an insight, 0 without one
  processed,  \* insights whose row in the delta table has PROCESSED = TRUE
  markers,    \* insights for which the backfill inserted a row that has it
  nodes,      \* Insight nodes
  known,      \* properties that have a node
  edges,      \* topics that a node has an ABOUT edge to
  pc,         \* "down", or in "backfill", asleep in "poll", or in a "batch"
  todo,       \* rows that the backfill or the batch still has to visit
  cur,        \* the row being upserted
  left,       \* topics that its upsert still has to wire
  landed,     \* backfilled_ids
  faults      \* history: faults so far

warehouse == <<source, stream, created, processed, markers>>
graph == <<nodes, edges>>
process == <<pc, todo, cur, left, landed>>
vars == <<warehouse, graph, known, process, faults>>

-----------------------------------------------------------------------------
NoInsight == "no insight"

Init ==
  /\ source = Seeded
  /\ stream = {}
  /\ created = [i \in Insights |-> 0]
  /\ processed = {}
  /\ markers = {}
  /\ nodes = {}
  /\ known = {}
  /\ edges = [i \in Insights |-> {}]
  /\ pc = "down"
  /\ todo = {}
  /\ cur = NoInsight
  /\ left = {}
  /\ landed = {}
  /\ faults = 0

-----------------------------------------------------------------------------
\* The warehouse.

Publish(i) ==
  /\ i \notin source
  /\ source' = source \cup {i}
  /\ stream' = stream \cup {i}
  /\ UNCHANGED <<created, processed, markers, graph, process, faults, known>>

\* CRE_INSIGHTS_TASK moves what is in the stream into the delta table.
Materialize ==
  /\ stream # {}
  /\ LET time == 1 + Cardinality({i \in Insights : created[i] > 0})
     IN created' = [i \in Insights |-> IF i \in stream THEN time ELSE created[i]]
  /\ stream' = {}
  /\ UNCHANGED <<source, processed, markers, graph, process, faults, known>>

-----------------------------------------------------------------------------
\* The backfill of the properties (ingester/graph_writer.py) makes a node.
AddProperty(t) ==
  /\ t \in Properties \ known
  /\ known' = known \cup {t}
  /\ UNCHANGED <<warehouse, graph, process, faults>>

-----------------------------------------------------------------------------
\* main: the backfill reads the source table and the ids of the nodes, and takes
\* on the rows that have no node.
Start ==
  /\ pc = "down"
  /\ pc' = "backfill"
  /\ todo' = source \ nodes
  /\ UNCHANGED <<warehouse, graph, cur, left, landed, faults, known>>

\* Mutant: the poll, like the backfill, passes over rows that have a node.
FreshWithoutNode == {i \in Insights : created[i] > 0 /\ i \notin processed \cup nodes}

\* Rows of the delta table that wait.
Fresh == {i \in Insights : created[i] > 0 /\ i \notin processed}

\* fetch_unprocessed: the oldest rows, as many as the limit allows.
Fetch ==
  /\ pc = "poll"
  /\ Fresh # {}
  /\ pc' = "batch"
  /\ \E some \in SUBSET Fresh :
       /\ Cardinality(some) = IF Cardinality(Fresh) < Limit THEN Cardinality(Fresh)
                              ELSE Limit
       /\ \A i \in some, j \in Fresh \ some : created[i] <= created[j]
       /\ todo' = some
  /\ UNCHANGED <<warehouse, graph, cur, left, landed, faults, known>>

\* A poll that finds nothing, or cannot read the delta table.
FetchNothing ==
  /\ pc = "poll"
  /\ UNCHANGED vars

\* Mutant: the edges of the node are deleted to be made anew.
UpsertAfresh(i) ==
  /\ pc \in {"backfill", "batch"}
  /\ cur = NoInsight
  /\ i \in todo
  /\ pc = "batch" => \A j \in todo : created[i] <= created[j]
  /\ nodes' = nodes \cup {i}
  /\ edges' = [edges EXCEPT ![i] = {}]
  /\ cur' = i
  /\ left' = About[i]
  /\ UNCHANGED <<warehouse, pc, todo, landed, faults, known>>

\* upsert_insight merges the node first ...
Upsert(i) ==
  /\ pc \in {"backfill", "batch"}
  /\ cur = NoInsight
  /\ i \in todo
  /\ pc = "batch" => \A j \in todo : created[i] <= created[j]
  /\ nodes' = nodes \cup {i}
  /\ cur' = i
  /\ left' = About[i]
  /\ UNCHANGED <<warehouse, edges, pc, todo, landed, faults, known>>

\* ... then each of its edges, with the node at its end: but a property is only
\* matched, and one that has no node gets no edge.
Wire(t) ==
  /\ cur # NoInsight
  /\ t \in left
  /\ edges' = [edges EXCEPT ![cur] = @ \cup ({t} \ (Properties \ known))]
  /\ left' = left \ {t}
  /\ UNCHANGED <<warehouse, nodes, pc, todo, cur, landed, faults, known>>

\* The row leaves the loop.
Leave ==
  /\ todo' = todo \ {cur}
  /\ cur' = NoInsight
  /\ left' = {}

Landed ==
  /\ pc = "backfill"
  /\ cur # NoInsight
  /\ left = {}
  /\ Leave
  /\ landed' = landed \cup {cur}
  /\ UNCHANGED <<warehouse, graph, pc, faults, known>>

\* Mutant: the row is marked while its edges are still being wired.
MarkEarly ==
  /\ pc = "batch"
  /\ cur # NoInsight
  /\ processed' = processed \cup {cur}
  /\ IF left = {} THEN Leave ELSE UNCHANGED <<todo, cur, left>>
  /\ UNCHANGED <<source, stream, created, markers, graph, pc, landed, faults, known>>

\* mark_processed, once the insight is in the graph.
MarkProcessed ==
  /\ pc = "batch"
  /\ cur # NoInsight
  /\ left = {}
  /\ Leave
  /\ processed' = processed \cup {cur}
  /\ UNCHANGED <<source, stream, created, markers, graph, pc, landed, faults, known>>

\* A statement fails, of the upsert or the mark: the loop logs it and goes on
\* with the next row.  (When the embedding fails, the node is not there yet.)
Fail ==
  /\ faults < MaxFaults
  /\ faults' = faults + 1
  /\ \/ /\ cur # NoInsight
        /\ Leave
     \/ /\ pc \in {"backfill", "batch"}
        /\ cur = NoInsight
        /\ \E i \in todo :
             /\ pc = "batch" => \A j \in todo : created[i] <= created[j]
             /\ todo' = todo \ {i}
        /\ UNCHANGED <<cur, left>>
  /\ UNCHANGED <<warehouse, graph, pc, landed, known>>

\* bulk_mark_backfilled inserts rows of its own, and leaves alone those that the
\* task has put, or will put, into the delta table for the same insights.
BackfillDone ==
  /\ pc = "backfill"
  /\ cur = NoInsight
  /\ todo = {}
  /\ pc' = "poll"
  /\ markers' = markers \cup landed
  /\ landed' = {}
  /\ UNCHANGED <<source, stream, created, processed, graph, todo, cur, left, faults, known>>

\* A failure of bulk_mark_backfilled is a warning.
BackfillUnmarked ==
  /\ pc = "backfill"
  /\ cur = NoInsight
  /\ todo = {}
  /\ faults < MaxFaults
  /\ faults' = faults + 1
  /\ pc' = "poll"
  /\ landed' = {}
  /\ UNCHANGED <<warehouse, graph, todo, cur, left, known>>

BatchDone ==
  /\ pc = "batch"
  /\ cur = NoInsight
  /\ todo = {}
  /\ pc' = "poll"
  /\ UNCHANGED <<warehouse, graph, todo, cur, left, landed, faults, known>>

\* The process dies: the backfill reads both stores outside any handler, and the
\* host may stop.
Crash ==
  /\ pc # "down"
  /\ faults < MaxFaults
  /\ faults' = faults + 1
  /\ pc' = "down"
  /\ todo' = {}
  /\ cur' = NoInsight
  /\ left' = {}
  /\ landed' = {}
  /\ UNCHANGED <<warehouse, graph, known>>

-----------------------------------------------------------------------------
IngesterStep ==
  \/ Start
  \/ Fetch
  \/ \E i \in Insights : Upsert(i)
  \/ \E t \in Topics : Wire(t)
  \/ Landed
  \/ MarkProcessed
  \/ BackfillDone
  \/ BatchDone

Next ==
  \/ IngesterStep
  \/ \E i \in Insights : Publish(i)
  \/ Materialize
  \/ \E t \in Properties : AddProperty(t)
  \/ Fail
  \/ FetchNothing
  \/ BackfillUnmarked
  \/ Crash

Spec == Init /\ [][Next]_vars

\* The poll loop never ends by itself, the operator starts the process again
\* after a crash, and the warehouse runs the task every minute.
FairSpec == Spec /\ WF_vars(IngesterStep) /\ WF_vars(Materialize)

-----------------------------------------------------------------------------
TypeOK ==
  /\ source \subseteq Insights
  /\ stream \subseteq Insights
  /\ created \in [Insights -> Nat]
  /\ processed \subseteq Insights
  /\ markers \subseteq Insights
  /\ nodes \subseteq Insights
  /\ known \subseteq Properties
  /\ edges \in [Insights -> SUBSET Topics]
  /\ pc \in {"down", "backfill", "poll", "batch"}
  /\ todo \subseteq Insights
  /\ cur \in Insights \cup {NoInsight}
  /\ left \subseteq Topics
  /\ landed \subseteq Insights
  /\ faults \in Nat

\* An insight is in the graph with all that it is about, properties aside.
Complete(i) == i \in nodes /\ About[i] \ Properties \subseteq edges[i]

\* A row of the delta table with PROCESSED = TRUE, which no poll will read
\* again, is of an insight that is complete in the graph: whatever failed, and
\* wherever the process died, nothing was acknowledged by half.
AckedIsComplete == \A i \in processed \cup markers : Complete(i)

\* "Upsert a single Insight node and all :ABOUT edges into Neo4j": an insight
\* that was acknowledged has an edge to each property it names that is there.
PropertiesAreLinked ==
  \A i \in processed \cup markers : About[i] \cap known \subseteq edges[i]

\* An insight inserted after the stream was created gets into the graph and is
\* acknowledged, whatever fails on the way.
StreamedArrives == \A i \in Insights \ Seeded : i \in source ~> i \in processed

\* "One-shot backfill of all rows in CRE_MARKET_INSIGHTS that are NOT yet in
\* Neo4j. [...] Uses Neo4j MERGE so it is idempotent.": once faults have ceased,
\* starting the process again completes every insight that predates the stream.
RestartRepairsBackfill ==
  (pc = "down" /\ faults = MaxFaults) ~> \A i \in Seeded : Complete(i)

\* Insights land once and for good, and are acknowledged after they landed.
Feed == INSTANCE InsightFeed
          WITH offered <- source,
               landed <- {i \in Insights : Complete(i)},
               acked <- processed \cup markers
FeedSpec == Feed!Spec
=============================================================================
