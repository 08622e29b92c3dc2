-------------------------- MODULE StreamingProofs --------------------------
(***************************************************************************)
(* What holds of Streaming for any insights, topics, limit and number of   *)
(* faults.  The argument: the row being upserted has its node and every    *)
(* edge that is no longer left to wire, so it is complete when it leaves   *)
(* the loop for good; and nothing ever takes a node or an edge away.       *)
(***************************************************************************)
EXTENDS Streaming, FiniteSetTheorems, TLAPS

-----------------------------------------------------------------------------
\* The process and the warehouse start well typed.
LEMMA InitType == Init => TypeOK
BY StreamingConstants DEF Init, TypeOK

\* The steps of the warehouse keep the types.
LEMMA WarehouseType ==
  ASSUME TypeOK, (\E i \in Insights : Publish(i)) \/ Materialize
  PROVE  TypeOK'
<1>1. CASE \E i \in Insights : Publish(i)
  BY <1>1 DEF Publish, TypeOK, graph, process
<1>2. CASE Materialize
  <2> DEFINE rows == {i \in Insights : created[i] > 0}
             time == 1 + Cardinality(rows)
  <2>1. time \in Nat
    <3>1. IsFiniteSet(rows)
      BY StreamingConstants, FS_Subset
    <3> QED  BY <3>1, FS_CardinalityType
  <2>2. created' = [i \in Insights |-> IF i \in stream THEN time ELSE created[i]]
    BY <1>2 DEF Materialize
  <2>3. stream' = {} /\ UNCHANGED <<source, processed, markers, graph, process, faults, known>>
    BY <1>2 DEF Materialize
  <2> HIDE DEF time
  <2>4. created' \in [Insights -> Nat]
    BY <2>1, <2>2 DEF TypeOK
  <2> QED  BY <2>3, <2>4 DEF TypeOK, graph, process
<1> QED  BY <1>1, <1>2

\* So do those of the loops.
LEMMA LoopType ==
  ASSUME TypeOK,
         \/ Fetch \/ FetchNothing
         \/ \E i \in Insights : Upsert(i)
         \/ \E t \in Topics : Wire(t)
         \/ Landed \/ MarkProcessed
         \/ \E t \in Properties : AddProperty(t)
  PROVE  TypeOK'
<1>1. CASE Fetch
  BY <1>1 DEF Fetch, Fresh, TypeOK, warehouse, graph
<1>2. CASE FetchNothing
  BY <1>2 DEF FetchNothing, TypeOK, vars, warehouse, graph, process
<1>3. CASE \E i \in Insights : Upsert(i)
  BY <1>3, StreamingConstants DEF Upsert, TypeOK, warehouse
<1>4. CASE \E t \in Topics : Wire(t)
  BY <1>4 DEF Wire, TypeOK, warehouse
<1>5. CASE Landed
  BY <1>5 DEF Landed, Leave, TypeOK, warehouse, graph
<1>6. CASE MarkProcessed
  BY <1>6 DEF MarkProcessed, Leave, TypeOK, graph
<1>7. CASE \E t \in Properties : AddProperty(t)
  BY <1>7 DEF AddProperty, TypeOK, warehouse, graph, process
<1> QED  BY <1>1, <1>2, <1>3, <1>4, <1>5, <1>6, <1>7

\* And so do starts, ends, failures and crashes.
LEMMA LifeType ==
  ASSUME TypeOK,
         Start \/ Fail \/ BackfillDone \/ BackfillUnmarked \/ BatchDone \/ Crash
  PROVE  TypeOK'
<1>1. CASE Start
  BY <1>1 DEF Start, TypeOK, warehouse, graph
<1>2. CASE Fail
  BY <1>2 DEF Fail, Leave, TypeOK, warehouse, graph
<1>3. CASE BackfillDone
  BY <1>3 DEF BackfillDone, TypeOK, graph
<1>4. CASE BackfillUnmarked
  BY <1>4 DEF BackfillUnmarked, TypeOK, warehouse, graph
<1>5. CASE BatchDone
  BY <1>5 DEF BatchDone, TypeOK, warehouse, graph
<1>6. CASE Crash
  BY <1>6 DEF Crash, TypeOK, warehouse, graph
<1> QED  BY <1>1, <1>2, <1>3, <1>4, <1>5, <1>6

\* TypeOK is inductive.
LEMMA NextType == TypeOK /\ [Next]_vars => TypeOK'
<1> SUFFICES ASSUME TypeOK, [Next]_vars PROVE TypeOK'
  OBVIOUS
<1>1. CASE Next
  BY <1>1, WarehouseType, LoopType, LifeType DEF Next, IngesterStep
<1>2. CASE UNCHANGED vars
  BY <1>2 DEF TypeOK, vars, warehouse, graph, process
<1> QED  BY <1>1, <1>2

\* Whatever fails, the ingester and the two stores keep their types.
THEOREM TypeCorrect == Spec => []TypeOK
BY InitType, NextType, PTL DEF Spec

-----------------------------------------------------------------------------
\* All that the ingester handles comes from the source table.
SourceInv ==
  /\ stream \subseteq source
  /\ \A i \in Insights : created[i] > 0 => i \in source
  /\ todo \subseteq source
  /\ cur # NoInsight => cur \in source

\* The row being upserted lacks nothing but what is left to wire.
UpsertInv == cur # NoInsight =>
  cur \in nodes /\ About[cur] \ Properties \subseteq edges[cur] \cup left

\* What the backfill has counted as landed has landed.
LandedInv == \A i \in landed : Complete(i)

Delivery == SourceInv /\ UpsertInv /\ LandedInv /\ AckedIsComplete

\* Nothing is handled or acknowledged at the start.
LEMMA DeliveryInit == Init => Delivery
BY DEF Init, Delivery, SourceInv, UpsertInv, LandedInv, AckedIsComplete

\* Nodes and edges are merged, never removed.
LEMMA GraphGrows ==
  ASSUME TypeOK, [Next]_vars
  PROVE  /\ nodes \subseteq nodes'
         /\ \A i \in Insights : edges[i] \subseteq edges'[i]
<1>1. CASE \E i \in Insights : Upsert(i)
  BY <1>1 DEF Upsert
<1>2. CASE \E t \in Topics : Wire(t)
  BY <1>2 DEF Wire, TypeOK
<1>3. CASE UNCHANGED graph
  BY <1>3 DEF graph
<1>4. \/ \E i \in Insights : Upsert(i)
      \/ \E t \in Topics : Wire(t)
      \/ UNCHANGED graph
  BY DEF Next, IngesterStep, Start, Fetch, FetchNothing, Landed, MarkProcessed,
         BackfillDone, BatchDone, Publish, Materialize, AddProperty, Fail, BackfillUnmarked, Crash,
         vars, graph
<1> QED  BY <1>1, <1>2, <1>3, <1>4

\* So what is complete stays complete.
LEMMA CompleteForGood ==
  ASSUME TypeOK, [Next]_vars, NEW i \in Insights, Complete(i)
  PROVE  Complete(i)'
BY GraphGrows DEF Complete

\* A row with nothing left to wire is complete.
LEMMA UpsertedIsComplete ==
  ASSUME TypeOK, UpsertInv, cur # NoInsight, left = {}
  PROVE  cur \in Insights /\ Complete(cur)
BY DEF TypeOK, UpsertInv, Complete

-----------------------------------------------------------------------------
\* Only rows of the source table are taken on.
LEMMA SourceStep ==
  ASSUME TypeOK, SourceInv, [Next]_vars
  PROVE  SourceInv'
<1>1. CASE \E i \in Insights : Publish(i)
  BY <1>1 DEF Publish, SourceInv, process
<1>2. CASE Materialize
  <2> DEFINE time == 1 + Cardinality({i \in Insights : created[i] > 0})
  <2>1. /\ created' = [i \in Insights |-> IF i \in stream THEN time ELSE created[i]]
        /\ stream' = {}
        /\ UNCHANGED <<source, todo, cur>>
    BY <1>2 DEF Materialize, process
  <2> HIDE DEF time
  <2> QED  BY <2>1 DEF SourceInv
<1>3. CASE Start
  BY <1>3 DEF Start, SourceInv, warehouse
<1>4. CASE Fetch
  BY <1>4 DEF Fetch, Fresh, SourceInv, warehouse
<1>5. CASE \E i \in Insights : Upsert(i)
  BY <1>5 DEF Upsert, SourceInv, warehouse
<1>6. CASE \E t \in Topics : Wire(t)
  BY <1>6 DEF Wire, SourceInv, warehouse
<1>7. CASE Landed \/ MarkProcessed \/ Fail
  BY <1>7 DEF Landed, MarkProcessed, Fail, Leave, SourceInv, warehouse
<1>8. CASE BackfillDone \/ BackfillUnmarked \/ BatchDone \/ Crash
  BY <1>8 DEF BackfillDone, BackfillUnmarked, BatchDone, Crash, SourceInv, warehouse
<1>9. CASE FetchNothing \/ UNCHANGED vars \/ \E t \in Properties : AddProperty(t)
  BY <1>9 DEF FetchNothing, AddProperty, SourceInv, vars, warehouse, process
<1> QED
  BY <1>1, <1>2, <1>3, <1>4, <1>5, <1>6, <1>7, <1>8, <1>9 DEF Next, IngesterStep

\* An upsert wires what it takes off the list.
LEMMA UpsertStep ==
  ASSUME TypeOK, UpsertInv, [Next]_vars
  PROVE  UpsertInv'
<1>1. CASE \E i \in Insights : Upsert(i)
  BY <1>1 DEF Upsert, UpsertInv
<1>2. CASE \E t \in Topics : Wire(t)
  <2>1. PICK t \in Topics : Wire(t)
    BY <1>2
  <2>2. /\ cur \in Insights /\ cur' = cur /\ nodes' = nodes
        /\ left' = left \ {t}
        /\ edges'[cur] = edges[cur] \cup ({t} \ (Properties \ known))
    BY <2>1 DEF Wire, TypeOK
  <2> QED  BY <2>2 DEF UpsertInv
<1>3. CASE cur' = NoInsight
  BY <1>3 DEF UpsertInv
<1>4. CASE UNCHANGED <<nodes, edges, cur, left>>
  BY <1>4 DEF UpsertInv
<1>5. CASE Fail
  BY <1>3, <1>4, <1>5 DEF Fail, Leave, graph
<1> QED
  BY <1>1, <1>2, <1>3, <1>4, <1>5
     DEF Next, IngesterStep, Publish, Materialize, AddProperty, Start, Fetch, FetchNothing, Landed,
         MarkProcessed, Leave, BackfillDone, BackfillUnmarked, BatchDone, Crash,
         vars, warehouse, graph, process

\* What a step adds to the landed or to the acknowledged is complete: the row
\* that leaves the loop, or what had landed before.
LEMMA NewlyCounted ==
  ASSUME TypeOK, UpsertInv, [Next]_vars
  PROVE  /\ \A i \in landed' \ landed : i \in Insights /\ Complete(i)
         /\ \A i \in (processed' \cup markers') \ (processed \cup markers) :
               i \in landed \/ (i \in Insights /\ Complete(i))
<1>1. CASE Landed
  BY <1>1, UpsertedIsComplete DEF Landed, warehouse
<1>2. CASE MarkProcessed
  BY <1>2, UpsertedIsComplete DEF MarkProcessed
<1>3. CASE BackfillDone
  BY <1>3 DEF BackfillDone
<1>4. CASE landed' \subseteq landed /\ UNCHANGED <<processed, markers>>
  BY <1>4
<1>5. \/ Landed \/ MarkProcessed \/ BackfillDone
      \/ landed' \subseteq landed /\ UNCHANGED <<processed, markers>>
  BY DEF Next, IngesterStep, Publish, Materialize, AddProperty, Start, Fetch, FetchNothing, Upsert,
         Wire, Fail, BackfillUnmarked, BatchDone, Crash, vars, warehouse, process
<1> QED  BY <1>1, <1>2, <1>3, <1>4, <1>5

\* Delivery is inductive, given the types.
LEMMA DeliveryStep == TypeOK /\ Delivery /\ [Next]_vars => Delivery'
<1> SUFFICES ASSUME TypeOK, Delivery, [Next]_vars PROVE Delivery'
  OBVIOUS
<1>1. TypeOK'
  BY NextType
<1>2. SourceInv' /\ UpsertInv'
  BY SourceStep, UpsertStep DEF Delivery
<1>3. \A i \in Insights : Complete(i) => Complete(i)'
  BY CompleteForGood
<1>4. LandedInv'
  <2> SUFFICES ASSUME NEW i \in landed' PROVE Complete(i)'
    BY DEF LandedInv
  <2>1. i \in Insights /\ Complete(i)
    BY NewlyCounted DEF Delivery, LandedInv, TypeOK
  <2> QED  BY <1>3, <2>1
<1>5. AckedIsComplete'
  <2> SUFFICES ASSUME NEW i \in (processed \cup markers)' PROVE Complete(i)'
    BY DEF AckedIsComplete
  <2>1. i \in Insights /\ Complete(i)
    BY NewlyCounted DEF Delivery, LandedInv, AckedIsComplete, TypeOK
  <2> QED  BY <1>3, <2>1
<1> QED  BY <1>2, <1>4, <1>5 DEF Delivery

\* Delivery holds always.
LEMMA DeliveryHolds == Spec => []Delivery
BY DeliveryInit, DeliveryStep, TypeCorrect, PTL DEF Spec

\* No insight is acknowledged, by the poll or by the backfill, before it is in
\* the graph with every edge that its columns and tags call for.
THEOREM AckedIsCompleteHolds == Spec => []AckedIsComplete
<1>1. Delivery => AckedIsComplete
  BY DEF Delivery
<1> QED  BY <1>1, DeliveryHolds, PTL

-----------------------------------------------------------------------------
\* A step completes at most the row it upserts or wires.
LEMMA OneLands ==
  ASSUME TypeOK, SourceInv, [Next]_vars
  PROVE  \/ \A i \in Insights : Complete(i)' <=> Complete(i)
         \/ /\ UNCHANGED <<source, processed, markers>>
            /\ \E c \in source :
                 \A i \in Insights \ {c} : Complete(i)' <=> Complete(i)
<1>1. CASE \E i \in Insights : Upsert(i)
  BY <1>1 DEF Upsert, SourceInv, Complete, warehouse
<1>2. CASE \E t \in Topics : Wire(t)
  BY <1>2 DEF Wire, SourceInv, Complete, warehouse, TypeOK
<1>3. CASE UNCHANGED graph
  BY <1>3 DEF graph, Complete
<1> QED
  BY <1>1, <1>2, <1>3
     DEF Next, IngesterStep, Start, Fetch, FetchNothing, Landed, MarkProcessed,
         BackfillDone, BatchDone, Publish, Materialize, AddProperty, Fail, BackfillUnmarked, Crash,
         vars, graph

\* A step offers one new insight, acknowledges some, or does neither.
LEMMA OfferOrAcknowledge ==
  ASSUME TypeOK, [Next]_vars
  PROVE  \/ /\ \E i \in Insights : i \notin source /\ source' = source \cup {i}
            /\ UNCHANGED <<processed, markers, graph>>
         \/ source' = source /\ processed \subseteq processed' /\ markers \subseteq markers'
BY DEF Next, IngesterStep, Publish, Materialize, AddProperty, Start, Fetch, FetchNothing, Upsert, Wire,
       Landed, MarkProcessed, Fail, BackfillDone, BackfillUnmarked, BatchDone, Crash,
       vars, warehouse, graph, process

\* The ingester, its failures and its crashes implement the feed: an insight
\* lands in the graph once and for good, and only then is acknowledged.
THEOREM FeedImplemented == Spec => FeedSpec
<1> DEFINE done == {i \in Insights : Complete(i)}
           acked == processed \cup markers
<1>1. Init => Feed!Init
  BY StreamingConstants DEF Init, Feed!Init, Complete
<1>2. TypeOK /\ Delivery /\ [Next]_vars
        => [Feed!Next]_<<source, done, acked>>
  <2> SUFFICES ASSUME TypeOK, Delivery, [Next]_vars
               PROVE  Feed!Next \/ UNCHANGED <<source, done, acked>>
    OBVIOUS
  <2>1. /\ done \subseteq done'
        /\ acked' \subseteq done' /\ acked \subseteq done
    BY CompleteForGood, DeliveryStep, NextType DEF Delivery, AckedIsComplete, TypeOK
  <2>2. CASE /\ \E i \in Insights : i \notin source /\ source' = source \cup {i}
             /\ UNCHANGED <<processed, markers, graph>>
    <3>1. UNCHANGED <<done, acked>>
      BY <2>2 DEF Complete, graph
    <3> QED  BY <2>2, <3>1 DEF Feed!Next, Feed!Offer
  <2>3. CASE done' = done /\ source' = source
    <3>1. processed \subseteq processed' /\ markers \subseteq markers'
      BY <2>3, OfferOrAcknowledge
    <3>2. acked' = acked \cup acked' /\ acked' \subseteq done /\ acked' \in SUBSET Insights
      BY <2>1, <2>3, <3>1
    <3>3. Feed!Acknowledge(acked')
      BY <2>3, <3>2 DEF Feed!Acknowledge
    <3> QED  BY <3>2, <3>3 DEF Feed!Next
  <2>4. CASE done' # done
    <3>1. PICK c \in source : /\ UNCHANGED <<source, processed, markers>>
                              /\ \A i \in Insights \ {c} : Complete(i)' <=> Complete(i)
      BY <2>4, OneLands DEF Delivery
    <3>2. c \in Insights
      BY DEF TypeOK
    <3>3. c \notin done /\ done' = done \cup {c}
      BY <2>1, <2>4, <3>1, <3>2
    <3>4. Feed!Land(c)
      BY <3>1, <3>3 DEF Feed!Land
    <3> QED  BY <3>2, <3>4 DEF Feed!Next
  <2> QED  BY <2>2, <2>3, <2>4, OfferOrAcknowledge
<1> QED
  BY <1>1, <1>2, TypeCorrect, DeliveryHolds, PTL DEF Spec, FeedSpec, Feed!Spec
=============================================================================
