---------------------------- MODULE KnowledgeGraph ----------------------------
(***************************************************************************)
(* The programs that write the knowledge graph: the streaming ingester,    *)
(* the backfill and the enrichment.  They write nodes and edges of their   *)
(* own, and what one needs of another is in its module (AddProperty,       *)
(* LinkPair): a behaviour keeps one of them busy.                          *)
(***************************************************************************)
EXTENDS Streaming, Backfill, Enrichment

VARIABLE busy  \* the program that runs

kgVars == <<vars, backfillVars, enrichmentVars, busy>>

\* An idle backfill starts with one choice of its rows.
KgInit ==
  /\ busy \in {"streaming", "backfill", "enrichment"}
  /\ Init
  /\ BackfillInit /\ (busy # "backfill" => rows = CHOOSE f \in FirstRows : TRUE)
  /\ EnrichmentInit

StreamingStep(step) ==
  busy = "streaming" /\ step /\ UNCHANGED <<backfillVars, enrichmentVars, busy>>

BackfillStep ==
  busy = "backfill" /\ BackfillNext /\ UNCHANGED <<vars, enrichmentVars, busy>>

EnrichmentStep ==
  busy = "enrichment" /\ EnrichmentNext /\ UNCHANGED <<vars, backfillVars, busy>>

KgNext == StreamingStep(Next) \/ BackfillStep \/ EnrichmentStep

\* The fairness of Streaming; nothing is assumed of the others.
KgSpec ==
  /\ KgInit /\ [][KgNext]_kgVars
  /\ WF_kgVars(StreamingStep(IngesterStep)) /\ WF_kgVars(StreamingStep(Materialize))
===============================================================================
