---------------------------- MODULE InsightFeed ----------------------------
(***************************************************************************)
(* What the streaming ingester promises of the insights of the warehouse:  *)
(* an insight that was offered lands in the graph, in full and for good,   *)
(* before it is acknowledged.                                              *)
(***************************************************************************)
CONSTANT
  Insights  \* insights that may come to exist

VARIABLES
  offered,  \* insights in the warehouse
  landed,   \* insights in the graph, with all that they are about
  acked     \* insights acknowledged to the warehouse

Init ==
  /\ offered \subseteq Insights
  /\ landed = {}
  /\ acked = {}

Offer(i) ==
  /\ i \notin offered
  /\ offered' = offered \cup {i}
  /\ UNCHANGED <<landed, acked>>

Land(i) ==
  /\ i \in offered \ landed
  /\ landed' = landed \cup {i}
  /\ UNCHANGED <<offered, acked>>

Acknowledge(some) ==
  /\ some \subseteq landed
  /\ acked' = acked \cup some
  /\ UNCHANGED <<offered, landed>>

Next ==
  \/ \E i \in Insights : Offer(i) \/ Land(i)
  \/ \E some \in SUBSET Insights : Acknowledge(some)

Spec == Init /\ [][Next]_<<offered, landed, acked>>
=============================================================================
