--------------------------- MODULE MCKnowledgeGraph ---------------------------
(* Instances of KnowledgeGraph for TLC. *)
EXTENDS KnowledgeGraph

\* Streaming: an insight that is there before the stream, two that come later.
CONSTANTS i1, i2, i3, boston, office, tower

MCInsights == {i1, i2, i3}
MCSeeded == {i1}
MCTopics == {boston, office, tower}
MCProperties == {tower}
MCAbout == [i \in MCInsights |-> CASE i = i1 -> {boston, office, tower}
                                [] i = i2 -> {boston}
                                [] i = i3 -> {office, tower}]

\* Backfill: a row of each table and a second one of the last, which is read
\* beside one that cannot be merged. The broker's email and the property's market
\* change; the lease and the SPOC name the same broker.
MCSources == {"broker", "property", "lease", "pursuit", "spoc", "spoc2"}
MCTableOf ==
  [r \in MCSources |-> CASE r = "broker" -> 1 [] r = "property" -> 2 [] r = "lease" -> 3
                         [] r = "pursuit" -> 4 [] OTHER -> 5]
Ann == <<"ann">>
Mail == <<"ann@jll.com">>
MCContents ==
  [r \in MCSources |->
     CASE r = "broker" ->
            {[table |-> 1, email |-> e, name |-> Ann, firm |-> Empty,
              markets |-> <<<<"back", "bay", "boston">>>>, classes |-> <<<<"office">>>>] : e \in {Empty, Mail}}
       [] r = "property" ->
            {[table |-> 2, id |-> <<"t1">>, address |-> <<"main">>, zip |-> <<"02110">>,
              submarket |-> <<"hub">>, market |-> m, class |-> Empty, owner |-> <<"acme">>] :
                m \in {<<"hub">>, <<"austin">>}}
       [] r = "lease" ->
            {[table |-> 3, lease |-> Empty, id |-> Empty, address |-> <<"main">>, zip |-> <<"02110">>,
              tenant |-> <<"shop">>, date |-> <<"may">>, landlord |-> <<"acme">>, name |-> Ann,
              email |-> Empty, firm |-> Empty, side |-> "both"]}
       [] r = "pursuit" ->
            {[table |-> 4, pursuit |-> p, client |-> <<"bank">>, assigned |-> Ann, lead |-> <<"bob">>,
              email |-> Empty, firm |-> Empty, role |-> "primary", line |-> <<"leasing">>] :
                p \in {Empty, <<"u1">>}}
       [] r = "spoc" ->
            {[table |-> 5, email |-> Mail, name |-> Ann, firm |-> Empty, client |-> <<"bank">>,
              line |-> Empty, class |-> k] : k \in {Empty, <<"office">>}}
       [] r = "spoc2" ->
            {[table |-> 5, email |-> Mail, name |-> Ann, firm |-> Empty, client |-> <<"mill">>,
              line |-> <<"leasing">>, class |-> <<"office">>]}]
MCFirstRows ==
  {[r \in MCSources |-> CHOOSE x \in MCContents[r] :
      /\ r = "broker" => x.email = Empty
      /\ r = "spoc" => x.class = Empty
      /\ r = "pursuit" => x.pursuit = p] : p \in {Empty, <<"u1">>}}
MCAlias ==
  [t \in {<<"boston">>, <<"hub">>, <<"office">>} |->
     IF t = <<"office">> THEN [kind |-> "asset_classes", name |-> t]
     ELSE [kind |-> "markets", name |-> <<"boston">>]]
MCFirmOfEmail == [e \in {Mail} |-> <<"jll">>]

\* Enrichment: the service and a run beside it; two brokers' properties, of which
\* the best one is stored, and a tenant.
MCWorkers == {"service", "once"}
MCKinds == {"property", "tenant"}
MCPairs == [k \in MCKinds |-> IF k = "tenant" THEN {"t"} ELSE {"p", "q"}]
===============================================================================
