----------------------------- MODULE GraphProofs -----------------------------
(***************************************************************************)
(* The knowledge graph, for any rows, insights, workers, pairs and bounds: *)
(* each of its programs runs within the composed system as it does by      *)
(* itself, so that what is proved of one holds of the composition; a run   *)
(* of the backfill without mishap is complete; and what a run of link      *)
(* prediction has pruned stays away.                                       *)
(***************************************************************************)
EXTENDS KnowledgeGraph, StreamingProofs

\* Whichever program is busy, it takes its own steps and the others stutter.
THEOREM PartsRunAlone == KgSpec => Spec /\ BackfillSpec /\ EnrichmentSpec
<1>1. KgInit => Init /\ BackfillInit /\ EnrichmentInit
  BY DEF KgInit
<1>2. [KgNext]_kgVars => [Next]_vars /\ [BackfillNext]_backfillVars /\ [EnrichmentNext]_enrichmentVars
  BY DEF KgNext, StreamingStep, BackfillStep, EnrichmentStep, kgVars
<1> QED  BY <1>1, <1>2, PTL DEF KgSpec, Spec, BackfillSpec, EnrichmentSpec

\* Beside the other programs too, the ingester acknowledges nothing before it is
\* complete, and implements the feed (streaming.py in the service).
THEOREM GraphDelivers == KgSpec => []AckedIsComplete /\ FeedSpec
BY PartsRunAlone, AckedIsCompleteHolds, FeedImplemented, PTL

-----------------------------------------------------------------------------
(* The statements of a row.  Those behind the first match nodes that the first
   merges, and only a single statement may have a null in its merge. *)

IsSequence(s) == \E S : s \in Seq(S)

\* Statements that match what h merges.
After(t, h) == IsSequence(t) /\ \A i \in DOMAIN t : ~t[i].null /\ t[i].needs \subseteq h.nodes

\* They follow h.
Chain(s, h) ==
  /\ IsSequence(s) /\ s # <<>> /\ s[1] = h
  /\ \A i \in DOMAIN s : ~s[i].null /\ (IF i = 1 THEN s[i].needs = {} ELSE s[i].needs \subseteq h.nodes)

\* What a run may rely on.
Ordered(s) ==
  /\ IsSequence(s)
  /\ \A i \in DOMAIN s :
       /\ IF i = 1 THEN s[i].needs = {} ELSE s[i].needs \subseteq s[1].nodes
       /\ s[i].null => i = Len(s)

LEMMA SequenceFacts ==
  ASSUME NEW s, IsSequence(s)
  PROVE  /\ Len(s) \in Nat /\ DOMAIN s = 1..Len(s)
         /\ s # <<>> => /\ 1 \in DOMAIN s /\ Head(s) = s[1] /\ IsSequence(Tail(s))
                        /\ Len(Tail(s)) = Len(s) - 1
                        /\ \A i \in 1..Len(Tail(s)) : Tail(s)[i] = s[i + 1]
         /\ s = <<>> <=> Len(s) = 0
<1>1. PICK S : s \in Seq(S)
  BY DEF IsSequence
<1>2. s # <<>> => Tail(s) \in Seq(S)
  BY <1>1
<1> QED  BY <1>1, <1>2 DEF IsSequence

LEMMA SingleStatement ==
  ASSUME NEW x
  PROVE  /\ IsSequence(<<x>>) /\ DOMAIN <<x>> = {1} /\ <<x>>[1] = x /\ <<x>> # <<>> /\ Len(<<x>>) = 1
<1>1. <<x>> \in Seq({x}) /\ Len(<<x>>) = 1 /\ DOMAIN <<x>> = 1..1 /\ 1..1 = {1}
  OBVIOUS
<1> QED  BY <1>1 DEF IsSequence

LEMMA ChainStarts ==
  ASSUME NEW h, h.needs = {}, ~h.null
  PROVE  Chain(<<h>>, h)
<1> DEFINE s == <<h>>
<1>1. IsSequence(s) /\ DOMAIN s = {1} /\ s[1] = h /\ s # <<>>
  BY SingleStatement
<1> HIDE DEF s
<1>2. Chain(s, h)
  BY <1>1 DEF Chain
<1> QED  BY <1>2 DEF s

LEMMA AfterOne ==
  ASSUME NEW h, NEW x, ~x.null, x.needs \subseteq h.nodes
  PROVE  After(<<x>>, h)
<1> DEFINE s == <<x>>
<1>1. IsSequence(s) /\ DOMAIN s = {1} /\ s[1] = x
  BY SingleStatement
<1> HIDE DEF s
<1>2. After(s, h)
  BY <1>1 DEF After
<1> QED  BY <1>2 DEF s

LEMMA AfterNone ==
  ASSUME NEW h
  PROVE  After(<<>>, h)
<1>1. <<>> \in Seq({h})
  OBVIOUS
<1> QED  BY <1>1 DEF After, IsSequence

LEMMA ChainExtends ==
  ASSUME NEW h, NEW s, Chain(s, h), NEW t, After(t, h)
  PROVE  Chain(s \o t, h)
<1>1. PICK S, T : s \in Seq(S) /\ t \in Seq(T)
  BY DEF Chain, After, IsSequence
<1>2. s \in Seq(S \cup T) /\ t \in Seq(S \cup T) /\ s \o t \in Seq(S \cup T)
  BY <1>1
<1>3. Len(s) \in Nat /\ Len(s) # 0 /\ Len(t) \in Nat /\ Len(s \o t) = Len(s) + Len(t)
  BY <1>2 DEF Chain
<1>4. \A i \in 1..Len(s) : (s \o t)[i] = s[i]
  BY <1>2
<1>5. \A i \in 1..(Len(s) + Len(t)) : i > Len(s) => /\ i - Len(s) \in 1..Len(t) /\ i # 1
                                                  /\ (s \o t)[i] = t[i - Len(s)]
  BY <1>2, <1>3
<1>6. \A i \in 1..Len(t) : i \in DOMAIN t
  BY <1>2
<1>7. \A i \in DOMAIN (s \o t) : i \in 1..(Len(s) + Len(t)) /\ (i \in 1..Len(s) \/ i > Len(s))
  BY <1>2, <1>3
<1>8. ASSUME NEW i \in DOMAIN (s \o t)
      PROVE  /\ ~(s \o t)[i].null
             /\ IF i = 1 THEN (s \o t)[i].needs = {} ELSE (s \o t)[i].needs \subseteq h.nodes
  <2>1. CASE i \in 1..Len(s)
    <3>1. i \in DOMAIN s
      BY <1>2, <2>1
    <3> QED  BY <1>4, <2>1, <3>1 DEF Chain
  <2>2. CASE i > Len(s)
    BY <1>5, <1>6, <1>7, <2>2 DEF After
  <2> QED  BY <1>7, <2>1, <2>2
<1>9. (s \o t)[1] = h /\ s \o t # <<>>
  BY <1>2, <1>3, <1>4 DEF Chain
<1> QED  BY <1>2, <1>8, <1>9 DEF Chain, IsSequence

LEMMA ChainIsOrdered ==
  ASSUME NEW h, NEW s, Chain(s, h)
  PROVE  Ordered(s)
BY DEF Chain, Ordered

\* A row that a table may hold.
IsRow(row) ==
  /\ row # NoRow
  /\ row.table \in 1..5
  /\ row.table = 1 => Len(row.markets) \in Nat /\ Len(row.classes) \in Nat

LEMMA BrokerOrdered ==
  ASSUME NEW row, IsRow(row), row.table = 1
  PROVE  Ordered(BrokerStatements(row))
<1> DEFINE b == BrokerOf(row)
           f == <<"Firm", FirmOf(row)>>
           h == Statement({}, {b, f}, {<<b, <<"BELONGS_TO">>, f>>})
           m(i) == <<"Market", TaxonomyKey(row.markets[i], "markets")>>
           c(i) == <<"AssetClass", TaxonomyKey(row.classes[i], "asset_classes")>>
           cover(i) == Statement({b}, {m(i)}, {<<b, <<"COVERS">>, m(i)>>})
           special(i) == Statement({b}, {c(i)}, {<<b, <<"SPECIALIZES_IN">>, c(i)>>})
           covers == [i \in 1..Len(row.markets) |-> cover(i)]
           specials == [i \in 1..Len(row.classes) |-> special(i)]
<1>1. BrokerStatements(row) = (<<h>> \o covers) \o specials
  BY DEF BrokerStatements
<1>2. h.needs = {} /\ ~h.null /\ b \in h.nodes
  BY DEF Statement
<1>3. \A i : ~cover(i).null /\ cover(i).needs \subseteq h.nodes
             /\ ~special(i).null /\ special(i).needs \subseteq h.nodes
  BY DEF Statement
<1>4. Len(row.markets) \in Nat /\ Len(row.classes) \in Nat
  BY DEF IsRow
<1> HIDE DEF h, cover, special
<1>5. covers \in Seq({cover(i) : i \in 1..Len(row.markets)})
  BY <1>4
<1>6. specials \in Seq({special(i) : i \in 1..Len(row.classes)})
  BY <1>4
<1>7. After(covers, h)
  BY <1>3, <1>5 DEF After, IsSequence
<1>8. After(specials, h)
  BY <1>3, <1>6 DEF After, IsSequence
<1> HIDE DEF covers, specials
<1> QED  BY <1>1, <1>2, <1>7, <1>8, ChainStarts, ChainExtends, ChainIsOrdered

LEMMA PropertyOrdered ==
  ASSUME NEW row
  PROVE  Ordered(PropertyStatements(row))
<1> DEFINE p == PropertyOf(row)
           sub == <<"Submarket", KeyOrUnknown(row.submarket, "submarkets")>>
           m == <<"Market", KeyOrUnknown(row.market, "markets")>>
           c == <<"AssetClass", KeyOrUnknown(row.class, "asset_classes")>>
           landlord == <<"Landlord", row.owner>>
           h == Statement({}, {p, sub, m, c},
                   {<<sub, <<"PART_OF">>, m>>, <<p, <<"LOCATED_IN">>, sub>>, <<p, <<"CLASSIFIED_AS">>, c>>})
           owned == Statement({p}, {landlord}, {<<p, <<"OWNED_BY">>, landlord>>})
           rest == IF row.owner = Empty THEN <<>> ELSE <<owned>>
<1>1. PropertyStatements(row) = <<h>> \o rest
  BY DEF PropertyStatements
<1>2. h.needs = {} /\ ~h.null /\ ~owned.null /\ owned.needs \subseteq h.nodes
  BY DEF Statement
<1> HIDE DEF h, owned
<1>3. After(rest, h)
  BY <1>2, AfterOne, AfterNone
<1> HIDE DEF rest
<1> QED  BY <1>1, <1>2, <1>3, ChainStarts, ChainExtends, ChainIsOrdered

LEMMA LeaseOrdered ==
  ASSUME NEW row
  PROVE  Ordered(LeaseStatements(row))
<1> DEFINE l == LeaseOf(row)
           p == PropertyOf(row)
           t == <<"Tenant", row.tenant>>
           landlord == <<"Landlord", row.landlord>>
           h == Statement({}, {p, t, landlord, l},
                   {<<l, <<"ON">>, p>>, <<l, <<"TENANT_IS">>, t>>, <<l, <<"LANDLORD_IS">>, landlord>>})
           brokered == Statement({l}, {BrokerOf(row)}, {<<l, <<"BROKERED_BY", row.side>>, BrokerOf(row)>>})
           rest == IF row.name = Empty THEN <<>> ELSE <<brokered>>
<1>1. LeaseStatements(row) = <<h>> \o rest
  BY DEF LeaseStatements
<1>2. h.needs = {} /\ ~h.null /\ ~brokered.null /\ brokered.needs \subseteq h.nodes
  BY DEF Statement
<1> HIDE DEF h, brokered
<1>3. After(rest, h)
  BY <1>2, AfterOne, AfterNone
<1> HIDE DEF rest
<1> QED  BY <1>1, <1>2, <1>3, ChainStarts, ChainExtends, ChainIsOrdered

LEMMA PursuitOrdered ==
  ASSUME NEW row
  PROVE  Ordered(PursuitStatements(row))
<1> DEFINE u == <<"Pursuit", row.pursuit>>
           client == <<"Client", row.client>>
           service == <<"ServiceLine", TaxonomyKey(row.line, "service_lines")>>
           h == Statement({}, {client, u}, {<<u, <<"FOR">>, client>>})
           given == Statement({u}, {PursuitBroker(row)},
                              {<<u, <<"ASSIGNED_TO", row.role>>, PursuitBroker(row)>>})
           served == Statement({u}, {service}, {<<u, <<"HAS_SERVICE_LINE">>, service>>})
           first == IF row.assigned = Empty THEN <<>> ELSE <<given>>
           second == IF row.line = Empty THEN <<>> ELSE <<served>>
<1>1. PursuitStatements(row) = IF row.pursuit = Empty THEN <<>> ELSE (<<h>> \o first) \o second
  BY DEF PursuitStatements
<1>2. /\ h.needs = {} /\ ~h.null /\ ~given.null /\ given.needs \subseteq h.nodes
      /\ ~served.null /\ served.needs \subseteq h.nodes
  BY DEF Statement
<1> HIDE DEF h, given, served
<1>3. After(first, h) /\ After(second, h)
  BY <1>2, AfterOne, AfterNone
<1> HIDE DEF first, second
<1>4. Ordered((<<h>> \o first) \o second)
  BY <1>2, <1>3, ChainStarts, ChainExtends, ChainIsOrdered
<1>5. Ordered(<<>>)
  <2>1. <<>> \in Seq({h})
    OBVIOUS
  <2> QED  BY <2>1 DEF Ordered, IsSequence
<1> QED  BY <1>1, <1>4, <1>5

LEMMA SpocOrdered ==
  ASSUME NEW row
  PROVE  Ordered(SpocStatements(row))
<1> DEFINE client == <<"Client", row.client>>
           spoc == <<"SPOC_FOR", KeyOrUnknown(row.line, "service_lines"),
                     TaxonomyKey(row.class, "asset_classes")>>
           x == [needs |-> {}, nodes |-> {BrokerOf(row), client},
                 links |-> {<<BrokerOf(row), spoc, client>>}, null |-> row.class = Empty]
           s == <<x>>
<1>1. SpocStatements(row) = s
  BY DEF SpocStatements
<1>2. x.needs = {}
  OBVIOUS
<1> HIDE DEF x
<1>3. IsSequence(s) /\ DOMAIN s = {1} /\ s[1] = x /\ Len(s) = 1
  BY SingleStatement
<1> HIDE DEF s
<1> QED  BY <1>1, <1>2, <1>3 DEF Ordered

LEMMA StatementsOrdered ==
  ASSUME NEW row, IsRow(row)
  PROVE  Ordered(StatementsOf(row))
<1>1. row.table \in 1..5
  BY DEF IsRow
<1>2. row.table = 1 \/ row.table = 2 \/ row.table = 3 \/ row.table = 4 \/ row.table = 5
  BY <1>1
<1> QED  BY <1>2, BrokerOrdered, PropertyOrdered, LeaseOrdered, PursuitOrdered, SpocOrdered
         DEF StatementsOf

-----------------------------------------------------------------------------
(* A run of the backfill. *)

\* All that a row's statements can make is in the graph.
Stored(row) ==
  LET all == StatementsOf(row)
  IN  \A i \in DOMAIN all : ~all[i].null => Elements(all[i]) \subseteq entities \cup links

\* What is left of the row in hand is the end of its statements, and what went
\* before it is in the graph, its nodes among the nodes.
PartlyStored(row, k) ==
  LET all == StatementsOf(row)
  IN  /\ k \in Nat /\ k + Len(statements) = Len(all)
      /\ \A i \in 1..Len(statements) : statements[i] = all[k + i]
      /\ \A i \in 1..k : ~all[i].null /\ all[i].nodes \subseteq entities /\ all[i].links \subseteq links

HandInv ==
  /\ inHand = NoRow => statements = <<>>
  /\ inHand # NoRow => IsRow(inHand) /\ IsSequence(statements) /\ \E k : PartlyStored(inHand, k)

ReadInv ==
  /\ stage \in 0..6
  /\ stage \in {0, 6} => unread = {} /\ inHand = NoRow
  /\ \A r \in Sources : rows[r] # NoRow => IsRow(rows[r])
  /\ \A x \in unread : IsRow(x[2])
  /\ \A row \in read : IsRow(row)

\* What was read is in the graph, in hand, or still to come.
BackfillInv ==
  /\ HandInv /\ ReadInv
  /\ stage # 0 /\ ~hurt => \A row \in read : Stored(row) \/ row = inHand \/ \E x \in unread : x[2] = row

\* The graph only grows.
LEMMA StoredForGood ==
  ASSUME [BackfillNext]_backfillVars
  PROVE  /\ entities \subseteq entities' /\ links \subseteq links'
         /\ \A row : Stored(row) => Stored(row)'
<1>1. entities \subseteq entities' /\ links \subseteq links'
  BY DEF BackfillNext, EditRow, StartBackfill, TakeRow, Execute, RowDone, NullRaises, StatementFails,
         TableDone, BackfillDies, backfillVars
<1> QED  BY <1>1 DEF Stored

\* A statement finds what it matches.
LEMMA NextMatches ==
  ASSUME HandInv, statements # <<>>, NEW k, PartlyStored(inHand, k)
  PROVE  LET all == StatementsOf(inHand)
         IN  /\ Head(statements) = all[k + 1] /\ k + 1 \in DOMAIN all
             /\ all[k + 1].needs \subseteq entities
             /\ all[k + 1].null => k + 1 = Len(all)
             /\ IsSequence(Tail(statements)) /\ k + 1 \in Nat
             /\ (k + 1) + Len(Tail(statements)) = Len(all)
             /\ \A i \in 1..Len(Tail(statements)) : Tail(statements)[i] = all[(k + 1) + i]
<1> DEFINE all == StatementsOf(inHand)
<1>1. IsRow(inHand) /\ IsSequence(statements)
  BY DEF HandInv
<1>2. Ordered(all)
  BY <1>1, StatementsOrdered
<1> HIDE DEF all
<1>3. Len(all) \in Nat /\ DOMAIN all = 1..Len(all)
  BY <1>2, SequenceFacts DEF Ordered
<1>4. /\ k \in Nat /\ k + Len(statements) = Len(all)
      /\ \A i \in 1..Len(statements) : statements[i] = all[k + i]
      /\ \A i \in 1..k : all[i].nodes \subseteq entities
  BY DEF PartlyStored, all
<1>5. /\ Len(statements) \in Nat /\ Len(statements) # 0 /\ Head(statements) = statements[1]
      /\ IsSequence(Tail(statements)) /\ Len(Tail(statements)) = Len(statements) - 1
      /\ \A i \in 1..Len(Tail(statements)) : Tail(statements)[i] = statements[i + 1]
  BY <1>1, SequenceFacts
<1>6. Head(statements) = all[k + 1] /\ k + 1 \in DOMAIN all
  BY <1>3, <1>4, <1>5
<1>7. all[k + 1].needs \subseteq entities
  <2>1. CASE k = 0
    BY <1>2, <1>6, <2>1 DEF Ordered
  <2>2. CASE k # 0
    <3>1. k + 1 # 1 /\ 1 \in 1..k
      BY <1>4, <2>2
    <3>2. all[k + 1].needs \subseteq all[1].nodes
      BY <1>2, <1>6, <3>1 DEF Ordered
    <3> QED  BY <1>4, <3>1, <3>2
  <2> QED  BY <2>1, <2>2
<1>8. all[k + 1].null => k + 1 = Len(all)
  BY <1>2, <1>6 DEF Ordered
<1>9. \A i \in 1..Len(Tail(statements)) : /\ i + 1 \in 1..Len(statements)
                                          /\ k + (i + 1) = (k + 1) + i
  BY <1>4, <1>5
<1>10. \A i \in 1..Len(Tail(statements)) : Tail(statements)[i] = all[(k + 1) + i]
  BY <1>4, <1>5, <1>9
<1>11. (k + 1) + Len(Tail(statements)) = Len(all) /\ k + 1 \in Nat
  BY <1>4, <1>5
<1> QED  BY <1>5, <1>6, <1>7, <1>8, <1>10, <1>11 DEF all

\* When nothing is left, all of it is stored.
LEMMA NothingLeft ==
  ASSUME HandInv, inHand # NoRow, statements = <<>>
  PROVE  Stored(inHand)
<1> DEFINE all == StatementsOf(inHand)
<1>1. PICK k : PartlyStored(inHand, k)
  BY DEF HandInv
<1>2. Len(all) \in Nat /\ DOMAIN all = 1..Len(all)
  BY StatementsOrdered, SequenceFacts DEF Ordered, HandInv
<1>3. k = Len(all)
  BY <1>1, <1>2 DEF PartlyStored
<1>4. \A i \in DOMAIN all : all[i].nodes \subseteq entities /\ all[i].links \subseteq links
  BY <1>1, <1>2, <1>3 DEF PartlyStored
<1> QED  BY <1>4 DEF Stored, Elements

\* A statement that cannot succeed is the last, so the others are stored.
LEMMA NullIsLast ==
  ASSUME HandInv, statements # <<>>, Head(statements).null
  PROVE  Stored(inHand)
<1> DEFINE all == StatementsOf(inHand)
<1>1. inHand # NoRow
  BY DEF HandInv
<1>2. PICK k : PartlyStored(inHand, k)
  BY <1>1 DEF HandInv
<1>3. /\ Head(statements) = all[k + 1] /\ k + 1 = Len(all)
  BY <1>2, NextMatches
<1>4. Len(all) \in Nat /\ DOMAIN all = 1..Len(all) /\ k \in Nat
  BY <1>1, <1>2, StatementsOrdered, SequenceFacts DEF Ordered, HandInv, PartlyStored
<1>5. \A i \in DOMAIN all : i \in 1..k \/ i = k + 1
  BY <1>3, <1>4
<1>6. \A i \in 1..k : all[i].nodes \subseteq entities /\ all[i].links \subseteq links
  BY <1>2 DEF PartlyStored
<1>7. all[k + 1].null
  BY <1>3
<1> QED  BY <1>5, <1>6, <1>7 DEF Stored, Elements

\* A table that is opened: its rows are rows, and to come.
LEMMA OpenReads ==
  ASSUME ReadInv, NEW t, Open(t)
  PROVE  /\ \A x \in unread' : IsRow(x[2])
         /\ \A row \in read' : (row \in read /\ t # 1) \/ \E x \in unread' : x[2] = row
         /\ \A row \in read' : IsRow(row)
<1> DEFINE there == {r \in Sources : TableOf[r] = t /\ rows[r] # NoRow}
<1>1. /\ unread' = {<<r, rows[r]>> : r \in there}
      /\ read' = (IF t = 1 THEN {} ELSE read) \cup {rows[r] : r \in there}
  BY DEF Open
<1>2. \A r \in there : IsRow(rows[r]) /\ <<r, rows[r]>>[2] = rows[r]
  BY DEF ReadInv
<1> HIDE DEF there
<1>3. \A x \in unread' : IsRow(x[2])
  BY <1>1, <1>2
<1>4. \A row \in read' : (row \in read /\ t # 1) \/ \E r \in there : row = rows[r]
  BY <1>1
<1>5. \A r \in there : <<r, rows[r]>> \in unread'
  BY <1>1
<1> QED  BY <1>2, <1>3, <1>4, <1>5 DEF ReadInv

LEMMA BackfillStarts == BackfillInit => BackfillInv
<1> SUFFICES ASSUME BackfillInit PROVE BackfillInv
  OBVIOUS
<1>1. ASSUME NEW r \in Sources, rows[r] # NoRow  PROVE IsRow(rows[r])
  BY <1>1, BackfillConstants DEF BackfillInit, IsRow, NoRow
<1> QED  BY <1>1 DEF BackfillInit, BackfillInv, HandInv, ReadInv

\* BackfillInv is inductive.
LEMMA BackfillKeeps == BackfillInv /\ [BackfillNext]_backfillVars => BackfillInv'
<1> SUFFICES ASSUME BackfillInv, [BackfillNext]_backfillVars PROVE BackfillInv'
  OBVIOUS
<1> USE DEF BackfillInv
<1>0. /\ entities \subseteq entities' /\ links \subseteq links'
      /\ \A row : Stored(row) => Stored(row)'
  BY StoredForGood
<1>1. ASSUME NEW r \in Sources, EditRow(r)  PROVE BackfillInv'
  <2>1. /\ \E c \in Contents[r] : rows' = [rows EXCEPT ![r] = c]
        /\ UNCHANGED <<entities, links, stage, unread, statements, inHand, read, hurt>>
    BY <1>1 DEF EditRow
  <2>2. ASSUME NEW q \in Sources, rows'[q] # NoRow  PROVE IsRow(rows'[q])
    <3>1. rows'[q] = rows[q] \/ rows'[q] \in Contents[q]
      BY <2>1
    <3> QED  BY <2>2, <3>1, BackfillConstants DEF ReadInv, IsRow, NoRow
  <2>3. HandInv'
    BY <2>1 DEF HandInv, PartlyStored
  <2>4. ReadInv'
    BY <2>1, <2>2 DEF ReadInv
  <2> QED  BY <1>0, <2>1, <2>3, <2>4
<1>2. CASE StartBackfill
  <2>1. /\ stage \in {0, 6} /\ Open(1) /\ stage' = 1
        /\ UNCHANGED <<rows, entities, links, statements, inHand>>
    BY <1>2 DEF StartBackfill, Open
  <2>2. inHand = NoRow
    BY <2>1 DEF ReadInv
  <2>3. ReadInv'
    BY <2>1, OpenReads DEF ReadInv
  <2>4. HandInv'
    BY <2>1, <2>2 DEF HandInv
  <2>5. \A row \in read' : \E x \in unread' : x[2] = row
    BY <2>1, OpenReads
  <2> QED  BY <2>3, <2>4, <2>5
<1>3. CASE TakeRow
  <2>1. PICK x \in unread : /\ unread' = unread \ {x} /\ inHand' = x[2]
                            /\ statements' = StatementsOf(x[2])
    BY <1>3 DEF TakeRow
  <2>2. /\ stage \in 1..5 /\ inHand = NoRow
        /\ UNCHANGED <<rows, entities, links, stage, read, hurt>>
    BY <1>3 DEF TakeRow
  <2>3. IsRow(x[2]) /\ Ordered(StatementsOf(x[2]))
    BY StatementsOrdered DEF ReadInv
  <2>4. IsSequence(statements') /\ Len(statements') \in Nat
    BY <2>1, <2>3, SequenceFacts DEF Ordered
  <2>5. PartlyStored(x[2], 0)'
    BY <2>1, <2>4 DEF PartlyStored
  <2>6. HandInv'
    BY <2>1, <2>3, <2>4, <2>5 DEF HandInv, IsRow
  <2>7. ReadInv'
    BY <2>1, <2>2 DEF ReadInv
  <2>8. ASSUME NEW row, \E y \in unread : y[2] = row
        PROVE  row = inHand' \/ \E y \in unread' : y[2] = row
    BY <2>1, <2>8
  <2>9. ASSUME stage' # 0, ~hurt', NEW row \in read'
        PROVE  Stored(row)' \/ row = inHand' \/ \E y \in unread' : y[2] = row
    <3>1. Stored(row) \/ row = inHand \/ \E y \in unread : y[2] = row
      BY <2>2, <2>9
    <3>2. row # inHand
      BY <2>2, <2>9 DEF ReadInv, IsRow
    <3> QED  BY <1>0, <2>8, <3>1, <3>2
  <2> QED  BY <2>6, <2>7, <2>9
<1>4. CASE Execute
  <2> DEFINE s == Head(statements)
             all == StatementsOf(inHand)
  <2>1. /\ statements # <<>> /\ ~s.null /\ statements' = Tail(statements)
        /\ entities' = (IF s.needs \subseteq entities THEN entities \cup s.nodes ELSE entities)
        /\ links' = (IF s.needs \subseteq entities THEN links \cup s.links ELSE links)
        /\ UNCHANGED <<rows, stage, unread, inHand, read, hurt>>
    BY <1>4 DEF Execute
  <2>2. inHand # NoRow /\ IsRow(inHand)
    BY <2>1 DEF HandInv
  <2>3. PICK k : PartlyStored(inHand, k)
    BY <2>2 DEF HandInv
  <2>4. /\ s = all[k + 1] /\ s.needs \subseteq entities
        /\ IsSequence(statements') /\ k + 1 \in Nat
        /\ (k + 1) + Len(statements') = Len(all)
        /\ \A i \in 1..Len(statements') : statements'[i] = all[(k + 1) + i]
    BY <2>1, <2>3, NextMatches
  <2>5. entities' = entities \cup s.nodes /\ links' = links \cup s.links
    BY <2>1, <2>4
  <2> HIDE DEF s, all
  <2>6. \A i \in 1..(k + 1) : ~all[i].null /\ all[i].nodes \subseteq entities' /\ all[i].links \subseteq links'
    <3>1. \A i \in 1..(k + 1) : i \in 1..k \/ i = k + 1
      BY <2>3 DEF PartlyStored
    <3>2. \A i \in 1..k : ~all[i].null /\ all[i].nodes \subseteq entities /\ all[i].links \subseteq links
      BY <2>3 DEF PartlyStored, all
    <3> QED  BY <2>1, <2>4, <2>5, <3>1, <3>2
  <2>7. PartlyStored(inHand, k + 1)'
    BY <2>1, <2>4, <2>6 DEF PartlyStored, all
  <2>8. HandInv'
    BY <2>1, <2>2, <2>4, <2>7 DEF HandInv
  <2>9. ReadInv'
    BY <2>1 DEF ReadInv
  <2> QED  BY <1>0, <2>1, <2>8, <2>9
<1>5. CASE RowDone \/ NullRaises
  <2>1. /\ inHand' = NoRow /\ statements' = <<>>
        /\ UNCHANGED <<rows, entities, links, stage, unread, read, hurt>>
    BY <1>5 DEF RowDone, NullRaises, LeaveRow
  <2>2. Stored(inHand)
    BY <1>5, NothingLeft, NullIsLast DEF RowDone, NullRaises
  <2>3. HandInv' /\ ReadInv'
    BY <2>1 DEF HandInv, ReadInv
  <2> QED  BY <1>0, <2>1, <2>2, <2>3
<1>6. CASE StatementFails
  <2>1. /\ inHand' = NoRow /\ statements' = <<>> /\ hurt'
        /\ UNCHANGED <<rows, entities, links, stage, unread, read>>
    BY <1>6 DEF StatementFails, LeaveRow
  <2> QED  BY <2>1 DEF HandInv, ReadInv
<1>7. CASE TableDone
  <2>1. /\ stage \in 1..5 /\ inHand = NoRow /\ unread = {}
        /\ UNCHANGED <<rows, entities, links, statements, inHand, hurt>>
    BY <1>7 DEF TableDone
  <2>2. HandInv'
    BY <2>1 DEF HandInv
  <2>3. CASE stage = 5
    <3>1. stage' = 6 /\ UNCHANGED <<unread, read>>
      BY <1>7, <2>3 DEF TableDone
    <3> QED  BY <1>0, <2>1, <2>2, <2>3, <3>1 DEF ReadInv
  <2>4. CASE stage # 5
    <3>1. Open(stage + 1) /\ stage' = stage + 1 /\ stage' \in 1..5
      BY <1>7, <2>1, <2>4 DEF TableDone, Open
    <3>2. ReadInv'
      BY <2>1, <3>1, OpenReads DEF ReadInv
    <3>3. ASSUME ~hurt', NEW row \in read'
          PROVE  Stored(row)' \/ \E x \in unread' : x[2] = row
      <4>1. row \in read \/ \E x \in unread' : x[2] = row
        BY <3>1, <3>3, OpenReads
      <4>2. CASE row \in read
        <5>1. row # inHand
          BY <2>1, <4>2 DEF ReadInv, IsRow
        <5>2. Stored(row)
          BY <2>1, <3>3, <4>2, <5>1
        <5> QED  BY <1>0, <5>2
      <4> QED  BY <4>1, <4>2
    <3> QED  BY <2>2, <3>2, <3>3
  <2> QED  BY <2>3, <2>4
<1>8. CASE BackfillDies
  <2>1. /\ stage' = 0 /\ unread' = {} /\ inHand' = NoRow /\ statements' = <<>>
        /\ UNCHANGED <<rows, read>>
    BY <1>8 DEF BackfillDies, LeaveRow
  <2> QED  BY <2>1 DEF HandInv, ReadInv
<1>9. CASE UNCHANGED backfillVars
  <2>1. UNCHANGED <<rows, entities, links, stage, unread, statements, inHand, read, hurt>>
    BY <1>9 DEF backfillVars
  <2>2. HandInv' /\ ReadInv'
    BY <2>1 DEF HandInv, PartlyStored, ReadInv
  <2> QED  BY <1>0, <2>1, <2>2
<1> QED  BY <1>1, <1>2, <1>3, <1>4, <1>5, <1>6, <1>7, <1>8, <1>9 DEF BackfillNext

\* A run in which nothing fails by chance leaves all that it read in the graph,
\* for any tables, any aliases and keys, and whatever changed, ended early or was
\* left half done before (run_backfill).
THEOREM CleanRuns == KgSpec => []CleanRunIsComplete
<1>1. BackfillInv => CleanRunIsComplete
  BY DEF BackfillInv, ReadInv, CleanRunIsComplete, Stored, IsRow
<1> QED  BY <1>1, BackfillStarts, BackfillKeeps, PartsRunAlone, PTL DEF BackfillSpec
-----------------------------------------------------------------------------
(* Pruning.  A run stores its predictions long after another may have pruned,
   so the invariant speaks of the runs that are going as well: one older than a
   run that has pruned was going when that one pruned.  A stamp is drawn above
   all earlier ones, so a new run is older than none. *)

\* Stamps are numbers that have been drawn.
StampsOK ==
  /\ stamps \in Nat
  /\ computedAt \in [Workers -> Nat]
  /\ \A w \in Workers : computedAt[w] <= stamps
  /\ predictions \in [AllPairs -> Nat]
  /\ \A r \in DOMAIN beside : r \in Nat /\ r <= stamps

\* A run older than one that has pruned was going when it pruned.
GoingThen ==
  \A w \in Workers, r \in DOMAIN beside :
     computedAt[w] # 0 /\ computedAt[w] < r => computedAt[w] \in beside[r]

PruneInv == StampsOK /\ GoingThen /\ StaleOnlyIfConcurrent

-----------------------------------------------------------------------------
\* No run has pruned at the start.
LEMMA PruneInit == EnrichmentInit => PruneInv
BY DEF EnrichmentInit, PruneInv, StampsOK, GoingThen, StaleOnlyIfConcurrent

\* A run that ends, well or badly, takes its stamp with it.
LEMMA EndKeeps ==
  ASSUME PruneInv, NEW w \in Workers, EndRun(w),
         UNCHANGED <<stamps, predictions, beside>>
  PROVE  PruneInv'
BY DEF PruneInv, StampsOK, GoingThen, StaleOnlyIfConcurrent, EndRun

\* The stamp of a new link prediction is above all that have been drawn.
LEMMA DetectKeeps ==
  ASSUME PruneInv, NEW w \in Workers, Detect(w)
  PROVE  PruneInv'
<1>1. /\ stamps' = stamps + 1
      /\ computedAt' = [computedAt EXCEPT ![w] = stamps + 1]
      /\ UNCHANGED <<predictions, beside>>
  BY DEF Detect
<1>2. StampsOK'
  BY <1>1 DEF PruneInv, StampsOK
<1>3. GoingThen'
  BY <1>1 DEF PruneInv, StampsOK, GoingThen
<1>4. StaleOnlyIfConcurrent'
  BY <1>1 DEF PruneInv, StaleOnlyIfConcurrent
<1> QED  BY <1>2, <1>3, <1>4 DEF PruneInv

\* A run that prunes deletes all that is older than itself, and notes the others.
LEMMA PruneKeeps ==
  ASSUME PruneInv, NEW w \in Workers, Prune(w)
  PROVE  PruneInv'
<1> DEFINE mine == computedAt[w]
           going == {computedAt[v] : v \in Workers}
<1>1. UNCHANGED <<stamps, computedAt>>
  BY DEF Prune
<1>2. predictions' = [p \in AllPairs |-> IF predictions[p] < mine THEN 0 ELSE predictions[p]]
  BY DEF Prune, Stale
<1>3. beside' = [r \in DOMAIN beside \cup {mine} |-> IF r = mine THEN going ELSE beside[r]]
  BY DEF Prune
<1>4. mine \in Nat /\ mine <= stamps
  BY DEF PruneInv, StampsOK
<1>5. StampsOK'
  BY <1>1, <1>2, <1>3, <1>4 DEF PruneInv, StampsOK
<1>6. GoingThen'
  BY <1>1, <1>3 DEF PruneInv, GoingThen
<1>7. StaleOnlyIfConcurrent'
  <2> SUFFICES ASSUME NEW p \in AllPairs, NEW r \in DOMAIN beside',
                      predictions'[p] # 0, predictions'[p] < r
               PROVE  predictions'[p] \in beside'[r]
    BY DEF StaleOnlyIfConcurrent
  <2>1. predictions'[p] = predictions[p] /\ ~(predictions[p] < mine)
    BY <1>2
  <2>2. r # mine
    BY <2>1
  <2>3. r \in DOMAIN beside /\ beside'[r] = beside[r]
    BY <1>3, <2>2
  <2> QED  BY <2>1, <2>3 DEF PruneInv, StaleOnlyIfConcurrent
<1> QED  BY <1>5, <1>6, <1>7 DEF PruneInv

\* What a run stores has its stamp, and whoever pruned above it knew it.
LEMMA PersistKeeps ==
  ASSUME PruneInv, NEW w \in Workers, Persist(w)
  PROVE  PruneInv'
<1>1. UNCHANGED <<stamps, computedAt, beside>>
  BY DEF Persist
<1>2. predictions' = [p \in AllPairs |-> IF p \in scored[w] THEN computedAt[w] ELSE predictions[p]]
  BY DEF Persist
<1>3. StampsOK' /\ GoingThen'
  BY <1>1, <1>2 DEF PruneInv, StampsOK, GoingThen
<1>4. StaleOnlyIfConcurrent'
  BY <1>1, <1>2 DEF PruneInv, GoingThen, StaleOnlyIfConcurrent
<1> QED  BY <1>3, <1>4 DEF PruneInv

\* PruneInv is inductive.
LEMMA PruneStep == PruneInv /\ [EnrichmentNext]_enrichmentVars => PruneInv'
<1> SUFFICES ASSUME PruneInv, [EnrichmentNext]_enrichmentVars PROVE PruneInv'
  OBVIOUS
<1>1. CASE UNCHANGED <<stamps, computedAt, predictions, beside>>
  BY <1>1 DEF PruneInv, StampsOK, GoingThen, StaleOnlyIfConcurrent
<1>2. ASSUME NEW w \in Workers, RunFails(w) \/ RecordRun(w) PROVE PruneInv'
  BY <1>2, EndKeeps DEF RunFails, RecordRun
<1>3. ASSUME NEW w \in Workers, Detect(w) \/ Prune(w) \/ Persist(w) PROVE PruneInv'
  BY <1>3, DetectKeeps, PruneKeeps, PersistKeeps
<1>4. ASSUME NEW w \in Workers,
             \/ BeginRun(w) \/ Wait(w) \/ DropProjection(w) \/ Project(w) \/ WriteProperty(w)
             \/ DropAgain(w) \/ FallBack(w) \/ Scored(w)
             \/ \E k \in Kinds : Score(w, k) \/ ScoreNothing(w, k)
      PROVE  UNCHANGED <<stamps, computedAt, predictions, beside>>
  BY <1>4 DEF BeginRun, Wait, DropProjection, Project, WriteProperty, DropAgain, FallBack,
              Scored, Score, ScoreNothing, enrichmentVars
<1>5. CASE LinkPair \/ UNCHANGED enrichmentVars
  BY <1>1, <1>5 DEF LinkPair, enrichmentVars
<1> QED  BY <1>1, <1>2, <1>3, <1>4, <1>5 DEF EnrichmentNext

\* Predictions older than a run that has pruned are of runs that were going at
\* that time, whatever fails, dies or runs beside it (run_link_prediction, _prune_stale_predictions).
THEOREM PruningLasts == KgSpec => []StaleOnlyIfConcurrent
<1>1. PruneInv => StaleOnlyIfConcurrent
  BY DEF PruneInv
<1> QED  BY <1>1, PruneInit, PruneStep, PartsRunAlone, PTL DEF EnrichmentSpec
=============================================================================
