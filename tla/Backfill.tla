------------------------------- MODULE Backfill -------------------------------
(***************************************************************************)
(* ingester/backfill.py: a run copies five tables of the warehouse into    *)
(* the graph, in a fixed order, row by row; ingester/graph_writer.py turns *)
(* a row into statements, each a transaction of its own; the keys that the *)
(* statements merge by come from ingester/normalizer.py.                   *)
(*                                                                         *)
(* A text stands for its trimmed, lower-cased form, which is what the keys *)
(* are made of, and is a sequence of words; <<>> is a text that is empty   *)
(* or missing.  The attributes of a node that no key depends on are left   *)
(* out.                                                                    *)
(***************************************************************************)
EXTENDS Naturals, Sequences, FiniteSets, FiniteSetsExt

CONSTANTS
  Sources,      \* rows that the warehouse may have
  TableOf,      \* the table of a row, 1..5 in the order of run_backfill
  Contents,     \* what a row may say, in the course of time
  FirstRows,    \* what the rows may say at first, NoRow where there is none
  Alias,        \* canonical_map.yaml: the kind and the name of a text it lists
  FirmOfEmail,  \* the firm of an email whose domain is known
  MaxEdits,     \* bound: changes of the warehouse
  MaxMishaps    \* bound: failed statements, and runs that end early

NoRow == [table |-> 0]  \* no row of a source

ASSUME BackfillConstants ==
  /\ TableOf \in [Sources -> 1..5]
  /\ DOMAIN Contents = Sources
  /\ \A r \in Sources : \A c \in Contents[r] :
       c.table = TableOf[r] /\ (c.table = 1 => {Len(c.markets), Len(c.classes)} \subseteq Nat)
  /\ \A f \in FirstRows : DOMAIN f = Sources /\ \A r \in Sources : f[r] \in Contents[r] \cup {NoRow}
  /\ MaxEdits \in Nat
  /\ MaxMishaps \in Nat

VARIABLES
  rows,        \* what each row of the warehouse says, NoRow where there is none
  entities,    \* nodes of the graph: <<label, key>>
  links,       \* its edges: <<node, type, node>>
  stage,       \* the table being copied, 0 before a run and 6 after it
  unread,      \* rows of it that the loop has not come to
  statements,  \* what the row in hand still has to execute
  inHand,      \* the row in hand
  read,        \* history: what the rows said that this run has read
  hurt,        \* history: has a statement of this run failed without a reason?
  merged,      \* history: nodes that a row was given as its own
  edits,
  mishaps

backfillVars ==
  <<rows, entities, links, stage, unread, statements, inHand, read, hurt, merged, edits, mishaps>>

-----------------------------------------------------------------------------
\* Keys (normalizer.py).

Empty == <<>>
Unknown == <<"unknown">>

\* taxonomy_key: an alias gives its canonical name, whatever the kind asked for;
\* a market may be found by dropping leading words; else the text is its own key.
TaxonomyKey(text, kind) ==
  LET Rest(i) == SubSeq(text, i, Len(text))
      found == {i \in 2..Len(text) : Rest(i) \in DOMAIN Alias /\ Alias[Rest(i)].kind = "markets"}
  IN IF text \in DOMAIN Alias THEN Alias[text].name
     ELSE IF kind = "markets" /\ found # {} THEN Alias[Rest(Min(found))].name
     ELSE text

KeyOrUnknown(text, kind) == IF text = Empty THEN Unknown ELSE TaxonomyKey(text, kind)

\* broker_key, broker_key_from_pursuit and broker_key_from_spoc have this in common.
PersonKey(email, name, firm) == IF email # Empty THEN <<"email", email>> ELSE <<"name", name, firm>>

BrokerOf(row) == <<"Broker", PersonKey(row.email, row.name, row.firm)>>

\* broker_key_from_pursuit: the lead goes before the broker it is assigned to.
PursuitBroker(row) ==
  <<"Broker", PersonKey(row.email, IF row.lead # Empty THEN row.lead ELSE row.assigned, row.firm)>>

PropertyOf(row) ==
  <<"Property", IF row.id # Empty THEN <<"id", row.id>> ELSE <<"addr", row.address, row.zip>>>>

LeaseOf(row) ==
  <<"Lease", IF row.lease # Empty THEN <<"id", row.lease>>
             ELSE <<"hash", PropertyOf(row), row.tenant, row.date>>>>

FirmOf(row) ==
  IF row.firm # Empty THEN row.firm
  ELSE IF row.email \in DOMAIN FirmOfEmail THEN FirmOfEmail[row.email] ELSE Empty

-----------------------------------------------------------------------------
\* Statements (graph_writer.py).  A statement merges nodes and edges, unless a
\* node that it only matches is not there; a null in a merge raises.

Statement(needs, made, wired) == [needs |-> needs, nodes |-> made, links |-> wired, null |-> FALSE]

\* upsert_broker
BrokerStatements(row) ==
  LET b == BrokerOf(row)
      f == <<"Firm", FirmOf(row)>>
      Covers(m) == Statement({b}, {<<"Market", m>>}, {<<b, <<"COVERS">>, <<"Market", m>>>>})
      Specializes(c) ==
        Statement({b}, {<<"AssetClass", c>>}, {<<b, <<"SPECIALIZES_IN">>, <<"AssetClass", c>>>>})
  IN <<Statement({}, {b, f}, {<<b, <<"BELONGS_TO">>, f>>})>>
       \o [i \in 1..Len(row.markets) |-> Covers(TaxonomyKey(row.markets[i], "markets"))]
       \o [i \in 1..Len(row.classes) |-> Specializes(TaxonomyKey(row.classes[i], "asset_classes"))]

\* upsert_property
PropertyStatements(row) ==
  LET p == PropertyOf(row)
      sub == <<"Submarket", KeyOrUnknown(row.submarket, "submarkets")>>
      m == <<"Market", KeyOrUnknown(row.market, "markets")>>
      c == <<"AssetClass", KeyOrUnknown(row.class, "asset_classes")>>
      landlord == <<"Landlord", row.owner>>
  IN <<Statement({}, {p, sub, m, c},
                 {<<sub, <<"PART_OF">>, m>>, <<p, <<"LOCATED_IN">>, sub>>, <<p, <<"CLASSIFIED_AS">>, c>>})>>
       \o IF row.owner = Empty THEN <<>>
          ELSE <<Statement({p}, {landlord}, {<<p, <<"OWNED_BY">>, landlord>>})>>

\* upsert_lease
LeaseStatements(row) ==
  LET l == LeaseOf(row)
      p == PropertyOf(row)
      t == <<"Tenant", row.tenant>>
      landlord == <<"Landlord", row.landlord>>
  IN <<Statement({}, {p, t, landlord, l},
                 {<<l, <<"ON">>, p>>, <<l, <<"TENANT_IS">>, t>>, <<l, <<"LANDLORD_IS">>, landlord>>})>>
       \o IF row.name = Empty THEN <<>>
          ELSE <<Statement({l}, {BrokerOf(row)}, {<<l, <<"BROKERED_BY", row.side>>, BrokerOf(row)>>})>>

\* upsert_pursuit: a pursuit without an id is passed over.
PursuitStatements(row) ==
  LET u == <<"Pursuit", row.pursuit>>
      client == <<"Client", row.client>>
      service == <<"ServiceLine", TaxonomyKey(row.line, "service_lines")>>
  IN IF row.pursuit = Empty THEN <<>>
     ELSE <<Statement({}, {client, u}, {<<u, <<"FOR">>, client>>})>>
            \o (IF row.assigned = Empty THEN <<>>
                ELSE <<Statement({u}, {PursuitBroker(row)},
                                 {<<u, <<"ASSIGNED_TO", row.role>>, PursuitBroker(row)>>})>>)
            \o (IF row.line = Empty THEN <<>>
                ELSE <<Statement({u}, {service}, {<<u, <<"HAS_SERVICE_LINE">>, service>>})>>)

\* upsert_spoc: without an asset class the edge is merged by a null.
SpocStatements(row) ==
  LET client == <<"Client", row.client>>
      spoc == <<"SPOC_FOR", KeyOrUnknown(row.line, "service_lines"), TaxonomyKey(row.class, "asset_classes")>>
  IN <<[needs |-> {}, nodes |-> {BrokerOf(row), client},
        links |-> {<<BrokerOf(row), spoc, client>>}, null |-> row.class = Empty]>>

StatementsOf(row) ==
  CASE row.table = 1 -> BrokerStatements(row)
    [] row.table = 2 -> PropertyStatements(row)
    [] row.table = 3 -> LeaseStatements(row)
    [] row.table = 4 -> PursuitStatements(row)
    [] row.table = 5 -> SpocStatements(row)

-----------------------------------------------------------------------------
BackfillInit ==
  /\ rows \in FirstRows
  /\ entities = {} /\ links = {}
  /\ stage = 0 /\ unread = {} /\ statements = <<>> /\ inHand = NoRow
  /\ read = {} /\ hurt = FALSE
  /\ merged = [r \in Sources |-> {}]
  /\ edits = 0 /\ mishaps = 0

\* The warehouse writes a row.
EditRow(r) ==
  /\ edits < MaxEdits
  /\ edits' = edits + 1
  /\ \E c \in Contents[r] \ {rows[r]} : rows' = [rows EXCEPT ![r] = c]
  /\ UNCHANGED <<entities, links, stage, unread, statements, inHand, read, hurt, merged, mishaps>>

\* fetch_all reads a table as it is when its query starts.
Open(t) ==
  LET there == {r \in Sources : TableOf[r] = t /\ rows[r] # NoRow}
  IN /\ stage' = t
     /\ unread' = {<<r, rows[r]>> : r \in there}
     /\ read' = (IF t = 1 THEN {} ELSE read) \cup {rows[r] : r \in there}

\* run_backfill begins; it may be run again at any time after it ended.
StartBackfill ==
  /\ stage \in {0, 6}
  /\ Open(1)
  /\ hurt' = FALSE
  /\ UNCHANGED <<rows, entities, links, statements, inHand, merged, edits, mishaps>>

\* The rows of a table come in any order.
TakeRow ==
  /\ stage \in 1..5 /\ inHand = NoRow
  /\ \E x \in unread :
       /\ unread' = unread \ {x}
       /\ inHand' = x[2]
       /\ statements' = StatementsOf(x[2])
       /\ merged' = [merged EXCEPT ![x[1]] =
                       IF x[2].table = 1 THEN @ \cup {BrokerOf(x[2])} ELSE @]
  /\ UNCHANGED <<rows, entities, links, stage, read, hurt, edits, mishaps>>

LeaveRow == inHand' = NoRow /\ statements' = <<>>

Execute ==
  /\ statements # <<>> /\ ~Head(statements).null
  /\ LET s == Head(statements)
         matched == s.needs \subseteq entities
     IN /\ entities' = IF matched THEN entities \cup s.nodes ELSE entities
        /\ links' = IF matched THEN links \cup s.links ELSE links
  /\ statements' = Tail(statements)
  /\ UNCHANGED <<rows, stage, unread, inHand, read, hurt, merged, edits, mishaps>>

RowDone ==
  /\ inHand # NoRow /\ statements = <<>>
  /\ LeaveRow
  /\ UNCHANGED <<rows, entities, links, stage, unread, read, hurt, merged, edits, mishaps>>

\* Mutant: the exception leaves the loop over the table.
NullEndsTable ==
  /\ statements # <<>> /\ Head(statements).null
  /\ LeaveRow
  /\ unread' = {}
  /\ UNCHANGED <<rows, entities, links, stage, read, hurt, merged, edits, mishaps>>

\* A statement that cannot succeed: the row is logged and left.
NullRaises ==
  /\ statements # <<>> /\ Head(statements).null
  /\ LeaveRow
  /\ UNCHANGED <<rows, entities, links, stage, unread, read, hurt, merged, edits, mishaps>>

\* A statement fails this once: the same.
StatementFails ==
  /\ statements # <<>> /\ mishaps < MaxMishaps
  /\ mishaps' = mishaps + 1
  /\ hurt' = TRUE
  /\ LeaveRow
  /\ UNCHANGED <<rows, entities, links, stage, unread, read, merged, edits>>

TableDone ==
  /\ stage \in 1..5 /\ inHand = NoRow /\ unread = {}
  /\ IF stage = 5 THEN stage' = 6 /\ UNCHANGED <<unread, read>> ELSE Open(stage + 1)
  /\ UNCHANGED <<rows, entities, links, statements, inHand, hurt, merged, edits, mishaps>>

\* The warehouse cannot be read any more, or the process dies.
BackfillDies ==
  /\ stage \in 1..5 /\ mishaps < MaxMishaps
  /\ mishaps' = mishaps + 1
  /\ stage' = 0
  /\ unread' = {}
  /\ LeaveRow
  /\ UNCHANGED <<rows, entities, links, read, hurt, merged, edits>>

BackfillNext ==
  \/ \E r \in Sources : EditRow(r)
  \/ StartBackfill \/ TakeRow \/ Execute \/ RowDone \/ NullRaises \/ StatementFails
  \/ TableDone \/ BackfillDies

BackfillSpec == BackfillInit /\ [][BackfillNext]_backfillVars

-----------------------------------------------------------------------------
Elements(statement) == statement.nodes \cup statement.links

\* A run in which nothing fails by chance leaves every row that it read in the
\* graph with all of its nodes and edges, whatever earlier runs left half done,
\* whatever changes meanwhile, and although some rows fail every time; an edge
\* statement that matches its node never finds it missing.
CleanRunIsComplete ==
  stage = 6 /\ ~hurt => \A row \in read :
     LET all == StatementsOf(row)
     IN \A i \in DOMAIN all : ~all[i].null => Elements(all[i]) \subseteq entities \cup links

\* "re-running backfill never creates duplicate nodes": the node of a broker's
\* row is one, however often the row is copied.
NoDuplicateBrokers == \A r \in Sources : Cardinality(merged[r]) <= 1
===============================================================================
