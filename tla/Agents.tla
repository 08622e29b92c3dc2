------------------------------- MODULE Agents -------------------------------
(* The strategy agents of the trading terminal (services/strategies): each
   fetches a feed of Unusual Whales, skips what it has seen, filters the rest
   and enqueues the first few signals for the execution worker. Nothing else
   reads an agent's state, so a scan may be taken item by item. Items are known by
   their places in the feed: a set of places is a list in the feed's order. *)
EXTENDS Naturals, Sequences, FiniteSetsExt

CONSTANTS
    Feed,         \* [agents -> Seq(items)]: all that its API ever answers, in order
    Slice,        \* [agents -> Nat]: how many signals of a scan are emitted
    SeenLimit,    \* 5000 of the flow scanner, 10000 of the dark pool agent
    SeenKept,     \* 2000 and 3000
    MinPrints,    \* prints of one ticker for a dark pool cluster
    MinPremium,   \* their total premium
    MaxScans,     \* bound on scans
    MaxCrashes    \* bound on restarts of the application

\* An item: its deduplication key, its ticker, whether it passes the filters, and
\* whether a signal can be made of it (an earnings row needs a last price).
Item == [id : STRING, ticker : STRING, fits : BOOLEAN, whole : BOOLEAN, premium : Nat]

Scanners == DOMAIN Feed
Places(a) == DOMAIN Feed[a]
Ids(a) == {Feed[a][n].id : n \in Places(a)}
AllIds == UNION {Ids(a) : a \in Scanners}

ASSUME AgentsAssumption ==
    /\ \A a \in Scanners : Feed[a] \in Seq(Item)
    /\ Slice \in [Scanners -> Nat]
    /\ {SeenLimit, SeenKept, MinPrints, MinPremium, MaxScans, MaxCrashes} \subseteq Nat
    /\ SeenKept < SeenLimit
    /\ \A a, b \in Scanners : a # b => Ids(a) \cap Ids(b) = {}   \* each has keys of its own kind

VARIABLES
    phase,      \* where the run loop of each agent is
    rest,       \* the items of the answer that are still to be looked at
    seen,       \* its set of keys
    found,      \* the new items of this scan that passed the filters
    emitting,   \* the signals still to be enqueued
    emitted,    \* history: how often the item of a key was enqueued
    forgotten,  \* history: how often a key was dropped from a set of seen ones
    scans,
    crashes

agentsVars == <<phase, rest, seen, found, emitting, emitted, forgotten, scans, crashes>>

AgentsInit ==
    /\ phase = [a \in Scanners |-> "asleep"]
    /\ rest = [a \in Scanners |-> {}]
    /\ seen = [a \in Scanners |-> {}]
    /\ found = [a \in Scanners |-> {}]
    /\ emitting = [a \in Scanners |-> {}]
    /\ emitted = [i \in AllIds |-> 0]
    /\ forgotten = [i \in AllIds |-> 0]
    /\ scans = 0
    /\ crashes = 0

-----------------------------------------------------------------------------
\* The API answers with some of its items; an error is an empty answer.
Fetch(a) ==
    /\ phase[a] = "asleep" /\ scans < MaxScans
    /\ \E answer \in SUBSET Places(a) : rest' = [rest EXCEPT ![a] = answer]
    /\ phase' = [phase EXCEPT ![a] = "scanning"]
    /\ found' = [found EXCEPT ![a] = {}]
    /\ scans' = scans + 1
    /\ UNCHANGED <<seen, emitting, emitted, forgotten, crashes>>

\* The flow, congress and dark pool agents mark whatever is new, the earnings and
\* squeeze agents only what passes their filter.
Marks(a, item) == a \in {"flow", "congress", "darkpool"} \/ item.fits

\* list(set)[-n:] keeps any SeenKept keys of a set that grew past the limit.
Kept(keys) == IF Cardinality(keys) > SeenLimit THEN kSubset(SeenKept, keys) ELSE {keys}

\* A scanner that marks only what its filters refuse.
SeenAfterRefusal(a, item) == IF item.fits THEN {seen[a]} ELSE {seen[a] \cup {item.id}}

\* The flow scanner prunes while it loops.
SeenAfter(a, item) ==
    IF ~Marks(a, item) THEN {seen[a]}
    ELSE IF a = "flow" THEN Kept(seen[a] \cup {item.id}) ELSE {seen[a] \cup {item.id}}

\* The keys that were marked and are not kept.
Dropping(marked, keys) ==
    forgotten' = [i \in AllIds |-> forgotten[i] + (IF i \in marked \ keys THEN 1 ELSE 0)]

Look(a) ==
    /\ phase[a] = "scanning" /\ rest[a] # {}
    /\ LET n == Min(rest[a])
           item == Feed[a][n]
       IN  /\ rest' = [rest EXCEPT ![a] = @ \ {n}]
           /\ IF item.id \in seen[a]
              THEN UNCHANGED <<seen, found, forgotten>>
              ELSE \E keys \in SeenAfter(a, item) :
                      /\ seen' = [seen EXCEPT ![a] = keys]
                      /\ Dropping(IF seen[a] \subseteq keys THEN {} ELSE seen[a] \cup {item.id}, keys)
                      /\ found' = IF item.fits /\ item.whole
                                  THEN [found EXCEPT ![a] = @ \cup {n}] ELSE found
    /\ UNCHANGED <<phase, emitting, emitted, scans, crashes>>

\* The dark pool agent makes one signal of the new prints of a ticker.
OfTicker(a, t) == {n \in found[a] : Feed[a][n].ticker = t}
Cluster(a, t) ==
    /\ Cardinality(OfTicker(a, t)) >= MinPrints
    /\ MapThenSumSet(LAMBDA n : Feed[a][n].premium, OfTicker(a, t)) >= MinPremium
FirstPrints(a) ==
    {n \in found[a] : LET t == Feed[a][n].ticker IN Cluster(a, t) /\ n = Min(OfTicker(a, t))}

Signalled(a) == IF a = "darkpool" THEN FirstPrints(a) ELSE found[a]
Sliced(a) == {n \in Signalled(a) : Cardinality({m \in Signalled(a) : m <= n}) <= Slice[a]}

\* The end of the scan: the signals past the slice are dropped, their keys seen.
Choose(a) ==
    /\ phase[a] = "scanning" /\ rest[a] = {}
    /\ phase' = [phase EXCEPT ![a] = "emitting"]
    /\ emitting' = [emitting EXCEPT ![a] = Sliced(a)]
    /\ \E keys \in IF a = "darkpool" THEN Kept(seen[a]) ELSE {seen[a]} :
          /\ seen' = [seen EXCEPT ![a] = keys]
          /\ Dropping(seen[a], keys)
    /\ UNCHANGED <<rest, found, emitted, scans, crashes>>

\* emit_signal enqueues; a Redis error ends the loop over the signals.
Emit(a) ==
    /\ phase[a] = "emitting" /\ emitting[a] # {}
    /\ LET n == Min(emitting[a])
       IN  \/ /\ emitted' = [emitted EXCEPT ![Feed[a][n].id] = @ + 1]
              /\ emitting' = [emitting EXCEPT ![a] = @ \ {n}]
           \/ /\ emitting' = [emitting EXCEPT ![a] = {}]
              /\ UNCHANGED emitted
    /\ UNCHANGED <<phase, rest, seen, found, forgotten, scans, crashes>>

Sleep(a) ==
    /\ phase[a] = "emitting" /\ emitting[a] = {}
    /\ phase' = [phase EXCEPT ![a] = "asleep"]
    /\ found' = [found EXCEPT ![a] = {}]
    /\ UNCHANGED <<rest, seen, emitting, emitted, forgotten, scans, crashes>>

\* The application starts again: every set of seen keys is empty.
CrashAgents ==
    /\ crashes < MaxCrashes
    /\ crashes' = crashes + 1
    /\ phase' = [a \in Scanners |-> "asleep"]
    /\ rest' = [a \in Scanners |-> {}]
    /\ found' = [a \in Scanners |-> {}]
    /\ emitting' = [a \in Scanners |-> {}]
    /\ seen' = [a \in Scanners |-> {}]
    /\ Dropping(UNION {seen[a] : a \in Scanners}, {})
    /\ UNCHANGED <<emitted, scans>>

AgentsNext ==
    \/ \E a \in Scanners : Fetch(a) \/ Look(a) \/ Choose(a) \/ Emit(a) \/ Sleep(a)
    \/ CrashAgents

AgentsSpec == AgentsInit /\ [][AgentsNext]_agentsVars

-----------------------------------------------------------------------------
\* One item is traded once, however often a feed repeats it: a second signal of
\* the same key needs the agent to have forgotten it, in a restart or by pruning
\* its set (the "deduplicate" sets of services/strategies).
RepeatedWasForgotten == \A i \in AllIds : emitted[i] <= 1 + forgotten[i]
=============================================================================
