------------------------------ MODULE Signals ------------------------------
(* Signals of the trading terminal before an order exists: the request that
   ingests one (services/ingestion_service.py) with its deduplication key in
   Redis, the heuristic parser (services/parser_service.py), the deterministic
   gate (services/risk_service.py) with its emergency stop, and the in-memory
   approvals and watchlist of api/routers. Every request has a service object
   of its own: what must last is in the database, in Redis or in a router's
   module.

   A text is the record of what the parser's patterns find in it. Confidence is
   in hundredths; quantities are counted in 1 / Precision of a share. *)
EXTENDS Integers, SequencesExt

CONSTANTS
    Requests,       \* requests to ingest a signal
    Key,            \* [Requests -> Keys]: source and symbol of a request
    Keys,
    Texts,          \* what the patterns find; `first` is the first number, 0 for none
    Proposals,      \* [quantity, entry: Nat \ {0}]
    PositionTables, \* what the positions table may hold: open positions and their value
    PaperCash,      \* settings.paper_initial_cash
    Precision,
    MaxSize, MaxExposure, MaxPositions, MinConfidence, MinReward,  \* settings.risk_*
    HasHaltTable,   \* whether the halt_state table exists: no migration creates it
    Approvals,
    Watched,        \* symbols of the watchlist
    MaxToggles      \* bound on requests of the stop and of the watchlist

ASSUME SignalsAssumption ==
    /\ Key \in [Requests -> Keys]
    /\ Texts \subseteq [ticker : BOOLEAN, dollar : BOOLEAN, stop : Nat, target : Nat,
                        first : Nat, long : BOOLEAN, buys : Nat, sells : Nat]
    /\ Proposals \subseteq [quantity : Nat \ {0}, entry : Nat \ {0}]
    /\ PositionTables \subseteq [open : Nat, value : Nat]
    /\ {PaperCash, Precision} \subseteq Nat \ {0}
    /\ HasHaltTable \in BOOLEAN
    /\ {MaxSize, MaxExposure, MaxPositions, MinConfidence, MinReward, MaxToggles} \subseteq Nat

VARIABLES
    ingest,     \* where the request that ingests a signal is
    dedup,       \* the deduplication keys that Redis holds
    signals,    \* the signals table, by the request or the text a row comes from
    decision,   \* the last answer of /evaluate or /override
    stop,       \* what the last caller of /emergency-stop was told
    halted,     \* what /status says: the table's row, or that of a new object
    approval,
    watchlist,
    toggles

signalsVars == <<ingest, dedup, signals, decision, stop, halted, approval, watchlist, toggles>>

Sources == Requests \cup Texts
NoSignal == [saved |-> FALSE]
NoDecision == [verdict |-> "none"]

SignalsInit ==
    /\ ingest = [r \in Requests |-> "idle"]
    /\ dedup = {}
    /\ signals = [s \in Sources |-> NoSignal]
    /\ decision = NoDecision
    /\ stop = FALSE
    /\ halted = FALSE
    /\ approval = [a \in Approvals |-> "none"]
    /\ watchlist = <<>>
    /\ toggles = 0

-----------------------------------------------------------------------------
(* IngestionService.ingest_signal: look the key up, save, publish, set the key.
   Redis may fail at either call; a failing database ends the request. *)

LookUp(r) ==
    /\ ingest[r] = "idle"
    /\ \/ Key[r] \in dedup /\ ingest' = [ingest EXCEPT ![r] = "duplicate"]
       \/ Key[r] \notin dedup /\ ingest' = [ingest EXCEPT ![r] = "looked"]
    /\ UNCHANGED <<dedup, signals, decision, stop, halted, approval, watchlist, toggles>>

LookUpFails(r) ==
    /\ ingest[r] = "idle"
    /\ ingest' = [ingest EXCEPT ![r] = "looked"]
    /\ UNCHANGED <<dedup, signals, decision, stop, halted, approval, watchlist, toggles>>

\* A row of this request is always a purchase of confidence 0.5.
Ingested ==
    [saved |-> TRUE, direction |-> "buy", confidence |-> 50, strength |-> "moderate",
     stop |-> 0, target |-> 0]

\* A request that sets its key before it saves.
MarkThenSave(r) ==
    /\ ingest[r] = "looked"
    /\ dedup' = dedup \cup {Key[r]}
    /\ \/ /\ signals' = [signals EXCEPT ![r] = Ingested]
          /\ ingest' = [ingest EXCEPT ![r] = "saved"]
       \/ /\ ingest' = [ingest EXCEPT ![r] = "failed"]
          /\ UNCHANGED signals
    /\ UNCHANGED <<decision, stop, halted, approval, watchlist, toggles>>

Save(r) ==
    /\ ingest[r] = "looked"
    /\ \/ /\ signals' = [signals EXCEPT ![r] = Ingested]
          /\ ingest' = [ingest EXCEPT ![r] = "saved"]
       \/ /\ ingest' = [ingest EXCEPT ![r] = "failed"]
          /\ UNCHANGED signals
    /\ UNCHANGED <<dedup, decision, stop, halted, approval, watchlist, toggles>>

Mark(r) ==
    /\ ingest[r] = "saved"
    /\ ingest' = [ingest EXCEPT ![r] = "done"]
    /\ \/ dedup' = dedup \cup {Key[r]}
       \/ UNCHANGED dedup
    /\ UNCHANGED <<signals, decision, stop, halted, approval, watchlist, toggles>>

\* The key has a time to live of 300 seconds.
Expire(k) ==
    /\ k \in dedup
    /\ dedup' = dedup \ {k}
    /\ UNCHANGED <<ingest, signals, decision, stop, halted, approval, watchlist, toggles>>

-----------------------------------------------------------------------------
(* ParserService.parse_message. PRICE_RE takes the first number of the text as
   the entry, the one after "stop" or "target" too. *)

If(condition, points) == IF condition THEN points ELSE 0

ComputeConfidence(t) ==
    30 + If(t.ticker, 20) + If(t.dollar, 10) + If(t.first > 0, 15) + If(t.stop > 0, 10)
       + If(t.target > 0, 10) + If(t.long, 5)

Strength(confidence) ==
    IF confidence >= 70 THEN "strong" ELSE IF confidence >= 50 THEN "moderate" ELSE "weak"

ExtractDirection(t) == IF t.sells > t.buys THEN "sell" ELSE "buy"

ParseMessage(t) ==
    /\ t.ticker /\ ~signals[t].saved
    /\ signals' = [signals EXCEPT ![t] =
          [saved |-> TRUE, direction |-> ExtractDirection(t), confidence |-> ComputeConfidence(t),
           strength |-> Strength(ComputeConfidence(t)), stop |-> t.stop, target |-> t.target]]
    /\ UNCHANGED <<ingest, dedup, decision, stop, halted, approval, watchlist, toggles>>

-----------------------------------------------------------------------------
(* RiskService.evaluate_signal. Its cash is the configured one, its loss of the
   day that of a new object, zero, and its positions those of a table that no
   code of the terminal writes. Trade values are scaled by 100 * Precision. *)

Distance(a, b) == IF a > b THEN a - b ELSE b - a
Nearest(a, b) == (2 * a + b) \div (2 * b)

PortfolioValue(positions) == PaperCash + positions.value
LargestTrade(positions) == PortfolioValue(positions) * MaxSize * Precision

Worth(p) == p.quantity * p.entry * 100
Oversized(p, positions) == Worth(p) > LargestTrade(positions)
TradeValue(p, positions) ==
    IF Oversized(p, positions) THEN LargestTrade(positions) ELSE Worth(p)

\* The quantity that was asked for.
AsProposed(p, positions) == p.quantity

Resized(p, positions) ==
    IF Oversized(p, positions) THEN Nearest(LargestTrade(positions), 100 * p.entry)
                               ELSE p.quantity

Rewarding(s, p) ==
    s.stop > 0 /\ s.target > 0 /\ s.stop # p.entry
       => Distance(s.target, p.entry) * 100 >= MinReward * Distance(p.entry, s.stop)

RejectedBecause(s, p, positions) ==
    {why \in {"confidence", "positions", "exposure", "reward", "cash"} :
        CASE why = "confidence" -> s.confidence < MinConfidence
          [] why = "positions"  -> positions.open >= MaxPositions
          [] why = "exposure"   -> positions.value * 100 * Precision + TradeValue(p, positions)
                                      > PortfolioValue(positions) * MaxExposure * Precision
          [] why = "reward"     -> ~Rewarding(s, p)
          [] why = "cash"       -> s.direction = "buy"
                                      /\ TradeValue(p, positions) > PaperCash * 95 * Precision}

Evaluate(s, p, positions) ==
    /\ signals[s].saved
    /\ decision' =
          IF RejectedBecause(signals[s], p, positions) = {}
          THEN [verdict |-> "approved", direction |-> signals[s].direction, entry |-> p.entry,
                quantity |-> Resized(p, positions), positions |-> positions]
          ELSE [verdict |-> "rejected"]
    /\ UNCHANGED <<ingest, dedup, signals, stop, halted, approval, watchlist, toggles>>

\* /override approves whatever was decided, and the object that notes it ends
\* with the request.
OverrideDecision ==
    /\ decision.verdict = "rejected"
    /\ decision' = [verdict |-> "overridden"]
    /\ UNCHANGED <<ingest, dedup, signals, stop, halted, approval, watchlist, toggles>>

\* The service object that hears of the stop ends with its request; a failing
\* write to the table is logged and the answer is the same.
ActivateEmergencyStop ==
    /\ ~stop /\ toggles < MaxToggles
    /\ stop' = TRUE
    /\ halted' = HasHaltTable
    /\ toggles' = toggles + 1
    /\ UNCHANGED <<ingest, dedup, signals, decision, approval, watchlist>>

DeactivateEmergencyStop ==
    /\ stop
    /\ stop' = FALSE
    /\ halted' = FALSE
    /\ UNCHANGED <<ingest, dedup, signals, decision, approval, watchlist, toggles>>

-----------------------------------------------------------------------------
(* The lists that routers keep in their module. *)

CreateApproval(a) ==
    /\ approval[a] = "none"
    /\ approval' = [approval EXCEPT ![a] = "PENDING"]
    /\ UNCHANGED <<ingest, dedup, signals, decision, stop, halted, watchlist, toggles>>

\* Whatever it was before.
ResolveApproval(a, answer) ==
    /\ approval[a] # "none"
    /\ approval' = [approval EXCEPT ![a] = answer]
    /\ UNCHANGED <<ingest, dedup, signals, decision, stop, halted, watchlist, toggles>>

AddToWatchlist(w) ==
    /\ ~Contains(watchlist, w) /\ toggles < MaxToggles
    /\ watchlist' = Append(watchlist, w)
    /\ toggles' = toggles + 1
    /\ UNCHANGED <<ingest, dedup, signals, decision, stop, halted, approval>>

RemoveFromWatchlist(w) ==
    /\ Contains(watchlist, w)
    /\ watchlist' = SelectSeq(watchlist, LAMBDA x : x # w)
    /\ UNCHANGED <<ingest, dedup, signals, decision, stop, halted, approval, toggles>>

IntakeNext ==
    \/ \E r \in Requests : LookUp(r) \/ LookUpFails(r) \/ Save(r) \/ Mark(r)
    \/ \E k \in Keys : Expire(k)
    \/ \E t \in Texts : ParseMessage(t)
    \/ \E s \in Sources, p \in Proposals, positions \in PositionTables : Evaluate(s, p, positions)
    \/ OverrideDecision

ListsNext ==
    \/ ActivateEmergencyStop \/ DeactivateEmergencyStop
    \/ \E a \in Approvals : CreateApproval(a) \/ ResolveApproval(a, "APPROVED")
                                              \/ ResolveApproval(a, "REJECTED")
    \/ \E w \in Watched : AddToWatchlist(w) \/ RemoveFromWatchlist(w)

SignalsNext == IntakeNext \/ ListsNext

SignalsSpec == SignalsInit /\ [][SignalsNext]_signalsVars

-----------------------------------------------------------------------------
(* Properties. *)

\* A client that is told "duplicate" is right: a row of that source and symbol
\* was saved before, whatever fails on the way and whichever of several
\* concurrent requests wrote the key (IngestionService.ingest_signal).
NoSignalLost ==
    \A r \in Requests : ingest[r] = "duplicate"
       => \E q \in Requests : Key[q] = Key[r] /\ signals[q].saved

\* What the gate approves respects its own limits: the quantity it recommends,
\* resized or not, is worth no more than the largest position (but for the
\* rounding to four decimals), keeps the exposure of the positions table under
\* its limit, and a purchase leaves a twentieth of the configured cash
\* (RiskService.evaluate_signal goes on with the resized trade).
ApprovedFits ==
    decision.verdict = "approved" =>
       LET table == decision.positions
           rounding == 50 * decision.entry
           value == decision.quantity * decision.entry * 100
       IN  /\ value <= LargestTrade(table) + rounding
           /\ table.value * 100 * Precision + value
                 <= PortfolioValue(table) * MaxExposure * Precision + rounding
           /\ decision.direction = "buy" => value <= PaperCash * 95 * Precision + rounding
           /\ table.open < MaxPositions

\* After "activated", and until it is deactivated, /status shows the stop
\* (RiskService.activate_emergency_stop: "Activate trading halt.").
StopIsShown == stop => halted
=============================================================================
