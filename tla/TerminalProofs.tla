--------------------------- MODULE TerminalProofs ---------------------------
(* What holds of the trading terminal for any requests, limits, trades and
   tickers. The parts take turns, so each invariant is about one part: its own
   steps preserve it, and the steps of the others leave its variables alone. *)
EXTENDS Terminal, InductionFacts, FiniteSetTheorems

-----------------------------------------------------------------------------
\* The parts of the terminal do not disturb each other.
LEMMA PartsTakeTurns ==
  ASSUME [TerminalNext]_terminalVars
  PROVE  /\ OrdersNext \/ UNCHANGED ordersVars
         /\ SignalsNext \/ UNCHANGED signalsVars
         /\ AgentsNext \/ UNCHANGED agentsVars
         /\ ToolsNext \/ UNCHANGED toolsVars
         /\ WorkerNext \/ UNCHANGED workerVars
<1>1. CASE TerminalNext
  BY <1>1 DEF TerminalNext, OrdersStep, IntakeStep, ListsStep, AgentsStep, ToolsStep,
              WorkerStep, SignalsNext
<1>2. CASE UNCHANGED terminalVars
  BY <1>2 DEF terminalVars
<1> QED  BY <1>1, <1>2

-----------------------------------------------------------------------------
(* Signals: no signal is lost. A key is in Redis only after a row with it was  *)
(* saved, and rows stay.                                                       *)

Stages == {"idle", "looked", "saved", "failed", "done", "duplicate"}

\* What was saved stays saved, and every key has a row.
KeysInv ==
  /\ ingest \in [Requests -> Stages]
  /\ DOMAIN signals = Sources
  /\ \A r \in Requests : ingest[r] = "saved" => signals[r].saved
  /\ \A k \in dedup : \E q \in Requests : Key[q] = k /\ signals[q].saved
  /\ NoSignalLost

\* A step that loses no row, and sets no key of which there is none.
LEMMA KeysFrame ==
  ASSUME KeysInv, ingest' \in [Requests -> Stages], DOMAIN signals' = Sources,
         \A r \in Requests : signals[r].saved => signals'[r].saved,
         \A r \in Requests : ingest'[r] = "saved" => signals'[r].saved,
         \A k \in dedup' : k \in dedup \/ \E q \in Requests : Key[q] = k /\ signals'[q].saved,
         \A r \in Requests : ingest'[r] = "duplicate" => ingest[r] = "duplicate" \/ Key[r] \in dedup
  PROVE  KeysInv'
<1>1. \A k \in dedup : \E q \in Requests : Key[q] = k /\ signals'[q].saved
  BY DEF KeysInv
<1>2. \A k \in dedup' : \E q \in Requests : Key[q] = k /\ signals'[q].saved
  BY <1>1
<1>3. ASSUME NEW r \in Requests, ingest'[r] = "duplicate"
      PROVE  \E q \in Requests : Key[q] = Key[r] /\ signals'[q].saved
  <2>1. CASE ingest[r] = "duplicate"
    BY <2>1 DEF KeysInv, NoSignalLost
  <2>2. CASE Key[r] \in dedup
    BY <1>1, <2>2
  <2> QED  BY <1>3, <2>1, <2>2
<1> QED  BY <1>2, <1>3 DEF KeysInv, NoSignalLost

\* KeysInv is inductive.
LEMMA KeysStep ==
  ASSUME KeysInv, SignalsNext \/ UNCHANGED signalsVars
  PROVE  KeysInv'
<1>1. /\ ingest \in [Requests -> Stages] /\ DOMAIN signals = Sources
      /\ \A r \in Requests : ingest[r] = "saved" => signals[r].saved
  BY DEF KeysInv
<1>2. ASSUME NEW r \in Requests, LookUp(r) \/ LookUpFails(r)
      PROVE  KeysInv'
  <2>1. UNCHANGED <<dedup, signals>>
    BY <1>2 DEF LookUp, LookUpFails
  <2>2. \/ ingest' = [ingest EXCEPT ![r] = "duplicate"] /\ Key[r] \in dedup
        \/ ingest' = [ingest EXCEPT ![r] = "looked"]
    BY <1>2 DEF LookUp, LookUpFails
  <2>3. ingest' \in [Requests -> Stages]
    BY <1>1, <2>2 DEF Stages
  <2>4. \A q \in Requests : ingest'[q] \in {"saved", "duplicate"} =>
          ingest'[q] = ingest[q] \/ (q = r /\ ingest'[q] = "duplicate" /\ Key[r] \in dedup)
    BY <1>1, <2>2
  <2> QED  BY <1>1, <2>1, <2>3, <2>4, KeysFrame
<1>3. ASSUME NEW r \in Requests, Save(r)
      PROVE  KeysInv'
  <2>1. UNCHANGED dedup
    BY <1>3 DEF Save
  <2>2. CASE signals' = [signals EXCEPT ![r] = Ingested] /\ ingest' = [ingest EXCEPT ![r] = "saved"]
    <3>1. signals'[r].saved /\ \A q \in Requests \ {r} : signals'[q] = signals[q]
      BY <1>1, <2>2 DEF Sources, Ingested
    <3>2. ingest' \in [Requests -> Stages] /\ \A q \in Requests \ {r} : ingest'[q] = ingest[q]
      BY <1>1, <2>2 DEF Stages
    <3>3. ingest'[r] = "saved"
      BY <1>1, <2>2
    <3>4. DOMAIN signals' = Sources
      BY <1>1, <2>2
    <3> QED  BY <1>1, <2>1, <3>1, <3>2, <3>3, <3>4, KeysFrame
  <2>3. CASE UNCHANGED signals /\ ingest' = [ingest EXCEPT ![r] = "failed"]
    <3>1. ingest' \in [Requests -> Stages] /\ \A q \in Requests \ {r} : ingest'[q] = ingest[q]
      BY <1>1, <2>3 DEF Stages
    <3>2. ingest'[r] = "failed"
      BY <1>1, <2>3
    <3> QED  BY <1>1, <2>1, <2>3, <3>1, <3>2, KeysFrame
  <2> QED  BY <1>3, <2>2, <2>3 DEF Save
<1>4. ASSUME NEW r \in Requests, Mark(r)
      PROVE  KeysInv'
  <2>1. /\ ingest[r] = "saved" /\ UNCHANGED signals /\ dedup' \subseteq dedup \cup {Key[r]}
        /\ ingest' = [ingest EXCEPT ![r] = "done"]
    BY <1>4 DEF Mark
  <2>2. signals[r].saved
    BY <1>1, <2>1
  <2>3. ingest' \in [Requests -> Stages] /\ \A q \in Requests \ {r} : ingest'[q] = ingest[q]
    BY <1>1, <2>1 DEF Stages
  <2>4. ingest'[r] = "done"
    BY <1>1, <2>1
  <2> QED  BY <1>1, <2>1, <2>2, <2>3, <2>4, KeysFrame
<1>5. ASSUME NEW k \in Keys, Expire(k)
      PROVE  KeysInv'
  <2>1. UNCHANGED <<ingest, signals>> /\ dedup' \subseteq dedup
    BY <1>5 DEF Expire
  <2> QED  BY <1>1, <2>1, KeysFrame
<1>6. ASSUME NEW t \in Texts, ParseMessage(t)
      PROVE  KeysInv'
  <2>1. UNCHANGED <<ingest, dedup>>
    BY <1>6 DEF ParseMessage
  <2> DEFINE parsed == [saved |-> TRUE, direction |-> ExtractDirection(t),
                        confidence |-> ComputeConfidence(t),
                        strength |-> Strength(ComputeConfidence(t)),
                        stop |-> t.stop, target |-> t.target]
  <2>2. signals' = [signals EXCEPT ![t] = parsed] /\ parsed.saved
    BY <1>6 DEF ParseMessage
  <2> HIDE DEF parsed
  <2>3. \A q \in Requests : signals[q].saved => signals'[q].saved
    BY <1>1, <2>2 DEF Sources
  <2>4. DOMAIN signals' = Sources
    BY <1>1, <2>2
  <2> QED  BY <1>1, <2>1, <2>3, <2>4, KeysFrame
<1>7. CASE UNCHANGED <<ingest, dedup, signals>>
  BY <1>1, <1>7, KeysFrame
<1>8. CASE \/ \E s \in Sources, p \in Proposals, positions \in PositionTables : Evaluate(s, p, positions)
           \/ OverrideDecision
           \/ ListsNext
           \/ UNCHANGED signalsVars
  BY <1>7, <1>8 DEF Evaluate, OverrideDecision, ListsNext, ActivateEmergencyStop,
     DeactivateEmergencyStop, CreateApproval, ResolveApproval, AddToWatchlist,
     RemoveFromWatchlist, signalsVars
<1> QED  BY <1>2, <1>3, <1>4, <1>5, <1>6, <1>8 DEF SignalsNext, IntakeNext

\* For any requests, sources and symbols, and whatever Redis and the database do:
\* the client of a request that is answered "duplicate" finds a row.
THEOREM DuplicatesHaveRows == TerminalSpec => []NoSignalLost
<1>1. TerminalInit => KeysInv
  BY DEF TerminalInit, SignalsInit, KeysInv, Stages, NoSignalLost, NoSignal
<1>2. KeysInv /\ [TerminalNext]_terminalVars => KeysInv'
  BY PartsTakeTurns, KeysStep
<1>3. KeysInv => NoSignalLost
  BY DEF KeysInv
<1> QED  BY <1>1, <1>2, <1>3, PTL DEF TerminalSpec

-----------------------------------------------------------------------------
(* Signals: what the gate approves. The rounded quantity of a resized trade is *)
(* worth half of the last decimal more than the largest trade at most.         *)

LEMMA DivisionRounds ==
  ASSUME NEW a \in Nat, NEW b \in Nat \ {0}
  PROVE  (a \div b) \in Nat /\ (a \div b) * b <= a
OBVIOUS

LEMMA ProductType ==
  ASSUME NEW a \in Nat, NEW b \in Nat
  PROVE  a * b \in Nat
OBVIOUS

LEMMA NearestRounds ==
  ASSUME NEW a \in Nat, NEW entry \in Nat \ {0}
  PROVE  /\ Nearest(a, 100 * entry) \in Nat
         /\ Nearest(a, 100 * entry) * entry * 100 <= a + 50 * entry
<1> DEFINE k == Nearest(a, 100 * entry)
           b == 2 * (100 * entry)
<1>1. b \in Nat \ {0} /\ 2 * a + 100 * entry \in Nat
  OBVIOUS
<1>2. k \in Nat /\ k * b <= 2 * a + 100 * entry
  BY <1>1, DivisionRounds DEF Nearest
<1>3. k * b = 2 * (k * entry * 100)
  <2> HIDE DEF k
  <2> QED  BY <1>2
<1>4. k * entry * 100 \in Nat
  <2> HIDE DEF k
  <2> QED  BY <1>2, ProductType
<1> HIDE DEF k, b
<1>5. k * entry * 100 <= a + 50 * entry
  BY <1>2, <1>3, <1>4
<1> QED  BY <1>2, <1>5 DEF k

LEMMA Limits ==
  ASSUME NEW positions \in PositionTables
  PROVE  /\ positions.value \in Nat
         /\ LargestTrade(positions) \in Nat
         /\ positions.value * 100 * Precision \in Nat
         /\ PortfolioValue(positions) * MaxExposure * Precision \in Nat
         /\ PaperCash * 95 * Precision \in Nat
<1>1. /\ positions.value \in Nat /\ PaperCash \in Nat /\ Precision \in Nat
      /\ MaxSize \in Nat /\ MaxExposure \in Nat
  BY SignalsAssumption
<1>2. PortfolioValue(positions) \in Nat
  BY <1>1 DEF PortfolioValue
<1>3. PortfolioValue(positions) * MaxSize \in Nat /\ PortfolioValue(positions) * MaxExposure \in Nat
      /\ positions.value * 100 \in Nat /\ PaperCash * 95 \in Nat
  BY <1>1, <1>2, ProductType
<1> QED  BY <1>1, <1>3, ProductType DEF LargestTrade

\* The quantity that is recommended is worth what the limits were checked for.
LEMMA RecommendedWorth ==
  ASSUME NEW p \in Proposals, NEW positions \in PositionTables
  PROVE  LET value == Resized(p, positions) * p.entry * 100
         IN  /\ value \in Nat
             /\ TradeValue(p, positions) \in Nat
             /\ TradeValue(p, positions) <= LargestTrade(positions)
             /\ value <= TradeValue(p, positions) + 50 * p.entry
<1>1. p.entry \in Nat \ {0} /\ p.quantity \in Nat
  BY SignalsAssumption
<1>2. LargestTrade(positions) \in Nat
  BY Limits
<1>3. Worth(p) \in Nat
  BY <1>1, ProductType DEF Worth
<1>4. CASE Oversized(p, positions)
  <2>1. /\ Resized(p, positions) = Nearest(LargestTrade(positions), 100 * p.entry)
        /\ TradeValue(p, positions) = LargestTrade(positions)
    BY <1>4 DEF Resized, TradeValue
  <2>2. /\ Nearest(LargestTrade(positions), 100 * p.entry) \in Nat
        /\ Nearest(LargestTrade(positions), 100 * p.entry) * p.entry * 100
              <= LargestTrade(positions) + 50 * p.entry
    BY <1>1, <1>2, NearestRounds
  <2>3. Resized(p, positions) * p.entry * 100 \in Nat
    BY <1>1, <2>1, <2>2, ProductType
  <2> QED  BY <1>2, <2>1, <2>2, <2>3
<1>5. CASE ~Oversized(p, positions)
  <2>1. /\ Resized(p, positions) * p.entry * 100 = Worth(p)
        /\ TradeValue(p, positions) = Worth(p)
    BY <1>5 DEF Resized, TradeValue, Worth
  <2>2. Worth(p) <= LargestTrade(positions)
    BY <1>2, <1>3, <1>5 DEF Oversized
  <2> QED  BY <1>1, <1>2, <1>3, <2>1, <2>2
<1> QED  BY <1>4, <1>5

\* An evaluation.
LEMMA EvaluateFits ==
  ASSUME NEW s \in Sources, NEW p \in Proposals, NEW positions \in PositionTables,
         Evaluate(s, p, positions)
  PROVE  ApprovedFits'
<1>1. CASE RejectedBecause(signals[s], p, positions) # {}
  BY <1>1 DEF Evaluate, ApprovedFits
<1>2. CASE RejectedBecause(signals[s], p, positions) = {}
  <2> DEFINE value == Resized(p, positions) * p.entry * 100
             traded == TradeValue(p, positions)
             limit == PortfolioValue(positions) * MaxExposure * Precision
             held == positions.value * 100 * Precision
             paid == PaperCash * 95 * Precision
             rounding == 50 * p.entry
  <2>1. /\ decision'.direction = signals[s].direction /\ decision'.entry = p.entry
        /\ decision'.quantity = Resized(p, positions) /\ decision'.positions = positions
    BY <1>2 DEF Evaluate
  <2>2. /\ "positions" \notin RejectedBecause(signals[s], p, positions)
        /\ "exposure" \notin RejectedBecause(signals[s], p, positions)
        /\ "cash" \notin RejectedBecause(signals[s], p, positions)
    BY <1>2
  <2>3. ~(positions.open >= MaxPositions)
    BY <2>2 DEF RejectedBecause
  <2>4. ~(held + traded > limit)
    BY <2>2 DEF RejectedBecause
  <2>5. signals[s].direction = "buy" => ~(traded > paid)
    BY <2>2 DEF RejectedBecause
  <2>6. positions.open \in Nat /\ MaxPositions \in Nat /\ rounding \in Nat
    BY SignalsAssumption
  <2>7. limit \in Nat /\ held \in Nat /\ paid \in Nat /\ LargestTrade(positions) \in Nat
    BY Limits
  <2>8. value \in Nat /\ traded \in Nat /\ traded <= LargestTrade(positions)
        /\ value <= traded + rounding
    BY RecommendedWorth
  <2> HIDE DEF value, traded, limit, held, paid, rounding
  <2>9. /\ value <= LargestTrade(positions) + rounding
        /\ held + value <= limit + rounding
        /\ signals[s].direction = "buy" => value <= paid + rounding
        /\ positions.open < MaxPositions
    BY <2>3, <2>4, <2>5, <2>6, <2>7, <2>8
  <2> QED  BY <2>1, <2>9 DEF ApprovedFits, value, limit, held, paid, rounding
<1> QED  BY <1>1, <1>2

\* For any limits, proposals and positions: what is approved fits them.
THEOREM ApprovalsFit == TerminalSpec => []ApprovedFits
<1>1. TerminalInit => ApprovedFits
  BY DEF TerminalInit, SignalsInit, NoDecision, ApprovedFits
<1>2. ApprovedFits /\ [TerminalNext]_terminalVars => ApprovedFits'
  <2> SUFFICES ASSUME ApprovedFits, [TerminalNext]_terminalVars  PROVE ApprovedFits'
    OBVIOUS
  <2>1. CASE UNCHANGED decision
    BY <2>1 DEF ApprovedFits
  <2>2. CASE OverrideDecision
    BY <2>2 DEF OverrideDecision, ApprovedFits
  <2>3. \/ UNCHANGED decision \/ OverrideDecision
        \/ \E s \in Sources, p \in Proposals, positions \in PositionTables :
              Evaluate(s, p, positions)
    BY PartsTakeTurns DEF SignalsNext, IntakeNext, ListsNext, LookUp, LookUpFails, Save, Mark,
       Expire, ParseMessage, ActivateEmergencyStop, DeactivateEmergencyStop, CreateApproval,
       ResolveApproval, AddToWatchlist, RemoveFromWatchlist, signalsVars
  <2> QED  BY <2>1, <2>2, <2>3, EvaluateFits
<1> QED  BY <1>1, <1>2, PTL DEF TerminalSpec

-----------------------------------------------------------------------------
(* The tools of the Robinhood subprocess: what each leaves behind.             *)

Counts == [Tickers -> Nat]
Servers == [paper : BOOLEAN, login : BOOLEAN, late : BOOLEAN, strays : Nat,
            shares : Counts, contracts : Counts, stops : Counts]

\* From s to after, no ticker has gained more than n.
Gains(s, after, n) == \A t \in Tickers : Holdings(after, t) <= Holdings(s, t) + n

\* A new server, and a restarted one, hold nothing that was not there.
LEMMA NewServerType ==
  ASSUME NEW paper \in BOOLEAN
  PROVE  NewServer(paper) \in Servers
BY DEF NewServer, Servers, Counts, Zero

LEMMA RestartedFacts ==
  ASSUME NEW s \in Servers
  PROVE  /\ Restarted(s) \in Servers
         /\ Restarted(s).paper = s.paper
         /\ Gains(s, Restarted(s), 0)
         /\ s.paper => \A t \in Tickers : Holdings(Restarted(s), t) = 0
         /\ ~s.paper => ~Served(Restarted(s)) /\ Restarted(s).strays = s.strays
<1>1. CASE s.paper
  <2>1. Restarted(s) = NewServer(TRUE) /\ Restarted(s) \in Servers
    BY <1>1, NewServerType DEF Restarted
  <2>2. \A t \in Tickers : Holdings(Restarted(s), t) = 0
    BY <2>1 DEF NewServer, Zero, Holdings
  <2>3. \A t \in Tickers : s.shares[t] \in Nat /\ s.contracts[t] \in Nat
    BY DEF Servers, Counts
  <2>4. Gains(s, Restarted(s), 0)
    BY <2>2, <2>3 DEF Gains, Holdings
  <2>5. Restarted(s).paper = TRUE /\ s.paper = TRUE
    BY <1>1, <2>1 DEF NewServer, Servers
  <2> QED  BY <2>1, <2>2, <2>4, <2>5
<1>2. CASE ~s.paper
  <2>1. Restarted(s) = [s EXCEPT !.login = FALSE, !.late = FALSE]
    BY <1>2 DEF Restarted
  <2>2. /\ Restarted(s) \in Servers /\ ~Restarted(s).paper /\ ~Restarted(s).login
        /\ Restarted(s).shares = s.shares /\ Restarted(s).contracts = s.contracts
        /\ Restarted(s).strays = s.strays
    BY <1>2, <2>1 DEF Servers
  <2>3. \A t \in Tickers : s.shares[t] \in Nat /\ s.contracts[t] \in Nat
    BY DEF Servers, Counts
  <2>4. Restarted(s).paper = FALSE /\ s.paper = FALSE
    BY <1>2, <2>2 DEF Servers
  <2>5. Gains(s, Restarted(s), 0) /\ ~Served(Restarted(s))
    BY <2>2, <2>3 DEF Gains, Holdings, Served
  <2> QED  BY <2>2, <2>4, <2>5
<1> QED  BY <1>1, <1>2

\* A step of an order leaves the server as it was, or as the order makes it; a
\* server without a session refuses.
LEMMA OrderedFacts ==
  ASSUME NEW s \in Servers, NEW after \in Servers, NEW o \in Ordered(s, after)
  PROVE  /\ o.server \in {s, after}
         /\ ~Served(s) => o.server = s
BY DEF Ordered, Answer, Refused, Served

\* Each tool of the worker keeps the type and the mode of the server, prints nothing
\* by itself, and gains one of what it buys at most, on a server that it serves.
SoundTool(s, outcomes, n) == \A o \in outcomes :
  /\ o.server \in Servers
  /\ o.server.paper = s.paper
  /\ o.server.strays = s.strays
  /\ Gains(s, o.server, n)
  /\ n = 0 \/ Served(s) \/ o.server = s

LEMMA GainsMost ==
  ASSUME NEW s \in Servers
  PROVE  Gains(s, s, 0) /\ Gains(s, s, 1)
BY DEF Gains, Holdings, Servers, Counts

LEMMA OrderedSound ==
  ASSUME NEW s \in Servers, NEW after \in Servers, after.paper = s.paper,
         after.strays = s.strays, NEW n \in {0, 1}, Gains(s, after, n)
  PROVE  SoundTool(s, Ordered(s, after), n)
BY OrderedFacts, GainsMost DEF SoundTool

LEMMA BuyStockSound ==
  ASSUME NEW s \in Servers, NEW t \in Tickers
  PROVE  SoundTool(s, BuyStock(s, t), 1)
<1> DEFINE after == [s EXCEPT !.shares[t] = IF s.paper THEN 1 ELSE @ + 1]
<1>1. /\ s.shares \in [Tickers -> Nat] /\ s.contracts \in [Tickers -> Nat]
      /\ \A u \in Tickers : s.shares[u] \in Nat /\ s.contracts[u] \in Nat
  BY DEF Servers, Counts
<1>2. after \in Servers /\ after.paper = s.paper /\ after.contracts = s.contracts
  BY <1>1 DEF Servers, Counts
<1>7. after.strays = s.strays
  BY <1>1 DEF Servers
<1>3. \A u \in Tickers : after.shares[u] <= s.shares[u] + 1
  BY <1>1 DEF Servers
<1>4. \A u \in Tickers : after.shares[u] \in Nat
  BY <1>2 DEF Servers, Counts
<1> HIDE DEF after
<1>5. Gains(s, after, 1)
  BY <1>1, <1>2, <1>3, <1>4 DEF Gains, Holdings
<1>6. BuyStock(s, t) = Ordered(s, after)
  BY DEF BuyStock, after
<1> QED  BY <1>2, <1>5, <1>6, <1>7, OrderedSound

LEMMA BuyOptionSound ==
  ASSUME NEW s \in Servers, NEW t \in Tickers
  PROVE  SoundTool(s, BuyOption(s, t), 1)
<1> DEFINE after == IF s.paper THEN s ELSE [s EXCEPT !.contracts[t] = @ + 1]
<1>1. /\ s.shares \in [Tickers -> Nat] /\ s.contracts \in [Tickers -> Nat]
      /\ \A u \in Tickers : s.shares[u] \in Nat /\ s.contracts[u] \in Nat
  BY DEF Servers, Counts
<1>2. after \in Servers /\ after.paper = s.paper /\ after.shares = s.shares
  BY <1>1 DEF Servers, Counts
<1>7. after.strays = s.strays
  BY <1>1 DEF Servers
<1>3. \A u \in Tickers : after.contracts[u] <= s.contracts[u] + 1
  BY <1>1 DEF Servers
<1>4. \A u \in Tickers : after.contracts[u] \in Nat
  BY <1>2 DEF Servers, Counts
<1> HIDE DEF after
<1>5. Gains(s, after, 1)
  BY <1>1, <1>2, <1>3, <1>4 DEF Gains, Holdings
<1>6. BuyOption(s, t) = Ordered(s, after)
  BY DEF BuyOption, after
<1> QED  BY <1>2, <1>5, <1>6, <1>7, OrderedSound

LEMMA ClosePositionSound ==
  ASSUME NEW s \in Servers, NEW t \in Tickers
  PROVE  SoundTool(s, ClosePosition(s, t), 0)
<1>1. CASE s.shares[t] = 0
  BY <1>1, GainsMost DEF ClosePosition, SoundTool, Answer, Refused
<1>2. CASE s.shares[t] # 0
  <2> DEFINE after == [s EXCEPT !.shares[t] = IF s.paper THEN 0 ELSE @ - 1]
  <2>1. /\ s.shares \in [Tickers -> Nat] /\ s.contracts \in [Tickers -> Nat]
        /\ \A u \in Tickers : s.shares[u] \in Nat /\ s.contracts[u] \in Nat
    BY DEF Servers, Counts
  <2>2. after \in Servers /\ after.paper = s.paper /\ after.contracts = s.contracts
    BY <1>2, <2>1 DEF Servers, Counts
  <2>7. after.strays = s.strays
    BY <2>1 DEF Servers
  <2>3. \A u \in Tickers : after.shares[u] <= s.shares[u]
    BY <2>1 DEF Servers
  <2>4. \A u \in Tickers : after.shares[u] \in Nat
    BY <2>2 DEF Servers, Counts
  <2> HIDE DEF after
  <2>5. Gains(s, after, 0)
    BY <2>1, <2>2, <2>3, <2>4 DEF Gains, Holdings
  <2>6. ClosePosition(s, t) = Ordered(s, after)
    BY <1>2 DEF ClosePosition, after
  <2> QED  BY <2>2, <2>5, <2>6, <2>7, OrderedSound
<1> QED  BY <1>1, <1>2

LEMMA QuoteSound ==
  ASSUME NEW s \in Servers
  PROVE  SoundTool(s, Quote(s), 0)
BY GainsMost DEF SoundTool, Quote, Answer, Refused

LEMMA LoginFacts ==
  ASSUME NEW s \in Servers, NEW o \in Login(s)
  PROVE  /\ o.server \in Servers
         /\ o.server.paper = s.paper
         /\ o.server.strays = s.strays
         /\ o.server.shares = s.shares
         /\ o.server.contracts = s.contracts
         /\ o.server.stops = s.stops
<1>1. o.server \in {s, [s EXCEPT !.login = TRUE]}
  BY DEF Login, Answer, Refused
<1>2. [s EXCEPT !.login = TRUE] \in Servers
  BY DEF Servers
<1> QED  BY <1>1, <1>2 DEF Servers

LEMMA LoginSound ==
  ASSUME NEW s \in Servers
  PROVE  SoundTool(s, Login(s), 0)
<1> SUFFICES ASSUME NEW o \in Login(s)  PROVE Gains(s, o.server, 0)
  BY LoginFacts DEF SoundTool
<1>1. Gains(s, s, 0) /\ o.server.shares = s.shares /\ o.server.contracts = s.contracts
  BY LoginFacts, GainsMost
<1> QED  BY <1>1 DEF Gains, Holdings

-----------------------------------------------------------------------------
(* Three attempts. Live, the server that follows a death has no session and    *)
(* refuses; in paper mode it holds nothing: an order that was carried out is   *)
(* carried out again only on a server that printed a line and lives, and each  *)
(* such line counts.                                                           *)

Allowed(n, k) == IF n = 0 THEN 0 ELSE k

\* Between two attempts of a call that began on s: each line printed may have bought
\* once, and so may the attempt that ended the session.
Between(s, d, n) ==
  /\ d \in Servers /\ d.paper = s.paper
  /\ \/ Gains(s, d, Allowed(n, d.strays))
     \/ ~Served(d) /\ Gains(s, d, Allowed(n, d.strays + 1))

\* What an attempt that answers, or the last one that raises, leaves.
Ended(s, after, n) ==
  /\ after \in Servers /\ after.paper = s.paper
  /\ Gains(s, after, Allowed(n, after.strays + 1))

LEMMA HoldingsType ==
  ASSUME NEW s \in Servers
  PROVE  s.strays \in Nat /\ \A t \in Tickers : Holdings(s, t) \in Nat
BY DEF Servers, Counts, Holdings

LEMMA GainsAdd ==
  ASSUME NEW s \in Servers, NEW x \in Servers, NEW y \in Servers,
         NEW n \in Nat, NEW k \in Nat, NEW m \in Nat, n + k <= m, Gains(s, x, n), Gains(x, y, k)
  PROVE  Gains(s, y, m)
<1>1. \A t \in Tickers : Holdings(s, t) \in Nat /\ Holdings(x, t) \in Nat /\ Holdings(y, t) \in Nat
  BY HoldingsType
<1> QED  BY <1>1 DEF Gains

\* An attempt that answers.
LEMMA AttemptAnswers ==
  ASSUME NEW s \in Servers, NEW n \in {0, 1}, NEW d, Between(s, d, n),
         NEW outcomes, SoundTool(d, outcomes, n), NEW o \in outcomes
  PROVE  Ended(s, o.server, n)
<1>1. d \in Servers /\ d.paper = s.paper
  BY DEF Between
<1>2. /\ o.server \in Servers /\ o.server.paper = d.paper /\ o.server.strays = d.strays
      /\ Gains(d, o.server, n)
      /\ n = 0 \/ Served(d) \/ o.server = d
  BY DEF SoundTool
<1>3. d.strays \in Nat
  BY <1>1, HoldingsType
<1>4. CASE Gains(s, d, Allowed(n, d.strays))
  <2>1. Gains(s, o.server, Allowed(n, d.strays + 1))
    BY <1>1, <1>2, <1>3, <1>4, GainsAdd DEF Allowed
  <2> QED  BY <1>1, <1>2, <2>1 DEF Ended
<1>5. CASE ~Served(d) /\ Gains(s, d, Allowed(n, d.strays + 1))
  <2>1. Gains(s, o.server, Allowed(n, d.strays + 1))
    BY <1>1, <1>2, <1>3, <1>5, GainsAdd DEF Allowed
  <2> QED  BY <1>1, <1>2, <2>1 DEF Ended
<1> QED  BY <1>4, <1>5 DEF Between

\* The line counts for what its attempt may have bought.
LEMMA StrayFacts ==
  ASSUME NEW s \in Servers, NEW n \in {0, 1}, NEW x \in Servers, Ended(s, x, n)
  PROVE  Between(s, Stray(x), n)
<1>0. x.strays + 1 \in Nat
  BY DEF Servers
<1>1. /\ Stray(x) \in Servers /\ Stray(x).paper = x.paper /\ Stray(x).strays = x.strays + 1
      /\ Stray(x).shares = x.shares /\ Stray(x).contracts = x.contracts
  BY <1>0 DEF Stray, Servers
<1>2. Gains(s, Stray(x), Allowed(n, x.strays + 1))
  BY <1>1 DEF Ended, Gains, Holdings
<1> QED  BY <1>1, <1>2 DEF Ended, Between

\* So is the death of what is left of an attempt.
LEMMA DeathFacts ==
  ASSUME NEW s \in Servers, NEW n \in {0, 1}, NEW x \in Servers, Ended(s, x, n)
  PROVE  Between(s, Restarted(x), n)
<1>1. /\ Restarted(x) \in Servers /\ Restarted(x).paper = x.paper /\ Gains(x, Restarted(x), 0)
      /\ x.paper => \A t \in Tickers : Holdings(Restarted(x), t) = 0
      /\ ~x.paper => ~Served(Restarted(x)) /\ Restarted(x).strays = x.strays
  BY RestartedFacts
<1>2. CASE x.paper
  <2>1. Gains(s, Restarted(x), Allowed(n, Restarted(x).strays))
    BY <1>1, <1>2, HoldingsType DEF Gains, Allowed
  <2> QED  BY <1>1, <2>1 DEF Ended, Between
<1>3. CASE ~x.paper
  <2>1. Gains(s, Restarted(x), Allowed(n, x.strays + 1))
    BY <1>1, HoldingsType, GainsAdd DEF Ended, Allowed
  <2> QED  BY <1>1, <1>3, <2>1 DEF Ended, Between
<1> QED  BY <1>2, <1>3

\* An attempt that raises.
LEMMA AttemptFails ==
  ASSUME NEW s \in Servers, NEW n \in {0, 1}, NEW d, Between(s, d, n),
         NEW outcomes, SoundTool(d, outcomes, n), NEW e \in Failed(d, outcomes)
  PROVE  Between(s, e, n)
<1>1. \A o \in outcomes : o.server \in Servers /\ Ended(s, o.server, n)
  BY AttemptAnswers DEF Ended
<1>2. d \in Servers /\ Ended(s, d, n)
  <2>1. d \in Servers /\ d.strays \in Nat /\ Gains(d, d, 0)
    BY HoldingsType, GainsMost DEF Between
  <2>2. CASE Gains(s, d, Allowed(n, d.strays))
    BY <2>1, <2>2, GainsAdd DEF Between, Ended, Allowed
  <2>3. CASE Gains(s, d, Allowed(n, d.strays + 1))
    BY <2>1, <2>3 DEF Between, Ended
  <2> QED  BY <2>2, <2>3 DEF Between
<1>3. \/ e = Restarted(d)
      \/ \E o \in outcomes : e = Restarted(o.server) \/ e = Stray(o.server)
  BY DEF Failed
<1> QED  BY <1>1, <1>2, <1>3, StrayFacts, DeathFacts

\* A call on s: tool gives the outcomes of the tool on the servers of its attempts.
LEMMA CallEnds ==
  ASSUME NEW s \in Servers, s.strays = 0, NEW n \in {0, 1},
         NEW once, NEW twice, NEW thrice, NEW tool, NEW o,
         \A d \in {s} \cup once \cup twice : d \in Servers => SoundTool(d, tool[d], n),
         \A e \in once : e \in Failed(s, tool[s]),
         \A e \in twice : \E d \in once : e \in Failed(d, tool[d]),
         \A e \in thrice : \E d \in twice : e \in Failed(d, tool[d]),
         \/ \E d \in {s} \cup once \cup twice : o \in Read(d, tool[d])
         \/ \E d \in thrice : o = Answer(d, "raised")
  PROVE  Ended(s, o.server, n)
<1>1. Between(s, s, n)
  BY GainsMost DEF Between, Allowed
<1>2. \A e \in once : Between(s, e, n)
  BY <1>1, AttemptFails
<1>3. \A e \in twice : Between(s, e, n)
  BY <1>2, AttemptFails DEF Between
<1>4. \A e \in thrice : Between(s, e, n)
  BY <1>3, AttemptFails DEF Between
<1>5. ASSUME NEW d \in {s} \cup once \cup twice, o \in Read(d, tool[d])
      PROVE  Ended(s, o.server, n)
  <2>1. Between(s, d, n) /\ SoundTool(d, tool[d], n)
    BY <1>1, <1>2, <1>3 DEF Between
  <2>2. \E q \in tool[d] : o.server = q.server
    BY <1>5 DEF Read, Answer
  <2> QED  BY <2>1, <2>2, AttemptAnswers
<1>6. ASSUME NEW d \in thrice, o = Answer(d, "raised")
      PROVE  Ended(s, o.server, n)
  <2>1. Between(s, d, n) /\ o.server = d
    BY <1>4, <1>6 DEF Answer
  <2>2. d \in Servers /\ d.strays \in Nat /\ Gains(d, d, 0)
    BY <2>1, HoldingsType, GainsMost DEF Between
  <2>3. CASE Gains(s, d, Allowed(n, d.strays))
    BY <2>1, <2>2, <2>3, GainsAdd DEF Between, Ended, Allowed
  <2>4. CASE Gains(s, d, Allowed(n, d.strays + 1))
    BY <2>1, <2>2, <2>4 DEF Between, Ended
  <2> QED  BY <2>1, <2>3, <2>4 DEF Between
<1> QED  BY <1>5, <1>6

\* A call counts its lines from none.
Anew(s) == [s EXCEPT !.strays = 0]

LEMMA CountsAnew ==
  ASSUME NEW s \in Servers
  PROVE  /\ Anew(s) \in Servers /\ Anew(s).strays = 0
         /\ \A after, n : Ended(Anew(s), after, n) => Ended(s, after, n)
BY DEF Anew, Servers, Ended, Gains, Holdings

\* The calls of the worker: the order of a trade gains one and one for each line,
\* a quote, a closing and a login nothing.
LEMMA OrderSound ==
  ASSUME NEW s \in Servers, NEW p \in Trades
  PROVE  SoundTool(s, Order(s, p), 1)
<1>1. Ticker[p] \in Tickers
  BY WorkerAssumption
<1> QED  BY <1>1, BuyStockSound, BuyOptionSound DEF Order

LEMMA OrderCalled ==
  ASSUME NEW s \in Servers, NEW used, NEW p \in Trades,
         NEW c \in CalledAfter(s, used, LAMBDA d : Order(d, p))
  PROVE  Ended(s, c.o.server, 1)
<1> DEFINE x == Anew(s)
           once == Failed(x, Order(x, p))
           twice == UNION {Failed(d, Order(d, p)) : d \in once}
           thrice == UNION {Failed(d, Order(d, p)) : d \in twice}
           tool == [d \in {x} \cup once \cup twice |-> Order(d, p)]
<1>1. \/ \E d \in {x} \cup once \cup twice : c.o \in Read(d, Order(d, p))
      \/ \E d \in thrice : c.o = Answer(d, "raised")
  BY DEF CalledAfter, WithRetries, Anew
<1>2. \A d \in {x} \cup once \cup twice : tool[d] = Order(d, p)
  OBVIOUS
<1>3. \A d \in Servers : SoundTool(d, Order(d, p), 1)
  BY OrderSound
<1>4. /\ \A e \in once : e \in Failed(x, tool[x])
      /\ \A e \in twice : \E d \in once : e \in Failed(d, tool[d])
      /\ \A e \in thrice : \E d \in twice : e \in Failed(d, tool[d])
  BY <1>2
<1>5. \/ \E d \in {x} \cup once \cup twice : c.o \in Read(d, tool[d])
      \/ \E d \in thrice : c.o = Answer(d, "raised")
  BY <1>1, <1>2
<1>6. \A d \in {x} \cup once \cup twice : d \in Servers => SoundTool(d, tool[d], 1)
  BY <1>2, <1>3
<1> HIDE DEF x, once, twice, thrice, tool
<1>7. x \in Servers /\ x.strays = 0
  BY CountsAnew DEF x
<1>8. Ended(x, c.o.server, 1)
  BY <1>4, <1>5, <1>6, <1>7, CallEnds
<1> QED  BY <1>8, CountsAnew DEF x

LEMMA QuoteCalled ==
  ASSUME NEW s \in Servers, NEW used,
         NEW c \in CalledAfter(s, used, Quote)
  PROVE  Ended(s, c.o.server, 0)
<1> DEFINE x == Anew(s)
           once == Failed(x, Quote(x))
           twice == UNION {Failed(d, Quote(d)) : d \in once}
           thrice == UNION {Failed(d, Quote(d)) : d \in twice}
           tool == [d \in {x} \cup once \cup twice |-> Quote(d)]
<1>1. \/ \E d \in {x} \cup once \cup twice : c.o \in Read(d, Quote(d))
      \/ \E d \in thrice : c.o = Answer(d, "raised")
  BY DEF CalledAfter, WithRetries, Anew
<1>2. \A d \in {x} \cup once \cup twice : tool[d] = Quote(d)
  OBVIOUS
<1>3. \A d \in Servers : SoundTool(d, Quote(d), 0)
  BY QuoteSound
<1>4. /\ \A e \in once : e \in Failed(x, tool[x])
      /\ \A e \in twice : \E d \in once : e \in Failed(d, tool[d])
      /\ \A e \in thrice : \E d \in twice : e \in Failed(d, tool[d])
  BY <1>2
<1>5. \/ \E d \in {x} \cup once \cup twice : c.o \in Read(d, tool[d])
      \/ \E d \in thrice : c.o = Answer(d, "raised")
  BY <1>1, <1>2
<1>6. \A d \in {x} \cup once \cup twice : d \in Servers => SoundTool(d, tool[d], 0)
  BY <1>2, <1>3
<1> HIDE DEF x, once, twice, thrice, tool
<1>7. x \in Servers /\ x.strays = 0
  BY CountsAnew DEF x
<1>8. Ended(x, c.o.server, 0)
  BY <1>4, <1>5, <1>6, <1>7, CallEnds
<1> QED  BY <1>8, CountsAnew DEF x

LEMMA CloseCalled ==
  ASSUME NEW s \in Servers, NEW used, NEW t \in Tickers,
         NEW c \in CalledAfter(s, used, LAMBDA d : ClosePosition(d, t))
  PROVE  Ended(s, c.o.server, 0)
<1> DEFINE x == Anew(s)
           once == Failed(x, ClosePosition(x, t))
           twice == UNION {Failed(d, ClosePosition(d, t)) : d \in once}
           thrice == UNION {Failed(d, ClosePosition(d, t)) : d \in twice}
           tool == [d \in {x} \cup once \cup twice |-> ClosePosition(d, t)]
<1>1. \/ \E d \in {x} \cup once \cup twice : c.o \in Read(d, ClosePosition(d, t))
      \/ \E d \in thrice : c.o = Answer(d, "raised")
  BY DEF CalledAfter, WithRetries, Anew
<1>2. \A d \in {x} \cup once \cup twice : tool[d] = ClosePosition(d, t)
  OBVIOUS
<1>3. \A d \in Servers : SoundTool(d, ClosePosition(d, t), 0)
  BY ClosePositionSound
<1>4. /\ \A e \in once : e \in Failed(x, tool[x])
      /\ \A e \in twice : \E d \in once : e \in Failed(d, tool[d])
      /\ \A e \in thrice : \E d \in twice : e \in Failed(d, tool[d])
  BY <1>2
<1>5. \/ \E d \in {x} \cup once \cup twice : c.o \in Read(d, tool[d])
      \/ \E d \in thrice : c.o = Answer(d, "raised")
  BY <1>1, <1>2
<1>6. \A d \in {x} \cup once \cup twice : d \in Servers => SoundTool(d, tool[d], 0)
  BY <1>2, <1>3
<1> HIDE DEF x, once, twice, thrice, tool
<1>7. x \in Servers /\ x.strays = 0
  BY CountsAnew DEF x
<1>8. Ended(x, c.o.server, 0)
  BY <1>4, <1>5, <1>6, <1>7, CallEnds
<1> QED  BY <1>8, CountsAnew DEF x

LEMMA LoginCalled ==
  ASSUME NEW s \in Servers, NEW used,
         NEW c \in CalledAfter(s, used, Login)
  PROVE  Ended(s, c.o.server, 0)
<1> DEFINE x == Anew(s)
           once == Failed(x, Login(x))
           twice == UNION {Failed(d, Login(d)) : d \in once}
           thrice == UNION {Failed(d, Login(d)) : d \in twice}
           tool == [d \in {x} \cup once \cup twice |-> Login(d)]
<1>1. \/ \E d \in {x} \cup once \cup twice : c.o \in Read(d, Login(d))
      \/ \E d \in thrice : c.o = Answer(d, "raised")
  BY DEF CalledAfter, WithRetries, Anew
<1>2. \A d \in {x} \cup once \cup twice : tool[d] = Login(d)
  OBVIOUS
<1>3. \A d \in Servers : SoundTool(d, Login(d), 0)
  BY LoginSound
<1>4. /\ \A e \in once : e \in Failed(x, tool[x])
      /\ \A e \in twice : \E d \in once : e \in Failed(d, tool[d])
      /\ \A e \in thrice : \E d \in twice : e \in Failed(d, tool[d])
  BY <1>2
<1>5. \/ \E d \in {x} \cup once \cup twice : c.o \in Read(d, tool[d])
      \/ \E d \in thrice : c.o = Answer(d, "raised")
  BY <1>1, <1>2
<1>6. \A d \in {x} \cup once \cup twice : d \in Servers => SoundTool(d, tool[d], 0)
  BY <1>2, <1>3
<1> HIDE DEF x, once, twice, thrice, tool
<1>7. x \in Servers /\ x.strays = 0
  BY CountsAnew DEF x
<1>8. Ended(x, c.o.server, 0)
  BY <1>4, <1>5, <1>6, <1>7, CallEnds
<1> QED  BY <1>8, CountsAnew DEF x

-----------------------------------------------------------------------------
(* Worker: one order per message.                                              *)

\* What a step of the worker does to the account.
LEMMA ServerStep ==
  ASSUME server \in Servers, WorkerNext \/ UNCHANGED workerVars
  PROVE  server' \in Servers /\ Gains(server, server', 1 + server'.strays)
<1>1. ASSUME Ended(server, server', 0) \/ Ended(server, server', 1)
      PROVE  server' \in Servers /\ Gains(server, server', 1 + server'.strays)
  <2>1. server' \in Servers /\ server'.strays \in Nat
        /\ \A t \in Tickers : Holdings(server, t) \in Nat /\ Holdings(server', t) \in Nat
    BY <1>1, HoldingsType DEF Ended
  <2> QED  BY <1>1, <2>1 DEF Ended, Gains, Allowed
<1>2. CASE UNCHANGED server
  <2>1. Ended(server, server, 0)
    BY GainsMost DEF Ended, Allowed
  <2> QED  BY <1>1, <1>2, <2>1
<1>3. CASE Execute
  <2>1. Head(queue).of \in Trades
    BY <1>3, WorkerAssumption DEF Execute, Dropped
  <2>2. PICK c \in Ordering(Head(queue).of) : server' = c.o.server
    BY <1>3 DEF Execute
  <2>3. Ended(server, c.o.server, 1)
    BY <2>1, OrderCalled DEF Ordering, Called
  <2> QED  BY <1>1, <2>2, <2>3
<1>4. CASE \E p \in Trades : SkipPoll(p) \/ Keep(p)
  <2>1. PICK c \in Quoting : server' = c.o.server
    BY <1>4 DEF SkipPoll, Keep
  <2>2. Ended(server, c.o.server, 0)
    BY QuoteCalled DEF Quoting, Called
  <2> QED  BY <1>1, <2>1, <2>2
<1>5. ASSUME NEW p \in Trades, CloseOpen(p)
      PROVE  server' \in Servers /\ Gains(server, server', 1 + server'.strays)
  <2>1. PICK q \in Quoting : \E c \in Closing(q, p) : server' = c.o.server
    BY <1>5 DEF CloseOpen
  <2>2. Ended(server, q.o.server, 0)
    BY QuoteCalled DEF Quoting, Called
  <2>3. q.o.server \in Servers /\ Ticker[p] \in Tickers
    BY <2>2, WorkerAssumption DEF Ended
  <2>4. Ended(q.o.server, server', 0)
    BY <2>1, <2>3, CloseCalled DEF Closing
  <2>5. Gains(server, server', 0)
    BY <2>2, <2>4, GainsAdd DEF Ended, Allowed
  <2> QED  BY <1>1, <2>2, <2>4, <2>5 DEF Ended, Allowed
<1>6. CASE RestartWorker
  <2>1. PICK c \in CalledAfter(Restarted(server), faults, Login) : server' = c.o.server
    BY <1>6 DEF RestartWorker
  <2>2. /\ Restarted(server) \in Servers /\ Restarted(server).paper = server.paper
        /\ Gains(server, Restarted(server), 0)
    BY RestartedFacts
  <2>3. Ended(Restarted(server), server', 0)
    BY <2>1, <2>2, LoginCalled
  <2>4. Gains(server, server', 0)
    BY <2>2, <2>3, GainsAdd DEF Ended, Allowed
  <2> QED  BY <1>1, <2>2, <2>3, <2>4 DEF Ended, Allowed
<1>7. CASE \/ \E p \in Trades : Enqueue(TradeMessage(p)) \/ Forget(p)
           \/ \E t \in CloseOf : Enqueue(CloseMessage(t))
           \/ Drop \/ SavePosition \/ SaveFails \/ SpawnMonitor
           \/ UNCHANGED workerVars
  BY <1>2, <1>7 DEF Enqueue, Forget, Drop, SavePosition, SaveFails, SpawnMonitor, workerVars
<1> QED  BY <1>3, <1>4, <1>5, <1>6, <1>7 DEF WorkerNext, Monitor

\* The account starts well typed.
LEMMA InitServer == TerminalInit => server \in Servers
<1> SUFFICES ASSUME TerminalInit  PROVE server \in Servers
  OBVIOUS
<1>1. PICK paper \in Modes : \E c \in CalledAfter(NewServer(paper), 0, Login) : server = c.o.server
  BY DEF TerminalInit, WorkerInit
<1>2. NewServer(paper) \in Servers
  BY <1>1, NewServerType, WorkerAssumption
<1>3. PICK c \in CalledAfter(NewServer(paper), 0, Login) : server = c.o.server
  BY <1>1
<1> QED  BY <1>2, <1>3, LoginCalled DEF Ended

\* For any trades, tickers and attempts that raise: no step of the worker leaves more
\* of a ticker on top of what the account had than one share or contract, and one for
\* each line of the subprocess that its call read and that was no answer. A death of
\* the subprocess never makes it buy twice.
THEOREM OneOrderEach == TerminalSpec => OneOrderPerMessage
<1> DEFINE OneMore == \A t \in Tickers :
                         Holdings(server', t) <= Holdings(server, t) + 1 + server'.strays
           Sound == server \in Servers
<1>1. TerminalInit => Sound
  BY InitServer
<1>2. ASSUME Sound, [TerminalNext]_terminalVars
      PROVE  Sound' /\ OneMore
  <2>1. server' \in Servers /\ Gains(server, server', 1 + server'.strays)
    BY <1>2, PartsTakeTurns, ServerStep
  <2>2. server'.strays \in Nat
        /\ \A t \in Tickers : Holdings(server, t) \in Nat /\ Holdings(server', t) \in Nat
    BY <1>2, <2>1, HoldingsType
  <2> QED  BY <2>1, <2>2 DEF Gains
<1>3. Sound /\ [TerminalNext]_terminalVars => Sound' /\ [OneMore]_workerVars
  BY <1>2
<1>4. TerminalSpec => [][OneMore]_workerVars
  <2> HIDE DEF OneMore, Sound
  <2> QED  BY <1>1, <1>3, PTL DEF TerminalSpec
<1> QED  BY <1>4 DEF OneOrderPerMessage

-----------------------------------------------------------------------------
(* Worker: who watches an open position. A message is in the queue once, and a *)
(* trade that was begun is not in it any more.                                 *)

Messages == {TradeMessage(p) : p \in Trades} \cup {CloseMessage(t) : t \in CloseOf}
Begun(p) == p \in open \/ monitor[p] # "none" \/ Handled(p)
Popped(p) == /\ TradeMessage(p) \in sent
             /\ \A i \in 1..Len(queue) : queue[i] # TradeMessage(p)

QueueInv ==
  /\ queue \in Seq(Messages)
  /\ \A i, j \in 1..Len(queue) : queue[i] = queue[j] => i = j
  /\ \A i \in 1..Len(queue) : queue[i] \in sent

WatchInv ==
  /\ handling = Idle \/ handling \in [at : {"recorded", "saved"}, trade : Trades]
  /\ open \subseteq Trades
  /\ monitor \in [Trades -> {"none", "asleep", "closed"}]
  /\ \A p \in Trades : Begun(p) => Popped(p)
  /\ \A p \in Trades : monitor[p] = "closed" => p \notin open
  /\ OpenIsWatched

\* A message that is taken from the queue is in it no more.
LEMMA QueueTail ==
  ASSUME QueueInv, queue # <<>>, queue' = Tail(queue), UNCHANGED sent
  PROVE  /\ QueueInv'
         /\ Head(queue) \in Messages /\ Head(queue) \in sent
         /\ \A i \in 1..Len(queue') : queue'[i] # Head(queue)
         /\ \A m : (\A i \in 1..Len(queue) : queue[i] # m) => \A i \in 1..Len(queue') : queue'[i] # m
<1>1. /\ queue \in Seq(Messages) /\ Len(queue) \in Nat /\ Len(queue) > 0
      /\ Head(queue) = queue[1] /\ queue' \in Seq(Messages) /\ Len(queue') = Len(queue) - 1
      /\ \A i \in 1..Len(queue') : queue'[i] = queue[i + 1]
  BY DEF QueueInv
<1>2. \A i \in 1..Len(queue') : i + 1 \in 1..Len(queue) /\ i + 1 # 1
  BY <1>1
<1>3. \A i, j \in 1..Len(queue') : queue'[i] = queue'[j] => i = j
  BY <1>1, <1>2 DEF QueueInv
<1>4. \A i \in 1..Len(queue') : queue'[i] \in sent'
  BY <1>1, <1>2 DEF QueueInv
<1>5. \A i \in 1..Len(queue') : queue'[i] # Head(queue)
  BY <1>1, <1>2 DEF QueueInv
<1>6. Head(queue) \in Messages /\ Head(queue) \in sent
  BY <1>1 DEF QueueInv
<1> QED  BY <1>1, <1>2, <1>3, <1>4, <1>5, <1>6 DEF QueueInv

\* A message that is sent is new to the queue.
LEMMA QueueAppend ==
  ASSUME QueueInv, NEW m \in Messages, Enqueue(m)
  PROVE  /\ QueueInv'
         /\ m \notin sent /\ sent \subseteq sent'
         /\ \A i \in 1..Len(queue') : queue'[i] = m \/ \E j \in 1..Len(queue) : queue'[i] = queue[j]
<1>1. /\ queue \in Seq(Messages) /\ m \notin sent /\ sent' = sent \cup {m}
      /\ queue' = Append(queue, m)
  BY DEF QueueInv, Enqueue
<1>2. /\ queue' \in Seq(Messages) /\ Len(queue') = Len(queue) + 1 /\ Len(queue) \in Nat
      /\ queue'[Len(queue) + 1] = m
      /\ \A i \in 1..Len(queue) : queue'[i] = queue[i]
  BY <1>1
<1>3. \A i \in 1..Len(queue) : queue[i] # m
  BY <1>1 DEF QueueInv
<1>4. \A i, j \in 1..Len(queue') : queue'[i] = queue'[j] => i = j
  BY <1>2, <1>3 DEF QueueInv
<1>5. \A i \in 1..Len(queue') : queue'[i] \in sent'
  BY <1>1, <1>2 DEF QueueInv
<1> QED  BY <1>1, <1>2, <1>4, <1>5 DEF QueueInv

\* One message is one trade.
LEMMA MessagesDiffer ==
  /\ \A p, q \in Trades : TradeMessage(p) = TradeMessage(q) => p = q
  /\ \A p \in Trades, t \in CloseOf : TradeMessage(p) # CloseMessage(t)
BY DEF TradeMessage, CloseMessage

LEMMA IdleHandlesNone ==
  ASSUME handling = Idle  PROVE \A p : ~Handled(p)
BY DEF Handled, Idle

\* What was popped stays popped.
LEMMA PoppedStays ==
  ASSUME QueueInv, NEW p \in Trades, Popped(p),
         \/ queue # <<>> /\ queue' = Tail(queue) /\ UNCHANGED sent
         \/ \E m \in Messages : Enqueue(m)
         \/ UNCHANGED <<queue, sent>>
  PROVE  Popped(p)'
<1>1. CASE queue # <<>> /\ queue' = Tail(queue) /\ UNCHANGED sent
  BY <1>1, QueueTail DEF Popped
<1>2. ASSUME NEW m \in Messages, Enqueue(m)  PROVE Popped(p)'
  BY <1>2, QueueAppend DEF Popped
<1>3. CASE UNCHANGED <<queue, sent>>
  BY <1>3 DEF Popped
<1> QED  BY <1>1, <1>2, <1>3

\* The sends: no trade is begun by one.
LEMMA WatchEnqueue ==
  ASSUME QueueInv, WatchInv, NEW m \in Messages, Enqueue(m)
  PROVE  QueueInv' /\ WatchInv'
<1>1. UNCHANGED <<handling, open, monitor, orphans>>
  BY DEF Enqueue
<1>2. \A p \in Trades : Begun(p)' => Popped(p)'
  BY <1>1, PoppedStays DEF WatchInv, Begun, Handled
<1> QED  BY <1>1, <1>2, QueueAppend DEF WatchInv, OpenIsWatched, Handled

\* The order: the popped trade was not begun before, and the loop handles it now.
LEMMA WatchExecute ==
  ASSUME QueueInv, WatchInv, Execute
  PROVE  QueueInv' /\ WatchInv'
<1>1. /\ handling = Idle /\ queue # <<>> /\ ~Dropped(Head(queue))
      /\ queue' = Tail(queue) /\ UNCHANGED <<sent, monitor>>
  BY DEF Execute
<1>2. QueueInv' /\ Head(queue) \in Messages /\ Head(queue) \in sent
  BY <1>1, QueueTail
<1>3. PICK p \in Trades : Head(queue) = TradeMessage(p)
  BY <1>1, <1>2 DEF Messages, Dropped, CloseMessage
<1>4. Head(queue).of = p
  BY <1>3 DEF TradeMessage
<1>5. Popped(p)'
  BY <1>1, <1>2, <1>3, QueueTail DEF Popped
<1>6. ~Begun(p)
  <2>1. 1 \in 1..Len(queue) /\ Head(queue) = queue[1]
    BY <1>1 DEF QueueInv
  <2> QED  BY <1>3, <2>1 DEF WatchInv, Popped
<1>7. \A q \in Trades : ~Handled(q)
  BY <1>1, IdleHandlesNone
<1>8. /\ UNCHANGED orphans
      /\ \/ UNCHANGED <<handling, open>>
         \/ handling' = At("recorded", p) /\ open' = open \cup {p}
  BY <1>4 DEF Execute
<1>9. CASE UNCHANGED <<handling, open>>
  <2>1. \A q \in Trades : Begun(q)' => Popped(q)'
    BY <1>1, <1>9, PoppedStays DEF WatchInv, Begun, Handled
  <2> QED  BY <1>1, <1>2, <1>8, <1>9, <2>1 DEF WatchInv, OpenIsWatched, Handled
<1>10. CASE handling' = At("recorded", p) /\ open' = open \cup {p}
  <2>1. \A q \in Trades : Handled(q)' <=> q = p
    BY <1>10 DEF Handled, At
  <2>2. \A q \in Trades : Begun(q)' => Popped(q)'
    <3> TAKE q \in Trades
    <3>1. CASE q = p
      BY <1>5, <3>1 DEF Popped
    <3>2. CASE q # p
      BY <1>1, <1>10, <2>1, <3>2, PoppedStays DEF WatchInv, Begun
    <3> QED  BY <3>1, <3>2
  <2>3. handling' \in [at : {"recorded", "saved"}, trade : Trades]
    BY <1>3, <1>10 DEF At
  <2>4. \A q \in Trades : monitor'[q] = "closed" => q \notin open'
    BY <1>1, <1>6, <1>10 DEF WatchInv, Begun
  <2>5. OpenIsWatched'
    BY <1>1, <1>3, <1>7, <1>8, <1>10, <2>1 DEF WatchInv, OpenIsWatched
  <2> QED  BY <1>1, <1>2, <1>3, <1>10, <2>2, <2>3, <2>4, <2>5 DEF WatchInv
<1> QED  BY <1>9, <1>10, <1>8

\* The other steps of the loop.
LEMMA WatchLoop ==
  ASSUME QueueInv, WatchInv, Drop \/ SavePosition \/ SaveFails \/ SpawnMonitor
  PROVE  QueueInv' /\ WatchInv'
<1>1. \/ queue # <<>> /\ queue' = Tail(queue) /\ UNCHANGED sent
      \/ UNCHANGED <<queue, sent>>
  BY DEF Drop, SavePosition, SaveFails, SpawnMonitor
<1>2. QueueInv'
  BY <1>1, QueueTail DEF QueueInv
<1>3. CASE Drop
  <2>1. UNCHANGED <<handling, open, monitor, orphans>>
    BY <1>3 DEF Drop
  <2>2. \A p \in Trades : Begun(p)' => Popped(p)'
    BY <1>1, <2>1, PoppedStays DEF WatchInv, Begun, Handled
  <2> QED  BY <1>2, <2>1, <2>2 DEF WatchInv, OpenIsWatched, Handled
<1>4. CASE SavePosition \/ SaveFails \/ SpawnMonitor
  <2>1. PICK p \in Trades : handling.trade = p /\ handling.at \in {"recorded", "saved"}
    BY <1>4 DEF WatchInv, Idle, SavePosition, SaveFails, SpawnMonitor
  <2>2. \A q \in Trades : Handled(q) <=> q = p
    BY <2>1 DEF Handled
  <2>3. /\ UNCHANGED open
        /\ \/ /\ handling' = [handling EXCEPT !.at = "saved"]
              /\ UNCHANGED <<monitor, orphans>>
           \/ /\ handling' = Idle /\ UNCHANGED monitor
              /\ orphans' = orphans \cup {p}
           \/ /\ handling' = Idle /\ monitor' = [monitor EXCEPT ![p] = "asleep"]
              /\ UNCHANGED orphans
    BY <1>4, <2>1 DEF SavePosition, SaveFails, SpawnMonitor
  <2>4. handling' = Idle \/ handling' \in [at : {"recorded", "saved"}, trade : Trades]
    BY <2>1, <2>3 DEF WatchInv, Idle
  <2>5. \A q \in Trades : Handled(q)' => Handled(q)
    BY <2>1, <2>2, <2>3, <2>4 DEF Handled, WatchInv, Idle
  <2>6. \A q \in Trades : Begun(q)' => Begun(q)
    BY <2>2, <2>3, <2>5 DEF Begun, WatchInv
  <2>7. \A q \in Trades : Begun(q)' => Popped(q)'
    BY <1>1, <2>6, PoppedStays DEF WatchInv
  <2>8. monitor' \in [Trades -> {"none", "asleep", "closed"}]
        /\ \A q \in Trades : monitor'[q] = "closed" => q \notin open'
    BY <2>3 DEF WatchInv
  <2>9. OpenIsWatched'
    <3>1. CASE handling' = [handling EXCEPT !.at = "saved"] /\ UNCHANGED <<monitor, orphans>>
      <4>1. \A q \in Trades : Handled(q)' <=> q = p
        BY <2>1, <3>1 DEF Handled, WatchInv, Idle
      <4> QED  BY <2>2, <2>3, <3>1, <4>1 DEF WatchInv, OpenIsWatched
    <3>2. CASE handling' # [handling EXCEPT !.at = "saved"] \/ ~UNCHANGED <<monitor, orphans>>
      BY <2>2, <2>3, <3>2 DEF WatchInv, OpenIsWatched
    <3> QED  BY <3>1, <3>2
  <2> QED  BY <1>2, <2>3, <2>4, <2>7, <2>8, <2>9 DEF WatchInv
<1> QED  BY <1>3, <1>4

\* A poll leaves the task as it is or closes the position and ends it.
LEMMA WatchMonitor ==
  ASSUME QueueInv, WatchInv, NEW p \in Trades, Monitor(p)
  PROVE  QueueInv' /\ WatchInv'
<1>1. UNCHANGED <<sent, queue, handling, orphans>>
  BY DEF Monitor, SkipPoll, Keep, CloseOpen, Forget
<1>2. \/ UNCHANGED <<open, monitor>>
      \/ /\ monitor[p] = "asleep" /\ open' = open \ {p}
         /\ monitor' = [monitor EXCEPT ![p] = "closed"]
      \/ /\ monitor[p] = "closed" /\ UNCHANGED open
         /\ monitor' = [monitor EXCEPT ![p] = "none"]
  BY DEF Monitor, SkipPoll, Keep, CloseOpen, Forget
<1>3. \A q \in Trades : Handled(q)' <=> Handled(q)
  BY <1>1 DEF Handled
<1>4. \A q \in Trades : Begun(q)' => Begun(q)
  BY <1>2, <1>3 DEF Begun, WatchInv
<1>5. \A q \in Trades : Begun(q)' => Popped(q)'
  BY <1>1, <1>4, PoppedStays DEF WatchInv
<1>6. monitor' \in [Trades -> {"none", "asleep", "closed"}]
      /\ \A q \in Trades : monitor'[q] = "closed" => q \notin open'
  BY <1>2 DEF WatchInv
<1>7. OpenIsWatched'
  BY <1>1, <1>2, <1>3 DEF WatchInv, OpenIsWatched
<1> QED  BY <1>1, <1>2, <1>5, <1>6, <1>7 DEF WatchInv, QueueInv

\* After a restart nothing is open.
LEMMA WatchRestart ==
  ASSUME QueueInv, WatchInv, RestartWorker
  PROVE  QueueInv' /\ WatchInv'
<1>1. /\ handling' = Idle /\ open' = {} /\ monitor' = [q \in Trades |-> "none"]
      /\ UNCHANGED <<sent, queue>>
  BY DEF RestartWorker
<1>2. \A q \in Trades : ~Begun(q)'
  BY <1>1 DEF Begun, Handled, Idle
<1> QED  BY <1>1, <1>2 DEF WatchInv, QueueInv, OpenIsWatched

\* For any trades, messages and faults: an open position has a task, or is on the
\* way to one, or its own write to Redis raised.
THEOREM PositionsAreWatched == TerminalSpec => []OpenIsWatched
<1>1. TerminalInit => QueueInv /\ WatchInv
  BY DEF TerminalInit, WorkerInit, QueueInv, WatchInv, Begun, Handled, Idle, OpenIsWatched
<1>2. QueueInv /\ WatchInv /\ [TerminalNext]_terminalVars => QueueInv' /\ WatchInv'
  <2> SUFFICES ASSUME QueueInv, WatchInv, [TerminalNext]_terminalVars
               PROVE  QueueInv' /\ WatchInv'
    OBVIOUS
  <2>1. WorkerNext \/ UNCHANGED workerVars
    BY PartsTakeTurns
  <2>2. CASE \/ \E p \in Trades : Enqueue(TradeMessage(p))
             \/ \E t \in CloseOf : Enqueue(CloseMessage(t))
    BY <2>2, WatchEnqueue DEF Messages
  <2>3. CASE UNCHANGED workerVars
    <3>1. UNCHANGED <<sent, queue, handling, open, monitor, orphans>>
      BY <2>3 DEF workerVars
    <3> QED  BY <3>1 DEF QueueInv, WatchInv, Begun, Popped, Handled, OpenIsWatched
  <2> QED  BY <2>1, <2>2, <2>3, WatchExecute, WatchLoop, WatchMonitor, WatchRestart DEF WorkerNext
<1>3. WatchInv => OpenIsWatched
  BY DEF WatchInv
<1> QED  BY <1>1, <1>2, <1>3, PTL DEF TerminalSpec

-----------------------------------------------------------------------------
(* The other tools of the Robinhood subprocess: no stop is there twice.        *)

\* From s to after, only t may have gained stops, n at most.
StopGains(s, after, t, n) ==
  /\ after \in Servers
  /\ \A u \in Tickers : after.stops[u] <= s.stops[u] + (IF u = t THEN n ELSE 0)

StopsSound(s, outcomes, t, n) == \A o \in outcomes : StopGains(s, o.server, t, n)

LEMMA SameStops ==
  ASSUME NEW s \in Servers, NEW t \in Tickers, NEW n \in {0, 1},
         NEW after \in Servers, after.stops = s.stops
  PROVE  StopGains(s, after, t, n)
<1>1. \A u \in Tickers : s.stops[u] \in Nat
  BY DEF Servers, Counts
<1> QED  BY <1>1 DEF StopGains

\* One stop more of a ticker.
LEMMA StopAdded ==
  ASSUME NEW s \in Servers, NEW t \in Tickers
  PROVE  LET after == [s EXCEPT !.stops[t] = @ + 1]
         IN  after \in Servers /\ StopGains(s, after, t, 1)
<1> DEFINE after == [s EXCEPT !.stops[t] = @ + 1]
<1>1. s.stops \in [Tickers -> Nat] /\ \A u \in Tickers : s.stops[u] \in Nat
  BY DEF Servers, Counts
<1>2. after \in Servers
  BY <1>1 DEF Servers, Counts
<1>7. after.strays = s.strays
  BY <1>1 DEF Servers
<1>3. \A u \in Tickers : after.stops[u] = IF u = t THEN s.stops[u] + 1 ELSE s.stops[u]
  BY <1>1 DEF Servers
<1> HIDE DEF after
<1>4. StopGains(s, after, t, 1)
  BY <1>1, <1>2, <1>3 DEF StopGains
<1> QED  BY <1>2, <1>4 DEF after

\* What an order leaves of the stops is what it started with, or what it was to leave.
LEMMA OrderedStops ==
  ASSUME NEW s \in Servers, NEW t \in Tickers, NEW n \in {0, 1},
         NEW after, StopGains(s, after, t, n)
  PROVE  StopsSound(s, Ordered(s, after), t, n)
<1>1. \A o \in Ordered(s, after) : o.server \in {s, after}
  BY DEF Ordered, Answer, Refused
<1> QED  BY <1>1, SameStops DEF StopsSound

LEMMA BuyKeepsStops ==
  ASSUME NEW s \in Servers, NEW t \in Tickers, NEW o \in BuyStock(s, t)
  PROVE  o.server \in Servers /\ o.server.stops = s.stops
<1>1. o.server \in {s, [s EXCEPT !.shares[t] = IF s.paper THEN 1 ELSE @ + 1]}
  BY DEF BuyStock, Ordered, Answer, Refused
<1>2. o.server.stops = s.stops
  BY <1>1 DEF Servers
<1> QED  BY <1>2, BuyStockSound DEF SoundTool

LEMMA PlaceStops ==
  ASSUME NEW s \in Servers, NEW t \in Tickers
  PROVE  StopsSound(s, PlaceStop(s, t), t, 1)
BY StopAdded, OrderedStops DEF PlaceStop

LEMMA BuyWithStopStops ==
  ASSUME NEW s \in Servers, NEW t \in Tickers
  PROVE  StopsSound(s, BuyWithStop(s, t), t, 1)
<1> SUFFICES ASSUME NEW o \in BuyWithStop(s, t)  PROVE StopGains(s, o.server, t, 1)
  BY DEF StopsSound
<1>1. PICK bought \in BuyStock(s, t) : o = bought \/ o \in PlaceStop(bought.server, t)
  BY DEF BuyWithStop
<1>2. bought.server \in Servers /\ bought.server.stops = s.stops
  BY BuyKeepsStops
<1>3. CASE o = bought
  BY <1>2, <1>3, SameStops
<1>4. CASE o \in PlaceStop(bought.server, t)
  <2>1. StopGains(bought.server, o.server, t, 1)
    BY <1>2, <1>4, PlaceStops DEF StopsSound
  <2> QED  BY <1>2, <2>1 DEF StopGains
<1> QED  BY <1>1, <1>3, <1>4

\* The old stop is cancelled before the new one is placed, unless the broker refuses.
LEMMA ModifyStops ==
  ASSUME NEW s \in Servers, NEW t \in Tickers, NEW refused \in BOOLEAN
  PROVE  StopsSound(s, ModifyStopLoss(s, t, refused), t, IF refused THEN 1 ELSE 0)
<1> SUFFICES ASSUME NEW o \in ModifyStopLoss(s, t, refused)
             PROVE  StopGains(s, o.server, t, IF refused THEN 1 ELSE 0)
  BY DEF StopsSound
<1> DEFINE cancelled == [s EXCEPT !.stops[t] = @ - 1]
<1>1. s.stops \in [Tickers -> Nat] /\ \A u \in Tickers : s.stops[u] \in Nat
  BY DEF Servers, Counts
<1>2. CASE o.server = s
  BY <1>2, SameStops
<1>3. ASSUME s.stops[t] # 0
      PROVE  /\ cancelled \in Servers
             /\ \A u \in Tickers : cancelled.stops[u] = IF u = t THEN s.stops[u] - 1 ELSE s.stops[u]
  BY <1>1, <1>3 DEF Servers, Counts
<1>4. CASE s.stops[t] # 0 /\ o.server = cancelled
  <2>1. cancelled \in Servers
        /\ \A u \in Tickers : cancelled.stops[u] = IF u = t THEN s.stops[u] - 1 ELSE s.stops[u]
    BY <1>3, <1>4
  <2> HIDE DEF cancelled
  <2> QED  BY <1>1, <1>4, <2>1 DEF StopGains
<1>5. CASE s.stops[t] # 0 /\ ~refused /\ o \in PlaceStop(cancelled, t)
  <2>1. cancelled \in Servers
        /\ \A u \in Tickers : cancelled.stops[u] = IF u = t THEN s.stops[u] - 1 ELSE s.stops[u]
    BY <1>3, <1>5
  <2> HIDE DEF cancelled
  <2>2. StopGains(cancelled, o.server, t, 1)
    BY <1>5, <2>1, PlaceStops DEF StopsSound
  <2>3. o.server \in Servers /\ \A u \in Tickers : o.server.stops[u] \in Nat
    BY <2>2 DEF StopGains, Servers, Counts
  <2>4. ASSUME NEW u \in Tickers
        PROVE  o.server.stops[u] <= s.stops[u]
    BY <1>1, <1>5, <2>1, <2>2, <2>3 DEF StopGains
  <2> QED  BY <1>1, <1>5, <2>3, <2>4 DEF StopGains
<1>6. CASE refused /\ o \in PlaceStop(s, t)
  BY <1>6, PlaceStops DEF StopsSound
<1>7. \/ o.server = s
      \/ /\ s.stops[t] # 0
         /\ \/ o.server = cancelled
            \/ ~refused /\ o \in PlaceStop(cancelled, t)
            \/ refused /\ o \in PlaceStop(s, t)
  BY DEF ModifyStopLoss, Answer, Refused
<1> HIDE DEF cancelled
<1> QED  BY <1>2, <1>4, <1>5, <1>6, <1>7

LEMMA CancelStops ==
  ASSUME NEW s \in Servers, NEW o \in CancelAllOrders(s)
  PROVE  o.server \in Servers /\ \A u \in Tickers : o.server.stops[u] <= s.stops[u]
<1>1. \A u \in Tickers : s.stops[u] \in Nat /\ Zero[u] = 0
  BY DEF Servers, Counts, Zero
<1>2. [s EXCEPT !.stops = Zero] \in Servers /\ [s EXCEPT !.stops = Zero].stops = Zero
  BY DEF Servers, Counts, Zero
<1>3. o.server \in {s, [s EXCEPT !.stops = Zero]}
  BY DEF CancelAllOrders, Ordered, Answer, Refused
<1> QED
  <2>1. CASE o.server = s
    BY <1>1, <2>1
  <2>2. CASE o.server = [s EXCEPT !.stops = Zero]
    <3>1. o.server \in Servers /\ o.server.stops = Zero
      BY <1>2, <2>2
    <3> QED  BY <1>1, <3>1
  <2> QED  BY <1>3, <2>1, <2>2

LEMMA CloseKeepsStops ==
  ASSUME NEW s \in Servers, NEW t \in Tickers, NEW o \in ClosePosition(s, t)
  PROVE  o.server \in Servers /\ o.server.stops = s.stops
<1>1. o.server \in {s, [s EXCEPT !.shares[t] = IF s.paper THEN 0 ELSE @ - 1]}
  BY DEF ClosePosition, Ordered, Answer, Refused
<1>2. o.server.stops = s.stops
  BY <1>1 DEF Servers
<1> QED  BY <1>2, ClosePositionSound DEF SoundTool

\* A batch is the closing of each ticker by itself.
LEMMA BatchKeepsStops ==
  ASSUME NEW s \in Servers, NEW tickers \in SUBSET Tickers, NEW after \in BatchClose(s, tickers)
  PROVE  after \in Servers /\ after.stops = s.stops
<1>1. PICK left \in [Tickers -> UNION {Left(s, t) \cup {s.shares[t]} : t \in Tickers}] :
         /\ after = [s EXCEPT !.shares = left]
         /\ \A t \in Tickers : left[t] \in IF t \in tickers THEN Left(s, t) ELSE {s.shares[t]}
  BY DEF BatchClose
<1>2. \A t \in Tickers : s.shares[t] \in Nat
  BY DEF Servers, Counts
<1>3. \A t \in Tickers : Left(s, t) \subseteq Nat
  BY CloseKeepsStops DEF Left, Servers, Counts
<1>4. left \in Counts
  BY <1>1, <1>2, <1>3 DEF Counts
<1> QED  BY <1>1, <1>4 DEF Servers

ToolsInv ==
  /\ account \in Servers
  /\ ordered \in Counts
  /\ refusals \in Counts
  /\ NoSecondStop

\* A stop more of t, for which one of the histories grows.
LEMMA StopCounted ==
  ASSUME ToolsInv, NEW t \in Tickers, NEW n \in {0, 1}, StopGains(account, account', t, n),
         ordered' \in Counts, refusals' \in Counts,
         \A u \in Tickers : ordered'[u] + refusals'[u]
                              = ordered[u] + refusals[u] + (IF u = t THEN n ELSE 0)
  PROVE  ToolsInv'
<1>1. \A u \in Tickers : /\ account.stops[u] \in Nat /\ account'.stops[u] \in Nat
                         /\ ordered[u] \in Nat /\ refusals[u] \in Nat
  BY DEF ToolsInv, StopGains, Servers, Counts
<1>2. \A u \in Tickers : account'.stops[u] <= account.stops[u] + (IF u = t THEN n ELSE 0)
  BY DEF StopGains
<1>3. \A u \in Tickers : account'.stops[u] <= ordered'[u] + refusals'[u]
  BY <1>1, <1>2 DEF ToolsInv, NoSecondStop
<1> QED  BY <1>3 DEF ToolsInv, NoSecondStop, StopGains

LEMMA CountedOnce ==
  ASSUME NEW f \in Counts, NEW t \in Tickers
  PROVE  LET g == [f EXCEPT ![t] = @ + 1]
         IN  g \in Counts /\ \A u \in Tickers : g[u] = f[u] + (IF u = t THEN 1 ELSE 0)
BY DEF Counts

LEMMA ToolsStepSound ==
  ASSUME ToolsInv, ToolsNext \/ UNCHANGED toolsVars
  PROVE  ToolsInv'
<1>1. /\ account \in Servers /\ ordered \in Counts /\ refusals \in Counts
      /\ \A u \in Tickers : account.stops[u] \in Nat /\ ordered[u] \in Nat /\ refusals[u] \in Nat
  BY DEF ToolsInv, Servers, Counts
<1>2. ASSUME NEW t \in Tickers, OrderStop(t)  PROVE ToolsInv'
  <2>1. PICK o \in BuyWithStop(account, t) \cup PlaceStop(account, t) : account' = o.server
    BY <1>2 DEF OrderStop, Use
  <2>2. StopGains(account, account', t, 1)
    BY <1>1, <2>1, BuyWithStopStops, PlaceStops DEF StopsSound
  <2>3. ordered' = [ordered EXCEPT ![t] = @ + 1] /\ refusals' = refusals
    BY <1>2 DEF OrderStop
  <2>4. ordered' \in Counts
        /\ \A u \in Tickers : ordered'[u] = ordered[u] + (IF u = t THEN 1 ELSE 0)
    BY <1>1, <2>3, CountedOnce
  <2>5. \A u \in Tickers : ordered'[u] + refusals'[u]
                            = ordered[u] + refusals[u] + (IF u = t THEN 1 ELSE 0)
    BY <1>1, <2>3, <2>4
  <2> QED  BY <1>1, <2>2, <2>3, <2>4, <2>5, StopCounted
<1>3. ASSUME NEW t \in Tickers, NEW refused \in BOOLEAN, MoveStop(t, refused)  PROVE ToolsInv'
  <2>1. PICK o \in ModifyStopLoss(account, t, refused) : account' = o.server
    BY <1>3 DEF MoveStop, Use
  <2>2. StopGains(account, account', t, IF refused THEN 1 ELSE 0)
    BY <1>1, <2>1, ModifyStops DEF StopsSound
  <2>3. /\ refusals' = IF refused THEN [refusals EXCEPT ![t] = @ + 1] ELSE refusals
        /\ ordered' = ordered
    BY <1>3 DEF MoveStop
  <2>4. CASE refused
    <3>1. refusals' \in Counts
          /\ \A u \in Tickers : refusals'[u] = refusals[u] + (IF u = t THEN 1 ELSE 0)
      BY <1>1, <2>3, <2>4, CountedOnce
    <3>2. \A u \in Tickers : ordered'[u] + refusals'[u]
                              = ordered[u] + refusals[u] + (IF u = t THEN 1 ELSE 0)
      BY <1>1, <2>3, <3>1
    <3> QED  BY <1>1, <2>2, <2>3, <2>4, <3>1, <3>2, StopCounted
  <2>5. CASE ~refused
    BY <1>1, <2>2, <2>3, <2>5, StopCounted
  <2> QED  BY <2>4, <2>5
<1>4. ASSUME UseOthers  PROVE ToolsInv'
  <2>1. account' \in Servers /\ \A u \in Tickers : account'.stops[u] <= account.stops[u]
    <3>1. CASE Use(Login(account))
      BY <1>1, <3>1, LoginFacts DEF Use
    <3>2. CASE Use(CancelAllOrders(account))
      BY <1>1, <3>2, CancelStops DEF Use
    <3>3. CASE \E t \in Tickers : Use(ClosePosition(account, t))
      BY <1>1, <3>3, CloseKeepsStops DEF Use
    <3>4. CASE \E tickers \in SUBSET Tickers : account' \in BatchClose(account, tickers)
      BY <1>1, <3>4, BatchKeepsStops
    <3> QED  BY <1>4, <3>1, <3>2, <3>3, <3>4 DEF UseOthers
  <2>2. UNCHANGED <<ordered, refusals>>
    BY <1>4 DEF UseOthers
  <2>3. \A u \in Tickers : account'.stops[u] \in Nat
    BY <2>1 DEF Servers, Counts
  <2> QED  BY <1>1, <2>1, <2>2, <2>3 DEF ToolsInv, NoSecondStop
<1>5. CASE UNCHANGED toolsVars
  BY <1>5 DEF toolsVars, ToolsInv, NoSecondStop
<1> QED  BY <1>2, <1>3, <1>4, <1>5 DEF ToolsNext

\* For any tickers and however many orders: whatever tool is used in whatever order,
\* and whatever call fails, no ticker has more stops than were ordered and than the
\* broker refused to cancel in a move.
THEOREM StopsAreSingle == TerminalSpec => []NoSecondStop
<1>1. TerminalInit => ToolsInv
  <2> SUFFICES ASSUME TerminalInit  PROVE ToolsInv
    OBVIOUS
  <2>1. PICK paper \in BOOLEAN : \E o \in Login(NewServer(paper)) : account = o.server
    BY DEF TerminalInit, ToolsInit
  <2>2. NewServer(paper) \in Servers /\ NewServer(paper).stops = Zero
    BY NewServerType DEF NewServer
  <2>3. account \in Servers /\ account.stops = Zero /\ ordered = Zero /\ refusals = Zero
    BY <2>1, <2>2, LoginFacts DEF TerminalInit, ToolsInit
  <2> QED  BY <2>3 DEF ToolsInv, NoSecondStop, Zero, Counts
<1>2. ToolsInv /\ [TerminalNext]_terminalVars => ToolsInv'
  BY PartsTakeTurns, ToolsStepSound
<1>3. ToolsInv => NoSecondStop
  BY DEF ToolsInv
<1> QED  BY <1>1, <1>2, <1>3, PTL DEF TerminalSpec

-----------------------------------------------------------------------------
(* Orders: the books of the paper broker. A fill is a member of its history; the *)
(* cash and the portfolio are walks over that history, and a tick is a walk over *)
(* the queue of limit orders.                                                    *)

Fills == [order : Orders, quantity : Nat, price : Nat, fee : Nat]
Holding == [Symbols -> Nat]
Books == [cash : Int, held : Holding, fills : Seq(Fills)]
Ledgers == [cash : Int, held : Holding, short : BOOLEAN]

LEMMA OrderTypes ==
  ASSUME NEW o \in Orders
  PROVE  /\ Symbol[o] \in Symbols /\ Side[o] \in {"buy", "sell"}
         /\ Limit[o] \in Nat /\ Quantity[o] \in Nat /\ Quantity[o] > 0
BY OrdersAssumption

LEMMA CommissionType ==
  ASSUME NEW value \in Nat
  PROVE  Commission(value) \in Nat /\ Commission(value) > 0
BY DEF Commission, Larger

\* A purchase that is cut to the cash is for less than was ordered.
LEMMA CutIsSmaller ==
  ASSUME NEW money \in Int, NEW price \in Nat, price > 0, NEW q \in Nat, money < q * price
  PROVE  money \div price \in Int /\ money \div price < q
<1>1. money \div price \in Int /\ (money \div price) * price <= money
  OBVIOUS
<1>2. ASSUME NEW k \in Int, k * price < q * price  PROVE k < q
  BY <1>2
<1>3. (money \div price) * price < q * price
  BY <1>1, ProductType
<1> QED  BY <1>1, <1>2, <1>3

\* A fill is for no more than was ordered, and a sale of what is held for no more
\* than that.
LEMMA FillableFits ==
  ASSUME NEW b \in Books, NEW o \in Orders, NEW price \in Nat, price > 0
  PROVE  /\ Fillable(b, o, price) \in Nat
         /\ Fillable(b, o, price) <= Quantity[o]
<1> DEFINE value == Quantity[o] * price
           fee == Commission(value)
<1>1. value \in Nat /\ fee \in Nat /\ b.cash \in Int /\ b.held[Symbol[o]] \in Nat
  BY OrderTypes, CommissionType, ProductType DEF Books, Holding
<1>2. CASE Side[o] = "buy" /\ value + fee > b.cash
  <2>1. Fillable(b, o, price) = Larger(0, (b.cash - fee) \div price)
    BY <1>2 DEF Fillable
  <2>2. b.cash - fee \in Int /\ b.cash - fee < value
    BY <1>1, <1>2
  <2> HIDE DEF fee
  <2>3. (b.cash - fee) \div price \in Int /\ (b.cash - fee) \div price < Quantity[o]
    BY <2>2, CutIsSmaller, OrderTypes
  <2> QED  BY <2>1, <2>3, OrderTypes DEF Larger
<1>3. CASE Side[o] = "buy" /\ ~(value + fee > b.cash)
  BY <1>3, OrderTypes DEF Fillable
<1>4. CASE Side[o] # "buy"
  BY <1>1, <1>4, OrderTypes DEF Fillable, Smaller
<1> QED  BY <1>2, <1>3, <1>4

\* The walks over the history.
LEMMA MovedType ==
  ASSUME NEW f \in Fills
  PROVE  Moved(f) \in Int
BY ProductType DEF Moved, Fills

LEMMA CashRuns ==
  ASSUME NEW fills \in Seq(Fills)
  PROVE  /\ CashAfter(fills)[0] = InitialCash
         /\ \A k \in 1..Len(fills) : CashAfter(fills)[k] = CashAfter(fills)[k - 1] + Moved(fills[k])
         /\ \A k \in 0..Len(fills) : CashAfter(fills)[k] \in Int
<1> DEFINE n == Len(fills)
           step == [k \in 1..n |-> [c \in Int |-> c + Moved(fills[k])]]
           Run(g) == g = [k \in 0..n |-> IF k = 0 THEN InitialCash ELSE g[k - 1] + Moved(fills[k])]
           h == CashAfter(fills)
<1>1. n \in Nat /\ \A k \in 1..n : fills[k] \in Fills
  OBVIOUS
<1>2. Walkable(n, Int, InitialCash, step)
  BY <1>1, MovedType, OrdersAssumption DEF Walkable
<1>3. PICK g : Walks(n, Int, InitialCash, step, g)
  BY <1>1, <1>2, WalkExists
<1>4. g \in [0..n -> Int] /\ g[0] = InitialCash
  BY <1>3 DEF Walks
<1>5. \A k \in 1..n : g[k] = g[k - 1] + Moved(fills[k])
  <2> TAKE k \in 1..n
  <2>1. k - 1 \in 0..n /\ g[k - 1] \in Int
    BY <1>1, <1>4
  <2>2. step[k][g[k - 1]] = g[k - 1] + Moved(fills[k])
    BY <2>1
  <2> QED  BY <1>3, <2>2 DEF Walks
<1>6. Run(g)
  <2>1. g = [k \in 0..n |-> g[k]]
    BY <1>4
  <2>2. \A k \in 0..n : g[k] = IF k = 0 THEN InitialCash ELSE g[k - 1] + Moved(fills[k])
    BY <1>1, <1>4, <1>5
  <2> QED  BY <2>1, <2>2
<1>7. Run(h)
  BY <1>6 DEF CashAfter
<1> HIDE DEF h, step
<1>8. \A k \in 0..n : h[k] = IF k = 0 THEN InitialCash ELSE h[k - 1] + Moved(fills[k])
  BY <1>7
<1>9. h[0] = InitialCash /\ \A k \in 1..n : h[k] = h[k - 1] + Moved(fills[k])
  BY <1>1, <1>8
<1>10. StepAlike(n, h, g)
  BY <1>4, <1>5, <1>9 DEF StepAlike
<1>11. \A k \in 0..n : h[k] = g[k]
  BY <1>1, <1>10, WalksAgree
<1> QED  BY <1>4, <1>9, <1>11 DEF h

\* One fill more.
LEMMA CashAppend ==
  ASSUME NEW fills \in Seq(Fills), NEW f \in Fills
  PROVE  CashAfter(Append(fills, f))[Len(fills) + 1] = CashAfter(fills)[Len(fills)] + Moved(f)
<1> DEFINE n == Len(fills)
           more == Append(fills, f)
           g == CashAfter(more)
           h == CashAfter(fills)
<1>1. /\ n \in Nat /\ more \in Seq(Fills) /\ Len(more) = n + 1
      /\ more[n + 1] = f /\ \A k \in 1..n : more[k] = fills[k]
  OBVIOUS
<1>2. g[0] = InitialCash /\ \A k \in 1..(n + 1) : g[k] = g[k - 1] + Moved(more[k])
  <2> HIDE DEF more
  <2> QED  BY <1>1, CashRuns
<1>3. h[0] = InitialCash /\ \A k \in 1..n : h[k] = h[k - 1] + Moved(fills[k])
  BY CashRuns
<1> HIDE DEF g, h, more
<1>4. StepAlike(n, g, h)
  BY <1>1, <1>2, <1>3 DEF StepAlike
<1>5. g[n] = h[n]
  BY <1>1, <1>4, WalksAgree
<1>6. g[n + 1] = g[n] + Moved(f)
  BY <1>1, <1>2
<1> QED  BY <1>5, <1>6 DEF g, h, more

LEMMA ProcessType ==
  ASSUME NEW p \in Ledgers, NEW f \in Fills
  PROVE  /\ ProcessFill(p, f) \in Ledgers
         /\ p.short => ProcessFill(p, f).short
<1>1. /\ f.order \in Orders /\ f.quantity \in Nat /\ f.price * f.quantity \in Nat /\ f.fee \in Nat
      /\ Symbol[f.order] \in Symbols
  BY OrderTypes, ProductType DEF Fills
<1>2. p.held \in [Symbols -> Nat] /\ p.held[Symbol[f.order]] \in Nat /\ p.cash \in Int
  BY <1>1 DEF Ledgers, Holding
<1>3. CASE Side[f.order] = "buy"
  <2>1. ProcessFill(p, f) = ProcessBuy(p, f)
    BY <1>3 DEF ProcessFill
  <2> DEFINE held == [p.held EXCEPT ![Symbol[f.order]] = @ + f.quantity]
             cash == p.cash - (f.price * f.quantity + f.fee)
  <2>2. held \in Holding /\ cash \in Int
    BY <1>1, <1>2 DEF Holding
  <2>3. ProcessFill(p, f) = [p EXCEPT !.cash = cash, !.held = held]
    BY <2>1 DEF ProcessBuy, Ledgers
  <2> HIDE DEF held, cash
  <2> QED  BY <2>2, <2>3 DEF Ledgers
<1>4. CASE Side[f.order] # "buy" /\ p.held[Symbol[f.order]] = 0
  <2>1. ProcessFill(p, f) = [p EXCEPT !.held[Symbol[f.order]] = f.quantity, !.short = TRUE]
    BY <1>4 DEF ProcessFill, ProcessSell
  <2> QED  BY <1>1, <1>2, <2>1 DEF Ledgers, Holding
<1>5. CASE Side[f.order] # "buy" /\ p.held[Symbol[f.order]] # 0
  <2> DEFINE closed == Smaller(f.quantity, p.held[Symbol[f.order]])
  <2>1. closed \in Nat /\ closed <= p.held[Symbol[f.order]] /\ f.price * closed \in Nat
    <3>1. closed \in Nat /\ closed <= p.held[Symbol[f.order]]
      BY <1>1, <1>2 DEF Smaller
    <3> QED  BY <3>1, ProductType DEF Fills
  <2>2. ProcessFill(p, f) = [p EXCEPT !.cash = @ + f.price * closed - f.fee,
                                      !.held[Symbol[f.order]] = @ - closed]
    BY <1>5 DEF ProcessFill, ProcessSell
  <2> DEFINE held == [p.held EXCEPT ![Symbol[f.order]] = @ - closed]
             cash == p.cash + f.price * closed - f.fee
  <2> HIDE DEF closed
  <2>3. held \in Holding /\ cash \in Int
    BY <1>1, <1>2, <2>1 DEF Holding
  <2>4. ProcessFill(p, f) = [p EXCEPT !.cash = cash, !.held = held]
    BY <2>2 DEF Ledgers
  <2> HIDE DEF held, cash
  <2> QED  BY <2>3, <2>4 DEF Ledgers
<1> QED  BY <1>3, <1>4, <1>5

LEMMA PortfolioRuns ==
  ASSUME NEW fills \in Seq(Fills)
  PROVE  /\ Portfolios(fills)[0] = FreshPortfolio
         /\ \A k \in 1..Len(fills) :
               Portfolios(fills)[k] = ProcessFill(Portfolios(fills)[k - 1], fills[k])
         /\ \A k \in 0..Len(fills) : Portfolios(fills)[k] \in Ledgers
<1> DEFINE n == Len(fills)
           step == [k \in 1..n |-> [p \in Ledgers |-> ProcessFill(p, fills[k])]]
           Run(g) == g = [k \in 0..n |-> IF k = 0 THEN FreshPortfolio
                                                  ELSE ProcessFill(g[k - 1], fills[k])]
           h == Portfolios(fills)
<1>1. n \in Nat /\ \A k \in 1..n : fills[k] \in Fills
  OBVIOUS
<1>2. Walkable(n, Ledgers, FreshPortfolio, step)
  <2>1. FreshPortfolio \in Ledgers
    BY OrdersAssumption DEF FreshPortfolio, Ledgers, Holding
  <2> QED  BY <1>1, <2>1, ProcessType DEF Walkable
<1>3. PICK g : Walks(n, Ledgers, FreshPortfolio, step, g)
  BY <1>1, <1>2, WalkExists
<1>4. g \in [0..n -> Ledgers] /\ g[0] = FreshPortfolio
  BY <1>3 DEF Walks
<1>5. \A k \in 1..n : g[k] = ProcessFill(g[k - 1], fills[k])
  <2> TAKE k \in 1..n
  <2>1. k - 1 \in 0..n /\ g[k - 1] \in Ledgers
    BY <1>1, <1>4
  <2>2. step[k][g[k - 1]] = ProcessFill(g[k - 1], fills[k])
    BY <2>1
  <2> QED  BY <1>3, <2>2 DEF Walks
<1>6. Run(g)
  <2>1. g = [k \in 0..n |-> g[k]]
    BY <1>4
  <2>2. \A k \in 0..n : g[k] = IF k = 0 THEN FreshPortfolio ELSE ProcessFill(g[k - 1], fills[k])
    BY <1>1, <1>4, <1>5
  <2> QED  BY <2>1, <2>2
<1>7. Run(h)
  BY <1>6 DEF Portfolios
<1> HIDE DEF h, step
<1>8. \A k \in 0..n : h[k] = IF k = 0 THEN FreshPortfolio ELSE ProcessFill(h[k - 1], fills[k])
  BY <1>7
<1>9. h[0] = FreshPortfolio /\ \A k \in 1..n : h[k] = ProcessFill(h[k - 1], fills[k])
  BY <1>1, <1>8
<1>10. StepAlike(n, h, g)
  BY <1>4, <1>5, <1>9 DEF StepAlike
<1>11. \A k \in 0..n : h[k] = g[k]
  BY <1>1, <1>10, WalksAgree
<1> QED  BY <1>4, <1>9, <1>11 DEF h

LEMMA PortfolioAppend ==
  ASSUME NEW fills \in Seq(Fills), NEW f \in Fills
  PROVE  Portfolios(Append(fills, f))[Len(fills) + 1]
            = ProcessFill(Portfolios(fills)[Len(fills)], f)
<1> DEFINE n == Len(fills)
           more == Append(fills, f)
           g == Portfolios(more)
           h == Portfolios(fills)
<1>1. /\ n \in Nat /\ more \in Seq(Fills) /\ Len(more) = n + 1
      /\ more[n + 1] = f /\ \A k \in 1..n : more[k] = fills[k]
  OBVIOUS
<1>2. g[0] = FreshPortfolio /\ \A k \in 1..(n + 1) : g[k] = ProcessFill(g[k - 1], more[k])
  <2> HIDE DEF more
  <2> QED  BY <1>1, PortfolioRuns
<1>3. h[0] = FreshPortfolio /\ \A k \in 1..n : h[k] = ProcessFill(h[k - 1], fills[k])
  BY PortfolioRuns
<1> HIDE DEF g, h, more
<1>4. StepAlike(n, g, h)
  BY <1>1, <1>2, <1>3 DEF StepAlike
<1>5. g[n] = h[n]
  BY <1>1, <1>4, WalksAgree
<1>6. g[n + 1] = ProcessFill(g[n], f)
  BY <1>1, <1>2
<1> QED  BY <1>5, <1>6 DEF g, h, more

\* Books that agree with their history, and with the portfolio that was fed it.
LastPortfolio(fills) == Portfolios(fills)[Len(fills)]
Balanced(b) ==
  /\ b.cash = CashAfter(b.fills)[Len(b.fills)]
  /\ ~LastPortfolio(b.fills).short => LastPortfolio(b.fills).cash = b.cash /\ LastPortfolio(b.fills).held = b.held

GoodBooks == {b \in Books : Balanced(b)}

LEMMA FreshBooks == FreshBroker \in GoodBooks
<1>1. FreshBroker \in Books /\ FreshBroker.fills = <<>> /\ <<>> \in Seq(Fills) /\ Len(<<>>) = 0
  BY OrdersAssumption DEF FreshBroker, Books, Holding
<1>2. CashAfter(<<>>)[0] = InitialCash /\ Portfolios(<<>>)[0] = FreshPortfolio
  BY <1>1, CashRuns, PortfolioRuns
<1> QED  BY <1>1, <1>2 DEF GoodBooks, Balanced, LastPortfolio, FreshBroker, FreshPortfolio

\* What a fill does to the books, and what the portfolio makes of it.
LEMMA BookedFacts ==
  ASSUME NEW b \in Books, NEW o \in Orders, NEW price \in Nat, price > 0
  PROVE  LET f == [order |-> o, quantity |-> Fillable(b, o, price), price |-> price,
                   fee |-> Commission(Quantity[o] * price)]
             after == Booked(b, o, price)
         IN  /\ f \in Fills
             /\ after \in Books
             /\ after.fills = Append(b.fills, f)
             /\ after.cash = b.cash + Moved(f)
             /\ \A p \in Ledgers :
                   ~ProcessFill(p, f).short /\ p.cash = b.cash /\ p.held = b.held
                      => ProcessFill(p, f).cash = after.cash /\ ProcessFill(p, f).held = after.held
<1> DEFINE q == Fillable(b, o, price)
           fee == Commission(Quantity[o] * price)
           f == [order |-> o, quantity |-> q, price |-> price, fee |-> fee]
           after == Booked(b, o, price)
           s == Symbol[o]
           held == IF Side[o] = "buy" THEN b.held[s] + q ELSE Larger(0, b.held[s] - q)
           cash == IF Side[o] = "buy" THEN b.cash - (price * q + fee) ELSE b.cash + price * q - fee
<1>1. /\ q \in Nat /\ fee \in Nat /\ price * q \in Nat /\ s \in Symbols
      /\ b.cash \in Int /\ b.held \in [Symbols -> Nat] /\ b.held[s] \in Nat
      /\ b.fills \in Seq(Fills)
  BY FillableFits, OrderTypes, CommissionType, ProductType DEF Books, Holding
<1>2. /\ after.cash = cash
      /\ after.held = [b.held EXCEPT ![s] = held]
      /\ after.fills = Append(b.fills, f)
      /\ after = [cash |-> after.cash, held |-> after.held, fills |-> after.fills]
  BY DEF Booked
<1>3. f \in Fills
  BY <1>1 DEF Fills
<1>4. held \in Nat /\ cash \in Int
  <2> HIDE DEF q, fee, s
  <2>1. held \in Nat
    BY <1>1 DEF Larger
  <2>2. cash \in Int
    BY <1>1
  <2> QED  BY <2>1, <2>2
<1>5. /\ f.order = o /\ f.quantity = q /\ f.price = price /\ f.fee = fee
  OBVIOUS
<1>6. cash = b.cash + Moved(f)
  <2> HIDE DEF fee, q
  <2> QED  BY <1>1 DEF Moved
<1> HIDE DEF f, fee, cash
<1>7. after \in Books
  <2>1. after.held \in Holding
    BY <1>1, <1>2, <1>4 DEF Holding
  <2>2. after.fills \in Seq(Fills)
    BY <1>1, <1>2, <1>3
  <2> HIDE DEF after
  <2> QED  BY <1>2, <1>4, <2>1, <2>2 DEF Books
<1> HIDE DEF after
<1>8. ASSUME NEW p \in Ledgers, ~ProcessFill(p, f).short, p.cash = b.cash, p.held = b.held
      PROVE  ProcessFill(p, f).cash = after.cash /\ ProcessFill(p, f).held = after.held
  <2>1. CASE Side[o] = "buy"
    <3>1. ProcessFill(p, f) = ProcessBuy(p, f)
      BY <1>5, <2>1 DEF ProcessFill
    <3>2. /\ ProcessFill(p, f).cash = b.cash - (price * q + fee)
          /\ ProcessFill(p, f).held = [b.held EXCEPT ![s] = @ + q]
      BY <1>5, <1>8, <3>1 DEF ProcessBuy, Ledgers
    <3> QED  BY <1>1, <1>2, <2>1, <3>2 DEF cash
  <2>2. CASE Side[o] # "buy" /\ b.held[s] = 0
    <3>1. ProcessFill(p, f) = [p EXCEPT !.held[Symbol[f.order]] = f.quantity, !.short = TRUE]
      BY <1>5, <1>8, <2>2 DEF ProcessFill, ProcessSell
    <3>2. ProcessFill(p, f).short = TRUE
      BY <3>1 DEF Ledgers
    <3> QED  BY <1>8, <3>2
  <2>3. CASE Side[o] # "buy" /\ b.held[s] # 0
    <3>1. q = Smaller(Quantity[o], b.held[s])
      BY <1>1, <2>3 DEF Fillable
    <3>2. q <= b.held[s] /\ Smaller(q, b.held[s]) = q
      BY <1>1, <3>1, OrderTypes DEF Smaller
    <3> HIDE DEF q
    <3>3. ProcessFill(p, f) = [p EXCEPT !.cash = @ + price * q - fee, !.held[s] = @ - q]
      BY <1>5, <1>8, <2>3, <3>2 DEF ProcessFill, ProcessSell
    <3>4. /\ ProcessFill(p, f).cash = b.cash + price * q - fee
          /\ ProcessFill(p, f).held = [b.held EXCEPT ![s] = @ - q]
      BY <1>8, <3>3 DEF Ledgers
    <3>5. held = b.held[s] - q
      BY <1>1, <2>3, <3>2 DEF Larger
    <3> QED  BY <1>1, <1>2, <2>3, <3>4, <3>5 DEF cash
  <2> QED  BY <2>1, <2>2, <2>3
<1> QED  BY <1>2, <1>3, <1>6, <1>7, <1>8 DEF f, after, fee

LEMMA FillOrderSound ==
  ASSUME NEW b \in GoodBooks, NEW o \in Orders, NEW price \in Nat, price > 0
  PROVE  FillOrder(b, o, price) \in GoodBooks
<1> DEFINE f == [order |-> o, quantity |-> Fillable(b, o, price), price |-> price,
                 fee |-> Commission(Quantity[o] * price)]
           after == Booked(b, o, price)
<1>1. b \in Books /\ Balanced(b) /\ b.fills \in Seq(Fills)
  BY DEF GoodBooks, Books
<1>2. /\ f \in Fills /\ after \in Books
      /\ after.fills = Append(b.fills, f)
      /\ after.cash = b.cash + Moved(f)
      /\ \A p \in Ledgers :
            ~ProcessFill(p, f).short /\ p.cash = b.cash /\ p.held = b.held
               => ProcessFill(p, f).cash = after.cash /\ ProcessFill(p, f).held = after.held
  BY <1>1, BookedFacts
<1> HIDE DEF f, after
<1>3. Len(after.fills) = Len(b.fills) + 1
  BY <1>1, <1>2
<1>4. CashAfter(after.fills)[Len(after.fills)] = CashAfter(b.fills)[Len(b.fills)] + Moved(f)
  BY <1>1, <1>2, <1>3, CashAppend
<1>5. LastPortfolio(after.fills) = ProcessFill(LastPortfolio(b.fills), f)
  BY <1>1, <1>2, <1>3, PortfolioAppend DEF LastPortfolio
<1>6. LastPortfolio(b.fills) \in Ledgers
  <2>1. Len(b.fills) \in 0..Len(b.fills)
    BY <1>1
  <2> QED  BY <1>1, <2>1, PortfolioRuns DEF LastPortfolio
<1>7. Balanced(after)
  BY <1>1, <1>2, <1>4, <1>5, <1>6, ProcessType DEF Balanced
<1> QED  BY <1>2, <1>7 DEF FillOrder, GoodBooks, after

\* The walk over the queue.
Ticks == [books : GoodBooks, still : Seq(Orders), due : SUBSET Orders, took : [Orders -> Nat]]

LimitQueue(queued) ==
  /\ queued \in Seq(Orders)
  /\ \A k \in 1..Len(queued) : Limit[queued[k]] > 0
  /\ \A j, k \in 1..Len(queued) : queued[j] = queued[k] => j = k

LEMMA VisitDue ==
  ASSUME NEW x \in Ticks, NEW o \in Orders, Limit[o] > 0, NEW price, Reached(o, price)
  PROVE  /\ Visit(x, o, price) \in Ticks
         /\ Visit(x, o, price).still = x.still
         /\ Visit(x, o, price).due = x.due \cup {o}
         /\ Visit(x, o, price).took \in [Orders -> Nat]
         /\ Visit(x, o, price).took[o] <= Quantity[o]
         /\ \A p \in Orders \ {o} : Visit(x, o, price).took[p] = x.took[p]
<1>1. x.books \in GoodBooks /\ x.books \in Books /\ Limit[o] \in Nat /\ x.took \in [Orders -> Nat]
  BY OrderTypes DEF Ticks, GoodBooks
<1>2. FillOrder(x.books, o, Limit[o]) \in GoodBooks
  BY <1>1, FillOrderSound
<1>3. Fillable(x.books, o, Limit[o]) \in Nat /\ Fillable(x.books, o, Limit[o]) <= Quantity[o]
  BY <1>1, FillableFits
<1> DEFINE books == FillOrder(x.books, o, Limit[o])
           q == Fillable(x.books, o, Limit[o])
           due == x.due \cup {o}
           took == [x.took EXCEPT ![o] = q]
<1>4. Visit(x, o, price) = [books |-> books, still |-> x.still, due |-> due, took |-> took]
  BY DEF Visit, Ticks
<1>5. took \in [Orders -> Nat] /\ took[o] <= Quantity[o] /\ \A p \in Orders \ {o} : took[p] = x.took[p]
  <2> HIDE DEF q
  <2> QED  BY <1>1, <1>3 DEF q
<1>6. due \in SUBSET Orders /\ x.still \in Seq(Orders)
  BY DEF Ticks
<1> HIDE DEF books, due, took
<1> QED  BY <1>2, <1>4, <1>5, <1>6 DEF Ticks, books, due

LEMMA VisitWaiting ==
  ASSUME NEW x \in Ticks, NEW o \in Orders, NEW price, ~Reached(o, price)
  PROVE  /\ Visit(x, o, price) \in Ticks
         /\ Visit(x, o, price).still = Append(x.still, o)
         /\ Visit(x, o, price).due = x.due
         /\ Visit(x, o, price).took = x.took
<1> DEFINE still == Append(x.still, o)
<1>1. Visit(x, o, price) = [books |-> x.books, still |-> still, due |-> x.due, took |-> x.took]
  BY DEF Visit, Ticks
<1>2. still \in Seq(Orders)
  BY DEF Ticks
<1> HIDE DEF still
<1> QED  BY <1>1, <1>2 DEF Ticks, still

LEMMA TickRuns ==
  ASSUME NEW b \in GoodBooks, NEW queued, LimitQueue(queued), NEW price
  PROVE  /\ Tick(b, queued, price)[0] = Unvisited(b)
         /\ \A k \in 1..Len(queued) :
               Tick(b, queued, price)[k] = Visit(Tick(b, queued, price)[k - 1], queued[k], price)
         /\ \A k \in 0..Len(queued) : Tick(b, queued, price)[k] \in Ticks
<1> DEFINE n == Len(queued)
           step == [k \in 1..n |-> [x \in Ticks |-> Visit(x, queued[k], price)]]
           Run(g) == g = [k \in 0..n |-> IF k = 0 THEN Unvisited(b)
                                                  ELSE Visit(g[k - 1], queued[k], price)]
           h == Tick(b, queued, price)
<1>1. n \in Nat /\ \A k \in 1..n : queued[k] \in Orders /\ Limit[queued[k]] > 0
  BY DEF LimitQueue
<1>2. Walkable(n, Ticks, Unvisited(b), step)
  <2>1. Unvisited(b) \in Ticks
    BY DEF Unvisited, Ticks
  <2> QED  BY <1>1, <2>1, VisitDue, VisitWaiting DEF Walkable
<1>3. PICK g : Walks(n, Ticks, Unvisited(b), step, g)
  BY <1>1, <1>2, WalkExists
<1>4. g \in [0..n -> Ticks] /\ g[0] = Unvisited(b)
  BY <1>3 DEF Walks
<1>5. \A k \in 1..n : g[k] = Visit(g[k - 1], queued[k], price)
  <2> TAKE k \in 1..n
  <2>1. k - 1 \in 0..n /\ g[k - 1] \in Ticks
    BY <1>1, <1>4
  <2>2. step[k][g[k - 1]] = Visit(g[k - 1], queued[k], price)
    BY <2>1
  <2> QED  BY <1>3, <2>2 DEF Walks
<1>6. Run(g)
  <2>1. g = [k \in 0..n |-> g[k]]
    BY <1>4
  <2>2. \A k \in 0..n : g[k] = IF k = 0 THEN Unvisited(b) ELSE Visit(g[k - 1], queued[k], price)
    BY <1>1, <1>4, <1>5
  <2> QED  BY <2>1, <2>2
<1>7. Run(h)
  BY <1>6 DEF Tick
<1> HIDE DEF h, step
<1>8. \A k \in 0..n : h[k] = IF k = 0 THEN Unvisited(b) ELSE Visit(h[k - 1], queued[k], price)
  BY <1>7
<1>9. h[0] = Unvisited(b) /\ \A k \in 1..n : h[k] = Visit(h[k - 1], queued[k], price)
  BY <1>1, <1>8
<1>10. StepAlike(n, h, g)
  BY <1>4, <1>5, <1>9 DEF StepAlike
<1>11. \A k \in 0..n : h[k] = g[k]
  BY <1>1, <1>10, WalksAgree
<1> QED  BY <1>4, <1>9, <1>11 DEF h

\* After the first k orders of the queue: what is left of them is still in its order
\* and once, what was due is no more in it, and only what was due was filled.
Visited(x, queued, k) ==
  /\ \A i \in 1..Len(x.still) : \E j \in 1..k : x.still[i] = queued[j]
  /\ \A i, j \in 1..Len(x.still) : x.still[i] = x.still[j] => i = j
  /\ \A o \in x.due : \E j \in 1..k : o = queued[j]
  /\ \A i \in 1..Len(x.still) : x.still[i] \notin x.due
  /\ \A o \in Orders : x.took[o] <= Quantity[o]
  /\ \A o \in Orders \ x.due : x.took[o] = 0

LEMMA VisitOne ==
  ASSUME NEW queued, LimitQueue(queued), NEW k \in Nat, k + 1 \in 1..Len(queued), NEW price,
         NEW x \in Ticks, Visited(x, queued, k)
  PROVE  Visited(Visit(x, queued[k + 1], price), queued, k + 1)
<1> DEFINE o == queued[k + 1]
           y == Visit(x, o, price)
<1>1. o \in Orders /\ Limit[o] > 0 /\ \A j \in 1..k : j \in 1..(k + 1) /\ o # queued[j]
  BY DEF LimitQueue
<1>2. k + 1 \in 1..(k + 1) /\ o = queued[k + 1]
  OBVIOUS
<1> HIDE DEF o
<1>3. /\ x.still \in Seq(Orders) /\ Len(x.still) \in Nat
      /\ \A i \in 1..Len(x.still) : x.still[i] # o
      /\ o \notin x.due
  <2>1. x.still \in Seq(Orders) /\ Len(x.still) \in Nat
    BY DEF Ticks
  <2>2. \A i \in 1..Len(x.still) : x.still[i] # o
    <3> TAKE i \in 1..Len(x.still)
    <3>1. PICK j \in 1..k : x.still[i] = queued[j]
      BY DEF Visited
    <3> QED  BY <1>1, <3>1
  <2>3. o \notin x.due
    BY <1>1 DEF Visited
  <2> QED  BY <2>1, <2>2, <2>3
<1>4. CASE Reached(o, price)
  <2>1. /\ y.still = x.still /\ y.due = x.due \cup {o} /\ y.took[o] <= Quantity[o]
        /\ \A p \in Orders \ {o} : y.took[p] = x.took[p]
    BY <1>1, <1>4, VisitDue
  <2> HIDE DEF y
  <2>2. /\ \A i \in 1..Len(y.still) : \E j \in 1..(k + 1) : y.still[i] = queued[j]
        /\ \A i, j \in 1..Len(y.still) : y.still[i] = y.still[j] => i = j
    BY <1>1, <2>1 DEF Visited
  <2>3. \A p \in y.due : \E j \in 1..(k + 1) : p = queued[j]
    BY <1>1, <1>2, <2>1 DEF Visited
  <2>4. \A i \in 1..Len(y.still) : y.still[i] \notin y.due
    BY <1>3, <2>1 DEF Visited
  <2>5. /\ \A p \in Orders : y.took[p] <= Quantity[p]
        /\ \A p \in Orders \ y.due : y.took[p] = 0
    BY <2>1 DEF Visited
  <2>6. Visited(y, queued, k + 1)
    BY <2>2, <2>3, <2>4, <2>5 DEF Visited
  <2> QED  BY <1>2, <2>6 DEF y
<1>5. CASE ~Reached(o, price)
  <2>1. y.still = Append(x.still, o) /\ y.due = x.due /\ y.took = x.took
    BY <1>1, <1>5, VisitWaiting
  <2>2. /\ Len(y.still) = Len(x.still) + 1 /\ y.still[Len(x.still) + 1] = o
        /\ \A i \in 1..Len(x.still) : y.still[i] = x.still[i]
    BY <1>1, <1>3, <2>1
  <2> HIDE DEF y
  <2>3. \A i \in 1..Len(y.still) : i = Len(x.still) + 1 \/ i \in 1..Len(x.still)
    BY <1>3, <2>2
  <2>4. \A i \in 1..Len(y.still) : \E j \in 1..(k + 1) : y.still[i] = queued[j]
    BY <1>1, <1>2, <2>2, <2>3 DEF Visited
  <2>5. \A i, j \in 1..Len(y.still) : y.still[i] = y.still[j] => i = j
    BY <1>3, <2>2, <2>3 DEF Visited
  <2>6. \A i \in 1..Len(y.still) : y.still[i] \notin y.due
    BY <1>3, <2>1, <2>2, <2>3 DEF Visited
  <2>7. \A p \in y.due : \E j \in 1..(k + 1) : p = queued[j]
    BY <1>1, <2>1 DEF Visited
  <2>8. Visited(y, queued, k + 1)
    BY <2>1, <2>4, <2>5, <2>6, <2>7 DEF Visited
  <2> QED  BY <1>2, <2>8 DEF y
<1> QED  BY <1>4, <1>5

LEMMA TickVisits ==
  ASSUME NEW b \in GoodBooks, NEW queued, LimitQueue(queued), NEW price
  PROVE  LET x == Tick(b, queued, price)[Len(queued)]
         IN  x \in Ticks /\ Visited(x, queued, Len(queued))
<1> DEFINE n == Len(queued)
           h == Tick(b, queued, price)
           S == {k \in Nat : k <= n => Visited(h[k], queued, k)}
<1>1. /\ n \in Nat /\ h[0] = Unvisited(b)
      /\ \A k \in 1..n : h[k] = Visit(h[k - 1], queued[k], price)
      /\ \A k \in 0..n : h[k] \in Ticks
  BY TickRuns DEF LimitQueue
<1> HIDE DEF h
<1>2. 0 \in S
  <2>1. Visited(Unvisited(b), queued, 0)
    BY OrderTypes DEF Visited, Unvisited
  <2> QED  BY <1>1, <2>1
<1>3. ASSUME NEW k \in Nat, k \in S  PROVE k + 1 \in S
  <2>1. CASE k + 1 <= n
    <3>1. k + 1 \in 1..n /\ k \in 0..n /\ (k + 1) - 1 = k /\ Visited(h[k], queued, k)
      BY <1>1, <1>3, <2>1
    <3>2. h[k] \in Ticks /\ h[k + 1] = Visit(h[k], queued[k + 1], price)
      BY <1>1, <3>1
    <3>3. Visited(h[k + 1], queued, k + 1)
      BY <3>1, <3>2, VisitOne
    <3> QED  BY <3>3
  <2>2. CASE ~(k + 1 <= n)
    BY <2>2
  <2> QED  BY <2>1, <2>2
<1>4. n \in S
  <2> HIDE DEF S
  <2> QED  BY <1>1, <1>2, <1>3, Induct
<1> QED  BY <1>1, <1>4 DEF h

\* An order that is still to be filled has nothing, and one in the queue waits there
\* alone: its request has ended.
Unfilled == {"idle", "created", "submitted"}
Phases == Unfilled \cup {"failed", "answered", "done"}

OrdersInv ==
  /\ broker \in GoodBooks
  /\ request \in [Orders -> Phases]
  /\ filled \in [Orders -> Nat]
  /\ LimitQueue(pending)
  /\ \A k \in 1..Len(pending) : request[pending[k]] = "failed" /\ filled[pending[k]] = 0
  /\ \A o \in Orders : request[o] \in Unfilled => filled[o] = 0
  /\ FilledOnce

\* A request goes on, and neither the books nor the queue change.
LEMMA RequestStep ==
  ASSUME OrdersInv, NEW o \in Orders, NEW stage \in Phases,
         request[o] # "failed", request[o] \in Unfilled \/ stage \notin Unfilled,
         request' = [request EXCEPT ![o] = stage], UNCHANGED <<broker, pending, filled>>
  PROVE  OrdersInv'
<1>1. request' \in [Orders -> Phases]
  BY DEF OrdersInv
<1>2. \A k \in 1..Len(pending) : pending[k] \in Orders /\ pending[k] # o
  BY DEF OrdersInv, LimitQueue
<1>3. \A k \in 1..Len(pending) : request'[pending[k]] = "failed" /\ filled[pending[k]] = 0
  BY <1>2 DEF OrdersInv
<1>4. \A p \in Orders : request'[p] \in Unfilled => filled[p] = 0
  BY DEF OrdersInv
<1> QED  BY <1>1, <1>3, <1>4 DEF OrdersInv, FilledOnce

LEMMA QueueLimitStep ==
  ASSUME OrdersInv, NEW o \in Orders, QueueLimit(o)
  PROVE  OrdersInv'
<1>1. /\ request[o] = "submitted" /\ Limit[o] > 0
      /\ request' = [request EXCEPT ![o] = "failed"]
      /\ pending' = Append(pending, o) /\ UNCHANGED <<broker, filled>>
  BY DEF QueueLimit
<1>2. /\ pending \in Seq(Orders) /\ Len(pending) \in Nat
      /\ \A k \in 1..Len(pending) : pending[k] # o
  BY <1>1 DEF OrdersInv, LimitQueue
<1>3. /\ pending' \in Seq(Orders) /\ Len(pending') = Len(pending) + 1
      /\ pending'[Len(pending) + 1] = o
      /\ \A k \in 1..Len(pending) : pending'[k] = pending[k]
  BY <1>1, <1>2
<1>4. \A k \in 1..Len(pending') : k = Len(pending) + 1 \/ k \in 1..Len(pending)
  BY <1>2, <1>3
<1>5. LimitQueue(pending')
  <2>1. \A k \in 1..Len(pending') : Limit[pending'[k]] > 0
    BY <1>1, <1>3, <1>4 DEF OrdersInv, LimitQueue
  <2>2. ASSUME NEW j \in 1..Len(pending'), NEW k \in 1..Len(pending'), pending'[j] = pending'[k]
        PROVE  j = k
    <3>1. CASE j \in 1..Len(pending) /\ k \in 1..Len(pending)
      <4>1. pending[j] = pending[k]
        BY <1>3, <2>2, <3>1
      <4> QED  BY <3>1, <4>1 DEF OrdersInv, LimitQueue
    <3>2. CASE j = Len(pending) + 1 /\ k \in 1..Len(pending)
      BY <1>2, <1>3, <2>2, <3>2
    <3>3. CASE k = Len(pending) + 1 /\ j \in 1..Len(pending)
      BY <1>2, <1>3, <2>2, <3>3
    <3> QED  BY <1>4, <3>1, <3>2, <3>3
  <2> QED  BY <1>3, <2>1, <2>2 DEF LimitQueue
<1>6. filled[o] = 0 /\ request' \in [Orders -> Phases] /\ request'[o] = "failed"
  BY <1>1 DEF OrdersInv, Unfilled, Phases
<1>7. \A k \in 1..Len(pending') : request'[pending'[k]] = "failed" /\ filled[pending'[k]] = 0
  <2> TAKE k \in 1..Len(pending')
  <2>1. CASE k = Len(pending) + 1
    BY <1>3, <1>6, <2>1
  <2>2. CASE k \in 1..Len(pending)
    <3>1. pending[k] \in Orders /\ pending[k] # o
      BY <1>2, <2>2
    <3> QED  BY <1>1, <1>3, <2>2, <3>1 DEF OrdersInv
  <2> QED  BY <1>4, <2>1, <2>2
<1>8. \A p \in Orders : request'[p] \in Unfilled => filled[p] = 0
  BY <1>1 DEF OrdersInv, Unfilled
<1> QED  BY <1>1, <1>5, <1>6, <1>7, <1>8 DEF OrdersInv, FilledOnce

LEMMA FillMarketStep ==
  ASSUME OrdersInv, NEW o \in Orders, FillMarket(o)
  PROVE  OrdersInv'
<1>1. PICK price \in Prices :
         /\ broker' = FillOrder(broker, o, price)
         /\ filled' = [filled EXCEPT ![o] = @ + Fillable(broker, o, price)]
         /\ request' = [request EXCEPT
                           ![o] = IF Fillable(broker, o, price) = 0 THEN "failed" ELSE "answered"]
  BY DEF FillMarket
<1>2. request[o] = "submitted" /\ UNCHANGED pending
  BY DEF FillMarket
<1>3. price \in Nat /\ price > 0 /\ broker \in Books
  BY OrdersAssumption DEF OrdersInv, GoodBooks
<1> DEFINE q == Fillable(broker, o, price)
<1>4. q \in Nat /\ q <= Quantity[o]
  BY <1>3, FillableFits
<1>5. broker' \in GoodBooks
  BY <1>1, <1>3, FillOrderSound DEF OrdersInv
<1>6. PICK stage \in {"failed", "answered"} : request' = [request EXCEPT ![o] = stage]
  BY <1>1
<1> HIDE DEF q
<1>7. /\ filled' \in [Orders -> Nat] /\ filled'[o] = q
      /\ \A p \in Orders \ {o} : filled'[p] = filled[p]
  <2>1. filled' = [filled EXCEPT ![o] = @ + q] /\ filled[o] = 0
    BY <1>1, <1>2 DEF q, OrdersInv, Unfilled
  <2> QED  BY <1>4, <2>1 DEF OrdersInv
<1>8. \A k \in 1..Len(pending) : pending[k] \in Orders /\ pending[k] # o
  BY <1>2 DEF OrdersInv, LimitQueue
<1>9. \A k \in 1..Len(pending) : request'[pending[k]] = "failed" /\ filled'[pending[k]] = 0
  BY <1>6, <1>7, <1>8 DEF OrdersInv
<1>10. /\ request' \in [Orders -> Phases]
       /\ \A p \in Orders : request'[p] \in Unfilled => filled'[p] = 0
  BY <1>6, <1>7 DEF OrdersInv, Phases, Unfilled
<1>11. \A p \in Orders : filled'[p] <= Quantity[p]
  BY <1>4, <1>7 DEF OrdersInv, FilledOnce
<1> QED  BY <1>2, <1>5, <1>7, <1>9, <1>10, <1>11 DEF OrdersInv, FilledOnce

LEMMA ProcessPendingStep ==
  ASSUME OrdersInv, ProcessPending
  PROVE  OrdersInv'
<1>1. PICK price \in [Symbols -> Prices] :
         LET tick == Tick(broker, pending, price)[Len(pending)]
         IN  /\ broker' = tick.books
             /\ pending' = tick.still
             /\ filled' = [o \in Orders |-> filled[o] + tick.took[o]]
             /\ UNCHANGED request
  BY DEF ProcessPending
<1> DEFINE x == Tick(broker, pending, price)[Len(pending)]
<1>2. x \in Ticks /\ Visited(x, pending, Len(pending))
  BY TickVisits DEF OrdersInv
<1>3. /\ broker' = x.books /\ pending' = x.still /\ UNCHANGED request
      /\ filled' = [o \in Orders |-> filled[o] + x.took[o]]
  BY <1>1
<1>4. PICK y : /\ y \in Ticks /\ Visited(y, pending, Len(pending))
               /\ broker' = y.books /\ pending' = y.still /\ UNCHANGED request
               /\ filled' = [o \in Orders |-> filled[o] + y.took[o]]
  BY <1>2, <1>3
<1>5. /\ broker' \in GoodBooks /\ pending' \in Seq(Orders)
      /\ y.took \in [Orders -> Nat] /\ y.due \subseteq Orders
  BY <1>4 DEF Ticks
<1>6. filled' \in [Orders -> Nat]
  BY <1>4, <1>5 DEF OrdersInv
<1>7. \A o \in Orders : o \notin y.due => filled'[o] = filled[o]
  BY <1>4, <1>5 DEF Visited, OrdersInv
<1>8. \A o \in y.due : filled[o] = 0 /\ filled'[o] = y.took[o] /\ request[o] = "failed"
  <2> TAKE o \in y.due
  <2>1. PICK k \in 1..Len(pending) : o = pending[k]
    BY <1>4 DEF Visited
  <2>2. filled[o] = 0 /\ request[o] = "failed"
    BY <2>1 DEF OrdersInv
  <2> QED  BY <1>4, <1>5, <2>2
<1>9. \A o \in Orders : filled'[o] <= Quantity[o]
  BY <1>4, <1>7, <1>8 DEF Visited, OrdersInv, FilledOnce
<1>10. LimitQueue(pending')
       /\ \A k \in 1..Len(pending') : request'[pending'[k]] = "failed" /\ filled'[pending'[k]] = 0
  <2>1. ASSUME NEW k \in 1..Len(pending')
        PROVE  /\ Limit[pending'[k]] > 0
               /\ request'[pending'[k]] = "failed" /\ filled'[pending'[k]] = 0
    <3>1. PICK j \in 1..Len(pending) : y.still[k] = pending[j]
      BY <1>4 DEF Visited
    <3>2. pending'[k] = pending[j] /\ pending[j] \in Orders /\ pending[j] \notin y.due
      BY <1>4, <1>5, <3>1 DEF Visited, OrdersInv, LimitQueue
    <3> QED  BY <1>4, <1>7, <3>2 DEF OrdersInv, LimitQueue
  <2>2. \A i, j \in 1..Len(pending') : pending'[i] = pending'[j] => i = j
    BY <1>4 DEF Visited
  <2> QED  BY <1>5, <2>1, <2>2 DEF LimitQueue
<1>11. \A o \in Orders : request'[o] \in Unfilled => filled'[o] = 0
  BY <1>4, <1>7, <1>8 DEF OrdersInv, Unfilled
<1> QED  BY <1>4, <1>5, <1>6, <1>9, <1>10, <1>11 DEF OrdersInv, FilledOnce

LEMMA RestartStep ==
  ASSUME OrdersInv, RestartTerminal
  PROVE  OrdersInv'
<1>1. /\ broker' = FreshBroker /\ pending' = <<>> /\ UNCHANGED filled
      /\ request' = [o \in Orders |-> IF request[o] = "idle" THEN "idle" ELSE "done"]
  BY DEF RestartTerminal
<1>2. LimitQueue(pending') /\ Len(pending') = 0
  BY <1>1 DEF LimitQueue
<1>3. request' \in [Orders -> Phases]
      /\ \A o \in Orders : request'[o] \in Unfilled => filled[o] = 0
  BY <1>1 DEF OrdersInv, Phases, Unfilled
<1> QED  BY <1>1, <1>2, <1>3, FreshBooks DEF OrdersInv, FilledOnce

LEMMA OrdersStepSound ==
  ASSUME OrdersInv, OrdersNext \/ UNCHANGED ordersVars
  PROVE  OrdersInv'
<1>1. ASSUME NEW o \in Orders,
             CreateOrder(o) \/ AnnounceFails(o) \/ SubmitOrder(o) \/ RejectOrder(o) \/ RecordFill(o)
      PROVE  OrdersInv'
  <2>1. \E stage \in Phases :
           /\ request[o] # "failed" /\ (request[o] \in Unfilled \/ stage \notin Unfilled)
           /\ request' = [request EXCEPT ![o] = stage]
           /\ UNCHANGED <<broker, pending, filled>>
    BY <1>1 DEF CreateOrder, AnnounceFails, SubmitOrder, RejectOrder, RecordFill, Phases, Unfilled
  <2> QED  BY <2>1, RequestStep
<1>2. ASSUME NEW o \in Orders, QueueLimit(o) \/ FillMarket(o)  PROVE OrdersInv'
  BY <1>2, QueueLimitStep, FillMarketStep
<1>3. CASE (\E o \in Orders : ReadForCancel(o) \/ CancelOrder(o)) \/ Disconnect \/ UNCHANGED ordersVars
  <2>1. UNCHANGED <<request, broker, pending, filled>>
    BY <1>3 DEF ReadForCancel, CancelOrder, Disconnect, ordersVars
  <2> QED  BY <2>1 DEF OrdersInv, FilledOnce
<1> QED  BY <1>1, <1>2, <1>3, ProcessPendingStep, RestartStep DEF OrdersNext

LEMMA OrdersHold == TerminalSpec => []OrdersInv
<1>1. TerminalInit => OrdersInv
  <2> SUFFICES ASSUME TerminalInit  PROVE OrdersInv
    OBVIOUS
  <2>1. LimitQueue(<<>>) /\ Len(<<>>) = 0
    BY DEF LimitQueue
  <2> QED  BY <2>1, FreshBooks, OrderTypes
           DEF TerminalInit, OrdersInit, OrdersInv, FilledOnce, Phases, Unfilled
<1>2. OrdersInv /\ [TerminalNext]_terminalVars => OrdersInv'
  BY PartsTakeTurns, OrdersStepSound
<1> QED  BY <1>1, <1>2, PTL DEF TerminalSpec

\* For any orders, prices, cancellations and restarts: no order is filled beyond what
\* was ordered.
THEOREM OrdersFillOnce == TerminalSpec => []FilledOnce
<1>1. OrdersInv => FilledOnce
  BY DEF OrdersInv
<1> QED  BY <1>1, OrdersHold, PTL

\* The cash of the broker is what its history of fills makes of the initial cash.
THEOREM CashFollowsFills == TerminalSpec => []CashIsHistory
<1>1. OrdersInv => CashIsHistory
  BY DEF OrdersInv, GoodBooks, Balanced, CashIsHistory
<1> QED  BY <1>1, OrdersHold, PTL

\* The portfolio service, fed the same fills, has the same cash and holdings.
THEOREM AccountingsAgree == TerminalSpec => []PortfolioAgrees
<1>1. OrdersInv => PortfolioAgrees
  BY DEF OrdersInv, GoodBooks, Balanced, PortfolioAgrees, Portfolio, LastPortfolio
<1> QED  BY <1>1, OrdersHold, PTL

-----------------------------------------------------------------------------
(* Agents: a repeated signal was forgotten. What an agent has emitted of a key,   *)
(* and is about to, is covered by the times it forgot the key and by its knowing  *)
(* it now.                                                                        *)

\* How many items of key i there are at some places of a feed.
Copies(a, places, i) == Cardinality({n \in places : Feed[a][n].id = i})
Knows(a, i) == IF i \in seen[a] THEN 1 ELSE 0
\* The places of the items that may still be enqueued in this scan.
Coming(a) == IF phase[a] = "scanning" THEN found[a] ELSE emitting[a]

AgentsTyped ==
  /\ phase \in [Scanners -> {"asleep", "scanning", "emitting"}]
  /\ DOMAIN rest = Scanners /\ DOMAIN found = Scanners
  /\ DOMAIN emitting = Scanners /\ DOMAIN seen = Scanners
  /\ \A a \in Scanners :
       /\ rest[a] \subseteq Places(a) /\ found[a] \subseteq Places(a)
       /\ emitting[a] \subseteq Places(a) /\ seen[a] \subseteq Ids(a)
       /\ phase[a] = "asleep" => emitting[a] = {}
  /\ emitted \in [AllIds -> Nat]
  /\ forgotten \in [AllIds -> Nat]

AgentsInv ==
  /\ AgentsTyped
  /\ \A a \in Scanners : \A i \in Ids(a) :
        emitted[i] + Copies(a, Coming(a), i) <= forgotten[i] + Knows(a, i)

LEMMA FeedFacts ==
  ASSUME NEW a \in Scanners
  PROVE  /\ Places(a) \in SUBSET Nat /\ IsFiniteSet(Places(a))
         /\ \A n \in Places(a) : Feed[a][n].id \in Ids(a)
         /\ Ids(a) \subseteq AllIds
         /\ \A b \in Scanners : b # a => Ids(a) \cap Ids(b) = {}
<1>1. Feed[a] \in Seq(Item)
  BY AgentsAssumption
<1>2. Len(Feed[a]) \in Nat /\ Places(a) = 1..Len(Feed[a])
  BY <1>1 DEF Places
<1>3. IsFiniteSet(1..Len(Feed[a]))
  BY <1>2, FS_Interval
<1>4. \A b \in Scanners : b # a => Ids(a) \cap Ids(b) = {}
  BY AgentsAssumption
<1>5. Places(a) \in SUBSET Nat /\ IsFiniteSet(Places(a))
  BY <1>2, <1>3
<1>6. (\A n \in Places(a) : Feed[a][n].id \in Ids(a)) /\ Ids(a) \subseteq AllIds
  BY DEF Ids, AllIds
<1> QED  BY <1>4, <1>5, <1>6

LEMMA IdsAreFinite ==
  ASSUME NEW a \in Scanners
  PROVE  IsFiniteSet(Ids(a))
<1> DEFINE f == [n \in Places(a) |-> Feed[a][n].id]
<1>1. f \in Surjection(Places(a), Ids(a))
  BY DEF Surjection, Ids
<1> HIDE DEF f
<1> QED  BY <1>1, FeedFacts, FS_Surjection

\* Copies at fewer places are fewer; a place more has one more at most.
LEMMA CopiesFacts ==
  ASSUME NEW a \in Scanners, NEW places \in SUBSET Places(a), NEW i
  PROVE  /\ Copies(a, places, i) \in Nat
         /\ Copies(a, {}, i) = 0
         /\ \A fewer \in SUBSET places : Copies(a, fewer, i) <= Copies(a, places, i)
         /\ \A n \in Places(a) :
              /\ Copies(a, places \cup {n}, i) <= Copies(a, places, i) + 1
              /\ Feed[a][n].id # i => Copies(a, places \cup {n}, i) = Copies(a, places, i)
         /\ \A n \in places : Feed[a][n].id = i =>
              Copies(a, places \ {n}, i) + 1 = Copies(a, places, i)
<1> DEFINE Here(s) == {n \in s : Feed[a][n].id = i}
<1>1. IsFiniteSet(Here(places))
  BY FeedFacts, FS_Subset
<1>2. Copies(a, places, i) = Cardinality(Here(places)) /\ Cardinality(Here(places)) \in Nat
  BY <1>1, FS_CardinalityType DEF Copies
<1>3. Copies(a, {}, i) = 0
  <2>1. {n \in {} : Feed[a][n].id = i} = {}
    OBVIOUS
  <2> QED  BY <2>1, FS_EmptySet DEF Copies
<1>4. ASSUME NEW fewer \in SUBSET places
      PROVE  Copies(a, fewer, i) <= Copies(a, places, i)
  <2>1. Here(fewer) \in SUBSET Here(places)
    OBVIOUS
  <2>2. Copies(a, fewer, i) = Cardinality(Here(fewer))
    BY DEF Copies
  <2> HIDE DEF Here
  <2> QED  BY <1>1, <1>2, <2>1, <2>2, FS_Subset
<1>5. ASSUME NEW n \in Places(a)
      PROVE  /\ Copies(a, places \cup {n}, i) <= Copies(a, places, i) + 1
             /\ Feed[a][n].id # i => Copies(a, places \cup {n}, i) = Copies(a, places, i)
  <2>1. Copies(a, places \cup {n}, i) = Cardinality(Here(places \cup {n}))
    BY DEF Copies
  <2>2. CASE Feed[a][n].id # i
    <3>1. Here(places \cup {n}) = Here(places)
      BY <2>2
    <3> HIDE DEF Here
    <3> QED  BY <1>2, <2>1, <3>1
  <2>3. CASE Feed[a][n].id = i
    <3>1. Here(places \cup {n}) = Here(places) \cup {n}
      BY <2>3
    <3> HIDE DEF Here
    <3>2. Cardinality(Here(places) \cup {n}) <= Cardinality(Here(places)) + 1
      <4>1. Cardinality(Here(places) \cup {n}) =
              IF n \in Here(places) THEN Cardinality(Here(places)) ELSE Cardinality(Here(places)) + 1
        BY <1>1, FS_AddElement
      <4> QED  BY <1>2, <4>1
    <3> QED  BY <1>2, <2>1, <2>3, <3>1, <3>2
  <2> QED  BY <2>2, <2>3
<1>6. ASSUME NEW n \in places, Feed[a][n].id = i
      PROVE  Copies(a, places \ {n}, i) + 1 = Copies(a, places, i)
  <2>1. Copies(a, places \ {n}, i) = Cardinality(Here(places \ {n}))
    BY DEF Copies
  <2>2. Here(places \ {n}) = Here(places) \ {n} /\ n \in Here(places)
    BY <1>6
  <2> HIDE DEF Here
  <2>3. Cardinality(Here(places) \ {n}) = Cardinality(Here(places)) - 1
    <3>1. Cardinality(Here(places) \ {n}) =
            IF n \in Here(places) THEN Cardinality(Here(places)) - 1 ELSE Cardinality(Here(places))
      BY <1>1, FS_RemoveElement
    <3> QED  BY <2>2, <3>1
  <2>4. Copies(a, places \ {n}, i) = Cardinality(Here(places)) - 1
    BY <2>1, <2>2, <2>3
  <2> QED  BY <1>2, <2>4
<1> QED  BY <1>2, <1>3, <1>4, <1>5, <1>6

\* A step of one agent.
LEMMA AgentFrame ==
  ASSUME AgentsInv, NEW a \in Scanners, AgentsTyped',
         \A b \in Scanners : b # a =>
            Coming(b)' = Coming(b) /\ seen'[b] = seen[b],
         \A i \in AllIds : forgotten'[i] >= forgotten[i],
         \A i \in AllIds : i \notin Ids(a) => emitted'[i] = emitted[i],
         \A i \in Ids(a) : emitted'[i] + Copies(a, Coming(a)', i) <= forgotten'[i] + Knows(a, i)'
  PROVE  AgentsInv'
<1>1. ASSUME NEW b \in Scanners, b # a, NEW i \in Ids(b)
      PROVE  emitted'[i] + Copies(b, Coming(b)', i) <= forgotten'[i] + Knows(b, i)'
  <2>1. i \in AllIds /\ i \notin Ids(a)
    BY <1>1, FeedFacts
  <2>2. Coming(b)' = Coming(b) /\ Knows(b, i)' = Knows(b, i) /\ Knows(b, i) \in 0..1
    BY <1>1 DEF Knows
  <2>3. emitted'[i] = emitted[i] /\ forgotten'[i] >= forgotten[i]
    BY <2>1
  <2>4. emitted[i] + Copies(b, Coming(b), i) <= forgotten[i] + Knows(b, i)
    BY <1>1 DEF AgentsInv
  <2>5. emitted[i] \in Nat /\ forgotten[i] \in Nat /\ forgotten'[i] \in Nat
    BY <2>1 DEF AgentsInv, AgentsTyped
  <2>6. Copies(b, Coming(b), i) \in Nat
    <3>1. Coming(b) \in SUBSET Places(b)
      BY <1>1 DEF AgentsInv, AgentsTyped, Coming
    <3> QED  BY <1>1, <3>1, CopiesFacts
  <2> QED  BY <2>2, <2>3, <2>4, <2>5, <2>6
<1>2. \A b \in Scanners : \A i \in Ids(b) :
         emitted'[i] + Copies(b, Coming(b)', i) <= forgotten'[i] + Knows(b, i)'
  BY <1>1
<1>3. \A b \in Scanners : \A i \in Ids(b) : Copies(b, Coming(b), i)' = Copies(b, Coming(b)', i)
  BY DEF Copies
<1> QED  BY <1>2, <1>3 DEF AgentsInv
\* What fewer copies to come, or an id known or forgotten, do to the balance.
LEMMA Balance ==
  ASSUME NEW e \in Nat, NEW c \in Nat, NEW d \in Nat, NEW f \in Nat, NEW g \in Nat,
         NEW k \in 0..1, NEW l \in 0..1,
         e + c <= f + k, d + (f + k) <= c + (g + l)
  PROVE  e + d <= g + l
OBVIOUS

\* Keys that are kept are keys; a cut keeps fewer than there were.
LEMMA KeptFacts ==
  ASSUME NEW a \in Scanners, NEW keys \in SUBSET Ids(a), NEW kept \in Kept(keys)
  PROVE  /\ kept \subseteq keys
         /\ kept = keys \/ (SeenLimit < Cardinality(keys) /\ Cardinality(kept) = SeenKept)
         /\ IsFiniteSet(keys) /\ IsFiniteSet(kept)
<1>1. IsFiniteSet(keys) /\ kept \subseteq keys
  BY IdsAreFinite, FS_Subset DEF Kept, kSubset
<1>2. IsFiniteSet(kept)
  BY <1>1, FS_Subset
<1>3. kept = keys \/ (Cardinality(keys) > SeenLimit /\ Cardinality(kept) = SeenKept)
  BY DEF Kept, kSubset
<1>4. Cardinality(keys) \in Nat /\ SeenLimit \in Nat
  BY <1>1, FS_CardinalityType, AgentsAssumption
<1> QED  BY <1>1, <1>2, <1>3, <1>4

LEMMA DroppingFacts ==
  ASSUME AgentsTyped, NEW marked, NEW keys, Dropping(marked, keys)
  PROVE  /\ forgotten' \in [AllIds -> Nat]
         /\ \A i \in AllIds : forgotten'[i] = forgotten[i] + (IF i \in marked \ keys THEN 1 ELSE 0)
         /\ \A i \in AllIds : forgotten'[i] >= forgotten[i]
BY DEF AgentsTyped, Dropping

\* What a look at an item adds to the set of seen keys, it drops or keeps.
LEMMA LookRemembers ==
  ASSUME AgentsTyped, NEW a \in Scanners, NEW n \in Places(a),
         Feed[a][n].id \notin seen[a],
         NEW keys \in SeenAfter(a, Feed[a][n]),
         Dropping(IF seen[a] \subseteq keys THEN {} ELSE seen[a] \cup {Feed[a][n].id}, keys)
  PROVE  /\ keys \subseteq Ids(a)
         /\ \A i \in Ids(a) :
              forgotten[i] + Knows(a, i)
                 + (IF i = Feed[a][n].id /\ Marks(a, Feed[a][n]) THEN 1 ELSE 0)
              = forgotten'[i] + (IF i \in keys THEN 1 ELSE 0)
<1> DEFINE id == Feed[a][n].id
           all == seen[a] \cup {id}
<1>1. id \in Ids(a) /\ seen[a] \subseteq Ids(a) /\ all \in SUBSET Ids(a) /\ Ids(a) \subseteq AllIds
  BY FeedFacts DEF AgentsTyped
<1>2. CASE ~Marks(a, Feed[a][n])
  <2>1. keys = seen[a]
    BY <1>2 DEF SeenAfter
  <2>2. \A i \in AllIds : forgotten'[i] = forgotten[i] /\ forgotten[i] \in Nat
    BY <2>1, DroppingFacts DEF AgentsTyped
  <2> QED  BY <1>1, <1>2, <2>1, <2>2 DEF Knows
<1>3. CASE Marks(a, Feed[a][n]) /\ keys = all
  <2>1. \A i \in AllIds : forgotten'[i] = forgotten[i] /\ forgotten[i] \in Nat
    BY <1>3, DroppingFacts DEF AgentsTyped
  <2> QED  BY <1>1, <1>3, <2>1 DEF Knows
<1>4. CASE Marks(a, Feed[a][n]) /\ keys # all
  <2>1. keys \in Kept(all)
    BY <1>4 DEF SeenAfter
  <2>2. /\ keys \subseteq all /\ IsFiniteSet(all) /\ IsFiniteSet(keys)
        /\ SeenLimit < Cardinality(all) /\ Cardinality(keys) = SeenKept
    BY <1>1, <1>4, <2>1, KeptFacts
  <2>3. ~(seen[a] \subseteq keys)
    <3> SUFFICES ASSUME seen[a] \subseteq keys  PROVE FALSE
      OBVIOUS
    <3>1. IsFiniteSet(seen[a]) /\ Cardinality(seen[a]) <= Cardinality(keys)
      BY <2>2, FS_Subset
    <3>2. Cardinality(all) = Cardinality(seen[a]) + 1
      BY <3>1, FS_AddElement
    <3>3. Cardinality(seen[a]) \in Nat
      BY <3>1, FS_CardinalityType
    <3>4. SeenKept < SeenLimit /\ SeenKept \in Nat /\ SeenLimit \in Nat
      BY AgentsAssumption
    <3> HIDE DEF all
    <3> QED  BY <2>2, <3>1, <3>2, <3>3, <3>4
  <2>4. \A i \in AllIds : /\ forgotten'[i] = forgotten[i] + (IF i \in all \ keys THEN 1 ELSE 0)
                          /\ forgotten[i] \in Nat
    BY <2>3, DroppingFacts DEF AgentsTyped
  <2> QED  BY <1>1, <1>4, <2>2, <2>4 DEF Knows
<1> QED  BY <1>2, <1>3, <1>4

\* The next place of a list.
LEMMA NextPlace ==
  ASSUME NEW a \in Scanners, NEW places \in SUBSET Places(a), places # {}
  PROVE  Min(places) \in places
<1>1. places \in SUBSET Nat
  BY FeedFacts
<1>2. PICK n \in places : \A m \in places : n <= m
  BY <1>1, LeastNatural
<1> QED  BY <1>2 DEF Min

LEMMA AgentFetch ==
  ASSUME AgentsInv, NEW a \in Scanners, Fetch(a)
  PROVE  AgentsInv'
<1>1. AgentsTyped'
  BY DEF Fetch, AgentsInv, AgentsTyped
<1>2. \A b \in Scanners : b # a => Coming(b)' = Coming(b) /\ seen'[b] = seen[b]
  BY DEF Fetch, AgentsInv, AgentsTyped, Coming
<1>3. Coming(a)' = {} /\ Coming(a) = {} /\ UNCHANGED <<seen, emitted, forgotten>>
  BY DEF Fetch, AgentsInv, AgentsTyped, Coming
<1>4. \A i \in Ids(a) : emitted'[i] + Copies(a, Coming(a)', i) <= forgotten'[i] + Knows(a, i)'
  BY <1>3 DEF AgentsInv, Knows
<1>5. \A i \in AllIds : forgotten'[i] >= forgotten[i] /\ emitted'[i] = emitted[i]
  BY <1>3 DEF AgentsInv, AgentsTyped
<1> QED  BY <1>1, <1>2, <1>4, <1>5, AgentFrame

LEMMA AgentSleep ==
  ASSUME AgentsInv, NEW a \in Scanners, Sleep(a)
  PROVE  AgentsInv'
<1>1. AgentsTyped'
  BY DEF Sleep, AgentsInv, AgentsTyped
<1>2. \A b \in Scanners : b # a => Coming(b)' = Coming(b) /\ seen'[b] = seen[b]
  BY DEF Sleep, AgentsInv, AgentsTyped, Coming
<1>3. Coming(a)' = Coming(a) /\ UNCHANGED <<seen, emitted, forgotten>>
  BY DEF Sleep, AgentsInv, AgentsTyped, Coming
<1>4. \A i \in Ids(a) : emitted'[i] + Copies(a, Coming(a)', i) <= forgotten'[i] + Knows(a, i)'
  BY <1>3 DEF AgentsInv, Knows
<1>5. \A i \in AllIds : forgotten'[i] >= forgotten[i] /\ emitted'[i] = emitted[i]
  BY <1>3 DEF AgentsInv, AgentsTyped
<1> QED  BY <1>1, <1>2, <1>4, <1>5, AgentFrame

LEMMA AgentLook ==
  ASSUME AgentsInv, NEW a \in Scanners, Look(a)
  PROVE  AgentsInv'
<1>1. PICK n \in rest[a] :
         /\ phase[a] = "scanning"
         /\ rest' = [rest EXCEPT ![a] = @ \ {n}]
         /\ IF Feed[a][n].id \in seen[a]
            THEN UNCHANGED <<seen, found, forgotten>>
            ELSE \E keys \in SeenAfter(a, Feed[a][n]) :
                    /\ seen' = [seen EXCEPT ![a] = keys]
                    /\ Dropping(IF seen[a] \subseteq keys THEN {} ELSE seen[a] \cup {Feed[a][n].id}, keys)
                    /\ found' = IF Feed[a][n].fits /\ Feed[a][n].whole
                                THEN [found EXCEPT ![a] = @ \cup {n}] ELSE found
         /\ UNCHANGED <<phase, emitting, emitted>>
  <2>1. Min(rest[a]) \in rest[a]
    BY NextPlace DEF AgentsInv, AgentsTyped, Look
  <2> QED  BY <2>1 DEF Look
<1> DEFINE item == Feed[a][n]
<1>2. n \in Places(a) /\ item.id \in Ids(a) /\ AgentsTyped
  BY FeedFacts DEF AgentsInv, AgentsTyped
<1>3. Coming(a) = found[a] /\ Coming(a)' = found'[a]
  BY <1>1 DEF Coming
<1>4. CASE item.id \in seen[a]
  <2>1. UNCHANGED <<seen, found, forgotten>>
    BY <1>1, <1>4
  <2>2. AgentsTyped'
    BY <1>1, <2>1 DEF AgentsInv, AgentsTyped
  <2>3. \A b \in Scanners : Coming(b)' = Coming(b) /\ seen'[b] = seen[b] /\ Coming(b) = Coming(b)'
    BY <1>1, <2>1 DEF Coming
  <2>4. \A i \in Ids(a) : emitted'[i] + Copies(a, Coming(a)', i) <= forgotten'[i] + Knows(a, i)'
    BY <1>1, <2>1, <2>3 DEF AgentsInv, Knows
  <2>5. \A i \in AllIds : forgotten'[i] >= forgotten[i] /\ emitted'[i] = emitted[i]
    BY <1>1, <2>1 DEF AgentsInv, AgentsTyped
  <2> QED  BY <2>2, <2>3, <2>4, <2>5, AgentFrame
<1>5. CASE item.id \notin seen[a]
  <2>1. PICK keys \in SeenAfter(a, item) :
           /\ seen' = [seen EXCEPT ![a] = keys]
           /\ Dropping(IF seen[a] \subseteq keys THEN {} ELSE seen[a] \cup {item.id}, keys)
           /\ found' = IF item.fits /\ item.whole
                       THEN [found EXCEPT ![a] = @ \cup {n}] ELSE found
    BY <1>1, <1>5
  <2>2. /\ keys \subseteq Ids(a)
        /\ \A i \in Ids(a) :
             forgotten[i] + Knows(a, i) + (IF i = item.id /\ Marks(a, item) THEN 1 ELSE 0)
             = forgotten'[i] + (IF i \in keys THEN 1 ELSE 0)
    BY <1>2, <1>5, <2>1, LookRemembers
  <2>3. /\ forgotten' \in [AllIds -> Nat]
        /\ \A i \in AllIds : forgotten'[i] >= forgotten[i]
    BY <1>2, <2>1, DroppingFacts
  <2>4. AgentsTyped'
    BY <1>1, <1>2, <2>1, <2>2, <2>3 DEF AgentsTyped
  <2>5. \A b \in Scanners : b # a => Coming(b)' = Coming(b) /\ seen'[b] = seen[b]
    BY <1>1, <1>2, <2>1 DEF AgentsTyped, Coming
  <2>6. found[a] \in SUBSET Places(a) /\ (found'[a] = found[a] \/ (item.fits /\ found'[a] = found[a] \cup {n}))
    BY <1>2, <2>1 DEF AgentsTyped
  <2>7. ASSUME NEW i \in Ids(a)
        PROVE  emitted'[i] + Copies(a, Coming(a)', i) <= forgotten'[i] + Knows(a, i)'
    <3> DEFINE c == Copies(a, found[a], i)
               d == Copies(a, found'[a], i)
               k == Knows(a, i)
               l == IF i \in keys THEN 1 ELSE 0
               one == IF i = item.id /\ Marks(a, item) THEN 1 ELSE 0
    <3>1. Knows(a, i)' = l /\ l \in 0..1 /\ k \in 0..1
      BY <1>2, <2>1 DEF Knows, AgentsTyped
    <3>2. item.fits => Marks(a, item)
      BY DEF Marks
    <3>3. c \in Nat /\ d \in Nat /\ d <= c + one
      <4>1. found'[a] \in SUBSET Places(a)
        BY <1>2, <2>6
      <4>2. c \in Nat /\ d \in Nat
        BY <2>6, <4>1, CopiesFacts
      <4>3. CASE found'[a] = found[a]
        <5>1. d = c
          BY <4>3
        <5> QED  BY <4>2, <5>1
      <4>4. CASE item.fits /\ found'[a] = found[a] \cup {n}
        <5>1. /\ Copies(a, found[a] \cup {n}, i) <= c + 1
              /\ item.id # i => Copies(a, found[a] \cup {n}, i) = c
          BY <1>2, <2>6, CopiesFacts
        <5>2. d <= c + 1 /\ (item.id # i => d = c)
          BY <4>4, <5>1
        <5> HIDE DEF c, d
        <5>3. CASE item.id = i
          BY <3>2, <4>2, <4>4, <5>2, <5>3
        <5>4. CASE item.id # i
          BY <4>2, <5>2, <5>4
        <5> QED  BY <5>3, <5>4
      <4> QED  BY <2>6, <4>3, <4>4
    <3>4. emitted[i] \in Nat /\ forgotten[i] \in Nat /\ forgotten'[i] \in Nat /\ emitted'[i] = emitted[i]
      BY <1>1, <1>2, <2>3, FeedFacts DEF AgentsTyped
    <3>5. emitted[i] + c <= forgotten[i] + k
      BY <1>3 DEF AgentsInv
    <3>6. forgotten[i] + k + one = forgotten'[i] + l
      BY <2>2
    <3>7. one \in 0..1
      OBVIOUS
    <3> HIDE DEF c, d, k, l, one
    <3>8. d + (forgotten[i] + k) <= c + (forgotten'[i] + l)
      BY <3>1, <3>3, <3>4, <3>6, <3>7
    <3>9. emitted[i] + d <= forgotten'[i] + l
      BY <3>1, <3>3, <3>4, <3>5, <3>8, Balance
    <3> QED  BY <1>3, <3>1, <3>4, <3>9 DEF d
  <2>8. \A i \in AllIds : emitted'[i] = emitted[i]
    BY <1>1
  <2> QED  BY <2>3, <2>4, <2>5, <2>7, <2>8, AgentFrame
<1> QED  BY <1>4, <1>5

LEMMA AgentChoose ==
  ASSUME AgentsInv, NEW a \in Scanners, Choose(a)
  PROVE  AgentsInv'
<1>1. PICK keys \in SUBSET seen[a] :
        /\ seen' = [seen EXCEPT ![a] = keys]
        /\ Dropping(seen[a], keys)
  <2>1. AgentsTyped
    BY DEF AgentsInv
  <2>2. seen[a] \in SUBSET Ids(a)
    BY <2>1 DEF AgentsTyped
  <2>3. \A keys \in Kept(seen[a]) : keys \subseteq seen[a]
    BY <2>2, KeptFacts
  <2> QED  BY <2>3 DEF Choose
<1>2. /\ phase[a] = "scanning" /\ phase' = [phase EXCEPT ![a] = "emitting"]
      /\ emitting' = [emitting EXCEPT ![a] = Sliced(a)]
      /\ UNCHANGED <<rest, found, emitted>>
  BY DEF Choose
<1>3. Sliced(a) \in SUBSET found[a]
  BY DEF Sliced, Signalled, FirstPrints
<1>4. AgentsTyped /\ found[a] \in SUBSET Places(a)
  BY DEF AgentsInv, AgentsTyped
<1>5. /\ forgotten' \in [AllIds -> Nat]
      /\ \A i \in AllIds : forgotten'[i] = forgotten[i] + (IF i \in seen[a] \ keys THEN 1 ELSE 0)
      /\ \A i \in AllIds : forgotten'[i] >= forgotten[i]
  BY <1>1, <1>4, DroppingFacts
<1>6. AgentsTyped'
  BY <1>1, <1>2, <1>3, <1>4, <1>5 DEF AgentsTyped
<1>7. \A b \in Scanners : b # a => Coming(b)' = Coming(b) /\ seen'[b] = seen[b]
  BY <1>1, <1>2, <1>4 DEF AgentsTyped, Coming
<1>8. Coming(a) = found[a] /\ Coming(a)' = Sliced(a)
  BY <1>2, <1>4 DEF AgentsTyped, Coming
<1>9. ASSUME NEW i \in Ids(a)
      PROVE  emitted'[i] + Copies(a, Coming(a)', i) <= forgotten'[i] + Knows(a, i)'
  <2> DEFINE c == Copies(a, found[a], i)
             d == Copies(a, Sliced(a), i)
             k == Knows(a, i)
             l == IF i \in keys THEN 1 ELSE 0
  <2>1. c \in Nat /\ d \in Nat /\ d <= c
    <3>1. Sliced(a) \in SUBSET Places(a)
      BY <1>3, <1>4
    <3> QED  BY <1>3, <1>4, <3>1, CopiesFacts
  <2>2. i \in AllIds
    BY FeedFacts
  <2>3. Knows(a, i)' = l /\ k \in 0..1 /\ l \in 0..1
    BY <1>1, <1>4 DEF Knows, AgentsTyped
  <2>4. /\ emitted[i] \in Nat /\ forgotten[i] \in Nat /\ forgotten'[i] \in Nat
        /\ emitted'[i] = emitted[i] /\ forgotten[i] + k = forgotten'[i] + l
    BY <1>1, <1>2, <1>4, <1>5, <2>2 DEF AgentsTyped, Knows
  <2>5. emitted[i] + c <= forgotten[i] + k
    BY <1>8 DEF AgentsInv
  <2> HIDE DEF c, d, k, l
  <2>6. d + (forgotten[i] + k) <= c + (forgotten'[i] + l)
    BY <2>1, <2>3, <2>4
  <2>7. emitted[i] + d <= forgotten'[i] + l
    BY <2>1, <2>3, <2>4, <2>5, <2>6, Balance
  <2> QED  BY <1>8, <2>3, <2>4, <2>7 DEF d
<1> QED  BY <1>2, <1>5, <1>6, <1>7, <1>9, AgentFrame

LEMMA AgentEmit ==
  ASSUME AgentsInv, NEW a \in Scanners, Emit(a)
  PROVE  AgentsInv'
<1>1. PICK n \in emitting[a] :
        /\ phase[a] = "emitting"
        /\ UNCHANGED <<phase, rest, seen, found, forgotten>>
        /\ \/ /\ emitted' = [emitted EXCEPT ![Feed[a][n].id] = @ + 1]
              /\ emitting' = [emitting EXCEPT ![a] = @ \ {n}]
           \/ /\ emitting' = [emitting EXCEPT ![a] = {}]
              /\ UNCHANGED emitted
  <2>1. Min(emitting[a]) \in emitting[a]
    BY NextPlace DEF AgentsInv, AgentsTyped, Emit
  <2> QED  BY <2>1 DEF Emit
<1> DEFINE id == Feed[a][n].id
<1>2. /\ AgentsTyped /\ n \in Places(a) /\ emitting[a] \in SUBSET Places(a)
      /\ id \in Ids(a) /\ id \in AllIds /\ Ids(a) \subseteq AllIds
  BY FeedFacts DEF AgentsInv, AgentsTyped
<1>3. Coming(a) = emitting[a] /\ Coming(a)' = emitting'[a]
  BY <1>1 DEF Coming
<1>4. AgentsTyped'
  BY <1>1, <1>2 DEF AgentsTyped
<1>5. \A b \in Scanners : b # a => Coming(b)' = Coming(b) /\ seen'[b] = seen[b]
  BY <1>1, <1>2 DEF AgentsTyped, Coming
<1>6. \A i \in AllIds : forgotten'[i] >= forgotten[i] /\ (i \notin Ids(a) => emitted'[i] = emitted[i])
  BY <1>1, <1>2 DEF AgentsTyped
<1>7. ASSUME NEW i \in Ids(a)
      PROVE  emitted'[i] + Copies(a, Coming(a)', i) <= forgotten'[i] + Knows(a, i)'
  <2>1. /\ emitted[i] + Copies(a, emitting[a], i) <= forgotten[i] + Knows(a, i)
        /\ forgotten'[i] = forgotten[i] /\ Knows(a, i)' = Knows(a, i) /\ Knows(a, i) \in Nat
        /\ emitted[i] \in Nat /\ forgotten[i] \in Nat
    BY <1>1, <1>2, <1>3 DEF AgentsInv, AgentsTyped, Knows
  <2>2. CASE emitting'[a] = {} /\ UNCHANGED emitted
    <3>1. Copies(a, emitting[a], i) \in Nat /\ Copies(a, {}, i) = 0
      BY <1>2, CopiesFacts
    <3> QED  BY <1>3, <2>1, <2>2, <3>1
  <2>3. CASE /\ emitted' = [emitted EXCEPT ![id] = @ + 1]
             /\ emitting'[a] = emitting[a] \ {n}
    <3>1. /\ Copies(a, emitting[a], i) \in Nat
          /\ Copies(a, emitting[a] \ {n}, i) \in Nat
          /\ Copies(a, emitting[a] \ {n}, i) <= Copies(a, emitting[a], i)
          /\ id = i => Copies(a, emitting[a] \ {n}, i) + 1 = Copies(a, emitting[a], i)
      <4>1. emitting[a] \ {n} \in SUBSET emitting[a] /\ emitting[a] \ {n} \in SUBSET Places(a)
        BY <1>2
      <4> QED  BY <1>2, <4>1, CopiesFacts
    <3>2. emitted'[i] = emitted[i] + (IF id = i THEN 1 ELSE 0)
      BY <1>2, <2>3 DEF AgentsTyped
    <3>3. Copies(a, Coming(a)', i) = Copies(a, emitting[a] \ {n}, i)
      BY <1>3, <2>3
    <3> HIDE DEF id
    <3> QED  BY <2>1, <3>1, <3>2, <3>3
  <2>4. a \in DOMAIN emitting
    BY <1>2 DEF AgentsTyped
  <2> QED  BY <1>1, <2>2, <2>3, <2>4
<1> QED  BY <1>4, <1>5, <1>6, <1>7, AgentFrame

LEMMA AgentsCrash ==
  ASSUME AgentsInv, CrashAgents
  PROVE  AgentsInv'
<1> DEFINE all == UNION {seen[a] : a \in Scanners}
<1>1. AgentsTyped /\ Dropping(all, {})
  BY DEF AgentsInv, CrashAgents
<1> HIDE DEF all
<1>2. /\ forgotten' \in [AllIds -> Nat]
      /\ \A i \in AllIds : forgotten'[i] = forgotten[i] + (IF i \in all \ {} THEN 1 ELSE 0)
  BY <1>1, DroppingFacts
<1>3. AgentsTyped'
  BY <1>1, <1>2 DEF CrashAgents, AgentsTyped
<1>4. ASSUME NEW a \in Scanners, NEW i \in Ids(a)
      PROVE  emitted'[i] + Copies(a, Coming(a), i)' <= forgotten'[i] + Knows(a, i)'
  <2>1. Coming(a)' = {} /\ Knows(a, i)' = 0
    BY DEF CrashAgents, Coming, Knows
  <2>2. Copies(a, Coming(a), i)' = 0
    <3>1. Copies(a, Coming(a), i)' = Copies(a, {}, i)
      BY <2>1 DEF Copies
    <3> QED  BY <3>1, CopiesFacts
  <2>3. Copies(a, Coming(a), i) \in Nat
    <3>1. Coming(a) \in SUBSET Places(a)
      BY <1>1 DEF AgentsTyped, Coming
    <3> QED  BY <3>1, CopiesFacts
  <2>4. i \in AllIds /\ emitted'[i] = emitted[i] /\ emitted[i] \in Nat /\ forgotten[i] \in Nat
    BY <1>1, FeedFacts DEF AgentsTyped, CrashAgents
  <2>5. emitted[i] + Copies(a, Coming(a), i) <= forgotten[i] + Knows(a, i)
    BY DEF AgentsInv
  <2>6. forgotten'[i] = forgotten[i] + Knows(a, i) \/ (forgotten'[i] = forgotten[i] + 1 /\ Knows(a, i) \in 0..1)
    BY <1>2, <2>4 DEF Knows, all
  <2>7. Knows(a, i) \in 0..1
    BY DEF Knows
  <2> QED  BY <2>1, <2>2, <2>3, <2>4, <2>5, <2>6, <2>7
<1> QED  BY <1>3, <1>4 DEF AgentsInv

LEMMA AgentsHold == TerminalSpec => []AgentsInv
<1>1. TerminalInit => AgentsInv
  <2> SUFFICES ASSUME TerminalInit  PROVE AgentsInv
    OBVIOUS
  <2>1. AgentsTyped
    BY DEF TerminalInit, AgentsInit, AgentsTyped
  <2>2. ASSUME NEW a \in Scanners, NEW i \in Ids(a)
        PROVE  emitted[i] + Copies(a, Coming(a), i) <= forgotten[i] + Knows(a, i)
    <3>1. Coming(a) = {} /\ i \in AllIds /\ emitted[i] = 0 /\ forgotten[i] = 0 /\ Knows(a, i) = 0
      BY FeedFacts DEF TerminalInit, AgentsInit, Coming, Knows
    <3>2. Copies(a, {}, i) = 0
      BY CopiesFacts
    <3> QED  BY <3>1, <3>2
  <2> QED  BY <2>1, <2>2 DEF AgentsInv
<1>2. AgentsInv /\ [TerminalNext]_terminalVars => AgentsInv'
  <2> SUFFICES ASSUME AgentsInv, [TerminalNext]_terminalVars  PROVE AgentsInv'
    OBVIOUS
  <2>1. CASE AgentsNext
    BY <2>1, AgentFetch, AgentLook, AgentChoose, AgentEmit, AgentSleep, AgentsCrash DEF AgentsNext
  <2>2. CASE UNCHANGED agentsVars
    BY <2>2 DEF agentsVars, AgentsInv, AgentsTyped, Coming, Knows, Copies
  <2> QED  BY <2>1, <2>2, PartsTakeTurns
<1> QED  BY <1>1, <1>2, PTL DEF TerminalSpec

\* An item is traded again only if its key was forgotten, for any feeds, slices
\* and limits of the seen sets.
THEOREM RepeatsWereForgotten == TerminalSpec => []RepeatedWasForgotten
<1>1. AgentsInv => RepeatedWasForgotten
  <2> SUFFICES ASSUME AgentsInv, NEW a \in Scanners, NEW i \in Ids(a)
               PROVE  emitted[i] <= 1 + forgotten[i]
    BY DEF RepeatedWasForgotten, AllIds
  <2>1. emitted[i] \in Nat /\ forgotten[i] \in Nat /\ Coming(a) \in SUBSET Places(a)
    BY FeedFacts DEF AgentsInv, AgentsTyped, Coming
  <2>2. Copies(a, Coming(a), i) \in Nat
    BY <2>1, CopiesFacts
  <2>3. emitted[i] + Copies(a, Coming(a), i) <= forgotten[i] + Knows(a, i) /\ Knows(a, i) \in 0..1
    BY DEF AgentsInv, Knows
  <2> QED  BY <2>1, <2>2, <2>3
<1> QED  BY <1>1, AgentsHold, PTL
=============================================================================
