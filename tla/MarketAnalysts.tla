---------------------------- MODULE MarketAnalysts ----------------------------
(* The analysts that wake by the clock (core/base_analyst.py): the weekly calls of
   seven large companies (mag7.py), SPY by its option flow (spy_spx.py), SPY by
   its bars (technical_analyst.py), whose verdict the monitor reads from a file,
   and the screener (screener.py). What they fetch is a constant: a cycle gets any
   of it, and between the start of a fetch and its end other tasks run; from there
   to the signal queue nothing waits. They have nothing in common before that
   queue, so a behaviour follows one of them. Weights are hundredths, premiums thousands
   of dollars, betas and ratios of puts to calls tenths. *)
EXTENDS Integers, FiniteSetsExt, SequencesExt

CONSTANTS
    Watchlist,          \* the companies, in their order
    CompanyData,        \* [flow, prices, volumes, sector] of a company
    FlowSnapshots,      \* of SPY's option flow
    BarSnapshots,       \* [bars, vix, puts]
    Screens,            \* sequences of candidates
    NearestFriday,      \* at each time the expiry that the analysts of SPY and of the companies take
    ConfidenceThreshold,   \* [Scheduled -> percent]
    WakeInterval,       \* [Scheduled -> Nat]
    MarketDedupDelay,   \* 5 minutes
    MarketMaxTime       \* bound

Scheduled == {"mag7", "spy_spx_uw", "technical_ta", "screener"}

ASSUME MarketAssumption ==
    /\ Screens \subseteq
          Seq([symbol : STRING, side : {"CALL", "PUT"}, strike : Nat, expiry : Nat, ratio : Nat, cap : Nat,
               shares : Nat, beta : Nat, price : Nat, low : Nat, high : Nat, earnings : Int])
    /\ NearestFriday \in [0..MarketMaxTime -> Nat]
    /\ ConfidenceThreshold \in [Scheduled -> 0..100]
    /\ WakeInterval \in [Scheduled -> Nat \ {0}]
    /\ MarketDedupDelay \in Nat \ {0}

VARIABLES
    analyst,     \* the one that this behaviour follows
    loop,        \* "asleep", "fetching" or "dead", and when it wakes
    blocked,     \* the kill switch
    seen,        \* _seen_signal_keys, with the time when their task wakes
    signals,     \* signals put into the queue: [key, at]
    taFile,      \* the direction in ta_signal.json
    taVerdict,   \* what the last cycle of the technical analyst found
    clock

marketVars == <<analyst, loop, blocked, seen, signals, taFile, taVerdict, clock>>

MarketInit ==
    /\ analyst \in Scheduled
    /\ loop = [state |-> "asleep", until |-> 0]
    /\ blocked = FALSE
    /\ seen = {} /\ signals = <<>>
    /\ taFile = "none" /\ taVerdict = "none"
    /\ clock = 0

-----------------------------------------------------------------------------
(* Evidence *)

Item(weight, bullish) == [weight |-> weight, bullish |-> bullish]
Total(evidence) == FoldSeq(LAMBDA e, sum : e.weight + sum, 0, evidence)
Bullish(evidence) == SelectSeq(evidence, LAMBDA e : e.bullish)
BullishWeight(evidence) == Total(Bullish(evidence))

\* The default, and what analysts of both directions make of it.
BaseConfident(a, evidence) ==
    Total(evidence) > 0 /\ 100 * BullishWeight(evidence) >= ConfidenceThreshold[a] * Total(evidence)
DistanceConfident(a, evidence) ==
    LET t == Total(evidence)
        d == 2 * BullishWeight(evidence) - t
    IN  t > 0 /\ 100 * (IF d < 0 THEN -d ELSE d) >= ConfidenceThreshold[a] * t

BaseInferDirection(evidence) ==
    IF 2 * BullishWeight(evidence) >= Total(evidence) THEN "CALL" ELSE "PUT"

SumOf(s) == FoldSeq(LAMBDA x, y : x + y, 0, s)
LastOf(s, n) == IF Len(s) <= n THEN s ELSE SubSeq(s, Len(s) - n + 1, Len(s))

(* mag7.py *)

Deltas(prices) == [i \in 1..(Len(prices) - 1) |-> prices[i + 1] - prices[i]]

\* An RSI below 70, of the last fourteen gains and the last fourteen losses.
NotOverbought(prices) ==
    LET gains == SelectSeq(Deltas(prices), LAMBDA d : d > 0)
        losses == SelectSeq(Deltas(prices), LAMBDA d : d < 0)
    IN  /\ Len(prices) >= 15
        /\ \/ gains = <<>> /\ losses = <<>>
           \/ losses # <<>> /\ 3 * SumOf(LastOf(gains, 14)) < -7 * SumOf(LastOf(losses, 14))

\* Two percent over five days, or over what there is.
HasMomentum(prices) ==
    LET n == Len(prices)
        base == IF n >= 6 THEN prices[n - 5] ELSE prices[1]
    IN  n >= 2 /\ 50 * (prices[n] - base) >= base

\* The average is over twenty days, also where only nineteen came before.
HasVolume(volumes) ==
    LET before == LastOf(Front(volumes), 20)
    IN  /\ Len(volumes) >= 20
        /\ SumOf(before) > 0 /\ 40 * Last(volumes) >= 3 * SumOf(before)

ScoreSymbol(d) ==
    <<Item(30, d.flow >= 100), Item(25, HasMomentum(d.prices)), Item(20, HasVolume(d.volumes)),
      Item(15, d.sector > 0), Item(10, NotOverbought(d.prices))>>

\* The first with the best score, of those with three bullish items; build_evidence
\* and select_contract both look for it.
BestSymbol(fetched) ==
    LET Score(s) == BullishWeight(ScoreSymbol(fetched[s]))
        able == {i \in DOMAIN Watchlist : /\ Watchlist[i] \in DOMAIN fetched
                                          /\ Len(Bullish(ScoreSymbol(fetched[Watchlist[i]]))) >= 3}
        best == {i \in able : \A j \in able : Score(Watchlist[j]) <= Score(Watchlist[i])}
    IN  IF able = {} THEN "" ELSE Watchlist[Min(best)]

(* spy_spx.py; the fetch is a placeholder to be replaced. *)

FlowEvidence(d) ==
    <<Item(25, d.callPut >= 8), Item(20, d.gex >= 0), Item(30, d.volume >= 3),
      Item(15, d.vix < 20), Item(10, d.vwap > 0 => d.price >= d.vwap)>>

FlowDirection(evidence) ==
    LET b == 100 * BullishWeight(evidence)
        t == Total(evidence)
    IN  IF b >= 60 * t THEN "CALL" ELSE IF b <= 40 * t THEN "PUT" ELSE "HOLD"

(* technical_analyst.py *)

\* The first of the last twenty bars with a gap that the price is trading into.
FvgEvidence(bars, price) ==
    LET n == Len(bars)
        Support(i) == /\ bars[i].high < bars[i + 2].low
                      /\ bars[i].high <= price /\ 200 * price <= 201 * bars[i].high
        Resistance(i) == /\ bars[i + 2].high < bars[i].low
                         /\ 199 * bars[i].low <= 200 * price /\ price <= bars[i].low
        gaps == {i \in Max({1, n - 19})..(n - 2) : Support(i) \/ Resistance(i)}
    IN  IF gaps = {} THEN <<>> ELSE <<Item(20, Support(Min(gaps)))>>

\* Bearish only 0.3 percent below the average price.
VwapEvidence(bars, price) ==
    LET weighted == SumOf([i \in DOMAIN bars |->
                              (bars[i].high + bars[i].low + bars[i].close) * bars[i].volume])
        volume == SumOf([i \in DOMAIN bars |-> bars[i].volume])
    IN  Item(15, ~(3000 * volume * price < 997 * weighted))

\* The slope is over the last five values: four bars.
ObvEvidence(bars) ==
    LET n == Len(bars)
        Signed(i) == IF bars[i].close > bars[i - 1].close THEN bars[i].volume
                     ELSE IF bars[i].close < bars[i - 1].close THEN -bars[i].volume ELSE 0
        slope == MapThenSumSet(Signed, Max({2, n - 3})..n)
    IN  Item(15, n < 2 \/ slope > 0)

\* A bar without a range has no delta.
CvdEvidence(bars) ==
    LET n == Len(bars)
        last == Max({2, n - 3})..n
        Range1(i) == IF bars[i].high > bars[i].low THEN bars[i].high - bars[i].low ELSE 1
        common == FoldSeq(LAMBDA x, y : x * y, 1, [k \in 1..Cardinality(last) |-> Range1(Min(last) + k - 1)])
        Delta(i) == (bars[i].close - bars[i].open) * bars[i].volume * (common \div Range1(i))
    IN  Item(15, MapThenSumSet(Delta, last) > 0)

VixEvidence(vix) == Item(15, vix <= 25)
PutCallEvidence(puts) == Item(20, puts <= 13)

BarEvidence(d) ==
    LET price == Last(d.bars).close
    IN  FvgEvidence(d.bars, price)
        \o <<VwapEvidence(d.bars, price), ObvEvidence(d.bars), CvdEvidence(d.bars),
             VixEvidence(d.vix), PutCallEvidence(d.puts)>>

BarDirection(evidence) ==
    LET b == 100 * BullishWeight(evidence)
        t == Total(evidence)
    IN  IF b >= 65 * t THEN "CALL" ELSE IF b <= 35 * t THEN "PUT" ELSE "HOLD"

(* screener.py *)

CandidateEvidence(c) ==
    <<Item(35, c.ratio >= 3), Item(20, c.cap >= 2 /\ c.shares >= 10), Item(15, c.beta \in 8..30),
      Item(20, 105 * c.low < 100 * c.price /\ 100 * c.price < 95 * c.high),
      Item(10, c.earnings = -1 \/ c.earnings > 14)>>

\* The three with the most unusual volume, equal ones in their order.
FilterAndRank(candidates) ==
    LET passed == {i \in DOMAIN candidates : Len(Bullish(CandidateEvidence(candidates[i]))) = 5}
        Before(i, j) == \/ candidates[i].ratio > candidates[j].ratio
                        \/ candidates[i].ratio = candidates[j].ratio /\ i < j
        order == SetToSortSeq(passed, Before)
    IN  [i \in 1..Min({3, Cardinality(passed)}) |-> candidates[order[i]]]

-----------------------------------------------------------------------------
(* The loop. A cycle ends in sleep. *)

\* The strike is no part of it.
Key(symbol, expiry, direction) == [symbol |-> symbol, expiry |-> expiry, direction |-> direction]
Silences(key) == \E s \in seen : s.key = key

EndCycle ==
    loop' = [state |-> "asleep", until |-> clock + WakeInterval[analyst]]

\* Where the keys of a cycle are fresh. UnseenKeys: a cycle that marks its keys
\* when it ends.
UnseenKeys(keys) == {i \in DOMAIN keys : ~Silences(keys[i])}
FreshKeys(keys) == {i \in DOMAIN keys : ~Silences(keys[i]) /\ \A j \in 1..(i - 1) : keys[j] # keys[i]}

\* What the suppression of duplicates leaves of a cycle's keys is marked and put,
\* in their order.
PutSignals(keys) ==
    LET fresh == FreshKeys(keys)
    IN  \E order \in [1..Cardinality(fresh) -> fresh] :
          /\ \A i, j \in DOMAIN order : i < j => order[i] < order[j]
          /\ signals' = signals \o [i \in DOMAIN order |-> [key |-> keys[order[i]], at |-> clock]]
          /\ seen' = seen \cup {[key |-> keys[i], until |-> clock + MarketDedupDelay] : i \in fresh}

PutNothing == UNCHANGED <<seen, signals>>

\* _process up to its first wait; a blocked analyst sleeps again.
WakeUp ==
    /\ loop.state = "asleep" /\ clock >= loop.until
    /\ IF blocked THEN EndCycle ELSE loop' = [state |-> "fetching", until |-> 0]
    /\ UNCHANGED <<analyst, blocked, seen, signals, taFile, taVerdict, clock>>

\* No data: an error of the fetch, or outside the market's hours.
FetchNothing ==
    /\ loop.state = "fetching"
    /\ EndCycle
    /\ UNCHANGED <<analyst, blocked, seen, signals, taFile, taVerdict, clock>>

\* Data of an unforeseen shape: an exception of build_evidence is caught by nothing,
\* and ends the loop.
CycleRaises ==
    /\ analyst \in {"mag7", "spy_spx_uw"}
    /\ loop.state = "fetching"
    /\ loop' = [state |-> "dead", until |-> 0]
    /\ UNCHANGED <<analyst, blocked, seen, signals, taFile, taVerdict, clock>>

\* A company whose fetch failed is left out.
Mag7Cycle ==
    /\ analyst = "mag7" /\ loop.state = "fetching"
    /\ \E got \in SUBSET Range(Watchlist) \ {{}} : \E fetched \in [got -> CompanyData] :
          LET best == BestSymbol(fetched)
          IN  IF /\ best # ""
                 /\ BaseConfident("mag7", ScoreSymbol(fetched[best]))
                 /\ fetched[best].prices # <<>>
              THEN PutSignals(<<Key(best, NearestFriday[clock], BaseInferDirection(ScoreSymbol(fetched[best])))>>)
              ELSE PutNothing
    /\ EndCycle
    /\ UNCHANGED <<analyst, blocked, taFile, taVerdict, clock>>

FlowCycle ==
    /\ analyst = "spy_spx_uw" /\ loop.state = "fetching"
    /\ \E d \in FlowSnapshots :
          LET evidence == FlowEvidence(d)
              direction == FlowDirection(evidence)
          IN  IF DistanceConfident("spy_spx_uw", evidence) /\ direction # "HOLD" /\ d.price > 0
              THEN PutSignals(<<Key("SPY", NearestFriday[clock], BaseInferDirection(evidence))>>)
              ELSE PutNothing
    /\ EndCycle
    /\ UNCHANGED <<analyst, blocked, taFile, taVerdict, clock>>

\* The file is written where the contract is selected, thus by confident cycles.
TechnicalCycle ==
    /\ analyst = "technical_ta" /\ loop.state = "fetching"
    /\ \E d \in BarSnapshots :
          LET evidence == BarEvidence(d)
              direction == BarDirection(evidence)
          IN  /\ taVerdict' = direction
              /\ IF DistanceConfident("technical_ta", evidence)
                 THEN /\ taFile' = direction
                      /\ IF direction # "HOLD" THEN PutSignals(<<Key("SPY", NearestFriday[clock], direction)>>)
                         ELSE PutNothing
                 ELSE PutNothing /\ UNCHANGED taFile
    /\ EndCycle
    /\ UNCHANGED <<analyst, blocked, clock>>

ScreenerCycle ==
    /\ analyst = "screener" /\ loop.state = "fetching"
    /\ \E candidates \in Screens :
          LET top == FilterAndRank(candidates)
          IN  PutSignals([i \in DOMAIN top |-> Key(top[i].symbol, top[i].expiry, top[i].side)])
    /\ EndCycle
    /\ UNCHANGED <<analyst, blocked, taFile, taVerdict, clock>>

ForgetKey(s) ==
    /\ s \in seen /\ clock >= s.until
    /\ seen' = seen \ {s}
    /\ UNCHANGED <<analyst, loop, blocked, signals, taFile, taVerdict, clock>>

FlipKillSwitch ==
    /\ blocked' = ~blocked
    /\ UNCHANGED <<analyst, loop, seen, signals, taFile, taVerdict, clock>>

MarketTick ==
    /\ clock < MarketMaxTime
    /\ clock' = clock + 1
    /\ UNCHANGED <<analyst, loop, blocked, seen, signals, taFile, taVerdict>>

MarketNext ==
    \/ WakeUp \/ FetchNothing \/ CycleRaises
    \/ Mag7Cycle \/ FlowCycle \/ TechnicalCycle \/ ScreenerCycle
    \/ \E s \in seen : ForgetKey(s)
    \/ FlipKillSwitch \/ MarketTick

MarketSpec == MarketInit /\ [][MarketNext]_marketVars

-----------------------------------------------------------------------------
\* One analyst never sends two signals for a symbol, expiry and direction within
\* five minutes, in one cycle or in two (the suppression of duplicates in _process,
\* the screener's loop over its candidates).
MarketSignalsAreSpaced ==
    \A i, j \in DOMAIN signals :
       i < j /\ signals[i].key = signals[j].key
         => signals[j].at >= signals[i].at + MarketDedupDelay

\* The file that the monitor reads before an exit says what the last cycle found
\* ("Writes ta_signal.json after every cycle regardless of direction").
TaFileIsCurrent == taFile = taVerdict
=============================================================================
