-------------------------------- MODULE MCDesk --------------------------------
(* An instance of Desk for TLC: for every channel messages that its analysts take
   and refuse, for every analyst that wakes by the clock data on both sides of
   its thresholds. *)
EXTENDS Desk

\* Discord: a purchase for each analyst, a dear one, sales, dates that cannot be
\* read, and symbols of the other analyst.
Alert(chan, who, bot) ==
    [channel |-> chan, author |-> who, bot |-> bot, here |-> FALSE, header |-> "none",
     verb |-> "Bought", symbol |-> "TSLA", side |-> "CALL", premium |-> 2, expiry |-> "none",
     lines |-> FALSE, spread |-> FALSE]
SpxAlert == [Alert("c1", "INFRA", TRUE) EXCEPT !.header = "SPX", !.symbol = "SPX"]
OtherAlert == [Alert("c2", "INFRA", TRUE) EXCEPT !.header = "OTHER"]
ZabesAlert == [Alert("c4", "zabes", FALSE) EXCEPT !.here = TRUE, !.lines = TRUE, !.symbol = "SPY",
                                                  !.verb = "none", !.expiry = "06/20"]
PillaAlert == Alert("c6", "pilla", FALSE)
AdiAlert == [Alert("c5", "aadi", TRUE) EXCEPT !.here = TRUE, !.symbol = "SPX", !.verb = "none"]
EverestAlert == [Alert("c7", "everest", FALSE) EXCEPT !.here = TRUE, !.verb = "none"]
Purchases == {SpxAlert, OtherAlert, Alert("c3", "albert", TRUE), ZabesAlert, AdiAlert, PillaAlert, EverestAlert}
MCMessages ==
    Purchases
    \cup {[b EXCEPT !.premium = 9] : b \in {SpxAlert, ZabesAlert}}
    \cup {[SpxAlert EXCEPT !.verb = "Sold", !.author = "singhvinod77"],
          [ZabesAlert EXCEPT !.lines = FALSE, !.expiry = "none"],
          [OtherAlert EXCEPT !.symbol = "SPX"]}
MCChannel ==
    [vinod_spx |-> "c1", vinod_other |-> "c2", albert |-> "c3", zabes |-> "c4", adi |-> "c5",
     pilla_swings |-> "c6", everest |-> "c7"]
MCMaxPremium == [a \in Analysts |-> 8]

\* Learning: a loser, a breakeven and a winner; limits below and above the bound.
MCLearners == <<"adi", "albert">>
MCProfits == {-20, 0, 20}
MCFirstParameters ==
    {[adi |-> [confidence |-> 65, premium |-> 300], albert |-> [confidence |-> 90, premium |-> 800]]}

\* Market: a company with gains, one without prices and a flat one; the bars of
\* a rise, of a fall and of a mixed day; candidates that differ in the strike, in
\* the expiry or in both; a Friday that passes.
Rising == [i \in 1..21 |-> IF i % 2 = 0 THEN 100 + 2 * i ELSE 99 + 2 * i]
Flat == [i \in 1..21 |-> 100]
Heavy == [i \in 1..21 |-> IF i = 21 THEN 20 ELSE 10]
MCWatchlist == <<"AAPL", "NVDA">>
MCCompanyData ==
    {[flow |-> 200, prices |-> Rising, volumes |-> Heavy, sector |-> 1],
     [flow |-> 200, prices |-> <<>>, volumes |-> Heavy, sector |-> 1],
     [flow |-> 50, prices |-> Flat, volumes |-> Flat, sector |-> -1]}
MCFlow ==
    {[callPut |-> c, gex |-> g, volume |-> v, vix |-> 15, price |-> 500, vwap |-> 499] :
        c \in {5, 10}, g \in {-1, 1}, v \in {1, 4}}
    \cup {[callPut |-> 5, gex |-> -1, volume |-> 1, vix |-> 30, price |-> 490, vwap |-> 499]}
Bar(o, h, l, c, v) == [open |-> o, high |-> h, low |-> l, close |-> c, volume |-> v]
Climb == [i \in 1..4 |-> Bar(400 + i, 402 + i, 400 + i, 402 + i, 10)]
MixedBars == <<Bar(400,404,399,403,10), Bar(403,410,402,409,10), Bar(409,412,408,411,10), Bar(411,413,404,405,20)>>
Backwards(bars) == [i \in 1..4 |-> LET b == bars[5 - i] IN Bar(b.close, b.high, b.low, b.open, b.volume)]
MCBars ==
    {[bars |-> b, vix |-> v, puts |-> p] :
        b \in {Climb, Backwards(Climb), MixedBars}, v \in {15, 30}, p \in {5, 15}}
Candidate(s, d, k, r) ==
    [symbol |-> s, side |-> d, strike |-> k, expiry |-> 1, ratio |-> r, cap |-> 5, shares |-> 50, beta |-> 12,
     price |-> 100, low |-> 50, high |-> 150, earnings |-> -1]
MCScreens ==
    {<<Candidate("TSLA", "CALL", 100, 5), [Candidate("TSLA", "CALL", 100, 4) EXCEPT !.expiry = 2],
       Candidate("TSLA", "CALL", 105, 4)>>,
     <<[Candidate("AMD", "PUT", 90, 9) EXCEPT !.earnings = 3], Candidate("TSLA", "PUT", 100, 5)>>,
     <<Candidate("A", "CALL", 1, 3), Candidate("B", "CALL", 1, 6), Candidate("C", "CALL", 1, 5),
       Candidate("D", "CALL", 1, 4)>>}
MCFriday == [t \in 0..3 |-> IF t < 2 THEN 1 ELSE 2]
MCThreshold == [a \in Scheduled |-> IF a = "mag7" THEN 65 ELSE 60]
MCInterval == [a \in Scheduled |-> IF a = "mag7" THEN 3 ELSE 1]
=============================================================================
