----------------------------- MODULE MCTerminal -----------------------------
(* An instance of Terminal for TLC. Orders: a purchase larger than the cash, a
   sale and two limit orders, of one symbol. Signals: two requests of one source
   and symbol, and texts with and without a ticker, a stop and a target. Agents:
   the flow scanner with rows that its filters take and refuse, the dark pool
   agent with a cluster of two prints and a single one, the earnings agent with a
   row that has no price. Worker: a stock and an option trade of one ticker; what is
   dropped is a close request, and any trade when there is no session. *)
EXTENDS Terminal

CONSTANTS big, out, low, high, spx, r1, r2, k1, a1, w1, spy, stock, option

MCOrdersSet == {big, out, low, high}
MCOneOrder == {big}
MCSymbols == {spx}
MCSymbol == [o \in Orders |-> spx]
MCSide == [o \in Orders |-> IF o \in {big, low} THEN "buy" ELSE "sell"]
MCLimit == [o \in Orders |-> IF o = low THEN 2 ELSE IF o = high THEN 3 ELSE 0]
MCQuantity == [o \in Orders |-> IF o = big THEN 4 ELSE 2]

MCRequests == {r1, r2}
MCOneRequest == {r1}
MCKey == [r \in Requests |-> k1]

Blank == [ticker |-> TRUE, dollar |-> FALSE, stop |-> 0, target |-> 0,
          first |-> 0, long |-> FALSE, buys |-> 1, sells |-> 0]
MCTexts == {Blank,
            [Blank EXCEPT !.ticker = FALSE, !.dollar = TRUE, !.first = 3],
            [Blank EXCEPT !.first = 3, !.stop = 1, !.target = 4, !.sells = 2],
            [Blank EXCEPT !.first = 3, !.stop = 1, !.target = 5, !.long = TRUE, !.dollar = TRUE]}
MCProposals == {[quantity |-> 5, entry |-> 2], [quantity |-> 1000, entry |-> 2],
                [quantity |-> 1000, entry |-> 3]}
Open(n, worth) == [open |-> n, value |-> worth]
MCPositionTables == {Open(0, 0), Open(2, 30), Open(2, 36), Open(3, 3)}

Row(i, t, fits, whole) == [id |-> i, ticker |-> t, fits |-> fits, whole |-> whole, premium |-> 2]
MCFeed == [flow     |-> <<Row("f1", "A", TRUE, TRUE), Row("f2", "A", FALSE, TRUE), Row("f3", "B", TRUE, TRUE)>>,
           darkpool |-> <<Row("d1", "A", TRUE, TRUE), Row("d2", "A", TRUE, TRUE), Row("d3", "B", TRUE, TRUE)>>,
           earnings |-> <<Row("e1", "A", TRUE, FALSE), Row("e2", "B", TRUE, TRUE)>>]
MCSlice == [flow |-> 2, darkpool |-> 1, earnings |-> 1]
MCTickers == {spy}
MCTrades == {stock, option}
MCTicker == [p \in Trades |-> spy]
=============================================================================
