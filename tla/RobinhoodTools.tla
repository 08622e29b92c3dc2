--------------------------- MODULE RobinhoodTools ---------------------------
(* The tools of mcp_servers/robinhood_mcp.py that the execution worker does not
   call, in a subprocess that an agent uses. *)
EXTENDS RobinhoodServer

CONSTANT MaxOrders   \* bound on the stops that the agent orders, and on refused cancels

VARIABLES
    account,   \* the subprocess and its account
    ordered,   \* history: how often a stop was ordered, by ticker
    refusals   \* history: how often the broker refused to cancel one that is moved

toolsVars == <<account, ordered, refusals>>

PlaceStop(s, t) == Ordered(s, [s EXCEPT !.stops[t] = @ + 1])

\* The purchase stands when the order of the stop fails, and the stop is ordered
\* for a purchase without an id too.
BuyWithStop(s, t) ==
    UNION {IF bought.result = "error" THEN {bought} ELSE PlaceStop(bought.server, t) :
           bought \in BuyStock(s, t)}

\* The new stop before the old one is cancelled.
PlaceThenCancel(s, t, refused) ==
    IF s.stops[t] = 0 THEN {Answer(s, "no_stop_found")}
    ELSE LET placed == [s EXCEPT !.stops[t] = @ + 1]
         IN  IF s.paper THEN {Answer(s, "ok")}
             ELSE IF ~s.login THEN {Refused(s)}
             ELSE {Refused(s), Refused(placed), Answer(IF refused THEN placed ELSE s, "ok")}

\* Live, the old stop is cancelled first, and nobody looks whether the broker did
\* cancel it: with a failure in between there is none, with a refusal two.
ModifyStopLoss(s, t, refused) ==
    IF s.stops[t] = 0 THEN {Answer(s, "no_stop_found")}
    ELSE LET cancelled == [s EXCEPT !.stops[t] = @ - 1]
         IN  IF s.paper THEN {Answer(s, "ok")}
             ELSE IF ~s.login THEN {Refused(s)}
             ELSE {Refused(s), Refused(cancelled)} \cup PlaceStop(IF refused THEN s ELSE cancelled, t)

CancelAllOrders(s) == Ordered(s, [s EXCEPT !.stops = Zero])

\* Each ticker is closed by itself, and an error of one does not end the loop.
Left(s, t) == {o.server.shares[t] : o \in ClosePosition(s, t)}

BatchClose(s, tickers) ==
    {[s EXCEPT !.shares = left] : left \in
        {f \in [Tickers -> UNION {Left(s, t) \cup {s.shares[t]} : t \in Tickers}] :
            \A t \in Tickers : f[t] \in IF t \in tickers THEN Left(s, t) ELSE {s.shares[t]}}}

ToolsInit ==
    /\ \E paper \in BOOLEAN : \E o \in Login(NewServer(paper)) : account = o.server
    /\ ordered = Zero /\ refusals = Zero

Use(outcomes) == \E o \in outcomes : account' = o.server

OrderStop(t) ==
    /\ ordered[t] < MaxOrders
    /\ Use(BuyWithStop(account, t) \cup PlaceStop(account, t))
    /\ ordered' = [ordered EXCEPT ![t] = @ + 1]
    /\ UNCHANGED refusals

MoveStop(t, refused) ==
    /\ refused => refusals[t] < MaxOrders
    /\ Use(ModifyStopLoss(account, t, refused))
    /\ refusals' = IF refused THEN [refusals EXCEPT ![t] = @ + 1] ELSE refusals
    /\ UNCHANGED ordered

UseOthers ==
    /\ \/ Use(Login(account)) \/ Use(CancelAllOrders(account))
       \/ \E t \in Tickers : Use(ClosePosition(account, t))
       \/ \E tickers \in SUBSET Tickers : account' \in BatchClose(account, tickers)
    /\ UNCHANGED <<ordered, refusals>>

ToolsNext ==
    \/ \E t \in Tickers : OrderStop(t)
    \/ \E t \in Tickers, refused \in BOOLEAN : MoveStop(t, refused)
    \/ UseOthers

ToolsSpec == ToolsInit /\ [][ToolsNext]_toolsVars

-----------------------------------------------------------------------------
\* No move makes a second stop, whatever call raises on the way, unless the broker
\* refused to cancel the first: the account has at most one for each that was
\* ordered and for each such refusal; two would sell the shares twice
\* (_modify_stop_loss cancels before it places).
NoSecondStop == \A t \in Tickers : account.stops[t] <= ordered[t] + refusals[t]
=============================================================================
