------------------------------- MODULE Orders -------------------------------
(* Orders of the trading terminal: the request that creates and executes an
   order (api/routers/orders.py, services/order_gateway.py,
   services/execution_service.py), the request that cancels one, the rows of
   the orders table, and the paper broker with its queue of limit orders, which
   the position task of api/main.py fills against the cached prices. Every
   await of a request is a boundary between actions; the broker's own code has
   none but the simulated latency at its start. The process may stop and start
   again: the rows stay, the paper broker is new.

   Quantities and money are whole numbers of a smallest unit. *)
EXTENDS Integers, SequencesExt

CONSTANTS
    Orders,       \* the orders that clients send
    Symbols,
    Symbol,       \* [Orders -> Symbols]
    Side,         \* [Orders -> {"buy", "sell"}]
    Limit,        \* [Orders -> Nat]: the limit price, 0 for a market order
    Quantity,     \* [Orders -> Nat \ {0}]
    Prices,       \* what the market may pay or ask: bounds the model
    InitialCash,
    MaxCancels,   \* bound on the orders that clients cancel
    MaxRestarts   \* bound on restarts of the process

ASSUME OrdersAssumption ==
    /\ Symbol \in [Orders -> Symbols]
    /\ Side \in [Orders -> {"buy", "sell"}]
    /\ Limit \in [Orders -> Nat]
    /\ Quantity \in [Orders -> Nat \ {0}]
    /\ Prices \subseteq Nat \ {0}
    /\ InitialCash \in Nat
    /\ MaxCancels \in Nat
    /\ MaxRestarts \in Nat

VARIABLES
    request,    \* where the request that creates an order is
    cancel,     \* where the request that cancels it is, with the row it read
    row,        \* the orders table
    status,     \* the status field of the Order object, which request and broker share
    broker,     \* [cash, held, fills]: the paper broker's books
    pending,    \* its queue of limit orders
    connected,
    filled,     \* history: the orders that any broker filled, with quantities
    restarts

ordersVars == <<request, cancel, row, status, broker, pending, connected, filled, restarts>>

NoRow == [status |-> "none", filled |-> 0]
NoCancel == [at |-> "idle", row |-> NoRow]
FreshBroker == [cash |-> InitialCash, held |-> [s \in Symbols |-> 0], fills |-> <<>>]

OrdersInit ==
    /\ request = [o \in Orders |-> "idle"]
    /\ cancel = [o \in Orders |-> NoCancel]
    /\ row = [o \in Orders |-> NoRow]
    /\ status = [o \in Orders |-> "none"]
    /\ broker = FreshBroker
    /\ pending = <<>>
    /\ connected = TRUE
    /\ filled = [o \in Orders |-> 0]
    /\ restarts = 0

-----------------------------------------------------------------------------
(* The paper broker. *)

Larger(a, b) == IF a > b THEN a ELSE b
Smaller(a, b) == IF a < b THEN a ELSE b
Commission(value) == Larger(1, value \div 10000)

\* The quantity that a fill at `price` can have: a purchase is cut to the cash
\* there is, a sale to what is held; with nothing held it is a short sale.
Fillable(b, o, price) ==
    LET fee == Commission(Quantity[o] * price)
        held == b.held[Symbol[o]]
    IN  IF Side[o] = "buy"
        THEN IF Quantity[o] * price + fee > b.cash
             THEN Larger(0, (b.cash - fee) \div price)
             ELSE Quantity[o]
        ELSE IF held > 0 THEN Smaller(Quantity[o], held) ELSE Quantity[o]

\* The books after a fill; the commission is that of the whole order.
Booked(b, o, price) ==
    LET q == Fillable(b, o, price)
        fee == Commission(Quantity[o] * price)
        s == Symbol[o]
    IN  [cash  |-> IF Side[o] = "buy" THEN b.cash - (price * q + fee)
                                      ELSE b.cash + price * q - fee,
         held  |-> [b.held EXCEPT ![s] =
                       IF Side[o] = "buy" THEN @ + q ELSE Larger(0, @ - q)],
         fills |-> Append(b.fills, [order |-> o, quantity |-> q, price |-> price, fee |-> fee])]

\* Books in which a purchase that was cut to the cash costs what was ordered.
CostBeforeCut(b, o, price) ==
    [Booked(b, o, price) EXCEPT
        !.cash = IF Side[o] = "buy"
                 THEN b.cash - (price * Quantity[o] + Commission(Quantity[o] * price))
                 ELSE @]

\* Nothing can be bought: the Order object becomes REJECTED, the books stay.
FillOrder(b, o, price) == IF Fillable(b, o, price) = 0 THEN b ELSE Booked(b, o, price)

-----------------------------------------------------------------------------
(* The request that creates and executes an order. *)

CreateOrder(o) ==
    /\ request[o] = "idle"
    /\ request' = [request EXCEPT ![o] = "created"]
    /\ status' = [status EXCEPT ![o] = "pending"]
    /\ row' = [row EXCEPT ![o] = [status |-> "pending", filled |-> 0]]
    /\ UNCHANGED <<cancel, broker, pending, connected, filled, restarts>>

\* The event store or Kafka raises: the order is never executed.
AnnounceFails(o) ==
    /\ request[o] = "created"
    /\ request' = [request EXCEPT ![o] = "failed"]
    /\ UNCHANGED <<cancel, row, status, broker, pending, connected, filled, restarts>>

\* execute_order upserts its own object, whatever a cancellation wrote meanwhile.
SubmitOrder(o) ==
    /\ request[o] = "created"
    /\ request' = [request EXCEPT ![o] = "submitted"]
    /\ status' = [status EXCEPT ![o] = "submitted"]
    /\ row' = [row EXCEPT ![o] = [status |-> "submitted", filled |-> 0]]
    /\ UNCHANGED <<cancel, broker, pending, connected, filled, restarts>>

\* submit_order raises when the broker is disconnected.
RejectOrder(o) ==
    /\ request[o] = "submitted" /\ ~connected
    /\ request' = [request EXCEPT ![o] = "done"]
    /\ status' = [status EXCEPT ![o] = "rejected"]
    /\ row' = [row EXCEPT ![o].status = "rejected"]
    /\ UNCHANGED <<cancel, broker, pending, connected, filled, restarts>>

\* After the latency: a limit order is queued. Its average_fill_price is None,
\* and float(None) ends the request with an error, outside of the try.
QueueLimit(o) ==
    /\ request[o] = "submitted" /\ connected /\ Limit[o] > 0
    /\ request' = [request EXCEPT ![o] = "failed"]
    /\ pending' = Append(pending, o)
    /\ UNCHANGED <<cancel, row, status, broker, connected, filled, restarts>>

\* A market order fills at once; one that the cash cannot pay is REJECTED and
\* has no price either.
FillMarket(o) ==
    /\ request[o] = "submitted" /\ connected /\ Limit[o] = 0
    /\ \E price \in Prices :
          LET q == Fillable(broker, o, price)
          IN  /\ broker' = FillOrder(broker, o, price)
              /\ filled' = [filled EXCEPT ![o] = @ + q]
              /\ status' = [status EXCEPT ![o] = IF q = 0 THEN "rejected" ELSE "filled"]
              /\ request' = [request EXCEPT ![o] = IF q = 0 THEN "failed" ELSE "answered"]
    /\ UNCHANGED <<cancel, row, pending, connected, restarts>>

\* After the OrderSubmitted event: the result is written to the row.
RecordFill(o) ==
    /\ request[o] = "answered"
    /\ request' = [request EXCEPT ![o] = "done"]
    /\ status' = [status EXCEPT ![o] = "filled"]
    /\ row' = [row EXCEPT ![o] = [status |-> "filled", filled |-> filled[o]]]
    /\ UNCHANGED <<cancel, broker, pending, connected, filled, restarts>>

-----------------------------------------------------------------------------
(* The request that cancels one: the row is read, and written back later. *)

Cancellable == {"pending", "submitted", "partially_filled"}

ReadForCancel(o) ==
    /\ cancel[o].at = "idle" /\ row[o].status \in Cancellable
    /\ Cardinality({p \in Orders : cancel[p].at # "idle"}) < MaxCancels
    /\ cancel' = [cancel EXCEPT ![o] = [at |-> "read", row |-> row[o]]]
    /\ UNCHANGED <<request, row, status, broker, pending, connected, filled, restarts>>

\* The broker is not told.
CancelOrder(o) ==
    /\ cancel[o].at = "read"
    /\ cancel' = [cancel EXCEPT ![o] = [NoCancel EXCEPT !.at = "done"]]
    /\ row' = [row EXCEPT ![o] = [cancel[o].row EXCEPT !.status = "cancelled"]]
    /\ UNCHANGED <<request, status, broker, pending, connected, filled, restarts>>

-----------------------------------------------------------------------------
(* position_update_task: the queued orders that the prices reach are filled at
   their limit, in the order of the queue. Their rows are not touched. *)

Reached(o, price) ==
    IF Side[o] = "buy" THEN price[Symbol[o]] <= Limit[o] ELSE price[Symbol[o]] >= Limit[o]

\* A tick that removes nothing from the queue.
VisitAndKeep(x, o, price) ==
    IF Reached(o, price)
    THEN [x EXCEPT !.books = FillOrder(@, o, Limit[o]),
                   !.due = @ \cup {o},
                   !.took[o] = Fillable(x.books, o, Limit[o]),
                   !.still = Append(@, o)]
    ELSE [x EXCEPT !.still = Append(@, o)]

\* One order of the queue; `still` is what is left of the queue, `took` the
\* quantities of the orders that are due.
Visit(x, o, price) ==
    IF Reached(o, price)
    THEN [x EXCEPT !.books = FillOrder(@, o, Limit[o]),
                   !.due = @ \cup {o},
                   !.took[o] = Fillable(x.books, o, Limit[o])]
    ELSE [x EXCEPT !.still = Append(@, o)]

Unvisited(b) == [books |-> b, still |-> <<>>, due |-> {}, took |-> [o \in Orders |-> 0]]

\* A tick, after each order of the queue.
Tick(b, queued, price) ==
    LET after[k \in 0..Len(queued)] ==
            IF k = 0 THEN Unvisited(b) ELSE Visit(after[k - 1], queued[k], price)
    IN  after

ProcessPending ==
    \E price \in [Symbols -> Prices] :
       LET tick == Tick(broker, pending, price)[Len(pending)]
       IN  /\ tick.due # {}
           /\ broker' = tick.books
           /\ pending' = tick.still
           /\ filled' = [o \in Orders |-> filled[o] + tick.took[o]]
           /\ status' = [o \in Orders |->
                            IF o \notin tick.due THEN status[o]
                            ELSE IF tick.took[o] = 0 THEN "rejected" ELSE "filled"]
           /\ UNCHANGED <<request, cancel, row, connected, restarts>>

\* The shutdown of the application, and its next start.
Disconnect ==
    /\ connected /\ restarts < MaxRestarts
    /\ connected' = FALSE
    /\ UNCHANGED <<request, cancel, row, status, broker, pending, filled, restarts>>

RestartTerminal ==
    /\ ~connected /\ restarts < MaxRestarts
    /\ connected' = TRUE
    /\ restarts' = restarts + 1
    /\ broker' = FreshBroker
    /\ pending' = <<>>
    /\ request' = [o \in Orders |-> IF request[o] = "idle" THEN "idle" ELSE "done"]
    /\ cancel' = [o \in Orders |-> IF cancel[o].at = "idle" THEN NoCancel ELSE [NoCancel EXCEPT !.at = "done"]]
    /\ UNCHANGED <<row, status, filled>>

OrdersNext ==
    \/ \E o \in Orders :
          \/ CreateOrder(o) \/ AnnounceFails(o) \/ SubmitOrder(o) \/ RejectOrder(o)
          \/ QueueLimit(o) \/ FillMarket(o) \/ RecordFill(o)
          \/ ReadForCancel(o) \/ CancelOrder(o)
    \/ ProcessPending \/ Disconnect \/ RestartTerminal

OrdersSpec == OrdersInit /\ [][OrdersNext]_ordersVars

-----------------------------------------------------------------------------
(* PortfolioService.process_fill, the other accounting of the same fills: a
   long position is added to, reduced or closed, a sale without one opens a
   short position and leaves the cash alone. *)

FreshPortfolio == [cash |-> InitialCash, held |-> [s \in Symbols |-> 0], short |-> FALSE]

ProcessBuy(p, f) ==
    [p EXCEPT !.cash = @ - (f.price * f.quantity + f.fee),
              !.held[Symbol[f.order]] = @ + f.quantity]

\* A sale that pays no commission.
SellWithoutFee(p, f) ==
    LET s == Symbol[f.order]
        closed == Smaller(f.quantity, p.held[s])
    IN  IF p.held[s] = 0
        THEN [p EXCEPT !.held[s] = f.quantity, !.short = TRUE]
        ELSE [p EXCEPT !.cash = @ + f.price * closed, !.held[s] = @ - closed]

ProcessSell(p, f) ==
    LET s == Symbol[f.order]
        closed == Smaller(f.quantity, p.held[s])
    IN  IF p.held[s] = 0
        THEN [p EXCEPT !.held[s] = f.quantity, !.short = TRUE]
        ELSE [p EXCEPT !.cash = @ + f.price * closed - f.fee, !.held[s] = @ - closed]

ProcessFill(p, f) == IF Side[f.order] = "buy" THEN ProcessBuy(p, f) ELSE ProcessSell(p, f)

\* The portfolio after each fill.
Portfolios(fills) ==
    LET after[k \in 0..Len(fills)] ==
            IF k = 0 THEN FreshPortfolio ELSE ProcessFill(after[k - 1], fills[k])
    IN  after

Portfolio == Portfolios(broker.fills)[Len(broker.fills)]

-----------------------------------------------------------------------------
(* Properties. *)

\* The cash after each fill.
Moved(f) == IF Side[f.order] = "buy" THEN -(f.price * f.quantity) - f.fee
                                     ELSE f.price * f.quantity - f.fee
CashAfter(fills) ==
    LET after[k \in 0..Len(fills)] ==
            IF k = 0 THEN InitialCash ELSE after[k - 1] + Moved(fills[k])
    IN  after

\* The cash of the paper broker is the initial cash plus what every fill of its
\* history moved: an order that was cut to the cash pays for what it got only,
\* a queued order pays at its limit, and nothing is paid without a fill.
CashIsHistory == broker.cash = CashAfter(broker.fills)[Len(broker.fills)]

\* The two accountings of the terminal agree: fed every fill of the paper broker,
\* PortfolioService has its cash and its holdings, as long as nothing was sold
\* that was not held (there the one credits the cash and the other does not).
PortfolioAgrees ==
    ~Portfolio.short => Portfolio.cash = broker.cash /\ Portfolio.held = broker.held

\* No order is filled twice, be it by the request and the queue or by the queue
\* at two ticks, although the request writes the row after the fill, a cancelled
\* order stays queued and the row of a queued one never changes.
FilledOnce == \A o \in Orders : filled[o] <= Quantity[o]

\* An order that the broker refused is REJECTED in the table once its request
\* has ended ("On broker failure the order is marked REJECTED").
RefusedIsRejected ==
    \A o \in Orders : request[o] = "failed" /\ status[o] = "rejected" => row[o].status = "rejected"
=============================================================================
