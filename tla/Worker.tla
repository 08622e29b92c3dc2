------------------------------- MODULE Worker -------------------------------
(* The execution worker of the trading terminal
   (services/robinhood_execution_service.py): a Redis list of trades, the loop
   that pops and executes them through the MCP subprocess, and a task per open
   position that polls its price and closes it. The calls of the subprocess
   block the event loop; the boundaries between actions are the awaits. *)
EXTENDS RobinhoodServer, FiniteSets

CONSTANTS
    Trades,       \* the trades that are enqueued
    Ticker,       \* [Trades -> Tickers]
    Options,      \* the trades with an option type, a strike and an expiry
    Confident,    \* the trades of confidence 0.60 and more
    CloseOf,      \* the tickers that /close is called for
    Modes,        \* settings: paper mode or not
    MaxHold,      \* polls until "8 hours max hold"
    MaxFaults,    \* bound on calls with attempts that raise, and on Redis failures
    MaxReboots   \* bound on restarts of the application

ASSUME WorkerAssumption ==
    /\ Ticker \in [Trades -> Tickers]
    /\ Options \subseteq Trades /\ Confident \subseteq Trades
    /\ CloseOf \subseteq Tickers
    /\ Modes \subseteq BOOLEAN
    /\ {MaxHold, MaxFaults, MaxReboots} \subseteq Nat

VARIABLES
    sent,       \* trades and close requests that were enqueued
    queue,      \* the Redis list, first to be popped first
    handling,   \* [at, trade]: where _process_next is
    open,       \* _open_positions
    priced,     \* those with an entry price
    saved,      \* the Redis hash of positions: nothing reads it
    rejected,   \* the Redis list of rejected messages
    orphans,    \* history: the positions whose hset raised
    monitor,    \* the task of each position
    hold,       \* its hold_minutes, in polls
    server,     \* the subprocess and the account
    loggedIn,   \* _logged_in
    faults,
    reboots

workerVars == <<sent, queue, handling, open, priced, saved, rejected, orphans, monitor, hold,
                server, loggedIn, faults, reboots>>

Idle == [at |-> "idle", trade |-> "none"]
At(step, p) == [at |-> step, trade |-> p]
CloseMessage(t) == [type |-> "close", of |-> t]
TradeMessage(p) == [type |-> "execute", of |-> p]

\* A call of which attempts may raise, while the bound allows.
CalledAfter(s, used, Tool(_)) ==
    LET x == [s EXCEPT !.strays = 0]
    IN  {[o |-> o, faults |-> used] : o \in Read(x, Tool(x))} \cup
        (IF used < MaxFaults THEN {[o |-> o, faults |-> used + 1] : o \in WithRetries(x, Tool)} ELSE {})

\* start: log in, and go on without a session when that fails.
WorkerInit ==
    /\ sent = {} /\ queue = <<>> /\ handling = Idle
    /\ open = {} /\ priced = {} /\ saved = {} /\ rejected = {} /\ orphans = {}
    /\ monitor = [p \in Trades |-> "none"]
    /\ hold = [p \in Trades |-> 0]
    /\ \E paper \in Modes : \E c \in CalledAfter(NewServer(paper), 0, Login) :
          server = c.o.server /\ loggedIn = (c.o.result = "ok") /\ faults = c.faults
    /\ reboots = 0

Called(Tool(_)) == CalledAfter(server, faults, Tool)

-----------------------------------------------------------------------------
(* The queue. *)

Enqueue(m) ==
    /\ m \notin sent
    /\ sent' = sent \cup {m}
    /\ queue' = Append(queue, m)
    /\ UNCHANGED <<handling, open, priced, saved, rejected, orphans, monitor, hold, server, loggedIn,
                   faults, reboots>>

\* A close request has a ticker, and whatever has one is executed as a trade: it
\* has no confidence and is dropped at the gate, as is any trade under 0.60 and,
\* without a session, every trade.
Dropped(m) == m.type = "close" \/ m.of \notin Confident \/ ~loggedIn

Drop ==
    /\ handling = Idle /\ queue # <<>> /\ Dropped(Head(queue))
    /\ queue' = Tail(queue)
    /\ UNCHANGED <<sent, handling, open, priced, saved, rejected, orphans, monitor, hold, server,
                   loggedIn, faults, reboots>>

Order(s, p) == IF p \in Options THEN BuyOption(s, Ticker[p]) ELSE BuyStock(s, Ticker[p])
Ordering(p) == Called(LAMBDA s : Order(s, p))

\* Pop, place the order and record the position, whatever the answer says: an
\* error in band has no price, the answer of another call may have one. A call
\* that raises sends the message to the rejected list, if Redis takes it.
Execute ==
    /\ handling = Idle /\ queue # <<>> /\ ~Dropped(Head(queue))
    /\ LET p == Head(queue).of
       IN  \E c \in Ordering(p) :
              /\ server' = c.o.server
              /\ IF c.o.result = "raised"
                 THEN /\ rejected' \in {rejected, rejected \cup {p}}
                      /\ UNCHANGED <<handling, open, priced>>
                 ELSE /\ open' = open \cup {p}
                      /\ \/ /\ c.o.result = "ok" /\ (server.paper \/ p \notin Options \/ c.o.server.late)
                            /\ priced' = priced \cup {p}
                         \/ ~server.paper /\ UNCHANGED priced
                      /\ handling' = At("recorded", p)
                      /\ UNCHANGED rejected
              /\ faults' = c.faults
    /\ queue' = Tail(queue)
    /\ UNCHANGED <<sent, saved, orphans, monitor, hold, loggedIn, reboots>>

SavePosition ==
    /\ handling.at = "recorded"
    /\ saved' = saved \cup {handling.trade}
    /\ handling' = [handling EXCEPT !.at = "saved"]
    /\ UNCHANGED <<sent, queue, open, priced, rejected, orphans, monitor, hold, server, loggedIn,
                   faults, reboots>>

\* The position stays open, with no task to watch it; the list of rejected messages
\* is in the Redis that just failed, and may fail as well.
SaveFails ==
    /\ handling.at = "recorded" /\ faults < MaxFaults
    /\ orphans' = orphans \cup {handling.trade}
    /\ saved' \in {saved, saved \cup {handling.trade}}
    /\ rejected' \in {rejected, rejected \cup {handling.trade}}
    /\ handling' = Idle
    /\ faults' = faults + 1
    /\ UNCHANGED <<sent, queue, open, priced, monitor, hold, server, loggedIn, reboots>>

\* After the broadcast of POSITION_OPENED.
SpawnMonitor ==
    /\ handling.at = "saved"
    /\ monitor' = [monitor EXCEPT ![handling.trade] = "asleep"]
    /\ handling' = Idle
    /\ UNCHANGED <<sent, queue, open, priced, saved, rejected, orphans, hold, server, loggedIn,
                   faults, reboots>>

-----------------------------------------------------------------------------
(* The task of a position. *)

Longer(n) == IF n < MaxHold THEN n + 1 ELSE MaxHold

\* A quote of the subprocess: a price, or an error in band.
Quote(s) == IF s.paper THEN {Answer(s, "ok")}
            ELSE IF s.login THEN {Answer(s, "ok"), Refused(s)} ELSE {Refused(s)}
Quoting == Called(Quote)

\* close_position after a quote q.
Closing(q, p) == CalledAfter(q.o.server, q.faults, LAMBDA s : ClosePosition(s, Ticker[p]))

\* A task that ends with the first call that raises.
GiveUp(p) ==
    /\ monitor[p] = "asleep"
    /\ \E c \in Quoting :
          /\ c.o.result = "raised"
          /\ server' = c.o.server /\ faults' = c.faults
    /\ monitor' = [monitor EXCEPT ![p] = "none"]
    /\ UNCHANGED <<sent, queue, handling, open, priced, saved, rejected, orphans, hold, loggedIn, reboots>>

\* The call raises, or there is no entry price: nothing is judged, the time the
\* position is held neither.
SkipPoll(p) ==
    /\ monitor[p] = "asleep"
    /\ \E c \in Quoting :
          /\ server' = c.o.server /\ faults' = c.faults
          /\ \/ c.o.result = "raised" /\ UNCHANGED priced
             \/ /\ c.o.result # "raised" /\ p \notin priced
                /\ priced' = IF c.o.result = "ok" THEN priced \cup {p} ELSE priced
    /\ hold' = [hold EXCEPT ![p] = Longer(@)]
    /\ UNCHANGED <<sent, queue, handling, open, saved, rejected, orphans, monitor, loggedIn, reboots>>

\* The price is between the stop and the target, which the entry price, taken for
\* a quote with an error in band, always is.
Keep(p) ==
    /\ monitor[p] = "asleep" /\ p \in priced /\ hold[p] + 1 < MaxHold
    /\ \E c \in Quoting :
          /\ c.o.result # "raised"
          /\ server' = c.o.server /\ faults' = c.faults
    /\ hold' = [hold EXCEPT ![p] = Longer(@)]
    /\ UNCHANGED <<sent, queue, handling, open, priced, saved, rejected, orphans, monitor, loggedIn, reboots>>

\* A task that closes at the target or the stop only.
CloseOnPrice(p) ==
    /\ monitor[p] = "asleep" /\ p \in priced
    /\ \E q \in {x \in Quoting : x.o.result # "raised"} :
          /\ q.o.result = "ok"
          /\ \E c \in Closing(q, p) :
                server' = c.o.server /\ faults' = c.faults
    /\ open' = open \ {p}
    /\ monitor' = [monitor EXCEPT ![p] = "closed"]
    /\ hold' = [hold EXCEPT ![p] = Longer(@)]
    /\ UNCHANGED <<sent, queue, handling, priced, saved, rejected, orphans, loggedIn, reboots>>

\* The target, the stop or the longest time. The answer of close_position is not
\* looked at, and an exception is logged: the position is closed in any case.
CloseOpen(p) ==
    /\ monitor[p] = "asleep" /\ p \in priced
    /\ \E q \in {x \in Quoting : x.o.result # "raised"} :
          /\ q.o.result = "ok" \/ hold[p] + 1 >= MaxHold
          /\ \E c \in Closing(q, p) :
                server' = c.o.server /\ faults' = c.faults
    /\ open' = open \ {p}
    /\ monitor' = [monitor EXCEPT ![p] = "closed"]
    /\ hold' = [hold EXCEPT ![p] = Longer(@)]
    /\ UNCHANGED <<sent, queue, handling, priced, saved, rejected, orphans, loggedIn, reboots>>

\* hdel, and the broadcast; a failing hdel leaves the entry in the hash.
Forget(p) ==
    /\ monitor[p] = "closed"
    /\ monitor' = [monitor EXCEPT ![p] = "none"]
    /\ \/ saved' = saved \ {p} /\ UNCHANGED faults
       \/ faults < MaxFaults /\ faults' = faults + 1 /\ UNCHANGED saved
    /\ UNCHANGED <<sent, queue, handling, open, priced, rejected, orphans, hold, server, loggedIn, reboots>>

\* The application stops and starts: tasks, positions and the popped message are
\* gone, the Redis list and the account stay.
RestartWorker ==
    /\ reboots < MaxReboots
    /\ reboots' = reboots + 1
    /\ handling' = Idle
    /\ open' = {} /\ priced' = {}
    /\ monitor' = [p \in Trades |-> "none"]
    /\ hold' = [p \in Trades |-> 0]
    /\ \E c \in CalledAfter(Restarted(server), faults, Login) :
          server' = c.o.server /\ loggedIn' = (c.o.result = "ok") /\ faults' = c.faults
    /\ UNCHANGED <<sent, queue, saved, rejected, orphans>>

Monitor(p) == SkipPoll(p) \/ Keep(p) \/ CloseOpen(p) \/ Forget(p)

WorkerNext ==
    \/ \E p \in Trades : Enqueue(TradeMessage(p))
    \/ \E t \in CloseOf : Enqueue(CloseMessage(t))
    \/ Drop \/ Execute \/ SavePosition \/ SaveFails \/ SpawnMonitor
    \/ \E p \in Trades : Monitor(p)
    \/ RestartWorker

\* The event loop serves every task that is ready; sleeps end.
WorkerFairness == \A p \in Trades : WF_workerVars(Monitor(p))

WorkerSpec == WorkerInit /\ [][WorkerNext]_workerVars /\ WorkerFairness

-----------------------------------------------------------------------------
(* Properties. *)

Handled(p) == handling.at # "idle" /\ handling.trade = p

\* Every open position has a task that watches its stop, or the loop is on the
\* way to start it, unless the write of that very position to Redis raised: a
\* quote that fails three times, a dying subprocess or a trade that is opened
\* meanwhile never leaves one alone (_handle_execute, _monitor_position).
OpenIsWatched ==
    \A p \in open : monitor[p] # "none" \/ Handled(p) \/ p \in orphans

Holdings(s, t) == s.shares[t] + s.contracts[t]

\* One message buys once, and once more for each line of the subprocess that was
\* no answer: a call that is retried because the subprocess died after the order
\* went out meets one without a session, or an empty paper account
\* (RobinhoodMCPClient.call).
OneOrderPerMessage ==
    [][\A t \in Tickers : Holdings(server', t) <= Holdings(server, t) + 1 + server'.strays]_workerVars

\* A position with an entry price is closed in the end: by its target, its stop or
\* the longest time, with quotes that fail in band too ("8 hours max hold"). Trades
\* below the confidence gate are never opened.
PricedCloses == \A p \in Confident : (p \in open \cap priced /\ monitor[p] # "none") ~> p \notin open

\* The same for every watched position.
WatchedCloses == \A p \in Trades : (p \in open /\ monitor[p] # "none") ~> p \notin open

\* A position that its task closes is sold: the account has less of the ticker
\* ("Close a position (stock or option).").
ClosedIsSold ==
    [][\A p \in open \ open' : reboots' = reboots
          => Holdings(server', Ticker[p]) < Holdings(server, Ticker[p])]_workerVars

\* A close request that the worker takes from the queue closes what is open in
\* its ticker ("Close a position by ticker").
CloseRequestCloses ==
    [][queue # <<>> /\ queue' = Tail(queue) /\ Head(queue).type = "close"
          => \A p \in open' : Ticker[p] # Head(queue).of]_workerVars
=============================================================================
