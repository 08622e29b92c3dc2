# Models of cre-kg-mcp

TLA+ modules, TLC runs and TLAPS proofs about the three programs of this
repository:

- the *desk*, an option-trading system of analysts, a master, an execution gateway
  and a position monitor (`core/`, `analysts/`, `master/`, `gateway/`);
- the *trading terminal*, a FastAPI backend with a paper broker, a risk gate,
  strategy agents and a worker that trades through a Robinhood MCP server
  (`TradingBot/trading-terminal/backend/`);
- the *knowledge graph* of commercial real estate: streaming ingester, backfill and
  graph learning (`ingester/`, `ml/`, `mcp_server/`, `sql/`).

`PROJECT.json` maps each definition to the lines it models, lists the runs, the
findings, the theorems, and the hazards the properties are for.

## 1. The system

### The desk

| Component | State it keeps | Operations | Talks to |
|---|---|---|---|
| Discord listener (`analysts/discord/gateway.py`) | subscriptions, sell queues per channel, in memory | dispatch a message to buy and sell queues; replay 30 minutes of history after every connect | analysts; the monitor, by the sell queues |
| Discord analysts (`analysts/discord/`) | keys of what they emitted, cleared by timers | take a message, parse, weigh, emit | `signal_queue` of the master; the kill switch |
| Market analysts (`analysts/unusual_whales`, `technical`) | keys of what they emitted; `ta_signal.json` | wake by the clock, fetch, weigh evidence, emit | the client of Unusual Whales; `signal_queue`; the kill switch |
| Social trends (`analysts/social/`) | `social_baseline.json` | count mentions, compare with the baseline, alert | its sources; the client of Unusual Whales |
| Client of Unusual Whales | token bucket, cache files | rate-limited requests, cached answers | |
| Master (`master/master_analyst.py`) | `_seen`, `_recently_approved`, `_pending_consensus`, in memory | one signal at a time through pause, deduplication, kill switch, VIX, win-rate gate, conflict, consensus, Claude | signal and gateway queues; trade memory; Claude; control files |
| Execution gateway (`gateway/rh_gateway.py`) | paper orders and positions, idempotency keys in memory and in Redis | `execute_signal`, `close_position`, `get_quote`, `get_positions` | robin_stocks or nothing (paper); Redis |
| Monitor (`gateway/monitor_agent.py`) | positions, partial sales, last sell times; `open_positions.json` | every 30 s: manual closes, market-close sweep, hard stops, exit strategies | the gateway; sell queues; control files |
| Control files | `kill_switch.json`, `paused_analysts.json`, `manual_close_queue.jsonl` | written by the Telegram bot and by the dashboard | read by master, monitor, analysts |
| Multi-account gateway | one RHGateway per account; `open_positions.json` | fan out buys, closes and `get_positions` | RHGateways |
| Trade memory (`master/memory_journal.py`) | SQLite trades and two tables of counters | `record_close`, win rates | the master's gate |
| Evaluation (`master/eod_evaluator.py`) | `analyst_configs`, reports | statistics of the day, changes of parameters | trade memory |
| Exit rules (`gateway/monitor_rules.py`) | the records of exits, `monitor_rules.json` | record an exit, derive rules | the monitor |

What makes it hard: every process is a set of asyncio tasks that interleave at
their awaits, with the operator's files changing underneath; state is spread
over memory, JSON files, SQLite, Redis and a broker, none of which is written
together with another; and calls to the broker fail in ways that do not tell
whether the order exists.

What makes it correct: an order is placed once, however often it is retried; what is
bought is tracked until it is sold, across crashes and writes that fail, and neither
sold twice nor dropped unsold; a close that was requested and the sweep before the
close of the market have their effect in the end;
repeats and conflicts are rejected and consensus is real; an alert that was not
emitted does not silence the next; a command of the operator is not lost, and a
kill stands; the counters that gate a trade agree with the trades.

### The trading terminal

| Component | State it keeps | Operations |
|---|---|---|
| Orders (`services/order_gateway.py`, `execution_service.py`, `adapters/paper_broker.py`) | rows of orders; cash, holdings, queue and fills of the paper broker | create, submit, cancel, tick over the queue |
| Portfolio (`services/portfolio_service.py`) | cash and holdings | a fold over fills |
| Signals (`services/ingestion_service.py`, `parser_service.py`, `risk_service.py`) | rows, Redis keys of duplicates, halt flag | ingest, parse, evaluate, emergency stop, approve, reject |
| Strategy agents (`services/strategies/`) | sets of seen items, in memory | scan a feed, filter, enqueue |
| Worker (`services/robinhood_execution_service.py`) | Redis list of messages, hash of positions, one task per position | pop, order, record, watch, close |
| Robinhood MCP server (`mcp_servers/robinhood_mcp.py`) | session, paper book | orders, stops, closes, in a subprocess that is restarted when it dies |

What makes it hard: a request writes to a database, to Redis and to a broker with
awaits in between; a tick over queued orders meets requests and cancellations; a
subprocess may die after an order went out and before its answer.

What makes it correct: cash and holdings are what the fills say; an order is filled
once; a message buys once; an open position is watched; no signal is turned away as a
duplicate of one that was never saved; what the gate approves, resized or not,
respects its limits. (Two of these have exceptions in the code: section 6.)

### The knowledge graph

| Component | State | Operations |
|---|---|---|
| Warehouse (`sql/streams/`) | source table, stream, delta table | a task moves the stream into the delta table every minute |
| Streaming ingester (`ingester/streaming.py`) | none but `backfilled_ids` | backfill at the start, then poll: fetch, embed, upsert node and edges, mark |
| Backfill (`ingester/backfill.py`, `graph_writer.py`, `normalizer.py`) | the graph | copy five tables row by row, statement by statement |
| Graph learning (`ml/`) | predictions, node properties, catalogue of projections | every 10 minutes: embeddings, communities, links |
| MCP server (`mcp_server/`) | none | read-only queries |

What makes it hard: node, edges and mark are transactions of their own in two
stores; each may fail and the process may die between any two; the service and
`make ml-refresh` run the same stages beside each other. What makes it correct:
nothing is acknowledged before it is complete in the graph, nothing complete is
undone, what is published arrives, a run of the backfill without mishap is
complete, and pruned predictions stay away.

## 2. The modules

    Gateway ── Monitor ── MCMonitor          PositionLedger (abstract)
    Master ── MCMaster
    ControlFiles, DiscordAnalysts, Learning, ExitRules,
      Accounts, MarketAnalysts, SocialTrends, UWClient ── Desk ── MCDesk
    RobinhoodServer ── RobinhoodTools, Worker
    Orders, Signals, Agents, RobinhoodTools, Worker ── Terminal ── MCTerminal
    Streaming, Backfill, Enrichment ── KnowledgeGraph ── MCKnowledgeGraph
                                              InsightFeed (abstract)

    Gateway, Monitor, Master, Streaming, Desk, Terminal: a module of proofs
      each (GatewayProofs, ...), GraphProofs for KnowledgeGraph with its parts;
      InductionFacts beneath them

`Monitor` and `Gateway` share state and are composed by interleaving. The parts of
`Desk`, `Terminal` and `KnowledgeGraph` hardly do: they meet in queues and files whose
other end any part finds in any state. `Desk` and `KnowledgeGraph` therefore choose in
`Init` which part is busy (`part`, `busy`) and leave the others as they start; the
product of independent parts would show nothing more. `Terminal` chooses a set of
busy parts (`Loads`), so that orders and intake, which meet in the cash, can be run
together (`terminal_cash.cfg`). What a part needs of another is in its own
module: the kill switch that analysts find set or clear at any time, the property
nodes that the backfill adds under the streaming ingester (`AddProperty`), the edges
that come into being under link prediction (`LinkPair`).

### Gateway

`Gateway.tla` is `RHGateway`. A call of `execute_signal` (`"BUY"`) or
`close_position` (`"SELL"`) is a record of `calls` that moves through the points
where the coroutine awaits:

    none --Ask--> unseen --Accept--> accepted --Remember--> done --Return--> none
              \-> done (key known)  \-> done (Refuse, LoseReply)

`Ask` is the idempotency lookup, `Accept` the submission that succeeds,
`Remember` the write of the key. `Refuse` is an exception without an order,
`LoseReply` one after the broker took the order. `Crash` empties what is in
memory (`book`, `local`, the calls) and leaves Redis and the broker.

An idempotency key is `<<action, contract, quantity>>`: what
`make_client_order_id` hashes on one trade date. `Contract` maps a position to
everything else that is hashed, so two positions may share it. Prices are in
percent of what the position paid; `filled`, `ordered` and `placed` are history
variables that count what the market was asked and did.

`GatewaySpec` lets a buyer and a seller call it as they like. A signal that a
guard on the quote turns away, and the sizing of a position, change no state of
the gateway; the quantity of a position is a constant.

### Monitor

`Monitor.tla` extends `Gateway`: its `pc` is the place of the monitor's task, its
`Ask("SELL", ...)` the call of `close_position`, and its steps interleave with
those of the gateway, the buyer's task (`StartBuy`, `AddPosition`), the listener
(`SellMessage`), the operator (`RequestClose`, `TogglePause`), the market and the
process itself (`Die`, `Restart`).

| Code | Actions |
|---|---|
| `run`, `_poll_positions` | `StartPoll`, `SweepDone`, `CheckDone` |
| `_process_manual_close_queue` | `ReadRequests`, `ClearRequests`, `ManualClose`, `ManualNextLine`, `ManualDone` |
| `_check_market_close` | `EnterChecks`, `SweepClose` |
| `_check_position` and its handlers | `Skip`, `CheckHardStop`, `CheckFirstSell`, `CheckPartialSell`, `CheckLastSellHeard`, `CheckLastSellSilent`, `CheckPriceTarget`, `CheckTechnicals`, `CheckHolds` |
| `_close_position` | `BeginClose` up to the gateway's answer, `RecordClose` after it |
| `add_position`, `_load_positions` | `AddPosition`, `Restart` |

`file` is `open_positions.json`. `Persist` writes it in the step that changes the
memory, since no await lies between, and the write may fail: `_persist_positions` logs
the exception and goes on, so that `file` stays behind for any number of changes.
`unsaved` tells whether the last write failed, `kept` which positions were ever in the
file, and `risk` how many contracts were sold of which a crash erased the record: orders
without an answer, and what the memory had noted and the file had not.
`FileIsMemory` checks that no action forgets to write, and that one write that succeeds
makes up for those that failed.
Clocks are choices: whether it is five minutes to the close (`EnterChecks`),
whether the owner has been silent long enough (`CheckLastSellSilent`), whether
the technicals have turned (`CheckTechnicals`). `QuoteIsPrice` says whether the
gateway answers a number, as the monitor's Protocol promises, or the
`OptionContract` that `RHGateway` returns; the second is what is deployed and
makes every check raise (`Skip`).

`PositionLedger.tla` is what this promises: a position is opened once, sold in
part once at most, and closed for good. One write may do any of this for several
positions, as it makes up for earlier ones that failed. `LedgerSpec` instantiates it with
the contents of the file, and with the history `kept` to tell a closed position from one
that was never in it.

### Master

`Master.tla` is `MasterAnalyst._process`, split at its two awaits (the trade
database, Claude). `RejectPaused`, `DropDuplicate` and `RejectAtOnce` settle a
signal before the first, `AwaitGate` reaches it; `TurnAway`, `RejectConflict`
and `Hold` end it between the two, `AskClaude` goes on to the second, and
`Approve` or `TurnAway` follows. Time is a counter; the three windows of the code
are constants in its ticks. `approvals` records for each approval when its
processing began and which signals backed it. An analyst that is started again
and replays its channel's history repeats itself, so `Emit` may emit any signal at
any time.

### The parts of Desk

| Module | Code | Its state and steps |
|---|---|---|
| `ControlFiles` | `kill_switch.py`, `telegram_handler.py`, `dashboard.py`, `dashboard_state.py` | A file is its size and the names in it if it is JSON. `Path.write_text` is two steps, `Truncate` and `Write` from the start of the file, and the two programs interleave between them; `CrashWriter` cuts a command short. `confirmed` is the offset Telegram has, `batch` what the bot took and has not handled. |
| `DiscordAnalysts` | `gateway.py` and the analysts under `analysts/discord/` | A message is the record of what the patterns of the parsers find in it; the parsers are predicates on it, each analyst's gates and the order of marking and emitting are its `Turn`. `dedup` holds keys with the time their timer ends; the listener disconnects, reconnects and replays. |
| `MarketAnalysts` | `base_analyst.py`, `mag7.py`, `spy_spx.py`, `screener.py`, `technical_analyst.py` | A cycle of one analyst: what it fetched, its evidence with weights, direction and confidence, the signals it emits, by symbol, expiry and direction. |
| `SocialTrends` | `social_trends.py` | The baseline file by day, a scan source by source, the spike test, `NextDay` and restarts. |
| `UWClient` | `uw_client.py` | Callers share a token bucket: the one with the lock sleeps in it. Cache files with their age; requests succeed, fail, or are 404. |
| `Learning` | `memory_journal.py`, `eod_evaluator.py` | `record_close` statement by statement inside its transaction, what the gates read, and the evaluation: statistics, split, changes clamped and applied one file after the other, the report, with the changes as proposed, last. |
| `ExitRules` | `monitor_rules.py` and the recording in `monitor_agent.py` | The list of recorded exits and `_derive_rule`. The winners and losers that the code filters into lists are sets of places in that list; what the code takes from a sorted list, a median, is taken by rank (`Ranked`). |
| `Accounts` | `multi_account_gateway.py`, `account_manager.py` | A fan-out is a call on every account, gathered when all have answered, refused or raised, before the broker took the order or after (`lost`); a known key is answered with its order in paper mode and with `None` in live mode; the exception of a close in one account is the caller's (`Returned`). Logins are those of the environment, whatever account asks. |

### The parts of Terminal

| Module | Code | Its state and steps |
|---|---|---|
| `Orders` | order gateway, execution service, paper broker, repositories, portfolio service | A request is split at its awaits: row created, submitted, filled or queued at the broker, row written. The tick fills queued limit orders; a cancellation is two steps; a restart empties the broker. `Portfolio` folds the fills as `PortfolioService` does. |
| `Signals` | ingestion, parser, risk service, routers of signals, approvals, watchlist, risk | Ingestion is split between lookup, insert and mark. `evaluate_signal` is one decision over the table of positions as read. Prices and percentages are integers in units of `Precision`. |
| `Agents` | `services/strategies/` | A scan takes the feed place by place (`Places`), so that what it has found and what is still ahead are sets of places; a cut of the set of seen keys leaves any part of the size the code keeps (a Python set has no order). |
| `RobinhoodServer` | `robinhood_mcp.py`, `robinhood_mcp_client.py` | A tool is an operator from a state of the server to the set of its outcomes, each an answer with the state it leaves. `WithRetries` is the client's loop: an attempt raises (`Failed`) because the subprocess died, before or after the tool had its effect, or, live, because a line that is no JSON was read in its place (`Stray`). Only a dead subprocess is restarted; a living one gets the call again, logged in as it is, and the answer that nobody read is what the next call reads (`Read`). |
| `RobinhoodTools` | the orders, stops and closing tools | One action per use of a tool. Whether the broker refuses the cancellation within a move of a stop is a choice, as the code does not look. |
| `Worker` | `robinhood_execution_service.py`, router | The list, the loop that pops one message and handles it to the end, the hash, and one task per open position (`monitor`). `SaveFails` is a failing write of the hash: the position stays open without a task, and its message is on the list of rejected ones only if that write, to the same Redis, succeeds. |

### The parts of KnowledgeGraph

`Streaming.tla` is `streaming.py` with the stream and task of the warehouse.
`Start` reads what the backfill has to do, `Fetch` a batch; both run `Upsert`
(the node), `Wire` (one edge each) and then `Landed` or `MarkProcessed`. `Fail`
is the exception of any of these, which the loops catch per row; `Crash` the death
of the process. An edge to a property that is not in the graph is skipped without
an error, as the code's `MATCH` does. `InsightFeed.tla` is the promise: insights are
offered, land complete and for good, and are acknowledged only then.

`Backfill.tla` reads a row and runs the statements that `graph_writer.py` makes of it
(`StatementsOf`): the nodes and edges each merges, by the keys the normaliser gives,
what it must find, and whether it carries a null key, which Neo4j refuses. A run
goes through five stages, may end early, and meets rows that change.

`Enrichment.tla` runs the three stages of `ml/refresh.py` in any number of workers.
Projections are named entries of a catalogue that all share; a run of link
prediction draws its stamp, prunes older predictions, scores and merges.

## 3. The runs

| Run | Instance | States | What it checks |
|---|---|---|---|
| `monitor_paper` | 2 positions (3 contracts sold 70% first; 1 contract, owner's silence), paper, Redis, 1 fault, any write may fail | 1,960,504 | `TypeOK`, `TrackedHasRemainder`, `FileIsMemory`, `DroppedIsSold`, `LedgerSpec` |
| `monitor_live` | 2 positions in one contract, live, no Redis, 1 fault, any write may fail | 2,373,204 | `SoldWithinHoldings`, `OneOrderPerKey` |
| `monitor_fair` | 2 positions (first sell; technicals), paper, prices 40 and 100, requests for both at once, fairness | 77,680 | `RequestCloses`, `SweepCloses` |
| `master` | 4 signals of 2 analysts on one symbol, thresholds 1 and 2, calm and crisis, 4 ticks | 3.9 M | `NoOppositeApprovals`, `NoRepeatedApproval`, `ConsensusBacked` |
| `desk` | each of the eight parts of `Desk` in turn | 1.5 M | the invariants below |
| `terminal` | each of the six parts of `Terminal` in turn, fairness of the worker's tasks | 0.6 M | the properties below |
| `graph` | streaming, backfill and enrichment in turn, fairness of the ingester | 0.4 M | `AckedIsComplete`, `StreamedArrives`, `FeedSpec`; `CleanRunIsComplete`; `StaleOnlyIfConcurrent` |
| `monitor_half`, `master_kill`, `streaming_seed`, `terminal_refused`, `worker_close` | | | the findings of section 4 |

Each takes a few seconds to two minutes with two workers.

What the runs of the monitor show:

| Property | Says |
|---|---|
| `TrackedHasRemainder` | no order of partial sales, manual closes, hard stops, sweeps and restarts leaves a tracked position with nothing to sell, which every later close would skip |
| `FileIsMemory` | what a crash would erase is on file, unless the last write failed |
| `DroppedIsSold` | what leaves the file was ordered out in whole |
| `LedgerSpec` | the file implements the ledger, through crashes, restarts and failed writes |
| `SoldWithinHoldings` | live, no more is ordered for sale than was bought, but for what a crash erased |
| `OneOrderPerKey` | a key has one order, and one more for each fault at most |
| `RequestCloses` | a request in the manual-close file closes every position it selects, unless the process dies first |
| `SweepCloses` | a sweep closes every position it found, those of paused analysts too, unless the process dies first |

What `desk` shows:

| Property | Says |
|---|---|
| `KillStands` | after a kill, no clear that began before it ends in a file that says healthy, although neither program locks the file |
| `NoCommandLostByCrash` | a restart of the bot loses no update: Telegram sees the new offset only with the next call |
| `PausesAreKept` | commands on the pause file that do not meet add up, through either program |
| `SilencedWasEmitted` | an alert is dropped as a repeat only if that contract was emitted |
| `EmissionsAreSpaced` | replays after every reconnect and live messages together never emit a contract twice within the delay |
| `MarketSignalsAreSpaced` | no analyst that wakes by the clock emits a symbol, expiry and direction twice within the delay, in several cycles or in one |
| `TablesAgree` | win rate and pattern counters agree with the rows, through crashes between the statements, unless a position is recorded twice |
| `ReportedIsSaved` | what a report lists as changed was written, at the value its hard limit allows, crashes included |
| `RuleIsOrdered` | a derived rule leaves time between its bounds, for holds from none to beyond a day |
| `NoOrderHidden` | an order that one account made is answered although another account raises; hidden is only the order of an account whose own call raised |
| `VerdictsAgree` | two scans of a day with one count give one verdict, although each writes its count into the baseline |
| `RateIsKept` | no burst beyond a bucketful, whoever sleeps in the lock and however long the client was idle |
| `ServedIsFresh` | no cache file older than its time to live is served, after failures either |

What `terminal` shows:

| Property | Says |
|---|---|
| `CashIsHistory` | the broker's cash is what its fills moved, cut orders and queued orders included |
| `PortfolioAgrees` | the portfolio service has the same cash and holdings, unless something not held was sold |
| `FilledOnce` | no order is filled twice by request, tick and cancellation |
| `NoSignalLost` | who is told "duplicate" has a saved row, whatever fails between lookup, insert and mark |
| `ApprovedFits` | an approved trade, resized in the middle of the checks or not, respects every limit |
| `RepeatedWasForgotten` | an item is traded again only after a restart or a pruning forgot it |
| `NoSecondStop` | however a move of a stop fails, the shares are not under two, unless the broker refused to cancel the first |
| `OpenIsWatched` | every open position has its task, unless its own write to the hash failed |
| `OneOrderPerMessage` | retries over dying subprocesses buy once; each stray line read from a living one costs one order at most |
| `PricedCloses` | a position with an entry price is closed in the end, although quotes fail |

Why these bounds:

- *Positions.* All state of the monitor is per position except the agenda, the
  request lines and the sell queue. Two positions share the queue of one channel,
  and in `monitor_live` one contract, so that orders of one can be taken for orders
  of the other. Three contracts are the least with a partial sale and a
  remainder that differ; one contract is the least where the partial sale is all
  there is.
- *Faults.* One crash meets every step of every procedure; a second meets a state
  that differs from the first in what is on disk only. Where faults add up
  (`OneOrderPerKey`, `StreamedArrives`, the worker) there are two in some run.
- *Queues.* One message and one line wait at most: a drain takes all messages
  and a read all lines, so that more wait for nothing else. A line
  selects both positions (`Requests`), so that it may be cut short between them; in
  `monitor_paper` it selects the one that is sold in part.
- *Prices.* Each exit of `_close_position` is met without a hard stop, so that
  `monitor_paper` and `monitor_live` have one price (`Levels`); with the target of 100%
  in `monitor_live` the second position is closed by a strategy at any poll. The
  prices of `monitor_fair` reach the hard stop.
- *Master.* `s1` and `s2` are the same trade by one analyst, `s3` the opposite
  one and `s4` the agreeing one of another analyst: the least that has a repeat, a
  conflict, and a consensus. Windows of 1, 1 and 3 ticks of 4 can be met, met
  exactly, and passed. `s1` and `s2` have equal attributes, so permuting them
  (`MCSymmetry`) is sound for these state predicates.
- *Control files.* Three commands are the least where one is cut short or overtaken
  by the second and the third repairs it; two names give the pause file texts of
  three sizes, so that a shorter one can be written over a longer one.
- *Discord.* Two posts on one channel, a purchase each analyst takes and those it
  refuses, one outage, delays of 1 and 2 within 2 ticks: a repeat before, at and
  after its timer.
- *Learning, exit rules.* A loss, a breakeven and a gain; parameters on both sides of
  their clamps; holds of 0, 1, 7 and 900 minutes against limits of 2 and 390, up to
  four records where two suffice for a rule.
- *Market.* Data on both sides of every threshold. The screener's candidates name one
  symbol twice with one expiry and with two, one with earnings near, and more than it may
  emit.
- *Client.* Two callers, a bucket of two tokens, a token every two ticks, six ticks:
  a bucket that is emptied, refilled in part, and idle beyond its size.
- *Orders.* A purchase larger than the cash, a sale, and two limit orders that the
  two prices reach and leave; the cash of 9 suffices for some orders and not for all.
- *Intake.* Two requests with one key, texts without ticker, stop or target, positions
  tables below, at and beyond the limits on exposure and number.
- *Agents.* A seen set of two cut to one, so that two scans meet a forgotten key.
- *Worker.* A stock and an option trade of one ticker; what is dropped is a close
  request, and any trade without a session. One call, of login, order, quote or close, may
  have attempts that raise: one, two or all three, each by a death or a stray line.
- *Graph.* Batches of one force an order between the two streamed insights; an
  insight with two topics can be cut short between its edges. The backfill has a
  row of each table, two for the last, and one change. Two workers and two pairs of
  a kind with a limit of one give a best and a second pair.

**Fairness.** `monitor_fair` assumes that the monitor's task keeps running
(`WF(MonitorStep)`: `run` loops for ever and catches what a poll raises) and that a
sale that was submitted is answered (`WF(SellAnswered)`: paper orders answer at
once, and the broker's client raises in the end). Nothing is assumed of the quotes,
the operator, the market, the buyer or the listener, and both properties hold whether
quotes are numbers or not (`QuoteIsPrice`; the run takes the numbers that the Protocol
promises only so that every exit is reached beside them). No run claims that a hard stop
or a sell message closes its position: section 6 says why. What is lost with the
process is excepted by the properties.
`graph` assumes that the ingester's loop runs, that the warehouse runs its task,
and that the operator starts the process again; faults are finite by their bound,
and nothing is assumed of the backfill and the enrichment. `terminal` assumes that
the event loop serves each position's task (`WF(Monitor(p))`) and no more: not that
quotes succeed, nor that messages come. There is no liveness property of `Master`: held
signals are never heard of again, by design.

Deadlock is checked except in `desk`, `terminal` and the runs of `Worker`, whose
instances stop when their bounded supply of messages, requests and faults is used up.
In `graph`, `FetchNothing` stands for an idle poll.

## 4. Findings

Each is a run that violates a promise quoted from the repository.

1. **The second half is never sold** (`monitor_half`, `rh_gateway.py:282`). Two sales
   of equal quantity of one position share an idempotency key; the second is answered
   from the cache and the position is dropped. `DroppedIsSold` holds where the two
   quantities differ, as they do with the default of 70% of three. The run takes quotes as
   the monitor's Protocol promises them; with those the gateway answers today the
   monitor reaches no partial sale (`monitor_quotes`).
2. **An approval passes an active kill switch** (`master_kill`,
   `master_analyst.py:183`). It is read once, before two awaits, and by nobody after
   the approval.
3. **A restart does not repair the backfill of insights** (`streaming_seed`,
   `streaming.py:396`). It takes every insight with a node for done, edges or not.
4. **A refused order stays submitted** (`terminal_refused`,
   `execution_service.py:94`). An answer without a price is converted outside of the
   `try`.
5. **A request to close closes nothing** (`worker_close`,
   `robinhood_execution_service.py:157`). It has a ticker, is taken for a trade of
   confidence zero and is dropped at the gate.

Further counterexamples, with a configuration each and no run (`tlc -config X.cfg M`
shows them):

| Configuration | Property | Against | What happens |
|---|---|---|---|
| `monitor_quotes` (MCMonitor) | `HardStopCloses` | `monitor_agent.py:50`, `:80` | the deployed `get_quote` returns an `OptionContract`; the monitor subtracts from it (`monitor_agent.py:236`), and the exception is swallowed for every position of every poll |
| `streaming_property` (MCKnowledgeGraph) | `PropertiesAreLinked` | `streaming.py:229` | an insight that arrives before the property it names is acknowledged without that edge |
| `backfill_duplicates` (MCKnowledgeGraph) | `NoDuplicateBrokers` | `graph_writer.py:4-5` | a broker's row that gains an email is merged by another key and makes a second node |
| `terminal_cash` (MCTerminal) | `ApprovedIsAffordable` | `risk_service.py:385` | the gate compares with the configured cash, not with what the broker has left |
| `terminal_stop` (MCTerminal) | `StopIsShown` | `risk_service.py:83` | without the table of halts the activation fails silently and answers as if it were active |
| `worker_sold` (MCWorker) | `ClosedIsSold` | `robinhood_mcp.py:353` | a live close looks at stock positions only: an option position is forgotten and kept |
| `worker_hold` (MCWorker) | `WatchedCloses` | `robinhood_execution_service.py:265` | a position opened without an entry price is watched for ever: the longest hold is checked after the price |

Properties of parts of `Desk` that fail when they are checked alone, and are kept
beside those that hold: `ClosedOnSale` (the monitor's first-sell rule takes any message
in the sell queue), `OneOrderPerLogin` (two live accounts share the login of the
environment), `TaFileIsCurrent` (no file is written by a cycle that ends early),
`AlertsAreSpikes` (an alert is raised below the thresholds its docstring names) and
`WinnersAreRaised` (a limit above its bound is clamped down by a raise).

## 5. The proofs

For every value of the constants that the named assumptions allow, TLAPS proves
every invariant that a run of section 3 checks, both refinements, and the action
properties. The modules are `GatewayProofs`, `MonitorProofs`, `MasterProofs`,
`StreamingProofs`, `GraphProofs` (of `KnowledgeGraph`, with `Backfill` and
`Enrichment`), `DeskProofs` and `TerminalProofs`, each beside the module it is about. `InductionFacts` holds what
they share: the library's induction theorems take a predicate as a parameter, which
the provers cannot instantiate, so that induction is stated there about sets (a set
that holds 0 and every successor is all of `Nat`), and from it that a walk over a
sequence, a function defined by recursion on its place, exists and is the only one
with its steps.

The parts of `Desk` and of `Terminal` take turns. Each invariant is about the
variables of one part: the steps of that part preserve it, and a lemma each
shows that the others leave those variables alone.

| Theorem | Argument |
|---|---|
| `GatewayTypeCorrect` | inductive as it stands |
| `KeysPlaceOneOrder` | `KeyInv`: the key of a call that has passed its lookup, and a key that the cache does not know and no call is about to write, has at most as many orders as there were faults: the next order of it makes one more at most, and each fault pays for one |
| Monitor `TypeCorrect` | from the gateway's lemmas about single actions, which `Monitor` shares |
| `DurableHolds` | the inductive invariant `Durable`: file and memory agree while the process lives and the last write did not fail; after one that failed, both still hold opened positions with a remainder (`Holding`), and the file is behind by additions, drops and first partial sales only (`FileInv`); the agenda and the buy in flight name what they may, and the sale in flight fits the record it was taken from |
| `FileIsMemoryHolds`, `RemainderHolds` | conjuncts and consequences of `Durable` |
| `LedgerImplemented` | refinement: under `Durable` only `AddPosition` and `RecordClose` move the file, and such a write opens, sells in part or closes each position that it changes, whatever writes before it failed (`WriteMoves`); crashes and restarts stutter |
| Streaming `TypeCorrect`, `AckedIsCompleteHolds` | `Delivery`: what the upsert in hand has yet to wire is all that its insight lacks, and what has landed or is marked is complete |
| `FeedImplemented` | every step offers, lands, acknowledges or stutters |
| `PartsRunAlone`, `GraphDelivers` | each step of the composition is one of one program, and the others stutter |
| `CleanRuns` | `BackfillInv`: what a run without mishap has read is in the graph, in hand, or still to come. The statements of a row behind the first match only nodes that the first has merged, a null occurs only in a last one, and no statement removes anything, so that a statement fails by chance or because its row cannot land |
| `PruningLasts` | `GoingThen`: a run older than one that has pruned was going when that one pruned. A stamp is drawn above all earlier ones, so a new run is older than none; what a run merges bears its own stamp |
| Master `TypeCorrect` | inductive as it stands |
| `ConflictsRejected` | `ConflictInv`: every approval is covered by what `_recently_approved` says of its symbol, or out of the window; a signal past the conflict gate has no opposite approval in the window |
| `DuplicatesDropped` | `DedupInv`: the key of every approval, and of the signal in process, is kept in `_seen` until its window has passed |
| `MonitorKeysPlaceOneOrder` | `KeyInv` again, for the monitor's steps and those of its environment |
| `LiveSellsWithinHoldings` | for `~Paper`. `LiveInv`: the contracts of a position that were ordered for sale are in one of three accounts, what the memory has noted (the file, while the process is down), what the close in flight has placed, and what a crash erased (`risk`); and a close in flight asks for no more than the memory leaves |
| `PaperSellsWhatItDrops` | for `Paper`, positions that differ in contract (`DistinctContracts`) and no partial sale of exactly half (`NoHalves`, without which finding 1 refutes it). `PaperInv`: an answer from the cache stands for a sale of that quantity that was made, and as the two sales of a position differ in quantity, what is noted as sold has a sale each |
| `ApprovalsAreBacked` | `BackersInv`: the held signals of a key are of different analysts and agree in symbol and side, stand behind no approval yet, and the signal that Claude is asked about takes such a set with it; `OnceInv`: a signal waits, is in process or is settled, in one of them only, so that none is held twice |
| `KillHolds`, `PausesHold`, `CommandsSurvive` | `KillInv`: a file with a standing kill stays longer than the text of a clear that began earlier, so that what is written over it is not JSON and blocks. `PausesInv`: of undisturbed commands one at most is on the file, and writes what was decreed. `PollInv`: a command that was neither answered nor dropped is in the batch, or past both offsets |
| `SilenceIsEarned`, `EmissionsStaySpaced`, `MarketStaysSpaced` | `Remembered`, `Hushed`: an emission is a delay old, or its key has an entry whose timer ends a delay after it |
| `ReportsAreTrue` | the first `applied` of the changes to be made are saved, each within its hard limit, and a report comes when that is all of them |
| `CountersAgree` | `TxInv`: an open transaction has the rows with its own, and the counters as they are or with its one count more, so that a commit moves both and a rollback none; rows differ in their identifiers, so that growing old loses none (`RowsInv`). What the win rate adds up over pattern types is proved of `SumFunction`, by induction over subsets |
| `RulesAreOrdered` | a rank of a list of holds is one of the holds; the rest is arithmetic of the clamps, with the default where a list is empty or the bounds cross |
| `OrdersShow`, `ScansAgree` | an order that an account has placed is in the answers, or in the results of a call that still runs, or that account's own call raised; while the baseline is saved, the days before today are those on file, and a verdict reads no others |
| `OrdersFillOnce` | an order in the broker's queue is one whose request has ended, with nothing filled, and is there once; a request before its fill has nothing filled either; a tick visits each place of the queue once |
| `CashFollowsFills`, `AccountingsAgree` | `GoodBooks`: induction over the history of fills. The cash after a history and the portfolio after a history are walks, and one more fill is one more step of each, which moves both alike while nothing is sold short |
| `DuplicatesHaveRows`, `ApprovalsFit` | a key is in Redis only where a row of it is saved; the limits hold for the quantity that the last check leaves, since a check that reduces it comes before those that only compare |
| `OneOrderEach`, `PositionsAreWatched`, `StopsAreSingle` | what a call buys is counted whatever dies or is misread between its tries (`SoundCall`): a retry after a death meets a subprocess without a session, and one after a stray line is counted with the line. A position that has begun was popped from the list, where a message is once; one whose own write failed is among the `orphans`. The stops of a ticker are at most the stops that were ordered and the cancellations that were refused (`StopGains` of every tool) |
| `RepeatsWereForgotten` | `AgentsInv`: what was traded of a key, and what of it the scan holds, is at most how often the key was forgotten, and one more where it is known |
| `RateHolds` | `Accounted`: what was granted from any request on, and what the bucket still holds, came in one bucketful and the time since. A refill adds at most the time that has passed and a grant takes one token's worth, whoever slept in between |
| `FreshnessHolds` | no cache file is from the future, so its age is a number when it is compared with the time to live |

Why strengthening is needed: `NoOppositeApprovals` speaks of pairs of approvals
while the code keeps one per symbol and evicts it; that the last one is enough is
the content of `Covered`. The same holds of `Kept` for repeats. `FileIsMemory` says
nothing of a file whose last write failed, while a crash makes memory of it and the
next write must still be a step of the ledger; that is what `FileInv` adds. `StaleOnlyIfConcurrent` speaks of
stored predictions only, while a run stores long after another has pruned.

Assumptions beyond the types of the constants are stated with the theorem that needs
them (`~Paper`; `Paper`, `DistinctContracts`, `NoHalves`). The finiteness of `Patterns`
is one of `LearningAssumption`: a sum over all pattern types means nothing without it. `BackfillConstants` says that
what a row may say is a row of its table, and that its markets and classes are lists.

Only model-checked: the liveness properties (`RequestCloses`,
`SweepCloses`, `StreamedArrives`, `PricedCloses`), which are out of the prover's
reach together with `ENABLED`. The properties of `violation` runs are refuted, not
proved.

## 6. Hazards that no property covers, and other observations

Of the desk's core: `bulk_mark_backfilled` inserts rows of its own, so the poll still
reads the waiting rows it was meant to skip; rows that fail every time hold the first
places of every batch; a request appended between read and clear of the manual-close
file is lost; a paused analyst's positions have no hard stop; the `get_quote` of the
deployed gateway answers an `OptionContract`, on which the monitor's arithmetic raises
(`monitor_agent.py:236`), so that no hard stop and no strategy is ever reached, and a
paper quote would be constant besides; of two `FIRST_SELL` positions on one channel the
first that is polled empties the queue and the other is not sold (`monitor_agent.py:298`,
`:514-528`); a failed write of `open_positions.json` is only logged, so that a crash before
the next write forgets a new position or brings back a sold one; the confidence threshold
of the VIX filter is derived from the signal it filters; a restart of the master forgets
its windows; the idempotency key is written after the
submission (`rh_gateway.py:251`), so that "prevent duplicate fills on retry"
(`schemas.py:302`) fails exactly when the reply was lost, and `OneOrderPerKey` is what
holds; `add_position` is called by the tests only, and `run_all_analysts.py`
builds the gateway without Redis.

Of the Discord side: the deduplication key of some analysts has the strike where the
expiry would be expected; the configured confidence threshold is not checked by
`_process` of those that override it; messages under the kill switch are lost; a replay
after more than the delay emits again; two analysts accept any author; placeholder
channels are subscribed; the sell queues of `run_discord_gateway.py` are never read.

Of the files: the dashboard takes a missing kill file for healthy; a crash between the
truncation and the write of `paused_analysts.json` lifts every pause; a handler that
raises loses the rest of its batch of updates.

Of trade memory: `record_close` has no caller; a close whose signal is unknown counts
for `_UNKNOWN`; a repeated position counts twice; a second evaluation of a day moves the
parameters again, and one that dies leaves parameters changed without a report; a report
names a change as proposed, where the file has it clamped to its hard limit
(`eod_evaluator.py:427`, `:175`); an analyst with breakevens only has win rate zero.

Of the accounts: an account that raises after its broker took the order hides that order
(`multi_account_gateway.py:117`), and a known key is answered `None` in live mode
(`rh_gateway.py:189`), as if nothing had been bought.

Of the terminal: a sale after a purchase of one symbol is refused as a duplicate; two
concurrent ingestions of one key both pass; several approvals together exceed limits that
each respects; an approval after a rejection overwrites it; a restart of the worker
loses the tasks and the message that was popped; an error in band is recorded as an open
position; a failed write of an opened position to Redis leaves it without a task, and on
no list if Redis refuses the rejected message too (`robinhood_execution_service.py:230`,
`:168`); a live order is repeated in the same session when a line that is no JSON is read
in place of its answer, and every later call then reads the answer of the one before
(`robinhood_mcp_client.py:68`, `:81`); a failing move of a stop leaves none, and one
whose cancellation is refused leaves two (`robinhood_mcp.py:423-425`); a purchase without
an order id gets its stop all the same; the paper close does not credit the balance; signals beyond the slice are marked seen and never sent; `batch_close` counts
errors as closed.

Of the graph: service lines make no edge; fields set on create are never updated and old
edges never removed; a second pipeline drops the projection the first one reads, whose
stage then fails; predictions are pruned before the new ones are scored, so a run that
fails leaves none.

## 7. Not modelled

- Wording of messages, Greeks, Kelly sizing, earnings dates, backtesting: numeric or
  textual, without state a property could relate to anything else. What a parser
  extracts is a field of a message; the regular expressions themselves are not
  modelled.
- Market data clients, the MCP server's queries and ranking, the dashboard's WebSocket,
  the frontend, the tools that only read: input and output.
- The graph algorithms: they run inside Neo4j.
- `core/redis_client.py`: a heartbeat, and functions without a caller.
- The Alpaca adapter, its fill callback (`process_fill`) and `evaluate_order`: the
  application wires the paper broker, and none of them is called.
- Restarts of the master and the reload of `consensus_threshold`.
- Expiry of idempotency keys (24 hours) and the change of the trade date: a model
  covers one trading day.
- Partial fills by a live broker: a live sale is filled in whole or not at all.
- A line of the subprocess that is JSON and no answer, and a stray line that is printed
  between two calls: a stray line is what an attempt reads in place of its answer.
- What of a failed write of `open_positions.json` might be left on disk: the file is
  replaced as a whole or not at all (`atomic_write_json`).
- Updates of a streamed insight: ids are distinct.

## 8. Plan

Done: the modules of section 2 and the proofs of section 5. Next:

1. An abstract life cycle of the terminal's orders that `Orders` should implement,
   with the refinement proved.
2. `Master` with restarts: memory lost, 30 minutes of history replayed; what then
   remains of `NoRepeatedApproval`.
