------------------------------ MODULE Monitor ------------------------------
(***************************************************************************)
(* gateway/monitor_agent.py: the MonitorAgent, which closes the positions  *)
(* that gateway/rh_gateway.py opened, composed with that gateway.          *)
(*                                                                         *)
(* The monitor is one asyncio task.  Its poll cycle is split where it      *)
(* awaits the gateway, and where it reads and clears the manual-close file *)
(* that the dashboard process appends to.  Between two of its steps the    *)
(* buyer's task, the Discord listener, the dashboard, Telegram, the market *)
(* and Redis may step, and the process may die.                            *)
(***************************************************************************)
EXTENDS Gateway, Sequences

CONSTANTS
  Strategy,    \* exit_rules.strategy of a position
  PctSold,     \* exit_rules.partial_sell_pct, in percent
  Target,      \* exit_rules.price_target_multiplier, in percent
  Channels,    \* Discord channels with a sell queue
  Channel,     \* exit_rules.source_channel_id of a position
  Analysts,    \* analysts that may be paused
  Analyst,     \* analyst_id of a position
  QuoteIsPrice, \* does get_quote answer the float that the Protocol RHGateway promises?
  Requests,    \* what a line of the manual-close file selects: sets of positions
  MaxSells,    \* bound: messages waiting in a sell queue
  MaxRequests  \* bound: lines waiting in the manual-close file

Strategies == {"FIRST_SELL", "PARTIAL_SELL_PCT", "OWNER_LAST_SELL",
               "PRICE_TARGET", "TA_RULES", "MANUAL"}

ASSUME MonitorConstants ==
  /\ Strategy \in [Pids -> Strategies]
  /\ PctSold \in [Pids -> 1..100]
  /\ Target \in [Pids -> Nat]
  /\ Channel \in [Pids -> Channels]
  /\ Analyst \in [Pids -> Analysts]
  /\ QuoteIsPrice \in BOOLEAN
  /\ Requests \subseteq SUBSET Pids
  /\ MaxSells \in Nat
  /\ MaxRequests \in Nat

VARIABLES
  pc,        \* where the monitor's task is
  resume,    \* stage and kind of close to go on with when the gateway answers
  agenda,    \* positions the current stage of the poll still has to visit
  lines,     \* lines read from the manual-close file
  snap,      \* the answer of gateway.get_positions for those lines
  tracked,   \* keys of _positions
  pqty,      \* partial_qty_sold in _partial_state, 0 for a position not tracked
  lastSell,  \* keys of _last_sell_time
  file,      \* open_positions.json
  unsaved,   \* history: did the last write of it fail?
  kept,      \* history: positions that were ever in it
  sellq,     \* messages waiting in the sell queue of each channel
  requests,  \* lines of manual_close_queue.jsonl
  paused,    \* paused_analysts.json
  opened,    \* history: positions handed to add_position
  risk       \* history: contracts sold of which a crash erased the record

monitorVars ==
  <<pc, resume, agenda, lines, snap, tracked, pqty, lastSell, file, unsaved, kept,
    opened, risk>>
worldVars == <<sellq, requests, paused>>
vars == <<gatewayVars, monitorVars, worldVars>>

-----------------------------------------------------------------------------
Stages == {"manual", "sweep", "check"}

\* round() of Python: to the nearest integer, a half to the even neighbour.
RoundPct(n, pct) ==
  LET whole == (n * pct) \div 100
      rest  == (n * pct) % 100
  IN IF rest > 50 \/ (rest = 50 /\ whole % 2 = 1) THEN whole + 1 ELSE whole

\* The quantity of the first partial sale.
PartialQty(p) ==
  LET r == RoundPct(Qty[p], PctSold[p])
  IN IF r < 1 THEN 1 ELSE r

\* Mutant: the remainder without the partial sale.
RemainingOfRecord(p) == Qty[p]

\* _remaining_qty of a tracked position.
Remaining(p) == Qty[p] - pqty[p]

HardStop(v) == v <= 50 \/ v >= 200

\* _persist_positions, called after every change of _positions or
\* _partial_state and before the next await. A write that fails is logged, and
\* the file stays as it was, or as an earlier write of the same step left it.
Memory == [pids |-> tracked, sold |-> pqty]

Persist(earlier) ==
  /\ unsaved' \in BOOLEAN
  /\ file' \in IF unsaved' THEN {file} \cup earlier ELSE {Memory'}
  /\ kept' = kept \cup file'.pids

NoResume == [stage |-> "check", partial |-> FALSE]

MonitorInit ==
  /\ pc = "sleep"
  /\ resume = NoResume
  /\ agenda = {}
  /\ lines = <<>>
  /\ snap = [p \in Pids |-> 0]
  /\ tracked = {}
  /\ pqty = [p \in Pids |-> 0]
  /\ lastSell = {}
  /\ file = [pids |-> {}, sold |-> [p \in Pids |-> 0]]
  /\ unsaved = FALSE
  /\ kept = {}
  /\ sellq = [c \in Channels |-> 0]
  /\ requests = <<>>
  /\ paused = {}
  /\ opened = {}
  /\ risk = [p \in Pids |-> 0]

Init == GatewayInit /\ MonitorInit

-----------------------------------------------------------------------------
\* The buyer's task: execute_signal, then add_position with the new record.

StartBuy(p) ==
  /\ pc # "down"
  /\ p \notin opened
  /\ Ask("BUY", p, Qty[p], Qty[p])
  /\ UNCHANGED <<gatewayRest, monitorVars, worldVars>>

\* Mutant: the new position is not written to open_positions.json.
AddUnpersisted ==
  LET c == calls["BUY"]
  IN /\ Return("BUY")
     /\ c.got = "order"
     /\ tracked' = tracked \cup {c.pid}
     /\ pqty' = [pqty EXCEPT ![c.pid] = 0]
     /\ opened' = opened \cup {c.pid}
     /\ UNCHANGED <<gatewayRest, pc, resume, agenda, lines, snap, lastSell, file,
                    unsaved, kept, risk, worldVars>>

\* add_position: "call this when a fill is confirmed".
AddPosition ==
  LET c == calls["BUY"]
  IN /\ Return("BUY")
     /\ c.got = "order"
     /\ tracked' = tracked \cup {c.pid}
     /\ pqty' = [pqty EXCEPT ![c.pid] = 0]
     /\ Persist({})
     /\ opened' = opened \cup {c.pid}
     /\ UNCHANGED <<gatewayRest, pc, resume, agenda, lines, snap, lastSell, risk, worldVars>>

\* A cached, refused or failed buy opens nothing.
BuyOpensNothing ==
  /\ Return("BUY")
  /\ calls["BUY"].got # "order"
  /\ UNCHANGED <<gatewayRest, monitorVars, worldVars>>

-----------------------------------------------------------------------------
\* The poll cycle.

\* _check_market_close runs before the strategies, whether it sweeps or not
\* depending on the clock; without positions the cycle ends.
EnterChecks ==
  IF tracked = {}
  THEN pc' = "sleep" /\ UNCHANGED agenda
  ELSE /\ pc' \in {"sweep", "check"}
       /\ agenda' = tracked

StartPoll ==
  /\ pc = "sleep"
  /\ requests = <<>>
  /\ tracked # {}
  /\ EnterChecks
  /\ UNCHANGED <<gatewayVars, resume, lines, snap, tracked, pqty, lastSell, file,
                 unsaved, kept, opened, risk, worldVars>>

\* _process_manual_close_queue reads the file ...
ReadRequests ==
  /\ pc = "sleep"
  /\ requests # <<>>
  /\ lines' = requests
  /\ pc' = "clear"
  /\ UNCHANGED <<gatewayVars, resume, agenda, snap, tracked, pqty, lastSell, file,
                 unsaved, kept, opened, risk, worldVars>>

\* ... then overwrites it with nothing and asks the gateway for its positions,
\* of which live mode returns none.
ClearRequests ==
  /\ pc = "clear"
  /\ requests' = <<>>
  /\ snap' = IF Paper THEN book ELSE [p \in Pids |-> 0]
  /\ pc' = "manual"
  /\ UNCHANGED <<gatewayVars, resume, agenda, lines, tracked, pqty, lastSell, file,
                 unsaved, kept, opened, risk, sellq, paused>>

\* _close_position up to the answer of the gateway: a quantity that is not
\* positive is skipped, and every other close asks the gateway to sell q
\* contracts of a record of the given size.
BeginClose(p, q, size, stage, partial) ==
  IF q <= 0
  THEN pc' = stage /\ UNCHANGED <<calls, resume>>
  ELSE /\ Ask("SELL", p, q, size)
       /\ pc' = "closing"
       /\ resume' = [stage |-> stage, partial |-> partial]

\* Mutant: a line closes the first position it selects.
ManualCloseFirst(p) ==
  /\ pc = "manual"
  /\ lines # <<>>
  /\ p \in Head(lines)
  /\ snap[p] > 0
  /\ lines' = Tail(lines)
  /\ BeginClose(p, snap[p], snap[p], "manual", FALSE)
  /\ UNCHANGED <<gatewayRest, agenda, snap, tracked, pqty, lastSell, file, unsaved,
                 kept, opened, risk, worldVars>>

\* A manual close sells the quantity of the gateway's record.
ManualClose(p) ==
  /\ pc = "manual"
  /\ lines # <<>>
  /\ p \in Head(lines)
  /\ snap[p] > 0
  /\ lines' = [lines EXCEPT ![1] = @ \ {p}]
  /\ BeginClose(p, snap[p], snap[p], "manual", FALSE)
  /\ UNCHANGED <<gatewayRest, agenda, snap, tracked, pqty, lastSell, file, unsaved,
                 kept, opened, risk, worldVars>>

ManualNextLine ==
  /\ pc = "manual"
  /\ lines # <<>>
  /\ \A p \in Head(lines) : snap[p] = 0
  /\ lines' = Tail(lines)
  /\ UNCHANGED <<gatewayVars, pc, resume, agenda, snap, tracked, pqty, lastSell, file,
                 unsaved, kept, opened, risk, worldVars>>

ManualDone ==
  /\ pc = "manual"
  /\ lines = <<>>
  /\ EnterChecks
  /\ snap' = [p \in Pids |-> 0]
  /\ UNCHANGED <<gatewayVars, resume, lines, tracked, pqty, lastSell, file, unsaved,
                 kept, opened, risk, worldVars>>

\* Mutant: the sweep passes over the positions of a paused analyst.
SweepCloseUnlessPaused(p) ==
  /\ pc = "sweep"
  /\ p \in agenda
  /\ agenda' = agenda \ {p}
  /\ IF Analyst[p] \in paused
     THEN UNCHANGED <<calls, pc, resume>>
     ELSE BeginClose(p, Remaining(p), Qty[p], "sweep", FALSE)
  /\ UNCHANGED <<gatewayRest, lines, snap, tracked, pqty, lastSell, file, unsaved, kept,
                 opened, risk, worldVars>>

\* _check_market_close: every position, paused or not.
SweepClose(p) ==
  /\ pc = "sweep"
  /\ p \in agenda
  /\ agenda' = agenda \ {p}
  /\ BeginClose(p, Remaining(p), Qty[p], "sweep", FALSE)
  /\ UNCHANGED <<gatewayRest, lines, snap, tracked, pqty, lastSell, file, unsaved, kept,
                 opened, risk, worldVars>>

SweepDone ==
  /\ pc = "sweep"
  /\ agenda = {}
  /\ pc' = "check"
  /\ agenda' = tracked
  /\ UNCHANGED <<gatewayVars, resume, lines, snap, tracked, pqty, lastSell, file,
                 unsaved, kept, opened, risk, worldVars>>

CheckDone ==
  /\ pc = "check"
  /\ agenda = {}
  /\ pc' = "sleep"
  /\ UNCHANGED <<gatewayVars, resume, agenda, lines, snap, tracked, pqty, lastSell,
                 file, unsaved, kept, opened, risk, worldVars>>

-----------------------------------------------------------------------------
\* _check_position.  The positions of a paused analyst are passed over before
\* the price is looked at.  So is a position without a quote, which only live
\* mode has (paper mode makes a price up within 5% of the cost), and one whose
\* quote is an OptionContract, as that of gateway/rh_gateway.py is: arithmetic
\* on it raises, and _poll_positions logs the exception and goes on.

Visit(p) ==
  /\ pc = "check"
  /\ p \in agenda
  /\ agenda' = agenda \ {p}

Skip(p) ==
  /\ Visit(p)
  /\ Analyst[p] \in paused \/ ~Paper \/ ~QuoteIsPrice
  /\ UNCHANGED <<gatewayVars, pc, resume, lines, snap, tracked, pqty, lastSell, file,
                 unsaved, kept, opened, risk, worldVars>>

Quotes(p) == IF Paper THEN {price[p], 100} ELSE {price[p]}

CheckHardStop(p) ==
  /\ Visit(p)
  /\ Analyst[p] \notin paused
  /\ QuoteIsPrice
  /\ \E v \in Quotes(p) : HardStop(v)
  /\ BeginClose(p, Remaining(p), Qty[p], "check", FALSE)
  /\ UNCHANGED <<gatewayRest, lines, snap, tracked, pqty, lastSell, file, unsaved, kept,
                 opened, risk, worldVars>>

\* The strategies, reached when no hard stop applies at the quoted price.
Consult(p, strategy) ==
  /\ Visit(p)
  /\ Analyst[p] \notin paused
  /\ QuoteIsPrice
  /\ Strategy[p] = strategy
  /\ \E v \in Quotes(p) : ~HardStop(v)

\* _drain_sell_queue empties the queue of the channel, for this position only.
Drain(p) ==
  /\ sellq[Channel[p]] > 0
  /\ sellq' = [sellq EXCEPT ![Channel[p]] = 0]

CheckFirstSell(p) ==
  /\ Consult(p, "FIRST_SELL")
  /\ Drain(p)
  /\ BeginClose(p, Remaining(p), Qty[p], "check", FALSE)
  /\ UNCHANGED <<gatewayRest, lines, snap, tracked, pqty, lastSell, file, unsaved, kept,
                 opened, risk, requests, paused>>

CheckPartialSell(p) ==
  /\ Consult(p, "PARTIAL_SELL_PCT")
  /\ Drain(p)
  /\ IF pqty[p] = 0
     THEN BeginClose(p, PartialQty(p), Qty[p], "check", TRUE)
     ELSE BeginClose(p, Remaining(p), Qty[p], "check", FALSE)
  /\ UNCHANGED <<gatewayRest, lines, snap, tracked, pqty, lastSell, file, unsaved, kept,
                 opened, risk, requests, paused>>

\* OWNER_LAST_SELL: a sell message starts the silence, ...
CheckLastSellHeard(p) ==
  /\ Consult(p, "OWNER_LAST_SELL")
  /\ Drain(p)
  /\ lastSell' = lastSell \cup {p}
  /\ UNCHANGED <<gatewayVars, pc, resume, lines, snap, tracked, pqty, file, unsaved,
                 kept, opened, risk, requests, paused>>

\* ... and owner_silence_seconds without another one close the position.
CheckLastSellSilent(p) ==
  /\ Consult(p, "OWNER_LAST_SELL")
  /\ sellq[Channel[p]] = 0
  /\ p \in lastSell
  /\ BeginClose(p, Remaining(p), Qty[p], "check", FALSE)
  /\ UNCHANGED <<gatewayRest, lines, snap, tracked, pqty, lastSell, file, unsaved, kept,
                 opened, risk, worldVars>>

CheckPriceTarget(p) ==
  /\ Consult(p, "PRICE_TARGET")
  /\ \E v \in Quotes(p) : ~HardStop(v) /\ v >= Target[p]
  /\ BeginClose(p, Remaining(p), Qty[p], "check", FALSE)
  /\ UNCHANGED <<gatewayRest, lines, snap, tracked, pqty, lastSell, file, unsaved, kept,
                 opened, risk, worldVars>>

\* ta_signal.json says SELL or REVERSAL, or the opposite direction.
CheckTechnicals(p) ==
  /\ Consult(p, "TA_RULES")
  /\ BeginClose(p, Remaining(p), Qty[p], "check", FALSE)
  /\ UNCHANGED <<gatewayRest, lines, snap, tracked, pqty, lastSell, file, unsaved, kept,
                 opened, risk, worldVars>>

\* No reason to close: nothing in the queue, no silence yet, target not
\* reached, technicals agree, or the strategy is MANUAL.
CheckHolds(p) ==
  /\ Consult(p, Strategy[p])
  /\ Strategy[p] \in {"FIRST_SELL", "PARTIAL_SELL_PCT", "OWNER_LAST_SELL"} =>
       sellq[Channel[p]] = 0
  /\ Strategy[p] = "PRICE_TARGET" =>
       \E v \in Quotes(p) : ~HardStop(v) /\ v < Target[p]
  /\ UNCHANGED <<gatewayVars, pc, resume, lines, snap, tracked, pqty, lastSell, file,
                 unsaved, kept, opened, risk, worldVars>>

-----------------------------------------------------------------------------
\* _close_position after a full close: the position is popped from _positions
\* and everything kept for it goes with it.
Untrack(p) ==
  /\ tracked' = tracked \ {p}
  /\ lastSell' = lastSell \ {p}
  /\ pqty' = [pqty EXCEPT ![p] = 0]

\* The answer of the gateway takes the task back to where it was called from.
Answered ==
  /\ pc = "closing"
  /\ Return("SELL")
  /\ pc' = resume.stage
  /\ resume' = NoResume
  /\ UNCHANGED <<gatewayRest, agenda, lines, snap, opened, risk, worldVars>>

\* Mutant: what earlier sales left is not taken into account, and every sale
\* adds to the quantity sold.
RecordAgainstWhole ==
  LET c == calls["SELL"]
      p == c.pid
  IN /\ Answered
     /\ IF c.qty >= c.size
        THEN Untrack(p)
        ELSE /\ pqty' = [pqty EXCEPT ![p] = @ + c.qty]
             /\ UNCHANGED <<tracked, lastSell>>
     /\ Persist({})

\* Mutant: the partial sale is noted before the remainder is computed.
RecordPartialFirst ==
  LET c == calls["SELL"]
      p == c.pid
      remaining == c.size - (IF resume.partial THEN c.qty ELSE pqty[p])
  IN /\ Answered
     /\ IF c.qty >= remaining
        THEN Untrack(p)
        ELSE /\ pqty' = IF resume.partial THEN [pqty EXCEPT ![p] = c.qty] ELSE pqty
             /\ UNCHANGED <<tracked, lastSell>>
     /\ Persist({})

\* The rest of _close_position, and of the partial-sell handler that called it:
\* the answer of the gateway only words the Telegram message.  A close of all
\* that remains ends the tracking; a first partial sale is written once before it
\* is noted and once after.
RecordClose ==
  LET c == calls["SELL"]
      p == c.pid
      remaining == c.size - pqty[p]
  IN /\ Answered
     /\ IF c.qty >= remaining
        THEN Untrack(p)
        ELSE /\ pqty' = IF resume.partial THEN [pqty EXCEPT ![p] = c.qty] ELSE pqty
             /\ UNCHANGED <<tracked, lastSell>>
     /\ Persist(IF resume.partial /\ c.qty < remaining THEN {Memory} ELSE {})

-----------------------------------------------------------------------------
\* What the monitor has written off of a position, and open_positions.json has not.
WrittenOff(p) == IF p \in opened \ tracked THEN Qty[p] ELSE pqty[p]
Unfiled(p) == IF p \in file.pids THEN WrittenOff(p) - file.sold[p] ELSE 0

\* The contracts of a close that the market has and the monitor is not told yet.
Unrecorded(p) ==
  LET c == calls["SELL"]
  IN IF c.pid = p /\ c.got \in {"order", "lost reply"} THEN c.qty ELSE 0

\* A crash loses all that is not in a file or in Redis.  A sale the market has
\* and open_positions.json does not is remembered in risk.
Die ==
  /\ pc # "down"
  /\ Crash
  /\ pc' = "down"
  /\ risk' = [p \in Pids |-> risk[p] + Unfiled(p) + Unrecorded(p)]
  /\ resume' = NoResume
  /\ agenda' = {}
  /\ lines' = <<>>
  /\ snap' = [p \in Pids |-> 0]
  /\ tracked' = {}
  /\ pqty' = [p \in Pids |-> 0]
  /\ lastSell' = {}
  /\ sellq' = [c \in Channels |-> 0]
  /\ UNCHANGED <<file, unsaved, kept, opened, requests, paused>>

\* Mutant: the first partial sales are not read back.
RestartForgetsParts ==
  /\ pc = "down"
  /\ pc' = "sleep"
  /\ tracked' = file.pids
  /\ pqty' = [p \in Pids |-> 0]
  /\ unsaved' = FALSE
  /\ UNCHANGED <<gatewayVars, resume, agenda, lines, snap, lastSell, file, kept,
                 opened, risk, worldVars>>

\* run: _load_positions.
Restart ==
  /\ pc = "down"
  /\ pc' = "sleep"
  /\ tracked' = file.pids
  /\ pqty' = file.sold
  /\ unsaved' = FALSE
  /\ UNCHANGED <<gatewayVars, resume, agenda, lines, snap, lastSell, file, kept,
                 opened, risk, worldVars>>

\* The other tasks and processes.
SellMessage(c) ==
  /\ pc # "down"
  /\ sellq[c] < MaxSells
  /\ sellq' = [sellq EXCEPT ![c] = @ + 1]
  /\ UNCHANGED <<gatewayVars, monitorVars, requests, paused>>

RequestClose(r) ==
  /\ Len(requests) < MaxRequests
  /\ requests' = Append(requests, r)
  /\ UNCHANGED <<gatewayVars, monitorVars, sellq, paused>>

TogglePause(a) ==
  /\ paused' = IF a \in paused THEN paused \ {a} ELSE paused \cup {a}
  /\ UNCHANGED <<gatewayVars, monitorVars, sellq, requests>>

GatewayStep == Internal /\ UNCHANGED <<monitorVars, worldVars>>

-----------------------------------------------------------------------------
Check(p) ==
  \/ Skip(p)
  \/ CheckHardStop(p)
  \/ CheckFirstSell(p)
  \/ CheckPartialSell(p)
  \/ CheckLastSellHeard(p)
  \/ CheckLastSellSilent(p)
  \/ CheckPriceTarget(p)
  \/ CheckTechnicals(p)
  \/ CheckHolds(p)

MonitorStep ==
  \/ StartPoll
  \/ ReadRequests
  \/ ClearRequests
  \/ \E p \in Pids : ManualClose(p)
  \/ ManualNextLine
  \/ ManualDone
  \/ \E p \in Pids : SweepClose(p)
  \/ SweepDone
  \/ CheckDone
  \/ \E p \in Pids : Check(p)
  \/ RecordClose

BuyerStep ==
  \/ \E p \in Pids : StartBuy(p)
  \/ AddPosition
  \/ BuyOpensNothing

World ==
  \/ \E c \in Channels : SellMessage(c)
  \/ \E r \in Requests : RequestClose(r)
  \/ \E a \in Analysts : TogglePause(a)
  \/ Die
  \/ Restart

Next == GatewayStep \/ MonitorStep \/ BuyerStep \/ World

Spec == Init /\ [][Next]_vars

\* The event loop runs the monitor as long as the process lives, and a close
\* that was submitted is answered.  Nothing is assumed of quotes.
SellAnswered ==
  /\ Accept("SELL") \/ Refuse("SELL") \/ Remember("SELL")
  /\ UNCHANGED <<monitorVars, worldVars>>

FairSpec ==
  /\ Spec
  /\ WF_vars(MonitorStep)
  /\ WF_vars(SellAnswered)

-----------------------------------------------------------------------------
MonitorTypeOK ==
  /\ pc \in Stages \cup {"sleep", "clear", "closing", "down"}
  /\ resume \in [stage : Stages, partial : BOOLEAN]
  /\ agenda \subseteq Pids
  /\ lines \in Seq(SUBSET Pids)
  /\ snap \in [Pids -> 0..MaxQty]
  /\ tracked \subseteq Pids
  /\ pqty \in [Pids -> 0..MaxQty]
  /\ lastSell \subseteq Pids
  /\ file \in [pids : SUBSET Pids, sold : [Pids -> 0..MaxQty]]
  /\ unsaved \in BOOLEAN
  /\ kept \subseteq Pids
  /\ sellq \in [Channels -> Nat]
  /\ requests \in Seq(SUBSET Pids)
  /\ paused \subseteq Analysts
  /\ opened \subseteq Pids
  /\ risk \in [Pids -> Int]

TypeOK == GatewayTypeOK /\ MonitorTypeOK

\* A tracked position has contracts left.  One without could never be closed:
\* _close_position skips a quantity that is not positive, so every later poll,
\* sweep and hard stop would pass over it and it would be reloaded for ever.
TrackedHasRemainder == \A p \in tracked : pqty[p] < Qty[p]

\* Whenever the process may die, open_positions.json says what the monitor
\* would lose, unless the last write of it failed: no change of _positions or
\* _partial_state is left unwritten across an await, and a write that succeeds
\* makes up for those that failed before it.
FileIsMemory == pc # "down" /\ ~unsaved => file = Memory

\* The monitor never has more contracts of a position ordered for sale than
\* were bought, except those of which a crash erased the record: orders that
\* were not answered, and what the last write failed to file.  (Live mode: the
\* gateway hands no record of its own to a manual close.)
SoldWithinHoldings == \A p \in Pids : ordered[p] <= Qty[p] + risk[p]

\* A position that leaves open_positions.json has been ordered out in full:
\* tracking does not end with contracts left in the account.
DroppedIsSold == \A p \in kept \ file.pids : ordered[p] >= Qty[p]

\* A position that a request in the manual-close file selects is closed, with
\* every other one that it selects, while the gateway knows it and unless the
\* process dies first; a request that is appended while the file is cleared
\* is lost (_process_manual_close_queue).
RequestCloses == \A p \in Pids :
  (/\ pc = "sleep"
   /\ p \in tracked /\ book[p] > 0
   /\ \E i \in 1..Len(requests) : p \in requests[i])
  ~> p \notin tracked

\* "Close all positions for analysts that require market close exit": a sweep that
\* began closes every position it found, those of a paused analyst too, whatever is
\* sold meanwhile, unless the process dies first (_check_market_close).
SweepCloses == \A p \in Pids : (pc = "sweep" /\ p \in agenda) ~> p \notin tracked

\* "Hard stops (non-negotiable, all strategies)": a position whose option stays
\* beyond a hard stop is closed, unless the process dies or its analyst is
\* paused first.
HardStopCloses == \A p \in Pids :
  (p \in tracked /\ HardStop(price[p]))
  ~> (p \notin tracked \/ ~HardStop(price[p]) \/ Analyst[p] \in paused)

-----------------------------------------------------------------------------
\* What open_positions.json promises across restarts and failed writes is
\* PositionLedger, with its own history to tell a closed position from one that
\* was never in it.
LedgerStatus ==
  [p \in Pids |-> IF p \in file.pids THEN "open"
                  ELSE IF p \in kept THEN "closed" ELSE "new"]

LedgerSold ==
  [p \in Pids |-> IF p \in kept \ file.pids THEN Qty[p] ELSE file.sold[p]]

Ledger == INSTANCE PositionLedger WITH status <- LedgerStatus, sold <- LedgerSold

\* Positions are opened once, sold in part once at most, and closed for good,
\* whatever crashes and restarts come between.
LedgerSpec == Ledger!Spec
=============================================================================
