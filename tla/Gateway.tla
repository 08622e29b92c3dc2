------------------------------ MODULE Gateway ------------------------------
(***************************************************************************)
(* The Robinhood execution gateway of gateway/rh_gateway.py: RHGateway in  *)
(* paper mode (orders simulated in memory) and in live mode (orders sent   *)
(* with robin_stocks from a worker thread), with the idempotency cache     *)
(* that both use (Redis when it answers, a local dictionary otherwise).    *)
(*                                                                         *)
(* A call is execute_signal ("BUY") or close_position ("SELL").  It is     *)
(* split where the coroutine awaits: the cache lookup, the submission, and *)
(* the write of the idempotency key after the submission.  One task buys   *)
(* and one task (the monitor) sells, so there is one call of each kind in  *)
(* flight at most.                                                         *)
(***************************************************************************)
EXTENDS Integers

CONSTANTS
  Pids,       \* position ids that may come to exist
  Contracts,  \* what make_client_order_id hashes besides action and quantity
  Contract,   \* the analyst, symbol, direction, strike and expiry of a position
  Qty,        \* contracts bought for a position
  MaxQty,     \* the largest quantity bought
  Paper,      \* RHGateway.paper_mode
  HasRedis,   \* was a redis_client passed to the gateway?
  Levels,     \* prices of an option, in percent of what the position paid
  MaxFaults   \* bound: faults (lost replies, Redis outages, crashes) in a run

ASSUME GatewayConstants ==
  /\ Contract \in [Pids -> Contracts]
  /\ MaxQty \in Nat
  /\ Qty \in [Pids -> 1..MaxQty]
  /\ Paper \in BOOLEAN
  /\ HasRedis \in BOOLEAN
  /\ Levels \subseteq Nat
  /\ 100 \in Levels
  /\ MaxFaults \in Nat

VARIABLES
  book,     \* _paper_positions: contracts recorded for a position, 0 if none
  local,    \* keys of _local_idempotency
  redis,    \* idempotency keys stored in Redis
  redisUp,  \* does Redis answer?
  calls,    \* the call of each kind in flight
  price,    \* the market price of each position's option
  placed,   \* history: orders accepted for each idempotency key
  ordered,  \* history: contracts in accepted sell orders of each position
  filled,   \* history: contracts of those orders the market has executed
  faults    \* history: faults so far

gatewayVars ==
  <<book, local, redis, redisUp, calls, price, placed, ordered, filled, faults>>

\* What a caller of the gateway leaves alone.
gatewayRest == <<book, local, redis, redisUp, price, placed, ordered, filled, faults>>

-----------------------------------------------------------------------------
Actions == {"BUY", "SELL"}
Sizes == 1..MaxQty
Keys == Actions \X Contracts \X Sizes

NoPid == "no position"

\* A call: where it is, for which position, how many contracts, the quantity
\* of the PositionRecord it was given, and how it ended.
Call == [st   : {"none", "unseen", "accepted", "done"},
         pid  : Pids \cup {NoPid},
         qty  : 0..MaxQty,
         size : 0..MaxQty,
         got  : {"nothing", "order", "cached", "refused", "lost reply"}]

NoCall == [st |-> "none", pid |-> NoPid, qty |-> 0, size |-> 0, got |-> "nothing"]

\* make_client_order_id: neither the position nor the account is part of it.
\* The trade date is, and the model covers one day.
OrderKey(a, p, q) == <<a, Contract[p], q>>
KeyOf(a) == OrderKey(a, calls[a].pid, calls[a].qty)

\* Mutant: _idempotency_get without the fallback to _local_idempotency.
KnownToRedisOnly(k) == redisUp /\ k \in redis

\* _idempotency_get: a Redis that fails, or has no entry, falls back to the
\* dictionary of this process.
Known(k) == (redisUp /\ k \in redis) \/ k \in local

GatewayInit ==
  /\ book = [p \in Pids |-> 0]
  /\ local = {}
  /\ redis = {}
  /\ redisUp = HasRedis
  /\ calls = [a \in Actions |-> NoCall]
  /\ price = [p \in Pids |-> 100]
  /\ placed = [k \in Keys |-> 0]
  /\ ordered = [p \in Pids |-> 0]
  /\ filled = [p \in Pids |-> 0]
  /\ faults = 0

-----------------------------------------------------------------------------
\* execute_signal and close_position up to the cache lookup.  A signal that a
\* guard of execute_signal turns away (no quote, spread, minimum ask, strike too
\* far out of the money) changes nothing and is not a step.
Ask(a, p, q, size) ==
  LET seen == Known(OrderKey(a, p, q))
  IN /\ calls[a].st = "none"
     /\ calls' = [calls EXCEPT ![a] =
                    [st   |-> IF seen THEN "done" ELSE "unseen",
                     pid  |-> p,
                     qty  |-> q,
                     size |-> size,
                     got  |-> IF seen THEN "cached" ELSE "nothing"]]

\* Mutant: a sale booked against the gateway's own record, which a restart loses.
BookOwnRecord(a, c) ==
  [book EXCEPT ![c.pid] = IF a = "BUY" THEN c.qty ELSE @ - c.qty]

\* What a paper fill leaves in _paper_positions.  A sale is booked against the
\* quantity of the record the caller passed, not against the gateway's own.
BookAfter(a, c) ==
  [book EXCEPT ![c.pid] =
     IF a = "BUY" THEN c.qty
     ELSE IF c.qty >= c.size THEN 0 ELSE c.size - c.qty]

\* The order reaches the simulated book or the broker.
Placed(a) ==
  LET c == calls[a]
  IN /\ c.st = "unseen"
     /\ placed' = [placed EXCEPT ![KeyOf(a)] = @ + 1]
     /\ ordered' = IF a = "SELL" THEN [ordered EXCEPT ![c.pid] = @ + c.qty]
                                 ELSE ordered
     /\ filled' = IF a = "SELL" /\ Paper THEN [filled EXCEPT ![c.pid] = @ + c.qty]
                                         ELSE filled

\* The submission succeeds; the idempotency key is not written yet.
Accept(a) ==
  /\ Placed(a)
  /\ book' = IF Paper THEN BookAfter(a, calls[a]) ELSE book
  /\ calls' = [calls EXCEPT ![a].st = "accepted", ![a].got = "order"]
  /\ UNCHANGED <<local, redis, redisUp, price, faults>>

\* Live only: robin_stocks raises and the broker has no order.
Refuse(a) ==
  /\ ~Paper
  /\ calls[a].st = "unseen"
  /\ calls' = [calls EXCEPT ![a].st = "done", ![a].got = "refused"]
  /\ UNCHANGED <<book, local, redis, redisUp, price, placed, ordered, filled, faults>>

\* Live only: the broker has the order, but the answer is lost and the call raises.
LoseReply(a) ==
  /\ ~Paper
  /\ faults < MaxFaults
  /\ Placed(a)
  /\ faults' = faults + 1
  /\ calls' = [calls EXCEPT ![a].st = "done", ![a].got = "lost reply"]
  /\ UNCHANGED <<book, local, redis, redisUp, price>>

\* _idempotency_set, after the submission has returned.
Remember(a) ==
  /\ calls[a].st = "accepted"
  /\ local' = local \cup {KeyOf(a)}
  /\ redis' = IF redisUp THEN redis \cup {KeyOf(a)} ELSE redis
  /\ calls' = [calls EXCEPT ![a].st = "done"]
  /\ UNCHANGED <<book, redisUp, price, placed, ordered, filled, faults>>

\* The await of the caller ends.
Return(a) ==
  /\ calls[a].st = "done"
  /\ calls' = [calls EXCEPT ![a] = NoCall]

-----------------------------------------------------------------------------
\* The market, the broker and Redis.

PriceMoves(p) ==
  /\ \E v \in Levels \ {price[p]} : price' = [price EXCEPT ![p] = v]
  /\ UNCHANGED <<book, local, redis, redisUp, calls, placed, ordered, filled, faults>>

\* A live closing order is a limit order at the average cost.
BrokerFills(p) ==
  /\ ~Paper
  /\ filled[p] < ordered[p]
  /\ price[p] >= 100
  /\ filled' = [filled EXCEPT ![p] = ordered[p]]
  /\ UNCHANGED <<book, local, redis, redisUp, calls, price, placed, ordered, faults>>

RedisFails ==
  /\ redisUp
  /\ faults < MaxFaults
  /\ redisUp' = FALSE
  /\ faults' = faults + 1
  /\ UNCHANGED <<book, local, redis, calls, price, placed, ordered, filled>>

RedisReturns ==
  /\ HasRedis
  /\ ~redisUp
  /\ redisUp' = TRUE
  /\ UNCHANGED <<book, local, redis, calls, price, placed, ordered, filled, faults>>

\* The process dies: the paper book, the local cache and the calls go with it.
Crash ==
  /\ faults < MaxFaults
  /\ faults' = faults + 1
  /\ book' = [p \in Pids |-> 0]
  /\ local' = {}
  /\ calls' = [a \in Actions |-> NoCall]
  /\ UNCHANGED <<redis, redisUp, price, placed, ordered, filled>>

Internal ==
  \/ \E a \in Actions : Accept(a) \/ Refuse(a) \/ LoseReply(a) \/ Remember(a)
  \/ \E p \in Pids : PriceMoves(p) \/ BrokerFills(p)
  \/ RedisFails
  \/ RedisReturns

-----------------------------------------------------------------------------
\* The gateway on its own, called in every way its callers could call it: one
\* buyer, one seller, who passes the gateway's own record in paper mode and the
\* record of the fill in live mode.  A call that failed may be made again.

SellRequest(p, q) ==
  LET size == IF Paper THEN book[p] ELSE Qty[p]
  IN /\ placed[OrderKey("BUY", p, Qty[p])] > 0
     /\ q <= size
     /\ Ask("SELL", p, q, size)

GatewayNext ==
  \/ Internal
  \/ Crash
  \/ /\ \/ \E p \in Pids : Ask("BUY", p, Qty[p], Qty[p])
        \/ \E p \in Pids, q \in Sizes : SellRequest(p, q)
        \/ \E a \in Actions : Return(a)
     /\ UNCHANGED gatewayRest

GatewaySpec == GatewayInit /\ [][GatewayNext]_gatewayVars

-----------------------------------------------------------------------------
GatewayTypeOK ==
  /\ book \in [Pids -> 0..MaxQty]
  /\ local \subseteq Keys
  /\ redis \subseteq Keys
  /\ redisUp \in BOOLEAN
  /\ calls \in [Actions -> Call]
  /\ price \in [Pids -> Levels]
  /\ placed \in [Keys -> Nat]
  /\ ordered \in [Pids -> Nat]
  /\ filled \in [Pids -> Nat]
  /\ faults \in Nat
  /\ \A a \in Actions : calls[a].st # "none" =>
       calls[a].pid \in Pids /\ calls[a].qty \in 1..MaxQty

\* Without faults an idempotency key places one order, however often the call
\* is repeated; each lost reply, outage or restart costs one duplicate at most
\* (make_client_order_id, _idempotency_get and _idempotency_set together).
OneOrderPerKey == \A k \in Keys : placed[k] <= 1 + faults

=============================================================================
