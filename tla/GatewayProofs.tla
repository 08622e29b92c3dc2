---------------------------- MODULE GatewayProofs ----------------------------
(***************************************************************************)
(* Theorems about Gateway, for every set of positions, every assignment of *)
(* contracts and quantities, paper and live mode, with and without Redis.  *)
(*                                                                         *)
(* The lemmas are about single actions, because Monitor composes the same  *)
(* actions with its own and its proofs use them again.                     *)
(***************************************************************************)
EXTENDS Gateway, TLAPS

-----------------------------------------------------------------------------
\* A call in flight is for a position and for a positive number of contracts.
Sound(c) == c.st # "none" => c.pid \in Pids /\ c.qty \in 1..MaxQty

CallsTyped == calls \in [Actions -> Call] /\ \A a \in Actions : Sound(calls[a])

\* What GatewayTypeOK says of the calls in flight.
LEMMA TypeOKCalls == GatewayTypeOK => CallsTyped
BY DEF GatewayTypeOK, CallsTyped, Sound

\* Putting a sound call in the place of another keeps the calls typed.
LEMMA CallsUpdate ==
  ASSUME CallsTyped, NEW a \in Actions, NEW c \in Call, Sound(c),
         calls' = [calls EXCEPT ![a] = c]
  PROVE  CallsTyped'
<1>1. calls' \in [Actions -> Call]
  BY DEF CallsTyped
<1>2. ASSUME NEW b \in Actions
      PROVE  Sound(calls'[b])
  <2>1. CASE b = a
    BY <2>1 DEF CallsTyped
  <2>2. CASE b # a
    BY <2>2 DEF CallsTyped
  <2> QED  BY <2>1, <2>2
<1> QED  BY <1>1, <1>2 DEF CallsTyped, Sound

\* The idle call is a call, and claims nothing.
LEMMA NoCallType == NoCall \in Call /\ Sound(NoCall)
BY GatewayConstants DEF NoCall, Call, Sound

\* A call that goes on keeps its position and its quantity.
LEMMA CallAdvances ==
  ASSUME CallsTyped, NEW a \in Actions, calls[a].st # "none",
         NEW st \in {"accepted", "done"},
         NEW got \in {"order", "refused", "lost reply"},
         \/ calls' = [calls EXCEPT ![a].st = st]
         \/ calls' = [calls EXCEPT ![a].st = st, ![a].got = got]
  PROVE  CallsTyped'
<1>1. calls[a] \in Call /\ Sound(calls[a])
  BY DEF CallsTyped
<1>2. CASE calls' = [calls EXCEPT ![a].st = st]
  <2> DEFINE c == [calls[a] EXCEPT !.st = st]
  <2>1. c \in Call /\ Sound(c)
    BY <1>1 DEF Call, Sound
  <2>2. calls' = [calls EXCEPT ![a] = c]
    BY <1>2 DEF CallsTyped
  <2> QED  BY <2>1, <2>2, CallsUpdate
<1>3. CASE calls' = [calls EXCEPT ![a].st = st, ![a].got = got]
  <2> DEFINE c == [calls[a] EXCEPT !.st = st, !.got = got]
  <2>1. c \in Call /\ Sound(c)
    BY <1>1 DEF Call, Sound
  <2>2. calls' = [calls EXCEPT ![a] = c]
    BY <1>3 DEF CallsTyped
  <2> QED  BY <2>1, <2>2, CallsUpdate
<1> QED  BY <1>2, <1>3

\* An idempotency key is made of what a call that is in flight carries.
LEMMA KeyOfType ==
  ASSUME GatewayTypeOK, NEW a \in Actions, calls[a].st # "none"
  PROVE  KeyOf(a) \in Keys
BY GatewayConstants DEF GatewayTypeOK, KeyOf, OrderKey, Keys, Sizes

\* A gateway starts well typed.
LEMMA GatewayInitType == GatewayInit => GatewayTypeOK
<1> SUFFICES ASSUME GatewayInit PROVE GatewayTypeOK
  OBVIOUS
<1>1. CallsTyped
  BY NoCallType DEF GatewayInit, CallsTyped
<1> QED
  BY <1>1, GatewayConstants DEF GatewayInit, GatewayTypeOK, CallsTyped, Sound

\* A call for a position and a quantity in range leaves calls well typed.
LEMMA AskType ==
  ASSUME GatewayTypeOK, NEW a \in Actions, NEW p \in Pids,
         NEW q \in 1..MaxQty, NEW size \in 0..MaxQty,
         Ask(a, p, q, size), UNCHANGED gatewayRest
  PROVE  GatewayTypeOK'
<1> DEFINE seen == Known(OrderKey(a, p, q))
           c == [st   |-> IF seen THEN "done" ELSE "unseen",
                 pid  |-> p,
                 qty  |-> q,
                 size |-> size,
                 got  |-> IF seen THEN "cached" ELSE "nothing"]
<1>1. calls' = [calls EXCEPT ![a] = c]
  BY DEF Ask
<1>2. c \in Call /\ Sound(c)
  <2> HIDE DEF seen
  <2>1. q \in 0..MaxQty
    BY GatewayConstants
  <2> QED  BY <2>1 DEF Call, Sound
<1>3. CallsTyped'
  BY <1>1, <1>2, TypeOKCalls, CallsUpdate
<1> QED  BY <1>3 DEF GatewayTypeOK, CallsTyped, Sound, gatewayRest

\* So does the end of a call.
LEMMA ReturnType ==
  ASSUME GatewayTypeOK, NEW a \in Actions, Return(a), UNCHANGED gatewayRest
  PROVE  GatewayTypeOK'
<1>1. CallsTyped'
  BY TypeOKCalls, CallsUpdate, NoCallType DEF Return
<1> QED  BY <1>1 DEF GatewayTypeOK, CallsTyped, Sound, gatewayRest

\* The histories of an order that reaches the book or the broker keep their types.
LEMMA PlacedType ==
  ASSUME GatewayTypeOK, NEW a \in Actions, Placed(a)
  PROVE  /\ placed' \in [Keys -> Nat]
         /\ ordered' \in [Pids -> Nat]
         /\ filled' \in [Pids -> Nat]
<1> DEFINE c == calls[a]
<1>1. c.pid \in Pids /\ c.qty \in Nat
  BY GatewayConstants DEF Placed, GatewayTypeOK
<1>2. placed' \in [Keys -> Nat]
  BY KeyOfType DEF Placed, GatewayTypeOK
<1>3. ordered' \in [Pids -> Nat]
  BY <1>1 DEF Placed, GatewayTypeOK
<1>4. filled' \in [Pids -> Nat]
  BY <1>1 DEF Placed, GatewayTypeOK
<1> QED  BY <1>2, <1>3, <1>4

\* A paper fill records a quantity in range.
LEMMA BookAfterType ==
  ASSUME GatewayTypeOK, NEW a \in Actions, calls[a].st = "unseen"
  PROVE  BookAfter(a, calls[a]) \in [Pids -> 0..MaxQty]
<1>1. /\ calls[a].pid \in Pids
      /\ calls[a].qty \in 1..MaxQty
      /\ calls[a].size \in 0..MaxQty
  BY DEF GatewayTypeOK, Call
<1> QED  BY <1>1, GatewayConstants DEF BookAfter, GatewayTypeOK

\* The gateway's own steps keep its types.
LEMMA InternalType ==
  ASSUME GatewayTypeOK, Internal
  PROVE  GatewayTypeOK'
<1>1. ASSUME NEW a \in Actions, Accept(a)
      PROVE  GatewayTypeOK'
  <2>1. calls[a].st = "unseen" /\ Placed(a)
    BY <1>1 DEF Accept, Placed
  <2>2. book' \in [Pids -> 0..MaxQty]
    BY <1>1, <2>1, BookAfterType DEF Accept, GatewayTypeOK
  <2>3. CallsTyped'
    BY <1>1, <2>1, TypeOKCalls, CallAdvances DEF Accept
  <2> QED
    BY <1>1, <2>1, <2>2, <2>3, PlacedType
       DEF Accept, GatewayTypeOK, CallsTyped, Sound
<1>2. ASSUME NEW a \in Actions, Refuse(a)
      PROVE  GatewayTypeOK'
  <2>1. CallsTyped'
    BY <1>2, TypeOKCalls, CallAdvances DEF Refuse
  <2> QED  BY <1>2, <2>1 DEF Refuse, GatewayTypeOK, CallsTyped, Sound
<1>3. ASSUME NEW a \in Actions, LoseReply(a)
      PROVE  GatewayTypeOK'
  <2>1. calls[a].st = "unseen" /\ Placed(a)
    BY <1>3 DEF LoseReply, Placed
  <2>2. CallsTyped'
    BY <1>3, <2>1, TypeOKCalls, CallAdvances DEF LoseReply
  <2>3. /\ placed' \in [Keys -> Nat]
        /\ ordered' \in [Pids -> Nat]
        /\ filled' \in [Pids -> Nat]
    BY <2>1, PlacedType
  <2>4. faults' = faults + 1 /\ UNCHANGED <<book, local, redis, redisUp, price>>
    BY <1>3 DEF LoseReply
  <2>5. faults' \in Nat
    BY <2>4 DEF GatewayTypeOK
  <2> QED
    BY <2>2, <2>3, <2>4, <2>5 DEF GatewayTypeOK, CallsTyped, Sound
<1>4. ASSUME NEW a \in Actions, Remember(a)
      PROVE  GatewayTypeOK'
  <2>1. CallsTyped'
    BY <1>4, TypeOKCalls, CallAdvances DEF Remember
  <2>2. KeyOf(a) \in Keys
    BY <1>4, KeyOfType DEF Remember
  <2>3. local' \subseteq Keys /\ redis' \subseteq Keys
    BY <1>4, <2>2 DEF Remember, GatewayTypeOK
  <2> QED
    BY <1>4, <2>1, <2>3 DEF Remember, GatewayTypeOK, CallsTyped, Sound
<1>5. ASSUME NEW p \in Pids, PriceMoves(p)
      PROVE  GatewayTypeOK'
  BY <1>5 DEF PriceMoves, GatewayTypeOK
<1>6. ASSUME NEW p \in Pids, BrokerFills(p)
      PROVE  GatewayTypeOK'
  BY <1>6 DEF BrokerFills, GatewayTypeOK
<1>7. CASE RedisFails
  <2>1. faults' \in Nat
    BY <1>7 DEF RedisFails, GatewayTypeOK
  <2> QED  BY <1>7, <2>1 DEF RedisFails, GatewayTypeOK
<1>8. CASE RedisReturns
  BY <1>8 DEF RedisReturns, GatewayTypeOK
<1> QED
  BY <1>1, <1>2, <1>3, <1>4, <1>5, <1>6, <1>7, <1>8 DEF Internal

\* A crash keeps the types: what it clears was typed to start with.
LEMMA CrashType ==
  ASSUME GatewayTypeOK, Crash
  PROVE  GatewayTypeOK'
<1>1. CallsTyped'
  BY NoCallType DEF Crash, CallsTyped
<1> QED
  BY <1>1, GatewayConstants DEF Crash, GatewayTypeOK, CallsTyped, Sound

-----------------------------------------------------------------------------
\* The calls of the gateway on its own are calls of the right types.
LEMMA RequestType ==
  ASSUME GatewayTypeOK, NEW p \in Pids, NEW q \in Sizes, SellRequest(p, q),
         UNCHANGED gatewayRest
  PROVE  GatewayTypeOK'
<1> DEFINE size == IF Paper THEN book[p] ELSE Qty[p]
<1>1. size \in 0..MaxQty
  BY GatewayConstants DEF GatewayTypeOK
<1> QED  BY <1>1, AskType DEF SellRequest, Sizes, Actions

\* The state of the gateway keeps its types: no quantity of the paper book is
\* negative or above what was bought, and every call in flight is for a position.
THEOREM GatewayTypeCorrect == GatewaySpec => []GatewayTypeOK
<1>1. GatewayInit => GatewayTypeOK
  BY GatewayInitType
<1>2. GatewayTypeOK /\ [GatewayNext]_gatewayVars => GatewayTypeOK'
  <2> SUFFICES ASSUME GatewayTypeOK, [GatewayNext]_gatewayVars
               PROVE  GatewayTypeOK'
    OBVIOUS
  <2>1. CASE Internal
    BY <2>1, InternalType
  <2>2. CASE Crash
    BY <2>2, CrashType
  <2>3. ASSUME NEW p \in Pids, Ask("BUY", p, Qty[p], Qty[p]), UNCHANGED gatewayRest
        PROVE  GatewayTypeOK'
    <3>1. Qty[p] \in 1..MaxQty /\ Qty[p] \in 0..MaxQty
      BY GatewayConstants
    <3> QED  BY <2>3, <3>1, AskType DEF Actions
  <2>4. ASSUME NEW p \in Pids, NEW q \in Sizes, SellRequest(p, q), UNCHANGED gatewayRest
        PROVE  GatewayTypeOK'
    BY <2>4, RequestType
  <2>5. ASSUME NEW a \in Actions, Return(a), UNCHANGED gatewayRest
        PROVE  GatewayTypeOK'
    BY <2>5, ReturnType
  <2>6. CASE UNCHANGED gatewayVars
    BY <2>6 DEF gatewayVars, GatewayTypeOK
  <2> QED
    BY <2>1, <2>2, <2>3, <2>4, <2>5, <2>6 DEF GatewayNext, gatewayRest
<1> QED  BY <1>1, <1>2, PTL DEF GatewaySpec

-----------------------------------------------------------------------------
(***************************************************************************)
(* OneOrderPerKey is not inductive: it says nothing of a call that has     *)
(* passed the cache lookup, or of a key whose order is placed and which    *)
(* the cache does not know.  Each of these may cost one more order, and    *)
(* the invariant says that a fault has paid for it.                        *)
(***************************************************************************)
InFlight(k) == \E a \in Actions : calls[a].st = "accepted" /\ KeyOf(a) = k

\* A key the cache does not know, and no call is about to write, has fewer
\* orders than faults allow.
UnknownKeys == \A k \in Keys : ~Known(k) /\ ~InFlight(k) => placed[k] <= faults

\* So has the key of a call that has passed the lookup.
UnseenCalls == \A a \in Actions : calls[a].st = "unseen" => placed[KeyOf(a)] <= faults

KeyInv == OneOrderPerKey /\ UnknownKeys /\ UnseenCalls

\* A call that goes on keeps its key; the other call keeps all it has.
LEMMA KeysStay ==
  ASSUME CallsTyped, NEW a \in Actions, NEW st, NEW got,
         \/ calls' = [calls EXCEPT ![a].st = st]
         \/ calls' = [calls EXCEPT ![a].st = st, ![a].got = got]
  PROVE  /\ calls'[a].st = st
         /\ \A b \in Actions : b # a => calls'[b] = calls[b]
         /\ \A b \in Actions : KeyOf(b)' = KeyOf(b)
<1>0. calls[a] \in Call /\ calls \in [Actions -> Call]
  BY DEF CallsTyped
<1>1. /\ calls'[a].st = st
      /\ calls'[a].pid = calls[a].pid
      /\ calls'[a].qty = calls[a].qty
  <2>1. CASE calls' = [calls EXCEPT ![a].st = st]
    <3>1. calls'[a] = [calls[a] EXCEPT !.st = st]
      BY <1>0, <2>1
    <3> QED  BY <1>0, <3>1 DEF Call
  <2>2. CASE calls' = [calls EXCEPT ![a].st = st, ![a].got = got]
    <3>1. calls'[a] = [calls[a] EXCEPT !.st = st, !.got = got]
      BY <1>0, <2>2
    <3> QED  BY <1>0, <3>1 DEF Call
  <2> QED  BY <2>1, <2>2
<1>2. \A b \in Actions : b # a => calls'[b] = calls[b]
  BY DEF CallsTyped
<1>3. ASSUME NEW b \in Actions
      PROVE  calls'[b].pid = calls[b].pid /\ calls'[b].qty = calls[b].qty
  BY <1>1, <1>2
<1> QED  BY <1>1, <1>2, <1>3 DEF KeyOf, OrderKey

\* A buy and a sale never share a key.
LEMMA KeysDiffer ==
  ASSUME NEW a \in Actions, NEW b \in Actions, a # b
  PROVE  KeyOf(a) # KeyOf(b) /\ KeyOf(a)' # KeyOf(b)'
BY DEF KeyOf, OrderKey

\* No key has placed an order when the gateway starts.
LEMMA KeyInvInit == GatewayInit => KeyInv
BY DEF GatewayInit, KeyInv, OneOrderPerKey, UnknownKeys, UnseenCalls, NoCall, Actions

\* A call that starts takes its key from the cache's ignorance of it.
LEMMA AskKeys ==
  ASSUME GatewayTypeOK, KeyInv, NEW a \in Actions, NEW p \in Pids,
         NEW q \in 1..MaxQty, NEW size \in 0..MaxQty,
         Ask(a, p, q, size), UNCHANGED gatewayRest
  PROVE  KeyInv'
<1> DEFINE k == OrderKey(a, p, q)
<1>1. k \in Keys
  BY GatewayConstants DEF OrderKey, Keys, Sizes
<1>2. /\ calls[a].st = "none"
      /\ calls'[a].st \in {"done", "unseen"}
      /\ calls'[a].st = "unseen" => ~Known(k)
      /\ calls'[a].pid = p
      /\ calls'[a].qty = q
      /\ \A b \in Actions : b # a => calls'[b] = calls[b]
  BY DEF Ask, GatewayTypeOK
<1>3. KeyOf(a)' = k
  BY <1>2 DEF KeyOf, OrderKey
<1>4. \A b \in Actions : b # a => KeyOf(b)' = KeyOf(b)
  BY <1>2 DEF KeyOf, OrderKey
<1>5. \A l \in Keys : InFlight(l)' <=> InFlight(l)
  BY <1>2, <1>4 DEF InFlight
<1>6. \A l \in Keys : Known(l)' <=> Known(l)
  BY DEF Known, gatewayRest
<1>7. calls'[a].st = "unseen" => placed[k] <= faults
  <2> SUFFICES ASSUME calls'[a].st = "unseen" PROVE placed[k] <= faults
    OBVIOUS
  <2>1. ~InFlight(k)
    BY <1>2, KeysDiffer, <1>3, <1>4 DEF InFlight, KeyOf, OrderKey
  <2> QED  BY <1>1, <1>2, <2>1 DEF KeyInv, UnknownKeys
<1>8. OneOrderPerKey' /\ UnknownKeys'
  BY <1>5, <1>6 DEF KeyInv, OneOrderPerKey, UnknownKeys, gatewayRest
<1>9. UnseenCalls'
  BY <1>2, <1>3, <1>4, <1>7 DEF KeyInv, UnseenCalls, gatewayRest
<1> QED  BY <1>8, <1>9 DEF KeyInv

\* The end of a call touches neither keys nor orders.
LEMMA ReturnKeys ==
  ASSUME GatewayTypeOK, KeyInv, NEW a \in Actions, Return(a), UNCHANGED gatewayRest
  PROVE  KeyInv'
<1>1. /\ calls[a].st = "done"
      /\ calls'[a].st = "none"
      /\ \A b \in Actions : b # a => calls'[b] = calls[b]
  BY DEF Return, NoCall, GatewayTypeOK
<1>2. \A b \in Actions : b # a => KeyOf(b)' = KeyOf(b)
  BY <1>1 DEF KeyOf, OrderKey
<1>3. \A l \in Keys : InFlight(l)' <=> InFlight(l)
  BY <1>1, <1>2 DEF InFlight
<1>4. \A l \in Keys : Known(l)' <=> Known(l)
  BY DEF Known, gatewayRest
<1>5. OneOrderPerKey' /\ UnknownKeys'
  BY <1>3, <1>4 DEF KeyInv, OneOrderPerKey, UnknownKeys, gatewayRest
<1>6. UnseenCalls'
  BY <1>1, <1>2 DEF KeyInv, UnseenCalls, gatewayRest
<1> QED  BY <1>5, <1>6 DEF KeyInv

\* A crash may forget a key of the local cache; the fault it counts pays for
\* the duplicate order that may follow.
LEMMA CrashKeys ==
  ASSUME GatewayTypeOK, KeyInv, Crash
  PROVE  KeyInv'
<1>1. /\ placed' = placed
      /\ faults' = faults + 1
      /\ \A a \in Actions : calls'[a].st = "none"
  BY DEF Crash, NoCall
<1>2. placed \in [Keys -> Nat] /\ faults \in Nat
  BY DEF GatewayTypeOK
<1>3. \A k \in Keys : placed'[k] <= faults'
  BY <1>1, <1>2 DEF KeyInv, OneOrderPerKey
<1>4. OneOrderPerKey' /\ UnknownKeys'
  BY <1>1, <1>2, <1>3 DEF OneOrderPerKey, UnknownKeys
<1>5. UnseenCalls'
  BY <1>1 DEF UnseenCalls
<1> QED  BY <1>4, <1>5 DEF KeyInv

\* An order that is placed uses up the slack its key had.
LEMMA PlacedKeys ==
  ASSUME GatewayTypeOK, KeyInv, NEW a \in Actions, Placed(a)
  PROVE  /\ placed'[KeyOf(a)] <= faults + 1
         /\ \A l \in Keys : l # KeyOf(a) => placed'[l] = placed[l]
<1>1. KeyOf(a) \in Keys
  BY KeyOfType DEF Placed
<1>2. placed[KeyOf(a)] <= faults
  BY DEF Placed, KeyInv, UnseenCalls
<1>3. placed' = [placed EXCEPT ![KeyOf(a)] = @ + 1]
  BY DEF Placed
<1> QED  BY <1>1, <1>2, <1>3 DEF GatewayTypeOK

\* Internal moves of a call: its key is the key of no other call.
LEMMA AcceptKeys ==
  ASSUME GatewayTypeOK, KeyInv, NEW a \in Actions, Accept(a)
  PROVE  KeyInv'
<1> DEFINE k == KeyOf(a)
<1>1. /\ Placed(a)
      /\ calls' = [calls EXCEPT ![a].st = "accepted", ![a].got = "order"]
      /\ UNCHANGED <<local, redis, redisUp, faults>>
  BY DEF Accept
<1>2. /\ calls'[a].st = "accepted"
      /\ \A b \in Actions : b # a => calls'[b] = calls[b]
      /\ \A b \in Actions : KeyOf(b)' = KeyOf(b)
  BY <1>1, TypeOKCalls, KeysStay
<1>3. k \in Keys
  BY <1>1, KeyOfType DEF Placed
<1>4. placed'[k] <= faults + 1 /\ \A l \in Keys : l # k => placed'[l] = placed[l]
  BY <1>1, PlacedKeys
<1>5. InFlight(k)' /\ \A l \in Keys : InFlight(l) => InFlight(l)'
  BY <1>2 DEF InFlight
<1>6. \A l \in Keys : Known(l)' <=> Known(l)
  BY <1>1 DEF Known
<1>7. OneOrderPerKey'
  BY <1>1, <1>3, <1>4 DEF KeyInv, OneOrderPerKey, GatewayTypeOK
<1>8. UnknownKeys'
  BY <1>1, <1>2, <1>4, <1>5, <1>6 DEF KeyInv, UnknownKeys
<1>9. ASSUME NEW b \in Actions, calls'[b].st = "unseen"
      PROVE  placed'[KeyOf(b)'] <= faults'
  <2>1. b # a /\ calls[b].st = "unseen"
    BY <1>2, <1>9
  <2>2. KeyOf(b) # k /\ KeyOf(b) \in Keys
    BY <2>1, KeysDiffer, KeyOfType
  <2> QED  BY <1>1, <1>2, <1>4, <2>1, <2>2 DEF KeyInv, UnseenCalls
<1>10. UnseenCalls'
  BY <1>9 DEF UnseenCalls
<1> QED  BY <1>7, <1>8, <1>10 DEF KeyInv

\* A lost reply places an order without writing its key; the fault it counts
\* pays for the duplicate.
LEMMA LoseReplyKeys ==
  ASSUME GatewayTypeOK, KeyInv, NEW a \in Actions, LoseReply(a)
  PROVE  KeyInv'
<1> DEFINE k == KeyOf(a)
<1>1. /\ Placed(a)
      /\ calls' = [calls EXCEPT ![a].st = "done", ![a].got = "lost reply"]
      /\ faults' = faults + 1
  BY DEF LoseReply
<1>2. /\ calls'[a].st = "done"
      /\ \A b \in Actions : b # a => calls'[b] = calls[b]
      /\ \A b \in Actions : KeyOf(b)' = KeyOf(b)
  BY <1>1, TypeOKCalls, KeysStay
<1>3. placed'[k] <= faults + 1 /\ \A l \in Keys : l # k => placed'[l] = placed[l]
  BY <1>1, PlacedKeys
<1>4. faults' = faults + 1 /\ faults \in Nat
  BY DEF LoseReply, GatewayTypeOK
<1>5. \A l \in Keys : placed'[l] <= faults'
  <2> SUFFICES ASSUME NEW l \in Keys PROVE placed'[l] <= faults'
    OBVIOUS
  <2>1. placed[l] <= 1 + faults
    BY DEF KeyInv, OneOrderPerKey
  <2>2. CASE l = k
    BY <1>3, <1>4, <2>2
  <2>3. CASE l # k
    BY <1>3, <1>4, <2>1, <2>3
  <2> QED  BY <2>2, <2>3
<1>6. OneOrderPerKey' /\ UnknownKeys'
  <2>1. faults' \in Nat
    BY <1>4
  <2>2. placed' \in [Keys -> Nat]
    BY <1>1, PlacedType
  <2> QED  BY <1>5, <2>1, <2>2 DEF OneOrderPerKey, UnknownKeys
<1>7. ASSUME NEW b \in Actions, calls'[b].st = "unseen"
      PROVE  placed'[KeyOf(b)'] <= faults'
  <2>1. KeyOf(b) \in Keys
    BY <1>2, <1>7, KeyOfType
  <2> QED  BY <1>2, <1>5, <2>1
<1>8. UnseenCalls'
  BY <1>7 DEF UnseenCalls
<1> QED  BY <1>6, <1>8 DEF KeyInv

\* A call that ends without an order, or writes its key, frees no key.
LEMMA EndKeys ==
  ASSUME GatewayTypeOK, KeyInv, NEW a \in Actions, Refuse(a) \/ Remember(a)
  PROVE  KeyInv'
<1>1. /\ calls[a].st \in {"unseen", "accepted"}
      /\ calls[a].st = "accepted" => KeyOf(a) \in local'
      /\ calls'[a].st = "done"
      /\ \A b \in Actions : b # a => calls'[b] = calls[b]
      /\ \A b \in Actions : KeyOf(b)' = KeyOf(b)
      /\ UNCHANGED <<placed, faults>>
  BY TypeOKCalls, KeysStay DEF Refuse, Remember
<1>2. \A l \in Keys : Known(l) => Known(l)'
  BY DEF Refuse, Remember, Known
<1>3. \A l \in Keys : InFlight(l) => InFlight(l)' \/ Known(l)'
  <2> SUFFICES ASSUME NEW l \in Keys, NEW b \in Actions,
                      calls[b].st = "accepted", KeyOf(b) = l
               PROVE  InFlight(l)' \/ Known(l)'
    BY DEF InFlight
  <2>1. CASE b = a
    BY <1>1, <2>1 DEF Known
  <2>2. CASE b # a
    BY <1>1, <2>2 DEF InFlight
  <2> QED  BY <2>1, <2>2
<1>4. OneOrderPerKey' /\ UnknownKeys'
  BY <1>1, <1>2, <1>3 DEF KeyInv, OneOrderPerKey, UnknownKeys
<1>5. UnseenCalls'
  <2> SUFFICES ASSUME NEW b \in Actions, calls'[b].st = "unseen"
               PROVE  placed'[KeyOf(b)'] <= faults'
    BY DEF UnseenCalls
  <2>1. calls[b].st = "unseen"
    BY <1>1
  <2> QED  BY <1>1, <2>1 DEF KeyInv, UnseenCalls
<1> QED  BY <1>4, <1>5 DEF KeyInv

\* The gateway's own steps keep the invariant on the keys.
LEMMA InternalKeys ==
  ASSUME GatewayTypeOK, KeyInv, Internal
  PROVE  KeyInv'
<1>1. ASSUME NEW a \in Actions, Accept(a) \/ LoseReply(a) \/ Refuse(a) \/ Remember(a)
      PROVE  KeyInv'
  BY <1>1, AcceptKeys, LoseReplyKeys, EndKeys
<1>2. ASSUME NEW p \in Pids, PriceMoves(p) \/ BrokerFills(p)
      PROVE  KeyInv'
  BY <1>2 DEF PriceMoves, BrokerFills, KeyInv, OneOrderPerKey, UnknownKeys,
              UnseenCalls, InFlight, Known, KeyOf, OrderKey
<1>3. CASE RedisFails
  <2>1. placed' = placed /\ calls' = calls /\ faults' = faults + 1
    BY <1>3 DEF RedisFails
  <2>2. placed \in [Keys -> Nat] /\ faults \in Nat
    BY DEF GatewayTypeOK
  <2>3. \A l \in Keys : placed'[l] <= faults'
    BY <2>1, <2>2 DEF KeyInv, OneOrderPerKey
  <2>4. OneOrderPerKey' /\ UnknownKeys'
    BY <2>1, <2>2, <2>3 DEF OneOrderPerKey, UnknownKeys
  <2>5. UnseenCalls'
    <3> SUFFICES ASSUME NEW b \in Actions, calls'[b].st = "unseen"
                 PROVE  placed'[KeyOf(b)'] <= faults'
      BY DEF UnseenCalls
    <3>1. KeyOf(b)' = KeyOf(b) /\ KeyOf(b) \in Keys
      BY <2>1, KeyOfType DEF KeyOf, OrderKey
    <3> QED  BY <2>3, <3>1
  <2> QED  BY <2>4, <2>5 DEF KeyInv
<1>4. CASE RedisReturns
  BY <1>4 DEF RedisReturns, KeyInv, OneOrderPerKey, UnknownKeys, UnseenCalls,
              InFlight, Known, KeyOf, OrderKey
<1> QED  BY <1>1, <1>2, <1>3, <1>4 DEF Internal

\* However the gateway is called and whatever fails, an idempotency key places
\* at most one order more than there were faults: without a lost reply, a Redis
\* outage or a crash, repeating a call never duplicates its order.
THEOREM KeysPlaceOneOrder == GatewaySpec => []OneOrderPerKey
<1>1. GatewayInit => KeyInv
  BY KeyInvInit
<1>2. GatewayTypeOK /\ KeyInv /\ [GatewayNext]_gatewayVars => KeyInv'
  <2> SUFFICES ASSUME GatewayTypeOK, KeyInv, [GatewayNext]_gatewayVars
               PROVE  KeyInv'
    OBVIOUS
  <2>1. CASE Internal
    BY <2>1, InternalKeys
  <2>2. CASE Crash
    BY <2>2, CrashKeys
  <2>3. ASSUME NEW p \in Pids, Ask("BUY", p, Qty[p], Qty[p]), UNCHANGED gatewayRest
        PROVE  KeyInv'
    <3>1. Qty[p] \in 1..MaxQty /\ Qty[p] \in 0..MaxQty
      BY GatewayConstants
    <3> QED  BY <2>3, <3>1, AskKeys DEF Actions
  <2>4. ASSUME NEW p \in Pids, NEW q \in Sizes, SellRequest(p, q), UNCHANGED gatewayRest
        PROVE  KeyInv'
    <3>1. (IF Paper THEN book[p] ELSE Qty[p]) \in 0..MaxQty
      BY GatewayConstants DEF GatewayTypeOK
    <3> QED  BY <2>4, <3>1, AskKeys DEF SellRequest, Sizes, Actions
  <2>5. ASSUME NEW a \in Actions, Return(a), UNCHANGED gatewayRest
        PROVE  KeyInv'
    BY <2>5, ReturnKeys
  <2>6. CASE UNCHANGED gatewayVars
    BY <2>6 DEF gatewayVars, KeyInv, OneOrderPerKey, UnknownKeys, UnseenCalls,
                InFlight, Known, KeyOf, OrderKey
  <2> QED
    BY <2>1, <2>2, <2>3, <2>4, <2>5, <2>6 DEF GatewayNext, gatewayRest
<1> QED  BY <1>1, <1>2, GatewayTypeCorrect, PTL DEF GatewaySpec, KeyInv
=============================================================================
