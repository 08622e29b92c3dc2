------------------------------ MODULE DeskProofs ------------------------------
(* Theorems about the parts of the desk around its core, for every instance: its
   clients and analysts, what it learns, and what the operator holds in his hands
   (the files of the kill switch and the pauses, the Telegram bot, the fan-out over
   the accounts). A part's invariant is proved of its own steps; the steps of the
   others leave its variables alone. *)
EXTENDS Desk, InductionFacts, FiniteSetTheorems

-----------------------------------------------------------------------------
(* The client of Unusual Whales. *)

LEMMA MinOfTwo ==
  ASSUME NEW a \in Int, NEW b \in Int
  PROVE  Min({a, b}) \in {a, b} /\ Min({a, b}) <= a /\ Min({a, b}) <= b
BY DEF Min

LEMMA MaxOfTwo ==
  ASSUME NEW a \in Int, NEW b \in Int
  PROVE  Max({a, b}) \in {a, b} /\ Max({a, b}) >= a /\ Max({a, b}) >= b
BY DEF Max

\* Times are numbers and no file of the cache is from the future.
UwTyped ==
  /\ uwTime \in Nat
  /\ served \in Nat
  /\ request \in [Callers -> [state : {"idle", "waiting", "asleep", "sent"},
                              endpoint : Endpoints \cup {"none"}, until : Int]]
  /\ \A c \in Callers : request[c].state = "sent" => request[c].endpoint \in Endpoints
  /\ \A c \in Callers : request[c].state \in {"waiting", "asleep"} => request[c].endpoint \in Endpoints
  /\ cache \in [Endpoints -> Int]
  /\ \A e \in Endpoints : cache[e] <= uwTime

LEMMA AppendFacts ==
  ASSUME NEW S, NEW s \in Seq(S), NEW x \in S
  PROVE  /\ Append(s, x) \in Seq(S)
         /\ Len(s) \in Nat /\ Len(Append(s, x)) = Len(s) + 1
         /\ DOMAIN s = 1..Len(s) /\ DOMAIN Append(s, x) = 1..(Len(s) + 1)
         /\ \A i \in 1..Len(s) : Append(s, x)[i] = s[i] /\ s[i] \in S
         /\ Append(s, x)[Len(s) + 1] = x
OBVIOUS

\* What k tokens cost, and what a full bucket holds.
Cost == [k \in Int |-> k * TokenTime]
Full == Cost[Capacity]

\* The bucket accounts for every request: what was granted from the i-th on, and
\* what is left, came in one full bucket and in the time since.
Accounted ==
  /\ tokens \in 0..Full
  /\ lastRefill \in Nat /\ lastRefill <= uwTime
  /\ granted \in Seq(Nat)
  /\ \A i \in DOMAIN granted :
       /\ granted[i] <= lastRefill
       /\ Cost[Len(granted) - i + 1] + tokens <= Full + (lastRefill - granted[i])

UwInv == UwTyped /\ Accounted /\ RateIsKept /\ ServedIsFresh

LEMMA UwNumbers ==
  /\ TokenTime \in Nat /\ TokenTime > 0 /\ Capacity \in Nat /\ CacheTtl \in Nat
  /\ Full \in Nat
  /\ Cost[1] = TokenTime
BY UwAssumption DEF Cost, Full

LEMMA FullIs == Full = Capacity * TokenTime
BY UwAssumption DEF Cost, Full

LEMMA CostStep ==
  ASSUME NEW k \in Int
  PROVE  Cost[k] \in Int /\ Cost[k + 1] = Cost[k] + TokenTime
BY UwNumbers DEF Cost

LEMMA RateByCost ==
  ASSUME NEW g, DOMAIN g \subseteq Int
  PROVE  (\A i, j \in DOMAIN g :
            i <= j => (j - i + 1) * TokenTime <= Capacity * TokenTime + (g[j] - g[i]))
         <=> (\A i, j \in DOMAIN g : i <= j => Cost[j - i + 1] <= Full + (g[j] - g[i]))
<1>1. ASSUME NEW i \in DOMAIN g, NEW j \in DOMAIN g
      PROVE  (j - i + 1) * TokenTime = Cost[j - i + 1]
  BY DEF Cost
<1> QED
  BY <1>1, FullIs

LEMMA UwStart == UwInit => UwInv
<1> SUFFICES ASSUME UwInit PROVE UwInv
  OBVIOUS
<1> USE UwNumbers DEF UwInit
<1>1. UwTyped
  BY DEF UwTyped, IdleCall
<1>2. Accounted
  <2>1. tokens = Full
    BY FullIs
  <2> QED
    BY <2>1 DEF Accounted
<1>3. RateIsKept /\ ServedIsFresh
  BY DEF RateIsKept, ServedIsFresh
<1> QED
  BY <1>1, <1>2, <1>3 DEF UwInv

\* What is there after a refill is at most a bucketful, and at most what came in.
LEMMA RefillBounds ==
  ASSUME UwTyped, Accounted
  PROVE  Refilled \in 0..Full /\ Refilled <= tokens + (uwTime - lastRefill)
<1>1. /\ uwTime \in Int /\ tokens \in Int /\ lastRefill \in Int /\ Full \in Int
      /\ 0 <= tokens /\ lastRefill <= uwTime /\ 0 <= Full
  BY UwNumbers DEF UwTyped, Accounted
<1> DEFINE sum == tokens + (uwTime - lastRefill)
<1>2. Refilled = Min({Full, sum})
  BY FullIs DEF Refilled
<1>3. sum \in Int /\ 0 <= sum
  BY <1>1
<1> HIDE DEF sum
<1>4. Refilled \in {Full, sum} /\ Refilled <= Full /\ Refilled <= sum
  BY <1>1, <1>2, <1>3, MinOfTwo
<1>5. Refilled \in 0..Full
  BY <1>1, <1>3, <1>4
<1> QED
  BY <1>4, <1>5 DEF sum

\* The account of a request: one token is paid for each, from a bucket that holds
\* no more than Full.
LEMMA Granting ==
  ASSUME UwTyped, Accounted, RateIsKept,
         Refilled >= TokenTime,
         tokens' = Refilled - TokenTime, lastRefill' = uwTime, uwTime' = uwTime,
         granted' = Append(granted, uwTime)
  PROVE  Accounted' /\ RateIsKept'
<1> USE UwNumbers
<1>1. /\ uwTime \in Nat /\ tokens \in Int /\ lastRefill \in Nat /\ lastRefill <= uwTime
      /\ Refilled \in Int /\ Refilled <= Full /\ Refilled <= tokens + (uwTime - lastRefill)
      /\ tokens' \in 0..Full
      /\ granted \in Seq(Nat)
  <2>1. Refilled \in 0..Full /\ Refilled <= tokens + (uwTime - lastRefill)
    BY RefillBounds
  <2>2. /\ uwTime \in Nat /\ tokens \in 0..Full /\ lastRefill \in Nat /\ lastRefill <= uwTime
        /\ granted \in Seq(Nat)
    BY DEF UwTyped, Accounted
  <2> QED
    BY <2>1, <2>2
<1>2. /\ Len(granted) \in Nat /\ Len(granted') = Len(granted) + 1
      /\ granted' \in Seq(Nat)
      /\ DOMAIN granted = 1..Len(granted) /\ DOMAIN granted' = 1..(Len(granted) + 1)
      /\ \A i \in 1..Len(granted) : granted'[i] = granted[i] /\ granted[i] \in Nat
      /\ granted'[Len(granted) + 1] = uwTime
  BY <1>1, AppendFacts
<1>3. ASSUME NEW i \in DOMAIN granted'
      PROVE  /\ granted'[i] <= uwTime
             /\ Cost[Len(granted') - i + 1] + tokens' <= Full + (uwTime - granted'[i])
  <2>1. CASE i \in 1..Len(granted)
    <3> DEFINE n == Len(granted) - i + 1
    <3>1. n \in Int /\ Len(granted') - i + 1 = n + 1
      BY <1>2, <2>1
    <3>2. /\ granted[i] <= lastRefill
          /\ Cost[n] + tokens <= Full + (lastRefill - granted[i])
      BY <1>2, <2>1 DEF Accounted
    <3>3. granted'[i] = granted[i] /\ granted[i] \in Nat
      BY <1>2, <2>1
    <3> HIDE DEF n
    <3>4. Cost[n + 1] = Cost[n] + TokenTime /\ Cost[n] \in Int
      BY <3>1, CostStep
    <3>5. Cost[Len(granted') - i + 1] = Cost[n] + TokenTime
      BY <3>1, <3>4
    <3> DEFINE cost == Cost[n]
               then == granted[i]
    <3>6. /\ cost \in Int /\ cost + tokens <= Full + (lastRefill - then)
          /\ then \in Nat /\ then <= lastRefill
      BY <3>2, <3>3, <3>4
    <3>7. Cost[Len(granted') - i + 1] + tokens' = cost + Refilled
      <4>1. Cost[Len(granted') - i + 1] = cost + TokenTime
        BY <3>5
      <4> HIDE DEF cost
      <4> QED
        BY <1>1, <3>6, <4>1
    <3>8. then <= uwTime /\ cost + Refilled <= Full + (uwTime - then)
      <4> HIDE DEF cost, then
      <4> QED
        BY <1>1, <3>6
    <3> QED
      BY <3>3, <3>7, <3>8
  <2>2. CASE i = Len(granted) + 1
    <3>1. Len(granted') - i + 1 = 1 /\ granted'[i] = uwTime
      BY <1>2, <2>2
    <3> QED
      BY <1>1, <3>1
  <2> QED
    BY <1>2, <2>1, <2>2
<1>4. Accounted'
  BY <1>1, <1>2, <1>3 DEF Accounted
<1>5. ASSUME NEW i \in DOMAIN granted', NEW j \in DOMAIN granted', i <= j
      PROVE  Cost[j - i + 1] <= Full + (granted'[j] - granted'[i])
  <2>1. CASE j \in 1..Len(granted)
    <3>1. \A k, l \in DOMAIN granted :
             k <= l => Cost[l - k + 1] <= Full + (granted[l] - granted[k])
      <4>1. DOMAIN granted \subseteq Int
        BY <1>2
      <4> QED
        BY <4>1, RateByCost DEF RateIsKept
    <3>2. i \in DOMAIN granted /\ j \in DOMAIN granted
      BY <1>2, <1>5, <2>1
    <3>3. Cost[j - i + 1] <= Full + (granted[j] - granted[i])
      BY <1>5, <3>1, <3>2
    <3>4. granted'[i] = granted[i] /\ granted'[j] = granted[j]
      BY <1>2, <3>2
    <3> QED
      BY <3>3, <3>4
  <2>2. CASE j = Len(granted) + 1
    <3>1. Len(granted') - i + 1 = j - i + 1 /\ granted'[j] = uwTime /\ granted'[i] \in Nat
          /\ j - i + 1 \in Int
      BY <1>2, <2>2
    <3> DEFINE cost == Cost[j - i + 1]
               then == granted'[i]
               left == tokens'
    <3>2. cost + left <= Full + (uwTime - then)
      BY <1>3, <3>1
    <3>3. cost \in Int /\ then \in Nat /\ left \in 0..Full
      BY <1>1, <3>1, CostStep
    <3>4. cost <= Full + (uwTime - then)
      <4> HIDE DEF cost, then, left
      <4> QED
        BY <1>1, <3>2, <3>3
    <3> QED
      BY <3>1, <3>4
  <2> QED
    BY <1>2, <2>1, <2>2
<1>6. RateIsKept'
  <2>1. DOMAIN granted' \subseteq Int
    BY <1>2
  <2> QED
    BY <1>5, <2>1, RateByCost DEF RateIsKept
<1> QED
  BY <1>4, <1>6

\* Waiting for a token, or for anything else, keeps the account.
LEMMA Waiting ==
  ASSUME UwTyped, Accounted, RateIsKept, uwTime' \in Nat, uwTime <= uwTime',
         granted' = granted,
         \/ tokens' = tokens /\ lastRefill' = lastRefill
         \/ tokens' = Refilled /\ lastRefill' = uwTime /\ uwTime' = uwTime
  PROVE  Accounted' /\ RateIsKept'
<1> USE UwNumbers
<1>1. RateIsKept'
  BY DEF RateIsKept
<1>2. CASE tokens' = tokens /\ lastRefill' = lastRefill
  BY <1>1, <1>2 DEF UwTyped, Accounted
<1>3. CASE tokens' = Refilled /\ lastRefill' = uwTime /\ uwTime' = uwTime
  <2>1. /\ uwTime \in Nat /\ tokens \in Int /\ lastRefill \in Nat /\ lastRefill <= uwTime
        /\ Refilled \in 0..Full /\ Refilled <= tokens + (uwTime - lastRefill)
        /\ granted \in Seq(Nat)
    <3>1. Refilled \in 0..Full /\ Refilled <= tokens + (uwTime - lastRefill)
      BY RefillBounds
    <3>2. /\ uwTime \in Nat /\ tokens \in 0..Full /\ lastRefill \in Nat /\ lastRefill <= uwTime
          /\ granted \in Seq(Nat)
      BY DEF UwTyped, Accounted
    <3> QED
      BY <3>1, <3>2
  <2>2. ASSUME NEW i \in DOMAIN granted
        PROVE  /\ granted[i] <= uwTime
               /\ Cost[Len(granted) - i + 1] + Refilled <= Full + (uwTime - granted[i])
    <3>1. /\ granted[i] <= lastRefill /\ granted[i] \in Nat
          /\ Cost[Len(granted) - i + 1] + tokens <= Full + (lastRefill - granted[i])
      BY <2>1 DEF Accounted
    <3> DEFINE cost == Cost[Len(granted) - i + 1]
               then == granted[i]
    <3>2. Len(granted) - i + 1 \in Int
      BY <2>1
    <3>3. /\ cost \in Int /\ cost + tokens <= Full + (lastRefill - then)
          /\ then \in Nat /\ then <= lastRefill
      BY <3>1, <3>2, CostStep
    <3>4. then <= uwTime /\ cost + Refilled <= Full + (uwTime - then)
      <4> HIDE DEF cost, then
      <4> QED
        BY <2>1, <3>3
    <3> QED
      BY <3>4
  <2> QED
    BY <1>1, <1>3, <2>1, <2>2 DEF Accounted
<1> QED
  BY <1>2, <1>3

\* What a step does to the callers' requests keeps them typed.
LEMMA RequestTyped ==
  ASSUME UwTyped, NEW c \in Callers, NEW state \in {"idle", "waiting", "asleep", "sent"},
         NEW endpoint, NEW until \in Int,
         endpoint \in Endpoints \/ (state = "idle" /\ endpoint = "none"),
         request' = [request EXCEPT ![c] = [state |-> state, endpoint |-> endpoint, until |-> until]],
         UNCHANGED <<cache, served, uwTime>>
  PROVE  UwTyped'
BY DEF UwTyped

LEMMA AcquireKeeps ==
  ASSUME UwInv, NEW c \in Callers, AcquireToken(c)
  PROVE  UwInv'
<1> USE DEF UwInv
<1>1. /\ UNCHANGED <<cache, served, uwTime>>
      /\ uwTime \in Nat /\ Refilled \in Int
      /\ request[c].state \in {"waiting", "asleep"} /\ request[c].endpoint \in Endpoints
      /\ request[c].until \in Int
  BY UwNumbers, RefillBounds DEF AcquireToken, UwTyped
<1>2. ServedIsFresh'
  BY <1>1 DEF ServedIsFresh
<1>3. request[c] = [state |-> request[c].state, endpoint |-> request[c].endpoint, until |-> request[c].until]
  BY DEF UwTyped
<1>4. CASE Refilled >= TokenTime
  <2>1. request' = [request EXCEPT ![c] = [state |-> "sent", endpoint |-> request[c].endpoint,
                                           until |-> request[c].until]]
    BY <1>3, <1>4 DEF AcquireToken
  <2>2. UwTyped'
    BY <1>1, <2>1, RequestTyped
  <2>3. Accounted' /\ RateIsKept'
    BY <1>1, <1>4, Granting DEF AcquireToken
  <2> QED
    BY <1>2, <2>2, <2>3
<1>5. CASE ~(Refilled >= TokenTime)
  <2>1. /\ uwTime + (TokenTime - Refilled) \in Int
        /\ request' = [request EXCEPT ![c] = [state |-> "asleep", endpoint |-> request[c].endpoint,
                                              until |-> uwTime + (TokenTime - Refilled)]]
    BY <1>1, <1>3, <1>5, UwNumbers DEF AcquireToken
  <2>2. UwTyped'
    BY <1>1, <2>1, RequestTyped
  <2>3. Accounted' /\ RateIsKept'
    BY <1>1, <1>5, Waiting DEF AcquireToken
  <2> QED
    BY <1>2, <2>2, <2>3
<1> QED
  BY <1>4, <1>5

\* What else a caller does, and the clock, leaves the bucket alone.
LEMMA OthersKeep ==
  ASSUME UwInv, UwTyped', ServedIsFresh', UNCHANGED <<tokens, lastRefill, granted>>,
         uwTime <= uwTime'
  PROVE  UwInv'
<1>1. uwTime' \in Nat
  BY DEF UwTyped
<1> QED
  BY <1>1, Waiting DEF UwInv

LEMMA UwNextKeeps == UwInv /\ UwNext => UwInv'
<1> SUFFICES ASSUME UwInv, UwNext PROVE UwInv'
  OBVIOUS
<1>1. uwTime \in Nat /\ served \in Nat /\ CacheTtl \in Nat /\ served <= CacheTtl /\ UwTyped
  BY UwNumbers DEF UwInv, UwTyped, ServedIsFresh
<1>2. ASSUME NEW c \in Callers, NEW e \in Endpoints, Get(c, e) PROVE UwInv'
  <2>1. UwTyped'
    BY <1>1, <1>2 DEF Get, UwTyped
  <2> QED
    BY <1>1, <1>2, <2>1, OthersKeep DEF Get, ServedIsFresh
<1>3. ASSUME NEW c \in Callers, AcquireToken(c) PROVE UwInv'
  BY <1>3, AcquireKeeps
<1>4. ASSUME NEW c \in Callers, FallsBack(c) PROVE UwInv'
  <2> DEFINE e == request[c].endpoint
  <2>1. e \in Endpoints /\ cache[e] \in Int /\ cache[e] <= uwTime
    BY <1>1, <1>4 DEF FallsBack, UwTyped
  <2>2. served' \in Nat /\ served' <= CacheTtl
    <3>1. CASE ~ReadableCache(e)
      BY <1>1, <1>4, <3>1 DEF FallsBack
    <3>2. CASE ReadableCache(e)
      <4>1. /\ served' = Max({served, uwTime - cache[e]})
            /\ uwTime - cache[e] <= CacheTtl
        BY <1>4, <3>2 DEF FallsBack, ReadableCache
      <4>2. uwTime - cache[e] \in Nat
        BY <1>1, <2>1
      <4>3. served' \in {served, uwTime - cache[e]}
        <5> DEFINE age == uwTime - cache[e]
        <5>1. served \in Int /\ age \in Int /\ served' = Max({served, age})
          BY <1>1, <4>1, <4>2
        <5> HIDE DEF age
        <5>2. served' \in {served, age}
          BY <5>1, MaxOfTwo
        <5> QED
          BY <5>2 DEF age
      <4> QED
        BY <1>1, <4>1, <4>2, <4>3
    <3> QED
      BY <3>1, <3>2
  <2>3. UwTyped'
    BY <1>1, <1>4, <2>2 DEF FallsBack, Ends, IdleCall, UwTyped
  <2> QED
    BY <1>1, <1>4, <2>2, <2>3, OthersKeep DEF FallsBack, ServedIsFresh
<1>5. ASSUME NEW c \in Callers, Refused(c) PROVE UwInv'
  <2>1. UwTyped'
    BY <1>1, <1>5 DEF Refused, Ends, IdleCall, UwTyped
  <2> QED
    BY <1>1, <1>5, <2>1, OthersKeep DEF Refused, ServedIsFresh
<1>6. ASSUME NEW c \in Callers, NEW written \in BOOLEAN, Succeeds(c, written) PROVE UwInv'
  <2>1. UwTyped'
    BY <1>1, <1>6 DEF Succeeds, Ends, IdleCall, UwTyped
  <2> QED
    BY <1>1, <1>6, <2>1, OthersKeep DEF Succeeds, ServedIsFresh
<1>7. CASE UwTick
  <2>1. UwTyped'
    BY <1>1, <1>7 DEF UwTick, UwTyped
  <2> QED
    BY <1>1, <1>7, <2>1, OthersKeep DEF UwTick, ServedIsFresh
<1> QED
  BY <1>2, <1>3, <1>4, <1>5, <1>6, <1>7 DEF UwNext

LEMMA UwStutter == UwInv /\ UNCHANGED uwVars => UwInv'
BY DEF uwVars, UwInv, UwTyped, Accounted, RateIsKept, ServedIsFresh

LEMMA UwAlways == DeskSpec => []UwInv
<1>1. DeskInit => UwInv
  BY UwStart DEF DeskInit
<1>2. UwInv /\ [DeskNext]_deskVars => UwInv'
  <2> SUFFICES ASSUME UwInv, [DeskNext]_deskVars PROVE UwInv'
    OBVIOUS
  <2>1. CASE UwNext
    BY <2>1, UwNextKeeps
  <2>2. CASE UNCHANGED uwVars
    BY <2>2, UwStutter
  <2> QED
    BY <2>1, <2>2 DEF DeskNext, ControlStep, DiscordStep, LearningStep, ExitRulesStep,
                      AccountsStep, MarketStep, SocialStep, UwStep, deskVars
<1> QED
  BY <1>1, <1>2, PTL DEF DeskSpec

\* The client keeps to its rate, for any number of callers, any rate and any
\* pattern of requests (_acquire_token).
THEOREM RateHolds == DeskSpec => []RateIsKept
<1>1. UwInv => RateIsKept
  BY DEF UwInv
<1> QED
  BY <1>1, UwAlways, PTL

\* Nothing older than the time to live is served, for any callers, endpoints and
\* failures (_read_cache).
THEOREM FreshnessHolds == DeskSpec => []ServedIsFresh
<1>1. UwInv => ServedIsFresh
  BY DEF UwInv
<1> QED
  BY <1>1, UwAlways, PTL

-----------------------------------------------------------------------------
(* The Discord analysts. *)

IsSequence(s) == \E S : s \in Seq(S)

LEMMA AppendAny ==
  ASSUME NEW s, IsSequence(s), NEW x
  PROVE  /\ IsSequence(Append(s, x))
         /\ Len(s) \in Nat /\ Len(Append(s, x)) = Len(s) + 1
         /\ DOMAIN s = 1..Len(s) /\ DOMAIN Append(s, x) = 1..(Len(s) + 1)
         /\ \A i \in 1..Len(s) : Append(s, x)[i] = s[i]
         /\ Append(s, x)[Len(s) + 1] = x
<1>1. PICK S : s \in Seq(S)
  BY DEF IsSequence
<1>2. s \in Seq(S \cup {x})
  BY <1>1
<1>3. Append(s, x) \in Seq(S \cup {x})
  BY <1>2
<1> QED
  BY <1>2, <1>3 DEF IsSequence

\* What was emitted silences its repeats until its delay is over, and what
\* silences was emitted.
Remembered(e, entries, time) ==
  \/ time >= e.at + DedupDelay(e.analyst)
  \/ \E d \in entries : d.analyst = e.analyst /\ d.key = e.key /\ d.due = e.at + DedupDelay(e.analyst)

DiscordInv ==
  /\ now \in Nat
  /\ IsSequence(emitted)
  /\ \A i \in DOMAIN emitted : emitted[i].at \in Nat /\ Remembered(emitted[i], dedup, now)
  /\ \A d \in dedup : \E i \in DOMAIN emitted :
        emitted[i].analyst = d.analyst /\ emitted[i].key = d.key
  /\ SilencedWasEmitted
  /\ EmissionsAreSpaced

LEMMA Delays ==
  /\ \A a : DedupDelay(a) \in Nat
  /\ \A a : DedupDelay(a) = IF a = "zabes" THEN LongDelay ELSE ShortDelay
BY DiscordAssumption DEF DedupDelay

\* The turn of an analyst.
LEMMA DecideKeeps ==
  ASSUME DiscordInv, NEW a, NEW buy, Decide(a, buy), UNCHANGED now
  PROVE  DiscordInv'
<1> DEFINE key == DedupKey(a, buy)
<1>1. CASE UNCHANGED <<dedup, emitted, silenced>>
  BY <1>1 DEF DiscordInv, Remembered, SilencedWasEmitted, EmissionsAreSpaced
<1>2. CASE /\ Silenced(a, key) /\ UNCHANGED <<dedup, emitted>>
           /\ silenced' = silenced \cup {[analyst |-> a, key |-> key]}
  <2>1. \E i \in DOMAIN emitted : emitted[i].analyst = a /\ emitted[i].key = key
    <3>1. PICK d \in dedup : d.analyst = a /\ d.key = key
      BY <1>2 DEF Silenced
    <3> QED
      BY <3>1 DEF DiscordInv
  <2> HIDE DEF key
  <2>2. SilencedWasEmitted'
    BY <1>2, <2>1 DEF DiscordInv, SilencedWasEmitted
  <2> QED
    BY <1>2, <2>2 DEF DiscordInv, Remembered, EmissionsAreSpaced
<1>3. CASE ~Silenced(a, key) /\ Mark(a, key) /\ Emit(a, key) /\ UNCHANGED silenced
  <2> HIDE DEF key
  <2> DEFINE n == Len(emitted)
             new == [analyst |-> a, key |-> key, at |-> now]
             mark == [analyst |-> a, key |-> key, due |-> now + DedupDelay(a)]
  <2>1. /\ IsSequence(emitted') /\ n \in Nat
        /\ DOMAIN emitted = 1..n /\ DOMAIN emitted' = 1..(n + 1)
        /\ \A i \in 1..n : emitted'[i] = emitted[i]
        /\ emitted'[n + 1] = new
    BY <1>3, AppendAny DEF Emit, DiscordInv
  <2>2. dedup' = dedup \cup {mark} /\ mark \in dedup' /\ dedup \subseteq dedup'
    BY <1>3 DEF Mark
  <2>3. /\ new.analyst = a /\ new.key = key /\ new.at = now
        /\ mark.analyst = a /\ mark.key = key /\ mark.due = now + DedupDelay(a)
    OBVIOUS
  <2>4. n + 1 \in 1..(n + 1) /\ \A i \in 1..n : i \in 1..(n + 1)
    BY <2>1
  <2> HIDE DEF new, mark, n
  <2>5. ASSUME NEW i \in 1..n
        PROVE  emitted'[i].at \in Nat /\ Remembered(emitted'[i], dedup', now')
    BY <2>1, <2>2 DEF DiscordInv, Remembered, DedupDelay
  <2>6. emitted'[n + 1].at \in Nat /\ Remembered(emitted'[n + 1], dedup', now')
    <3>1. emitted'[n + 1].at = now /\ emitted'[n + 1].analyst = a /\ emitted'[n + 1].key = key
      BY <2>1, <2>3
    <3>2. \E d \in dedup' : d.analyst = a /\ d.key = key /\ d.due = now + DedupDelay(a)
      BY <2>2, <2>3
    <3> QED
      BY <3>1, <3>2 DEF DiscordInv, Remembered, DedupDelay
  <2>7. \A i \in DOMAIN emitted' : emitted'[i].at \in Nat /\ Remembered(emitted'[i], dedup', now')
    <3>1. \A i \in DOMAIN emitted' : i \in 1..n \/ i = n + 1
      BY <2>1
    <3> QED
      BY <2>5, <2>6, <3>1 DEF Remembered
  <2>8. \A d \in dedup' : \E i \in DOMAIN emitted' :
           emitted'[i].analyst = d.analyst /\ emitted'[i].key = d.key
    BY <2>1, <2>2, <2>3, <2>4 DEF DiscordInv
  <2>9. SilencedWasEmitted'
    BY <1>3, <2>1, <2>4 DEF DiscordInv, SilencedWasEmitted
  <2>10. ASSUME NEW i \in 1..n, emitted[i].analyst = a, emitted[i].key = key
         PROVE  now - emitted[i].at >= DedupDelay(a)
    <3>1. Remembered(emitted[i], dedup, now) /\ emitted[i].at \in Nat /\ now \in Nat /\ DedupDelay(a) \in Nat
      BY <2>1, Delays DEF DiscordInv
    <3>2. now >= emitted[i].at + DedupDelay(a)
      BY <1>3, <2>10, <3>1 DEF Remembered, Silenced
    <3> QED
      BY <3>1, <3>2
  <2>11. EmissionsAreSpaced'
    <3> SUFFICES ASSUME NEW i \in DOMAIN emitted', NEW j \in DOMAIN emitted', i < j,
                        emitted'[i].analyst = emitted'[j].analyst, emitted'[i].key = emitted'[j].key
                 PROVE  emitted'[j].at - emitted'[i].at >= DedupDelay(emitted'[i].analyst)
      BY Delays DEF EmissionsAreSpaced
    <3>1. i \in 1..n /\ emitted'[i] = emitted[i]
      BY <2>1
    <3>2. CASE j \in 1..n
      <4>1. /\ emitted[j].at - emitted[i].at
                  >= IF emitted[i].analyst = "zabes" THEN LongDelay ELSE ShortDelay
            /\ emitted'[j] = emitted[j]
        BY <2>1, <3>1, <3>2 DEF DiscordInv, EmissionsAreSpaced
      <4> QED
        BY <3>1, <4>1, Delays
    <3>3. CASE j = n + 1
      <4>1. emitted[i].analyst = a /\ emitted[i].key = key /\ emitted'[j].at = now
        BY <2>1, <2>3, <3>1, <3>3
      <4> QED
        BY <2>10, <3>1, <4>1
    <3> QED
      BY <2>1, <3>2, <3>3
  <2> QED
    BY <1>3, <2>1, <2>7, <2>8, <2>9, <2>11 DEF DiscordInv
<1> QED
  BY <1>1, <1>2, <1>3 DEF Decide

LEMMA DiscordNextKeeps ==
  ASSUME DiscordInv, DiscordNext
  PROVE  DiscordInv'
<1>1. CASE UNCHANGED <<dedup, emitted, silenced, now>>
  BY <1>1 DEF DiscordInv, Remembered, SilencedWasEmitted, EmissionsAreSpaced
<1>2. ASSUME NEW a \in Analysts, NEW buy, Turn(a, buy)
      PROVE  DiscordInv'
  BY <1>1, <1>2, DecideKeeps DEF Turn
<1>3. ASSUME NEW d \in dedup, ClearDedup(d)
      PROVE  DiscordInv'
  <2>1. now >= d.due /\ dedup' = dedup \ {d} /\ UNCHANGED <<emitted, silenced, now>>
    BY <1>3 DEF ClearDedup
  <2>2. \A i \in DOMAIN emitted : Remembered(emitted'[i], dedup', now')
    BY <2>1 DEF DiscordInv, Remembered
  <2> QED
    BY <2>1, <2>2 DEF DiscordInv, SilencedWasEmitted, EmissionsAreSpaced
<1>4. CASE Tick
  <2>1. now' = now + 1 /\ UNCHANGED <<dedup, emitted, silenced>>
    BY <1>4 DEF Tick, memory
  <2>2. \A i \in DOMAIN emitted : Remembered(emitted'[i], dedup', now')
    BY <2>1, Delays DEF DiscordInv, Remembered
  <2> QED
    BY <2>1, <2>2 DEF DiscordInv, SilencedWasEmitted, EmissionsAreSpaced
<1>5. CASE \/ \E m \in Messages : Post(m)
           \/ Disconnect \/ OnReady \/ ToggleKillSwitch
           \/ \E cutoff \in replays : ReplayHistory(cutoff) \/ FetchFails(cutoff)
           \/ \E a \in Analysts : OpenPosition(a)
           \/ HandleFirstSell
  BY <1>1, <1>5 DEF Post, Disconnect, OnReady, ToggleKillSwitch, ReplayHistory, FetchFails,
                    OpenPosition, HandleFirstSell, memory
<1>6. CASE \/ VinodSPXAnalyst \/ VinodOtherAnalyst \/ AlbertAnalyst \/ ZabesAnalyst
           \/ ADIAnalyst \/ PillaSwingsAnalyst \/ EverestAnalyst
  BY <1>2, <1>6 DEF VinodSPXAnalyst, VinodOtherAnalyst, AlbertAnalyst, ZabesAnalyst,
                    ADIAnalyst, PillaSwingsAnalyst, EverestAnalyst, Analysts
<1> QED
  BY <1>3, <1>4, <1>5, <1>6 DEF DiscordNext

LEMMA DiscordAlways == DeskSpec => []DiscordInv
<1>1. DeskInit => DiscordInv
  <2>1. IsSequence(<<>>)
    BY DEF IsSequence
  <2> QED
    BY <2>1 DEF DeskInit, DiscordInit, DiscordInv, SilencedWasEmitted, EmissionsAreSpaced
<1>2. DiscordInv /\ [DeskNext]_deskVars => DiscordInv'
  <2> SUFFICES ASSUME DiscordInv, [DeskNext]_deskVars PROVE DiscordInv'
    OBVIOUS
  <2>1. CASE DiscordNext
    BY <2>1, DiscordNextKeeps
  <2>2. CASE UNCHANGED discordVars
    BY <2>2 DEF discordVars, memory, DiscordInv, Remembered, SilencedWasEmitted, EmissionsAreSpaced
  <2> QED
    BY <2>1, <2>2 DEF DeskNext, ControlStep, DiscordStep, LearningStep, ExitRulesStep,
                      AccountsStep, MarketStep, SocialStep, UwStep, deskVars
<1> QED
  BY <1>1, <1>2, PTL DEF DeskSpec

\* Only what was emitted is silenced, for any messages, channels and premiums
\* (the analysts' _process).
THEOREM SilenceIsEarned == DeskSpec => []SilencedWasEmitted
<1>1. DiscordInv => SilencedWasEmitted
  BY DEF DiscordInv
<1> QED
  BY <1>1, DiscordAlways, PTL

\* No contract is emitted twice within its delay, for any history, window of
\* replay and number of outages (_process, _clear_dedup).
THEOREM EmissionsStaySpaced == DeskSpec => []EmissionsAreSpaced
<1>1. DiscordInv => EmissionsAreSpaced
  BY DEF DiscordInv
<1> QED
  BY <1>1, DiscordAlways, PTL

-----------------------------------------------------------------------------
(* The evaluation of closed trades. *)

\* Changes are applied in their order, and what is applied is saved.
LearningInv ==
  /\ evaluation.step = "stats" => evaluation = [step |-> "stats", stats |-> evaluation.stats]
  /\ evaluation.step = "apply" =>
        /\ evaluation = [step |-> "apply", made |-> evaluation.made, applied |-> evaluation.applied,
                         deferred |-> evaluation.deferred]
        /\ evaluation.applied \in Nat
        /\ \A i \in DOMAIN evaluation.made :
              /\ i \in Nat \ {0}
              /\ i <= evaluation.applied => Clamped(evaluation.made[i]) \in saved
  /\ IsSequence(reports)
  /\ ReportedIsSaved

LEMMA LearningNextKeeps ==
  ASSUME LearningInv, LearningNext
  PROVE  LearningInv'
<1>1. CASE UNCHANGED <<evaluation, saved, reports>>
  BY <1>1 DEF LearningInv, ReportedIsSaved
<1>2. CASE RunEvaluation \/ CrashEvaluation
  BY <1>2 DEF RunEvaluation, CrashEvaluation, NoEvaluation, LearningInv, ReportedIsSaved
<1>3. CASE ComputeStats
  <2>1. \E s : evaluation' = [evaluation EXCEPT !.stats = s]
    BY <1>3 DEF ComputeStats
  <2>2. evaluation.step = "stats" /\ UNCHANGED <<saved, reports>>
    BY <1>3 DEF ComputeStats
  <2>3. \E s : evaluation' = [step |-> "stats", stats |-> s]
    BY <2>1, <2>2 DEF LearningInv
  <2> QED
    BY <2>2, <2>3 DEF LearningInv, ReportedIsSaved
<1>4. CASE Split
  <2> DEFINE candidates == GenerateParameterChanges(evaluation.stats)
             limit == Min({MaxChangesPerEval, Len(candidates)})
             change == [i \in 1..limit |-> candidates[i]]
             later == SubSeq(candidates, limit + 1, Len(candidates))
  <2>1. evaluation' = [step |-> "apply", made |-> change, applied |-> 0, deferred |-> later]
    BY <1>4 DEF Split
  <2>2. DOMAIN change = 1..limit
    OBVIOUS
  <2> HIDE DEF candidates, limit, later, change
  <2>3. PICK made, deferred, count :
           /\ evaluation' = [step |-> "apply", made |-> made, applied |-> 0, deferred |-> deferred]
           /\ DOMAIN made = 1..count
    BY <2>1, <2>2
  <2>4. \A i \in DOMAIN made : i \in Nat \ {0} /\ ~(i <= 0)
    BY <2>3
  <2> QED
    BY <1>4, <2>3, <2>4 DEF Split, LearningInv, ReportedIsSaved
<1>5. CASE ApplyChange
  <2> DEFINE next == evaluation.applied + 1
  <2>1. /\ evaluation' = [evaluation EXCEPT !.applied = @ + 1]
        /\ saved' = saved \cup {Clamped(evaluation.made[next])}
        /\ evaluation.step = "apply" /\ reports' = reports
    BY <1>5 DEF ApplyChange
  <2>2. /\ evaluation'.applied = next /\ evaluation'.made = evaluation.made
        /\ next \in Nat
    BY <2>1 DEF LearningInv
  <2>3. \A i \in DOMAIN evaluation.made : i <= next => i <= evaluation.applied \/ i = next
    BY <2>1 DEF LearningInv
  <2> HIDE DEF next
  <2>4. \A i \in DOMAIN evaluation'.made :
           i \in Nat \ {0} /\ (i <= evaluation'.applied => Clamped(evaluation'.made[i]) \in saved')
    BY <2>1, <2>2, <2>3 DEF LearningInv
  <2> QED
    BY <2>1, <2>2, <2>4 DEF LearningInv, ReportedIsSaved
<1>6. CASE WriteReport
  <2> DEFINE report == [made |-> evaluation.made, deferred |-> evaluation.deferred]
  <2>1. /\ reports' = Append(reports, report) /\ saved' = saved
        /\ evaluation'.step = "none"
        /\ evaluation.step = "apply" /\ AfterChanges
    BY <1>6 DEF WriteReport, NoEvaluation
  <2>2. \A j \in DOMAIN report.made : Clamped(report.made[j]) \in saved
    BY <2>1 DEF LearningInv, AfterChanges
  <2> HIDE DEF report
  <2>3. /\ IsSequence(reports')
        /\ Len(reports) \in Nat
        /\ DOMAIN reports = 1..Len(reports) /\ DOMAIN reports' = 1..(Len(reports) + 1)
        /\ \A i \in 1..Len(reports) : reports'[i] = reports[i]
        /\ reports'[Len(reports) + 1] = report
    BY <2>1, AppendAny DEF LearningInv
  <2>4. \A i \in DOMAIN reports' : i \in DOMAIN reports \/ i = Len(reports) + 1
    BY <2>3
  <2>5. ReportedIsSaved'
    BY <2>1, <2>2, <2>3, <2>4 DEF LearningInv, ReportedIsSaved
  <2> QED
    BY <2>1, <2>3, <2>5 DEF LearningInv
<1>7. CASE UpdateCounters \/ Commit \/ Rollback \/ WeekPasses
           \/ \E id, a, p, l, pnl : InsertTrade(id, a, p, l, pnl)
  <2>1. CASE UpdateCounters \/ Commit \/ Rollback
    BY <2>1, <1>1 DEF UpdateCounters, Commit, Rollback, tuning
  <2>2. CASE WeekPasses
    BY <2>2, <1>1 DEF WeekPasses, tuning
  <2>3. CASE \E id, a, p, l, pnl : InsertTrade(id, a, p, l, pnl)
    <3>1. UNCHANGED tuning
      BY <2>3 DEF InsertTrade
    <3> QED  BY <3>1, <1>1 DEF tuning
  <2> QED  BY <1>7, <2>1, <2>2, <2>3
<1> QED
  BY <1>2, <1>4, <1>5, <1>6, <1>7, <1>3 DEF LearningNext

LEMMA LearningAlways == DeskSpec => []LearningInv
<1>1. DeskInit => LearningInv
  <2>1. IsSequence(<<>>)
    BY DEF IsSequence
  <2> QED
    BY <2>1 DEF DeskInit, LearningInit, NoEvaluation, LearningInv, ReportedIsSaved
<1>2. LearningInv /\ [DeskNext]_deskVars => LearningInv'
  <2> SUFFICES ASSUME LearningInv, [DeskNext]_deskVars PROVE LearningInv'
    OBVIOUS
  <2>1. CASE LearningNext
    BY <2>1, LearningNextKeeps
  <2>2. CASE UNCHANGED learningVars
    BY <2>2 DEF learningVars, LearningInv, ReportedIsSaved
  <2> QED
    BY <2>1, <2>2 DEF DeskNext, ControlStep, DiscordStep, LearningStep, ExitRulesStep,
                      AccountsStep, MarketStep, SocialStep, UwStep, deskVars
<1> QED
  BY <1>1, <1>2, PTL DEF DeskSpec

\* What a report lists was saved within its hard limit, for any changes, analysts
\* and crashes of the evaluation (run_evaluation).
THEOREM ReportsAreTrue == DeskSpec => []ReportedIsSaved
<1>1. LearningInv => ReportedIsSaved
  BY DEF LearningInv
<1> QED
  BY <1>1, LearningAlways, PTL

-----------------------------------------------------------------------------
(* What SumFunction of the community module computes: it unfolds along the
   elements that CHOOSE takes, which is an induction over subsets. *)
\* A sum over the subsets of a domain, one element after the other.
Adds(f, g) ==
  \A s \in SUBSET DOMAIN f :
     g[s] = IF s = {} THEN 0
            ELSE f[CHOOSE x \in s : TRUE] + g[s \ {CHOOSE x \in s : TRUE}]

LEMMA SumUnfolds ==
  ASSUME NEW f, NEW g, DOMAIN g = SUBSET DOMAIN f, g = [s \in DOMAIN g |-> g[s]], Adds(f, g)
  PROVE  \E h : Adds(f, h) /\ SumFunction(f) = h[DOMAIN f]
<1> DEFINE Run(h) == h = [s \in SUBSET DOMAIN f |->
                             IF s = {} THEN 0
                             ELSE f[CHOOSE x \in s : TRUE] + h[s \ {CHOOSE x \in s : TRUE}]]
           iter == CHOOSE h : Run(h)
<1>1. Run(g)
  BY DEF Adds
<1>2. Run(iter)
  BY <1>1
<1>3. SumFunction(f) = iter[DOMAIN f]
  BY DEF SumFunction, SumFunctionOnSet, FoldFunctionOnSet, MapThenFoldSet
<1> HIDE DEF iter
<1>4. Adds(f, iter)
  BY <1>2 DEF Adds
<1> QED BY <1>3, <1>4

\* Induction along the way in which a sum takes its elements.
LEMMA SubsetInduct ==
  ASSUME NEW D, IsFiniteSet(D), NEW S, {} \in S,
         \A s \in SUBSET D : s # {} /\ s \ {CHOOSE x \in s : TRUE} \in S => s \in S
  PROVE  D \in S
<1> DEFINE T == {n \in Nat : \A s \in SUBSET D : Cardinality(s) = n => s \in S}
<1>1. 0 \in T
  <2>1. \A s \in SUBSET D : Cardinality(s) = 0 => s = {}
    BY FS_Subset, FS_EmptySet
  <2> QED  BY <2>1
<1>2. ASSUME NEW n \in Nat, n \in T  PROVE n + 1 \in T
  <2> SUFFICES ASSUME NEW s \in SUBSET D, Cardinality(s) = n + 1  PROVE s \in S
    OBVIOUS
  <2> DEFINE x == CHOOSE y \in s : TRUE
  <2>1. IsFiniteSet(s) /\ s # {}
    BY FS_Subset, FS_EmptySet
  <2>2. x \in s
    BY <2>1
  <2>3. Cardinality(s \ {x}) = Cardinality(s) - 1
    BY <2>1, <2>2, FS_RemoveElement
  <2>4. s \ {x} \in SUBSET D /\ Cardinality(s \ {x}) = n
    BY <2>3
  <2>5. s \ {x} \in S
    BY <1>2, <2>4
  <2> QED  BY <2>1, <2>5
<1> HIDE DEF T
<1>3. Nat \subseteq T
  BY <1>1, <1>2, Induct
<1>4. Cardinality(D) \in Nat
  BY FS_CardinalityType
<1> QED  BY <1>3, <1>4 DEF T

\* Such a sum exists.
LEMMA SumExists ==
  ASSUME NEW D, IsFiniteSet(D), NEW f \in [D -> Nat]
  PROVE  \E g \in [SUBSET D -> Nat] : Adds(f, g)
<1> DEFINE Small(n) == {s \in SUBSET D : Cardinality(s) <= n}
           First(s) == CHOOSE x \in s : TRUE
           Fits(n, g) == /\ g \in [Small(n) -> Nat]
                         /\ \A s \in Small(n) :
                              g[s] = IF s = {} THEN 0 ELSE f[First(s)] + g[s \ {First(s)}]
           T == {n \in Nat : \E g : Fits(n, g)}
<1>0. ASSUME NEW s \in SUBSET D, s # {}
      PROVE  /\ First(s) \in s /\ s \ {First(s)} \in SUBSET D
             /\ Cardinality(s) \in Nat /\ Cardinality(s \ {First(s)}) = Cardinality(s) - 1
             /\ Cardinality(s \ {First(s)}) \in Nat
             /\ f[First(s)] \in Nat
  <2>1. IsFiniteSet(s) /\ First(s) \in s
    BY <1>0, FS_Subset
  <2>2. Cardinality(s \ {First(s)}) = Cardinality(s) - 1
    BY <2>1, FS_RemoveElement
  <2>3. IsFiniteSet(s \ {First(s)})
    BY <2>1, FS_Subset
  <2> QED  BY <2>1, <2>2, <2>3, FS_CardinalityType
<1>00. Cardinality({}) = 0 /\ {} \in SUBSET D
  BY FS_EmptySet
<1> HIDE DEF First
<1>1. 0 \in T
  <2> DEFINE g == [s \in Small(0) |-> 0]
  <2>1. ASSUME NEW s \in Small(0), s # {}  PROVE FALSE
    <3> DEFINE m == Cardinality(s)
               k == Cardinality(s \ {First(s)})
    <3>1. m \in Nat /\ k \in Nat /\ k = m - 1 /\ m <= 0
      BY <1>0, <2>1
    <3> HIDE DEF m, k
    <3> QED  BY <3>1
  <2>2. Fits(0, g)
    BY <2>1
  <2> QED  BY <2>2
<1>2. ASSUME NEW n \in Nat, n \in T  PROVE n + 1 \in T
  <2>1. PICK g : Fits(n, g)
    BY <1>2
  <2> DEFINE h == [s \in Small(n + 1) |-> IF s \in Small(n) THEN g[s]
                                         ELSE f[First(s)] + g[s \ {First(s)}]]
  <2>2. ASSUME NEW s \in Small(n + 1), s \notin Small(n)
        PROVE  /\ s # {} /\ s \ {First(s)} \in Small(n) /\ f[First(s)] \in Nat
    <3> DEFINE m == Cardinality(s)
               k == Cardinality(s \ {First(s)})
    <3>1. s \in SUBSET D /\ ~(m <= n) /\ m <= n + 1
      BY <2>2
    <3>2. s # {}
      BY <1>00, <3>1
    <3>3. m \in Nat /\ k \in Nat /\ k = m - 1 /\ s \ {First(s)} \in SUBSET D /\ f[First(s)] \in Nat
      BY <1>0, <3>1, <3>2
    <3>4. k <= n
      <4> HIDE DEF m, k
      <4> QED  BY <3>1, <3>3
    <3> QED  BY <3>2, <3>3, <3>4
  <2>3. ASSUME NEW s \in Small(n), s # {}
        PROVE  s \ {First(s)} \in Small(n)
    BY <1>0, <2>3
  <2>4. Small(n) \subseteq Small(n + 1)
    <3>1. ASSUME NEW s \in Small(n)  PROVE s \in Small(n + 1)
      <4>1. Cardinality(s) \in Nat
        BY FS_Subset, FS_CardinalityType
      <4> QED  BY <4>1
    <3> QED  BY <3>1
  <2> HIDE DEF Small
  <2>5. h \in [Small(n + 1) -> Nat]
    BY <2>1, <2>2
  <2>6. ASSUME NEW s \in Small(n + 1)
        PROVE  h[s] = IF s = {} THEN 0 ELSE f[First(s)] + h[s \ {First(s)}]
    <3>1. CASE s \in Small(n)
      BY <2>1, <2>3, <2>4, <3>1
    <3>2. CASE s \notin Small(n)
      BY <2>1, <2>2, <2>4, <3>2
    <3> QED  BY <3>1, <3>2
  <2>7. Fits(n + 1, h)
    BY <2>5, <2>6
  <2> HIDE DEF h, Fits
  <2> QED  BY <2>7
<1>3. Cardinality(D) \in T
  <2> HIDE DEF T
  <2>1. Nat \subseteq T
    BY <1>1, <1>2, Induct
  <2> QED  BY <2>1, FS_CardinalityType
<1>4. PICK g : Fits(Cardinality(D), g)
  BY <1>3
<1>5. Small(Cardinality(D)) = SUBSET D
  BY FS_Subset
<1>6. g \in [SUBSET D -> Nat]
  BY <1>4, <1>5
<1>7. DOMAIN f = D
  OBVIOUS
<1>8. Adds(f, g)
  BY <1>4, <1>5, <1>7 DEF Adds, First
<1> QED  BY <1>6, <1>8

\* A sum of numbers is a number, at least each of them.
LEMMA SumIsWalk ==
  ASSUME NEW D, IsFiniteSet(D), NEW f \in [D -> Nat]
  PROVE  \E h : Adds(f, h) /\ SumFunction(f) = h[D]
<1>1. PICK g \in [SUBSET D -> Nat] : Adds(f, g)
  BY SumExists
<1>2. DOMAIN f = D /\ DOMAIN g = SUBSET D /\ g = [s \in DOMAIN g |-> g[s]]
  OBVIOUS
<1> QED  BY <1>1, <1>2, SumUnfolds

LEMMA SumBounds ==
  ASSUME NEW D, IsFiniteSet(D), NEW f \in [D -> Nat]
  PROVE  /\ SumFunction(f) \in Nat
         /\ \A t \in D : f[t] <= SumFunction(f)
<1>1. PICK h : Adds(f, h) /\ SumFunction(f) = h[D]
  BY SumIsWalk
<1> DEFINE S == {s \in SUBSET D : h[s] \in Nat /\ \A t \in s : f[t] <= h[s]}
<1>2. {} \in S
  BY <1>1 DEF Adds
<1>3. ASSUME NEW s \in SUBSET D, s # {}, s \ {CHOOSE x \in s : TRUE} \in S
      PROVE  s \in S
  <2> DEFINE x == CHOOSE y \in s : TRUE
  <2>1. x \in s /\ f[x] \in Nat
    BY <1>3
  <2>2. h[s] = f[x] + h[s \ {x}]
    BY <1>1, <1>3 DEF Adds
  <2>3. h[s \ {x}] \in Nat /\ \A t \in s \ {x} : f[t] \in Nat /\ f[t] <= h[s \ {x}]
    BY <1>3
  <2> HIDE DEF x
  <2> QED  BY <2>1, <2>2, <2>3
<1> HIDE DEF S
<1>4. D \in S
  BY <1>2, <1>3, SubsetInduct
<1> QED  BY <1>1, <1>4 DEF S

\* Nothing sums to nothing.
LEMMA SumOfNothing ==
  ASSUME NEW D, IsFiniteSet(D), NEW f \in [D -> Nat], \A t \in D : f[t] = 0
  PROVE  SumFunction(f) = 0
<1>1. PICK h : Adds(f, h) /\ SumFunction(f) = h[D]
  BY SumIsWalk
<1> DEFINE S == {s \in SUBSET D : h[s] = 0}
<1>2. {} \in S
  BY <1>1 DEF Adds
<1>3. ASSUME NEW s \in SUBSET D, s # {}, s \ {CHOOSE x \in s : TRUE} \in S
      PROVE  s \in S
  <2>1. PICK x : x = CHOOSE y \in s : TRUE
    OBVIOUS
  <2>2. x \in s /\ f[x] = 0 /\ s \ {x} \in S
    BY <1>3, <2>1
  <2>3. DOMAIN f = D
    OBVIOUS
  <2>4. h[s] = f[x] + h[s \ {x}]
    BY <1>1, <1>3, <2>1, <2>3 DEF Adds
  <2>5. h[s \ {x}] = 0
    BY <2>2
  <2>6. h[s] = 0
    BY <2>2, <2>4, <2>5
  <2> QED  BY <2>6
<1> HIDE DEF S
<1>4. D \in S
  BY <1>2, <1>3, SubsetInduct
<1> QED  BY <1>1, <1>4 DEF S

\* One number that grows by one makes the sum grow by one.
LEMMA SumGrows ==
  ASSUME NEW D, IsFiniteSet(D), NEW f \in [D -> Nat], NEW g \in [D -> Nat], NEW t \in D,
         g[t] = f[t] + 1, \A u \in D : u # t => g[u] = f[u]
  PROVE  SumFunction(g) = SumFunction(f) + 1
<1>1. PICK h : Adds(f, h) /\ SumFunction(f) = h[D]
  BY SumIsWalk
<1>2. PICK k : Adds(g, k) /\ SumFunction(g) = k[D]
  BY SumIsWalk
<1> DEFINE S == {s \in SUBSET D : h[s] \in Nat /\ k[s] = h[s] + (IF t \in s THEN 1 ELSE 0)}
<1>3. {} \in S
  <2>1. DOMAIN f = D /\ DOMAIN g = D /\ {} \in SUBSET D
    OBVIOUS
  <2>2. h[{}] = 0 /\ k[{}] = 0
    BY <1>1, <1>2, <2>1 DEF Adds
  <2> QED  BY <2>2
<1>4. ASSUME NEW s \in SUBSET D, s # {}, s \ {CHOOSE x \in s : TRUE} \in S
      PROVE  s \in S
  <2>1. PICK x : x = CHOOSE y \in s : TRUE
    OBVIOUS
  <2>2. x \in s /\ f[x] \in Nat /\ g[x] \in Nat /\ s \ {x} \in S
    BY <1>4, <2>1
  <2>3. DOMAIN f = D /\ DOMAIN g = D
    OBVIOUS
  <2>4. h[s] = f[x] + h[s \ {x}] /\ k[s] = g[x] + k[s \ {x}]
    BY <1>1, <1>2, <1>4, <2>1, <2>3 DEF Adds
  <2>5. h[s \ {x}] \in Nat /\ k[s \ {x}] = h[s \ {x}] + (IF t \in s \ {x} THEN 1 ELSE 0)
    BY <2>2
  <2>6. h[s] \in Nat
    BY <2>2, <2>4, <2>5
  <2>7. k[s] = h[s] + (IF t \in s THEN 1 ELSE 0)
    <3>1. CASE x = t
      <4>1. g[x] = f[x] + 1 /\ t \in s /\ t \notin s \ {x}
        BY <2>2, <3>1
      <4>2. k[s \ {x}] = h[s \ {x}]
        BY <2>5, <4>1
      <4>3. k[s] = h[s] + 1
        BY <2>2, <2>4, <2>5, <4>1, <4>2
      <4> QED  BY <4>1, <4>3
    <3>2. CASE x # t
      <4>1. g[x] = f[x] /\ (t \in s <=> t \in s \ {x})
        BY <2>2, <3>2
      <4> QED  BY <2>2, <2>4, <2>5, <4>1
    <3> QED  BY <3>1, <3>2
  <2> QED  BY <2>6, <2>7
<1> HIDE DEF S
<1>5. D \in S
  BY <1>3, <1>4, SubsetInduct
<1> QED  BY <1>1, <1>2, <1>5 DEF S

-----------------------------------------------------------------------------
(* The journal and its counters. *)

Counters == [wins : Nat, losses : Nat]
Tables == [LearnerSet -> [Types -> Counters]]

\* What the rows say of an analyst.
DecidedRows(rows, a) == {r \in rows : r.analyst = a /\ Outcome(r.pnl) # "BREAKEVEN"}
WonRows(rows, a) == {r \in DecidedRows(rows, a) : Outcome(r.pnl) = "WIN"}

IsRow(r) ==
  /\ r = [id |-> r.id, analyst |-> r.analyst, pattern |-> r.pattern, pnl |-> r.pnl, recent |-> r.recent]
  /\ r.analyst \in LearnerSet /\ r.pattern \in Patterns /\ r.pnl \in Int

\* The tables as they are once a transaction has counted its row.
WithCount(table, row, label) ==
  [a \in LearnerSet |-> [t \in Types |->
     IF a = row.analyst /\ t = [pattern |-> row.pattern, label |-> label]
     THEN Counted(table[a][t], row.pnl) ELSE table[a][t]]]

TableWins(table, a) == SumFunction([t \in Types |-> table[a][t].wins])
TableLosses(table, a) == SumFunction([t \in Types |-> table[a][t].losses])

\* The counters add up to the rows.
AddUp(rows, table) ==
  \A a \in LearnerSet :
     /\ Cardinality(WonRows(rows, a)) = TableWins(table, a)
     /\ Cardinality(DecidedRows(rows, a)) = TableWins(table, a) + TableLosses(table, a)

RowsInv ==
  /\ IsFiniteSet(trades)
  /\ \A r \in trades : IsRow(r)
  /\ \A r, s \in trades : r.id = s.id => r = s
  /\ stats \in Tables

TxInv ==
  \/ tx = NoTx
  \/ \E row, label :
        /\ IsRow(row) /\ label \in Labels
        /\ \/ tx = [step |-> "counters", row |-> row, label |-> label,
                    trades |-> WithRow(trades, row), stats |-> stats]
           \/ tx = [step |-> "commit", row |-> row, label |-> label,
                    trades |-> WithRow(trades, row), stats |-> WithCount(stats, row, label)]

CountInv == RowsInv /\ TxInv /\ (~reclosed => AddUp(trades, stats))

LEMMA TypesAreFinite == IsFiniteSet(Types)
<1>1. IsFiniteSet(Labels)
  <2>1. IsFiniteSet({}) 
    BY FS_EmptySet
  <2>2. IsFiniteSet({} \cup {"dated"})
    BY <2>1, FS_AddElement
  <2>3. IsFiniteSet(({} \cup {"dated"}) \cup {"UNKNOWN"})
    BY <2>2, FS_AddElement
  <2>4. Labels = ({} \cup {"dated"}) \cup {"UNKNOWN"}
    BY DEF Labels
  <2> QED  BY <2>3, <2>4
<1>2. IsFiniteSet(Patterns \X Labels)
  BY <1>1, FS_Product, LearningAssumption
<1> DEFINE f == [x \in Patterns \X Labels |-> [pattern |-> x[1], label |-> x[2]]]
<1>3. f \in Surjection(Patterns \X Labels, Types)
  <2>1. f \in [Patterns \X Labels -> Types]
    BY DEF Types
  <2>2. \A t \in Types : <<t.pattern, t.label>> \in Patterns \X Labels /\ f[<<t.pattern, t.label>>] = t
    BY DEF Types
  <2> HIDE DEF f
  <2>3. \A t \in Types : \E x \in Patterns \X Labels : f[x] = t
    BY <2>2
  <2> QED  BY <2>1, <2>3 DEF Surjection
<1> QED  BY <1>2, <1>3, FS_Surjection

\* One row and one count more.
LEMMA OneMoreAddsUp ==
  ASSUME NEW rows, IsFiniteSet(rows), NEW table \in Tables, AddUp(rows, table),
         NEW row, IsRow(row), row \notin rows, NEW label \in Labels
  PROVE  AddUp(rows \cup {row}, WithCount(table, row, label))
<1> DEFINE b == row.analyst
           p == [pattern |-> row.pattern, label |-> label]
           new == WithCount(table, row, label)
           w(tab, a) == [t \in Types |-> tab[a][t].wins]
           l(tab, a) == [t \in Types |-> tab[a][t].losses]
<1>1. /\ b \in LearnerSet /\ p \in Types /\ row.pnl \in Int
      /\ table[b][p] \in Counters
  BY DEF IsRow, Types, Tables
<1>2. /\ new \in Tables
      /\ \A a \in LearnerSet : a # b => new[a] = table[a]
      /\ \A t \in Types : t # p => new[b][t] = table[b][t]
      /\ new[b][p] = Counted(table[b][p], row.pnl)
  <2>1. \A c \in Counters : Counted(c, row.pnl) \in Counters
    BY DEF Counted, Counters
  <2>2. new = [a \in LearnerSet |-> [t \in Types |->
                 IF a = b /\ t = p THEN Counted(table[a][t], row.pnl) ELSE table[a][t]]]
    BY DEF WithCount
  <2> HIDE DEF new, b, p
  <2>3. \A a \in LearnerSet : table[a] = [t \in Types |-> table[a][t]]
    BY DEF Tables
  <2>4. \A a \in LearnerSet : a # b => new[a] = [t \in Types |-> table[a][t]]
    BY <2>2
  <2>5. \A a \in LearnerSet : a # b => new[a] = table[a]
    BY <2>3, <2>4
  <2>6. \A a \in LearnerSet, t \in Types : new[a][t] \in Counters
    BY <2>1, <2>2 DEF Tables
  <2>7. new \in Tables
    BY <2>2, <2>6 DEF Tables
  <2> QED  BY <1>1, <2>2, <2>5, <2>7
<1>3. Outcome(row.pnl) \in {"WIN", "LOSS", "BREAKEVEN"}
  BY DEF Outcome
<1>4. \A a \in LearnerSet :
         /\ w(table, a) \in [Types -> Nat] /\ l(table, a) \in [Types -> Nat]
         /\ w(new, a) \in [Types -> Nat] /\ l(new, a) \in [Types -> Nat]
  BY <1>2 DEF Tables, Counters
<1>5. /\ Outcome(row.pnl) = "WIN" => /\ new[b][p].wins = table[b][p].wins + 1
                                     /\ new[b][p].losses = table[b][p].losses
      /\ Outcome(row.pnl) = "LOSS" => /\ new[b][p].losses = table[b][p].losses + 1
                                      /\ new[b][p].wins = table[b][p].wins
      /\ Outcome(row.pnl) = "BREAKEVEN" => new[b][p] = table[b][p]
  BY <1>1, <1>2 DEF Counted, Counters
<1> HIDE DEF new, b, p
<1>6. ASSUME NEW a \in LearnerSet  
      PROVE  /\ IsFiniteSet(WonRows(rows, a)) /\ IsFiniteSet(DecidedRows(rows, a))
             /\ Cardinality(WonRows(rows, a)) \in Nat /\ Cardinality(DecidedRows(rows, a)) \in Nat
             /\ row \notin WonRows(rows, a) /\ row \notin DecidedRows(rows, a)
  <2>1. WonRows(rows, a) \subseteq rows /\ DecidedRows(rows, a) \subseteq rows
    BY DEF WonRows, DecidedRows
  <2>2. IsFiniteSet(WonRows(rows, a)) /\ IsFiniteSet(DecidedRows(rows, a))
    BY <2>1, FS_Subset
  <2> QED  BY <2>1, <2>2, FS_CardinalityType
<1>7. ASSUME NEW a \in LearnerSet
      PROVE  /\ Cardinality(WonRows(rows, a) \cup {row}) = Cardinality(WonRows(rows, a)) + 1
             /\ Cardinality(DecidedRows(rows, a) \cup {row}) = Cardinality(DecidedRows(rows, a)) + 1
  BY <1>6, FS_AddElement
<1>8. ASSUME NEW a \in LearnerSet, a # b \/ Outcome(row.pnl) = "BREAKEVEN"
      PROVE  /\ WonRows(rows \cup {row}, a) = WonRows(rows, a)
             /\ DecidedRows(rows \cup {row}, a) = DecidedRows(rows, a)
             /\ w(new, a) = w(table, a) /\ l(new, a) = l(table, a)
  <2>1. \A t \in Types : new[a][t] = table[a][t]
    BY <1>2, <1>5, <1>8
  <2> QED  BY <2>1, <1>8 DEF WonRows, DecidedRows, b
<1>9. Outcome(row.pnl) = "WIN" =>
         /\ WonRows(rows \cup {row}, b) = WonRows(rows, b) \cup {row}
         /\ DecidedRows(rows \cup {row}, b) = DecidedRows(rows, b) \cup {row}
         /\ TableWins(new, b) = TableWins(table, b) + 1
         /\ l(new, b) = l(table, b)
  <2> SUFFICES ASSUME Outcome(row.pnl) = "WIN"
      PROVE  /\ WonRows(rows \cup {row}, b) = WonRows(rows, b) \cup {row}
             /\ DecidedRows(rows \cup {row}, b) = DecidedRows(rows, b) \cup {row}
             /\ TableWins(new, b) = TableWins(table, b) + 1
             /\ l(new, b) = l(table, b)
    OBVIOUS
  <2>1. /\ WonRows(rows \cup {row}, b) = WonRows(rows, b) \cup {row}
        /\ DecidedRows(rows \cup {row}, b) = DecidedRows(rows, b) \cup {row}
    BY DEF WonRows, DecidedRows, b
  <2>2. \A t \in Types : new[b][t].losses = table[b][t].losses
    BY <1>2, <1>5
  <2>3. /\ \A t \in Types : p # t => w(new, b)[t] = w(table, b)[t]
        /\ w(new, b)[p] = w(table, b)[p] + 1
    BY <1>1, <1>2, <1>5
  <2>4. TableWins(new, b) = TableWins(table, b) + 1
    <3>1. w(table, b) \in [Types -> Nat] /\ w(new, b) \in [Types -> Nat] /\ p \in Types
      BY <1>1, <1>4
    <3>2. \A f, g \in [Types -> Nat] :
             g[p] = f[p] + 1 /\ (\A t \in Types : p # t => g[t] = f[t])
                => SumFunction(g) = SumFunction(f) + 1
      BY <3>1, TypesAreFinite, SumGrows
    <3> HIDE DEF w
    <3>3. SumFunction(w(new, b)) = SumFunction(w(table, b)) + 1
      BY <2>3, <3>1, <3>2
    <3> QED  BY <3>3 DEF TableWins, w
  <2> QED  BY <2>1, <2>2, <2>4
<1>10. Outcome(row.pnl) = "LOSS" =>
         /\ WonRows(rows \cup {row}, b) = WonRows(rows, b)
         /\ DecidedRows(rows \cup {row}, b) = DecidedRows(rows, b) \cup {row}
         /\ TableLosses(new, b) = TableLosses(table, b) + 1
         /\ w(new, b) = w(table, b)
  <2> SUFFICES ASSUME Outcome(row.pnl) = "LOSS"
      PROVE  /\ WonRows(rows \cup {row}, b) = WonRows(rows, b)
             /\ DecidedRows(rows \cup {row}, b) = DecidedRows(rows, b) \cup {row}
             /\ TableLosses(new, b) = TableLosses(table, b) + 1
             /\ w(new, b) = w(table, b)
    OBVIOUS
  <2>1. /\ WonRows(rows \cup {row}, b) = WonRows(rows, b)
        /\ DecidedRows(rows \cup {row}, b) = DecidedRows(rows, b) \cup {row}
    BY DEF WonRows, DecidedRows, b
  <2>2. \A t \in Types : new[b][t].wins = table[b][t].wins
    BY <1>2, <1>5
  <2>3. /\ \A t \in Types : p # t => l(new, b)[t] = l(table, b)[t]
        /\ l(new, b)[p] = l(table, b)[p] + 1
    BY <1>1, <1>2, <1>5
  <2>4. TableLosses(new, b) = TableLosses(table, b) + 1
    <3>1. l(table, b) \in [Types -> Nat] /\ l(new, b) \in [Types -> Nat] /\ p \in Types
      BY <1>1, <1>4
    <3>2. \A f, g \in [Types -> Nat] :
             g[p] = f[p] + 1 /\ (\A t \in Types : p # t => g[t] = f[t])
                => SumFunction(g) = SumFunction(f) + 1
      BY <3>1, TypesAreFinite, SumGrows
    <3> HIDE DEF l
    <3>3. SumFunction(l(new, b)) = SumFunction(l(table, b)) + 1
      BY <2>3, <3>1, <3>2
    <3> QED  BY <3>3 DEF TableLosses, l
  <2> QED  BY <2>1, <2>2, <2>4
<1>11. \A a \in LearnerSet : TableWins(table, a) \in Nat /\ TableLosses(table, a) \in Nat
  <2>1. \A f \in [Types -> Nat] : SumFunction(f) \in Nat
    BY TypesAreFinite, SumBounds
  <2> QED  BY <1>4, <2>1 DEF TableWins, TableLosses
<1> SUFFICES ASSUME NEW a \in LearnerSet
    PROVE  /\ Cardinality(WonRows(rows \cup {row}, a)) = TableWins(new, a)
           /\ Cardinality(DecidedRows(rows \cup {row}, a)) = TableWins(new, a) + TableLosses(new, a)
  BY DEF AddUp, new
<1>12. /\ Cardinality(WonRows(rows, a)) = TableWins(table, a)
       /\ Cardinality(DecidedRows(rows, a)) = TableWins(table, a) + TableLosses(table, a)
  BY DEF AddUp
<1>13. CASE a # b \/ Outcome(row.pnl) = "BREAKEVEN"
  <2>1. TableWins(new, a) = TableWins(table, a) /\ TableLosses(new, a) = TableLosses(table, a)
    BY <1>8, <1>13 DEF TableWins, TableLosses
  <2>2. /\ WonRows(rows \cup {row}, a) = WonRows(rows, a)
        /\ DecidedRows(rows \cup {row}, a) = DecidedRows(rows, a)
    BY <1>8, <1>13
  <2> QED  BY <1>12, <2>1, <2>2
<1>14. CASE a = b /\ Outcome(row.pnl) = "WIN"
  <2>1. TableLosses(new, b) = TableLosses(table, b)
    BY <1>9, <1>14 DEF TableLosses
  <2> QED  BY <1>7, <1>9, <1>11, <1>12, <1>14, <2>1
<1>15. CASE a = b /\ Outcome(row.pnl) = "LOSS"
  <2>1. TableWins(new, b) = TableWins(table, b)
    BY <1>10, <1>15 DEF TableWins
  <2>2. /\ Cardinality(WonRows(rows \cup {row}, a)) = TableWins(new, a)
        /\ Cardinality(DecidedRows(rows \cup {row}, a)) = Cardinality(DecidedRows(rows, a)) + 1
    BY <1>7, <1>10, <1>12, <1>15, <2>1
  <2>3. Cardinality(DecidedRows(rows, a)) + 1 = TableWins(table, a) + (TableLosses(table, a) + 1)
    BY <1>11, <1>12
  <2> QED  BY <1>10, <1>15, <2>1, <2>2, <2>3
<1> QED  BY <1>3, <1>13, <1>14, <1>15

\* A row a week later.
Aged(r) == [r EXCEPT !.recent = FALSE]

LEMMA AgedIsRow ==
  ASSUME NEW r, IsRow(r)
  PROVE  /\ IsRow(Aged(r)) /\ Aged(r).id = r.id /\ Aged(r).analyst = r.analyst
         /\ Aged(r).pnl = r.pnl
<1>1. PICK R : /\ r \in R
               /\ R = [id : {r.id}, analyst : {r.analyst}, pattern : {r.pattern}, pnl : {r.pnl},
                       recent : {r.recent}]
  BY DEF IsRow
<1>2. ASSUME NEW d
      PROVE  [r EXCEPT !.recent = d] = [id |-> r.id, analyst |-> r.analyst, pattern |-> r.pattern,
                                        pnl |-> r.pnl, recent |-> d]
  BY <1>1
<1>3. Aged(r) = [id |-> r.id, analyst |-> r.analyst, pattern |-> r.pattern, pnl |-> r.pnl,
                 recent |-> FALSE]
  BY <1>2, Zenon DEF Aged
<1> QED  BY <1>3 DEF IsRow

\* A row that grows old counts as before.
LEMMA OldRowsAddUp ==
  ASSUME RowsInv, NEW rows, rows = {Aged(r) : r \in trades}
  PROVE  /\ IsFiniteSet(rows)
         /\ \A r \in rows : IsRow(r)
         /\ \A r, s \in rows : r.id = s.id => r = s
         /\ AddUp(trades, stats) => AddUp(rows, stats)
<1> DEFINE old == [r \in trades |-> Aged(r)]
<1>1. \A r \in trades : /\ IsRow(Aged(r)) /\ Aged(r).id = r.id /\ Aged(r).analyst = r.analyst
                        /\ Aged(r).pnl = r.pnl
  BY AgedIsRow DEF RowsInv
<1>2. /\ old \in [trades -> rows]
      /\ \A r \in trades : /\ old[r].id = r.id /\ old[r].analyst = r.analyst
                           /\ old[r].pnl = r.pnl /\ IsRow(old[r])
      /\ \A x \in rows : \E r \in trades : x = old[r]
  BY <1>1
<1> HIDE DEF old
<1>3. \A r, s \in trades : old[r] = old[s] => r = s
  <2>1. \A r, s \in trades : old[r] = old[s] => r.id = s.id
    BY <1>2
  <2> QED  BY <2>1 DEF RowsInv
<1>4. old \in Surjection(trades, rows)
  BY <1>2 DEF Surjection
<1>5. IsFiniteSet(rows)
  BY <1>4, FS_Surjection DEF RowsInv
<1>6. \A r \in rows : IsRow(r)
  BY <1>2
<1>7. \A x, y \in rows : x.id = y.id => x = y
  <2> SUFFICES ASSUME NEW x \in rows, NEW y \in rows, x.id = y.id  PROVE x = y
    OBVIOUS
  <2>1. PICK r \in trades : x = old[r]
    BY <1>2
  <2>2. PICK s \in trades : y = old[s]
    BY <1>2
  <2>3. r.id = s.id
    BY <1>2, <2>1, <2>2
  <2> QED  BY <2>1, <2>2, <2>3 DEF RowsInv
<1>8. ASSUME NEW A \in SUBSET trades, NEW B \in SUBSET rows, \A r \in trades : r \in A <=> old[r] \in B
      PROVE  Cardinality(A) = Cardinality(B)
  <2> DEFINE f == [r \in A |-> old[r]]
  <2>1. f \in [A -> B]
    BY <1>8
  <2>2. \A x \in B : \E r \in A : x = f[r]
    BY <1>2, <1>8
  <2>3. \A r, s \in A : f[r] = f[s] => r = s
    BY <1>3
  <2> HIDE DEF f
  <2>4. f \in Bijection(A, B)
    BY <2>1, <2>2, <2>3 DEF Bijection, Injection, Surjection, IsInjective
  <2>5. ExistsBijection(A, B)
    BY <2>4 DEF ExistsBijection
  <2>6. IsFiniteSet(A)
    BY FS_Subset DEF RowsInv
  <2> QED  BY <2>5, <2>6, FS_Bijection
<1>9. ASSUME NEW a \in LearnerSet
      PROVE  /\ Cardinality(WonRows(trades, a)) = Cardinality(WonRows(rows, a))
             /\ Cardinality(DecidedRows(trades, a)) = Cardinality(DecidedRows(rows, a))
  <2>1. \A r \in trades : old[r] \in rows
    BY <1>2
  <2>2. \A r \in trades : /\ r \in DecidedRows(trades, a) <=> old[r] \in DecidedRows(rows, a)
                          /\ r \in WonRows(trades, a) <=> old[r] \in WonRows(rows, a)
    BY <1>2, <2>1 DEF WonRows, DecidedRows
  <2>3. /\ DecidedRows(trades, a) \in SUBSET trades /\ DecidedRows(rows, a) \in SUBSET rows
        /\ WonRows(trades, a) \in SUBSET trades /\ WonRows(rows, a) \in SUBSET rows
    BY DEF WonRows, DecidedRows
  <2>4. Cardinality(WonRows(trades, a)) = Cardinality(WonRows(rows, a))
    BY <1>8, <2>2, <2>3
  <2>5. Cardinality(DecidedRows(trades, a)) = Cardinality(DecidedRows(rows, a))
    BY <1>8, <2>2, <2>3
  <2> QED  BY <2>4, <2>5
<1>10. AddUp(trades, stats) => AddUp(rows, stats)
  BY <1>9 DEF AddUp
<1> QED  BY <1>5, <1>6, <1>7, <1>10

\* A row that is put in the place of those with its id.
LEMMA WithRowFits ==
  ASSUME RowsInv, NEW row, IsRow(row)
  PROVE  /\ IsFiniteSet(WithRow(trades, row))
         /\ \A r \in WithRow(trades, row) : IsRow(r)
         /\ \A r, s \in WithRow(trades, row) : r.id = s.id => r = s
         /\ (~\E r \in trades : r.id = row.id) =>
               row \notin trades /\ WithRow(trades, row) = trades \cup {row}
<1>1. IsFiniteSet({r \in trades : r.id # row.id})
  <2>1. {r \in trades : r.id # row.id} \subseteq trades
    OBVIOUS
  <2> QED  BY <2>1, FS_Subset DEF RowsInv
<1>2. IsFiniteSet({r \in trades : r.id # row.id} \cup {row})
  BY <1>1, FS_AddElement
<1>3. /\ \A r \in WithRow(trades, row) : IsRow(r)
      /\ \A r, s \in WithRow(trades, row) : r.id = s.id => r = s
  BY DEF RowsInv, WithRow
<1>4. (~\E r \in trades : r.id = row.id) =>
               row \notin trades /\ WithRow(trades, row) = trades \cup {row}
  BY DEF WithRow
<1> QED  BY <1>2, <1>3, <1>4 DEF WithRow

\* Counting a row gives tables again.
LEMMA WithCountFits ==
  ASSUME NEW table \in Tables, NEW row, IsRow(row), NEW label \in Labels
  PROVE  /\ WithCount(table, row, label) \in Tables
         /\ [table EXCEPT ![row.analyst][[pattern |-> row.pattern, label |-> label]] =
                Counted(@, row.pnl)] = WithCount(table, row, label)
<1> DEFINE b == row.analyst
           p == [pattern |-> row.pattern, label |-> label]
<1>1. \A c \in Counters : Counted(c, row.pnl) \in Counters
  BY DEF Counted, Counters, Outcome
<1>2. b \in LearnerSet /\ p \in Types
  BY DEF IsRow, Types
<1>3. WithCount(table, row, label) \in Tables
  BY <1>1, <1>2 DEF WithCount, Tables
<1>4. /\ table = [a \in LearnerSet |-> table[a]]
      /\ \A a \in LearnerSet : table[a] = [t \in Types |-> table[a][t]]
  BY DEF Tables
<1> HIDE DEF b, p
<1>5. [table EXCEPT ![b][p] = Counted(@, row.pnl)]
         = [a \in LearnerSet |-> [t \in Types |->
              IF a = b /\ t = p THEN Counted(table[a][t], row.pnl) ELSE table[a][t]]]
  <2> DEFINE inner == [t \in Types |-> IF t = p THEN Counted(table[b][t], row.pnl) ELSE table[b][t]]
  <2>1. [table[b] EXCEPT ![p] = Counted(@, row.pnl)] = inner
    BY <1>2, <1>4
  <2>2. [table EXCEPT ![b] = inner]
          = [a \in LearnerSet |-> IF a = b THEN inner ELSE table[a]]
    BY <1>2, <1>4
  <2>3. \A a \in LearnerSet : (IF a = b THEN inner ELSE table[a])
            = [t \in Types |-> IF a = b /\ t = p THEN Counted(table[a][t], row.pnl) ELSE table[a][t]]
    BY <1>2, <1>4
  <2> QED  BY <2>1, <2>2, <2>3
<1> QED  BY <1>3, <1>5 DEF WithCount, b, p

LEMMA CountNextKeeps ==
  ASSUME CountInv, LearningNext
  PROVE  CountInv'
<1> USE DEF NoTx
<1>1. CASE \E id \in {r.id : r \in trades} \cup {closes + 1}, a \in LearnerSet, p \in Patterns,
              l \in Labels, pnl \in Profits : InsertTrade(id, a, p, l, pnl)
  <2>1. PICK id \in {r.id : r \in trades} \cup {closes + 1}, a \in LearnerSet, p \in Patterns,
             l \in Labels, pnl \in Profits :
            InsertTrade(id, a, p, l, pnl)
    BY <1>1
  <2> DEFINE row == [id |-> id, analyst |-> a, pattern |-> p, pnl |-> pnl, recent |-> TRUE]
  <2>2. IsRow(row)
    BY LearningAssumption DEF IsRow
  <2>3. /\ tx' = [step |-> "counters", row |-> row, label |-> l,
                  trades |-> WithRow(trades, row), stats |-> stats]
        /\ UNCHANGED <<trades, stats, reclosed>>
    BY <2>1 DEF InsertTrade, Inserted
  <2> HIDE DEF row
  <2>4. TxInv'
    BY <2>2, <2>3 DEF TxInv, WithRow
  <2> QED  BY <2>3, <2>4 DEF CountInv, RowsInv
<1>2. CASE UpdateCounters
  <2>1. PICK row, label : /\ IsRow(row) /\ label \in Labels
                          /\ tx = [step |-> "counters", row |-> row, label |-> label,
                                   trades |-> WithRow(trades, row), stats |-> stats]
    BY <1>2 DEF UpdateCounters, CountInv, TxInv
  <2> DEFINE t == [pattern |-> row.pattern, label |-> label]
  <2>2. /\ tx' = [tx EXCEPT !.step = "commit", !.stats[row.analyst][t] = Counted(@, row.pnl)]
        /\ UNCHANGED <<trades, stats, reclosed>>
    BY <1>2, <2>1 DEF UpdateCounters
  <2> DEFINE counted == [stats EXCEPT ![row.analyst][t] = Counted(@, row.pnl)]
  <2>3. tx' = [step |-> "commit", row |-> row, label |-> label,
               trades |-> WithRow(trades, row), stats |-> counted]
    BY <2>1, <2>2
  <2>4. counted = WithCount(stats, row, label)
    BY <2>1, WithCountFits DEF CountInv, RowsInv
  <2> HIDE DEF counted
  <2>5. tx' = [step |-> "commit", row |-> row, label |-> label,
               trades |-> WithRow(trades', row), stats |-> WithCount(stats', row, label)]
    BY <2>2, <2>3, <2>4
  <2>6. TxInv'
    BY <2>1, <2>5 DEF TxInv
  <2> QED  BY <2>2, <2>6 DEF CountInv, RowsInv
<1>3. CASE Commit
  <2>1. PICK row, label : /\ IsRow(row) /\ label \in Labels
                          /\ tx = [step |-> "commit", row |-> row, label |-> label,
                                   trades |-> WithRow(trades, row), stats |-> WithCount(stats, row, label)]
    BY <1>3 DEF Commit, CountInv, TxInv
  <2>2. /\ trades' = WithRow(trades, row) /\ stats' = WithCount(stats, row, label) /\ tx' = NoTx
        /\ ~reclosed' => ~reclosed /\ ~\E r \in trades : r.id = row.id
    BY <1>3, <2>1 DEF Commit
  <2>3. RowsInv'
    BY <2>1, <2>2, WithRowFits, WithCountFits DEF CountInv, RowsInv
  <2>4. ~reclosed' => AddUp(trades', stats')
    BY <2>1, <2>2, WithRowFits, OneMoreAddsUp DEF CountInv, RowsInv
  <2> QED  BY <2>2, <2>3, <2>4 DEF CountInv, TxInv
<1>4. CASE WeekPasses
  <2>1. /\ tx = NoTx /\ trades' = {[r EXCEPT !.recent = FALSE] : r \in trades}
        /\ UNCHANGED <<stats, tx, reclosed>>
    BY <1>4 DEF WeekPasses
  <2> DEFINE rows == {Aged(r) : r \in trades}
  <2>2. /\ IsFiniteSet(rows)
        /\ \A r \in rows : IsRow(r)
        /\ \A r, s \in rows : r.id = s.id => r = s
        /\ AddUp(trades, stats) => AddUp(rows, stats)
    BY OldRowsAddUp DEF CountInv
  <2> HIDE DEF rows
  <2> QED  BY <2>1, <2>2 DEF rows, Aged, CountInv, RowsInv, TxInv
<1>5. CASE Rollback
  BY <1>5 DEF Rollback, CountInv, RowsInv, TxInv
<1>6. CASE RunEvaluation \/ ComputeStats \/ Split \/ ApplyChange \/ WriteReport \/ CrashEvaluation
  <2>1. UNCHANGED journal
    BY <1>6 DEF RunEvaluation, ComputeStats, Split, ApplyChange, WriteReport, CrashEvaluation
  <2> QED  BY <2>1 DEF journal, CountInv, RowsInv, TxInv
<1> QED  BY <1>1, <1>2, <1>3, <1>4, <1>5, <1>6 DEF LearningNext

LEMMA CountsStart ==
  ASSUME LearningInit
  PROVE  CountInv
<1>1. trades = {} /\ stats = [a \in LearnerSet |-> [t \in Types |-> NoCounts]] /\ tx = NoTx
  BY DEF LearningInit
<1>2. stats \in Tables
  BY <1>1 DEF Tables, Counters, NoCounts
<1>3. \A a \in LearnerSet : TableWins(stats, a) = 0 /\ TableLosses(stats, a) = 0
  <2>1. [t \in Types |-> 0] \in [Types -> Nat]
    OBVIOUS
  <2>2. SumFunction([t \in Types |-> 0]) = 0
    BY <2>1, TypesAreFinite, SumOfNothing
  <2>3. \A a \in LearnerSet : /\ [t \in Types |-> stats[a][t].wins] = [t \in Types |-> 0]
                              /\ [t \in Types |-> stats[a][t].losses] = [t \in Types |-> 0]
    BY <1>1 DEF NoCounts
  <2> QED  BY <2>2, <2>3 DEF TableWins, TableLosses
<1>4. \A a : WonRows(trades, a) = {} /\ DecidedRows(trades, a) = {}
  BY <1>1 DEF WonRows, DecidedRows
<1>5. Cardinality({}) = 0 /\ IsFiniteSet({})
  BY FS_EmptySet
<1>6. AddUp(trades, stats)
  BY <1>3, <1>4, <1>5 DEF AddUp
<1> QED  BY <1>1, <1>2, <1>5, <1>6 DEF CountInv, RowsInv, TxInv

LEMMA CountsAgree ==
  ASSUME CountInv
  PROVE  TablesAgree
<1> SUFFICES ASSUME ~reclosed, NEW a \in LearnerSet
    PROVE  /\ GetAnalystWinRate(a, 1) =
                IF DecidedRows(trades, a) = {} THEN {}
                ELSE {<<Cardinality(WonRows(trades, a)), Cardinality(DecidedRows(trades, a))>>}
           /\ \A t \in Types :
                ShouldRejectPattern(a, t) => Cardinality(DecidedRows(trades, a)) >= RejectMinTrades
  BY DEF TablesAgree, DecidedRows, WonRows
<1>1. /\ Cardinality(WonRows(trades, a)) = TableWins(stats, a)
      /\ Cardinality(DecidedRows(trades, a)) = TableWins(stats, a) + TableLosses(stats, a)
  BY DEF CountInv, AddUp
<1>2. Wins(a) = TableWins(stats, a) /\ Losses(a) = TableLosses(stats, a)
  BY DEF Wins, Losses, TableWins, TableLosses
<1> DEFINE w == [t \in Types |-> stats[a][t].wins]
           l == [t \in Types |-> stats[a][t].losses]
<1>3. w \in [Types -> Nat] /\ l \in [Types -> Nat]
  BY DEF CountInv, RowsInv, Tables, Counters
<1>4. \A f \in [Types -> Nat] : SumFunction(f) \in Nat /\ \A t \in Types : f[t] <= SumFunction(f)
  BY TypesAreFinite, SumBounds
<1>5. /\ TableWins(stats, a) \in Nat /\ TableLosses(stats, a) \in Nat
      /\ \A t \in Types : w[t] <= TableWins(stats, a) /\ l[t] <= TableLosses(stats, a)
  BY <1>3, <1>4 DEF TableWins, TableLosses
<1>6. DecidedRows(trades, a) = {} <=> Cardinality(DecidedRows(trades, a)) = 0
  <2>1. DecidedRows(trades, a) \subseteq trades
    BY DEF DecidedRows
  <2> QED  BY <2>1, FS_Subset, FS_EmptySet DEF CountInv, RowsInv
<1>7. GetAnalystWinRate(a, 1) =
         IF DecidedRows(trades, a) = {} THEN {}
         ELSE {<<Cardinality(WonRows(trades, a)), Cardinality(DecidedRows(trades, a))>>}
  BY <1>1, <1>2, <1>5, <1>6 DEF GetAnalystWinRate
<1>8. ASSUME NEW t \in Types, ShouldRejectPattern(a, t)
      PROVE  Cardinality(DecidedRows(trades, a)) >= RejectMinTrades
  <2>1. w[t] + l[t] >= RejectMinTrades /\ w[t] \in Nat /\ l[t] \in Nat
    BY <1>3, <1>8 DEF ShouldRejectPattern
  <2>2. RejectMinTrades \in Nat
    BY LearningAssumption
  <2> HIDE DEF w, l
  <2> QED  BY <1>1, <1>5, <2>1, <2>2
<1> QED  BY <1>7, <1>8

LEMMA CountsAlways == DeskSpec => []CountInv
<1>1. DeskInit => CountInv
  BY CountsStart DEF DeskInit
<1>2. CountInv /\ [DeskNext]_deskVars => CountInv'
  <2> SUFFICES ASSUME CountInv, [DeskNext]_deskVars PROVE CountInv'
    OBVIOUS
  <2>1. CASE LearningNext
    BY <2>1, CountNextKeeps
  <2>2. CASE UNCHANGED learningVars
    BY <2>2 DEF learningVars, CountInv, RowsInv, TxInv
  <2> QED
    BY <2>1, <2>2 DEF DeskNext, ControlStep, DiscordStep, LearningStep, ExitRulesStep,
                      AccountsStep, MarketStep, SocialStep, UwStep, deskVars
<1> QED
  BY <1>1, <1>2, PTL DEF DeskSpec

\* The counters that gate trades agree with the rows of the journal, for any
\* closes, profits, crashes and passing of weeks, until a position is recorded
\* twice (record_close).
THEOREM CountersAgree == DeskSpec => []TablesAgree
<1>1. CountInv => TablesAgree
  BY CountsAgree
<1> QED
  BY <1>1, CountsAlways, PTL

-----------------------------------------------------------------------------
(* The analysts that wake by the clock. *)

\* What was sent silences its key until the delay is over.
Hushed(signal, entries, time) ==
  \/ time >= signal.at + MarketDedupDelay
  \/ \E s \in entries : s.key = signal.key /\ s.until = signal.at + MarketDedupDelay

MarketInv ==
  /\ clock \in Nat
  /\ IsSequence(signals)
  /\ \A i \in DOMAIN signals : signals[i].at \in Nat /\ Hushed(signals[i], seen, clock)
  /\ MarketSignalsAreSpaced

\* Two sequences of whatever, one after the other.
LEMMA ConcatAny ==
  ASSUME NEW s, IsSequence(s), NEW n \in Nat, NEW t, IsSequence(t), DOMAIN t = 1..n
  PROVE  /\ IsSequence(s \o t)
         /\ Len(s) \in Nat
         /\ DOMAIN s = 1..Len(s) /\ DOMAIN (s \o t) = 1..(Len(s) + n)
         /\ \A i \in 1..Len(s) : (s \o t)[i] = s[i]
         /\ \A i \in 1..n : (s \o t)[Len(s) + i] = t[i]
<1>1. PICK S : s \in Seq(S)
  BY DEF IsSequence
<1>2. PICK T : t \in Seq(T)
  BY DEF IsSequence
<1>3. s \in Seq(S \cup T) /\ t \in Seq(S \cup T)
  BY <1>1, <1>2
<1>4. Len(t) = n /\ Len(t) \in Nat /\ Len(s) \in Nat
  BY <1>3
<1>5. s \o t \in Seq(S \cup T)
  BY <1>3
<1>6. Len(s \o t) = Len(s) + Len(t)
  BY <1>3
<1> QED
  BY <1>3, <1>4, <1>5, <1>6 DEF IsSequence

LEMMA PutSignalsKeeps ==
  ASSUME MarketInv, NEW keys, DOMAIN keys \subseteq Nat \ {0}, IsFiniteSet(DOMAIN keys),
         PutSignals(keys), UNCHANGED clock
  PROVE  MarketInv'
<1> DEFINE fresh == FreshKeys(keys)
           n == Cardinality(fresh)
<1>1. n \in Nat /\ fresh \subseteq DOMAIN keys
  BY FS_Subset, FS_CardinalityType DEF FreshKeys
<1>2. PICK order \in [1..n -> fresh] :
         /\ \A i, j \in DOMAIN order : i < j => order[i] < order[j]
         /\ signals' = signals \o [i \in DOMAIN order |-> [key |-> keys[order[i]], at |-> clock]]
         /\ seen' = seen \cup {[key |-> keys[i], until |-> clock + MarketDedupDelay] : i \in fresh}
  BY DEF PutSignals
<1>3. /\ \A i \in fresh : ~Silences(keys[i])
      /\ \A i, j \in fresh : j < i => keys[j] # keys[i]
  BY DEF FreshKeys
<1> HIDE DEF n, fresh
<1> DEFINE put == [i \in DOMAIN order |-> [key |-> keys[order[i]], at |-> clock]]
<1>4. /\ DOMAIN put = 1..n
      /\ \A i \in 1..n : put[i].key = keys[order[i]] /\ put[i].at = clock /\ order[i] \in fresh
  BY <1>2
<1>5. IsSequence(put)
  <2> DEFINE S == {[key |-> keys[order[i]], at |-> clock] : i \in 1..n}
  <2>1. put \in [1..n -> S]
    BY <1>2
  <2> HIDE DEF S, put
  <2>2. put \in Seq(S)
    BY <1>1, <2>1
  <2> QED
    BY <2>2 DEF IsSequence
<1> HIDE DEF put
<1>6. /\ IsSequence(signals')
      /\ Len(signals) \in Nat
      /\ DOMAIN signals = 1..Len(signals) /\ DOMAIN signals' = 1..(Len(signals) + n)
      /\ \A i \in 1..Len(signals) : signals'[i] = signals[i]
      /\ \A i \in 1..n : signals'[Len(signals) + i] = put[i]
  BY <1>1, <1>2, <1>4, <1>5, ConcatAny DEF put, MarketInv
<1>7. \A i \in DOMAIN signals' : i \in 1..Len(signals) \/ \E k \in 1..n : i = Len(signals) + k
  <2> SUFFICES ASSUME NEW i \in DOMAIN signals', i \notin 1..Len(signals)
               PROVE  i - Len(signals) \in 1..n /\ i = Len(signals) + (i - Len(signals))
    OBVIOUS
  <2> QED
    BY <1>1, <1>6
<1>8. ASSUME NEW i \in 1..Len(signals)
      PROVE  signals'[i].at \in Nat /\ Hushed(signals'[i], seen', clock')
  BY <1>2, <1>6, <1>8 DEF MarketInv, Hushed
<1>9. ASSUME NEW k \in 1..n
      PROVE  put[k].at \in Nat /\ Hushed(put[k], seen', clock')
  <2>1. /\ order[k] \in fresh /\ put[k].at = clock /\ put[k].key = keys[order[k]]
    BY <1>4
  <2>2. [key |-> keys[order[k]], until |-> clock + MarketDedupDelay] \in seen'
    BY <1>2, <2>1
  <2>3. \E s \in seen' : s.key = put[k].key /\ s.until = put[k].at + MarketDedupDelay
    BY <2>1, <2>2
  <2> QED
    BY <2>1, <2>3 DEF MarketInv, Hushed
<1>10. \A i \in DOMAIN signals' : signals'[i].at \in Nat /\ Hushed(signals'[i], seen', clock')
  BY <1>6, <1>7, <1>8, <1>9
<1>11. ASSUME NEW i \in 1..Len(signals), NEW k \in 1..n, signals[i].key = put[k].key
       PROVE  put[k].at >= signals[i].at + MarketDedupDelay
  <2>1. ~Silences(put[k].key)
    BY <1>3, <1>4
  <2>2. Hushed(signals[i], seen, clock)
    BY <1>6 DEF MarketInv
  <2> QED
    BY <1>4, <1>11, <2>1, <2>2 DEF Hushed, Silences
<1>12. ASSUME NEW k \in 1..n, NEW l \in 1..n, k < l
       PROVE  put[k].key # put[l].key
  <2>1. order[k] < order[l] /\ order[k] \in fresh /\ order[l] \in fresh
    BY <1>2, <1>12
  <2> QED
    BY <1>3, <1>4, <2>1
<1>13. MarketSignalsAreSpaced'
  <2> SUFFICES ASSUME NEW i \in DOMAIN signals', NEW j \in DOMAIN signals', i < j,
                      signals'[i].key = signals'[j].key
               PROVE  signals'[j].at >= signals'[i].at + MarketDedupDelay
    BY DEF MarketSignalsAreSpaced
  <2>1. CASE j \in 1..Len(signals)
    <3>1. i \in 1..Len(signals)
      BY <1>1, <1>6, <2>1
    <3> QED
      BY <1>6, <2>1, <3>1 DEF MarketInv, MarketSignalsAreSpaced
  <2>2. CASE \E l \in 1..n : j = Len(signals) + l
    <3>1. PICK l \in 1..n : j = Len(signals) + l
      BY <2>2
    <3>2. CASE i \in 1..Len(signals)
      BY <1>6, <1>11, <3>1, <3>2
    <3>3. CASE \E k \in 1..n : i = Len(signals) + k
      <4>1. PICK k \in 1..n : i = Len(signals) + k
        BY <3>3
      <4>2. k < l
        BY <1>1, <1>6, <3>1, <4>1
      <4> QED
        BY <1>6, <1>12, <3>1, <4>1, <4>2
    <3> QED
      BY <1>7, <3>2, <3>3
  <2> QED
    BY <1>7, <2>1, <2>2
<1> QED
  BY <1>6, <1>10, <1>13 DEF MarketInv

\* One key, or the keys of the best candidates.
LEMMA CycleKeys ==
  /\ \A key : DOMAIN <<key>> \subseteq Nat \ {0} /\ IsFiniteSet(DOMAIN <<key>>)
  /\ \A candidates \in Screens :
        LET top == FilterAndRank(candidates)
            keys == [i \in DOMAIN top |-> Key(top[i].symbol, top[i].expiry, top[i].side)]
        IN  DOMAIN keys \subseteq Nat \ {0} /\ IsFiniteSet(DOMAIN keys)
<1>1. \A key : DOMAIN <<key>> = {1}
  OBVIOUS
<1>2. IsFiniteSet({1})
  BY FS_Singleton
<1>3. ASSUME NEW candidates \in Screens
      PROVE  LET top == FilterAndRank(candidates)
             IN  DOMAIN top \subseteq Nat \ {0} /\ IsFiniteSet(DOMAIN top)
  <2> DEFINE passed == {i \in DOMAIN candidates : Len(Bullish(CandidateEvidence(candidates[i]))) = 5}
             m == Min({3, Cardinality(passed)})
  <2>1. Len(candidates) \in Nat /\ DOMAIN candidates = 1..Len(candidates)
    BY <1>3, MarketAssumption
  <2>2. IsFiniteSet(DOMAIN candidates) /\ passed \subseteq DOMAIN candidates
    BY <2>1, FS_Interval
  <2>3. Cardinality(passed) \in Nat
    BY <2>2, FS_Subset, FS_CardinalityType
  <2>4. m \in Int
    <3> HIDE DEF passed
    <3> QED
      BY <2>3, MinOfTwo
  <2>5. DOMAIN FilterAndRank(candidates) = 1..m
    BY DEF FilterAndRank
  <2> HIDE DEF m
  <2> QED
    BY <2>4, <2>5, FS_Interval
<1> QED
  BY <1>1, <1>2, <1>3

LEMMA MarketNextKeeps ==
  ASSUME MarketInv, MarketNext
  PROVE  MarketInv'
<1>1. CASE UNCHANGED <<seen, signals, clock>>
  BY <1>1 DEF MarketInv, MarketSignalsAreSpaced
<1>2. ASSUME NEW key, PutSignals(<<key>>), UNCHANGED clock
      PROVE  MarketInv'
  BY <1>2, CycleKeys, PutSignalsKeeps
<1>3. CASE Mag7Cycle \/ FlowCycle \/ TechnicalCycle
  BY <1>1, <1>2, <1>3 DEF Mag7Cycle, FlowCycle, TechnicalCycle, PutNothing
<1>4. CASE ScreenerCycle
  BY <1>4, CycleKeys, PutSignalsKeeps DEF ScreenerCycle
<1>5. ASSUME NEW s \in seen, ForgetKey(s)
      PROVE  MarketInv'
  <2>1. clock >= s.until /\ seen' = seen \ {s} /\ UNCHANGED <<signals, clock>>
    BY <1>5 DEF ForgetKey
  <2>2. \A i \in DOMAIN signals : Hushed(signals[i], seen', clock)
    BY <2>1 DEF MarketInv, Hushed
  <2> QED
    BY <2>1, <2>2 DEF MarketInv, MarketSignalsAreSpaced
<1>6. CASE MarketTick
  <2>1. clock' = clock + 1 /\ UNCHANGED <<seen, signals>>
    BY <1>6 DEF MarketTick
  <2>2. \A i \in DOMAIN signals : Hushed(signals[i], seen, clock')
    BY <2>1, MarketAssumption DEF MarketInv, Hushed
  <2> QED
    BY <2>1, <2>2 DEF MarketInv, MarketSignalsAreSpaced
<1>7. CASE WakeUp \/ FetchNothing \/ CycleRaises \/ FlipKillSwitch
  BY <1>1, <1>7 DEF WakeUp, FetchNothing, CycleRaises, FlipKillSwitch
<1> QED
  BY <1>3, <1>4, <1>5, <1>6, <1>7 DEF MarketNext

LEMMA MarketAlways == DeskSpec => []MarketInv
<1>1. DeskInit => MarketInv
  <2>1. IsSequence(<<>>)
    BY DEF IsSequence
  <2> QED
    BY <2>1 DEF DeskInit, MarketInit, MarketInv, MarketSignalsAreSpaced
<1>2. MarketInv /\ [DeskNext]_deskVars => MarketInv'
  <2> SUFFICES ASSUME MarketInv, [DeskNext]_deskVars PROVE MarketInv'
    OBVIOUS
  <2>1. CASE MarketNext
    BY <2>1, MarketNextKeeps
  <2>2. CASE UNCHANGED marketVars
    BY <2>2 DEF marketVars, MarketInv, MarketSignalsAreSpaced
  <2> QED
    BY <2>1, <2>2 DEF DeskNext, ControlStep, DiscordStep, LearningStep, ExitRulesStep,
                      AccountsStep, MarketStep, SocialStep, UwStep, deskVars
<1> QED
  BY <1>1, <1>2, PTL DEF DeskSpec

\* No analyst repeats a symbol, expiry and direction within the delay, for any
\* data, thresholds and intervals (_process).
THEOREM MarketStaysSpaced == DeskSpec => []MarketSignalsAreSpaced
<1>1. MarketInv => MarketSignalsAreSpaced
  BY DEF MarketInv
<1> QED
  BY <1>1, MarketAlways, PTL

-----------------------------------------------------------------------------
(* The analyst of what is said about companies. *)

DaysIn(base, t) == IF t \in DOMAIN base THEN base[t] ELSE NoDays

\* The days before this one that are not too old.
Recent(base, t, day) ==
  Restrict(DaysIn(base, t),
           {d \in DOMAIN DaysIn(base, t) : d < day /\ d >= day - BaselineDays})

\* Neither base knows a day that is yet to come.
NoFuture(base) == \A t : DOMAIN DaysIn(base, t) \subseteq {d \in Int : d <= today}

\* File and memory agree on the recent days, so a verdict of today may be found
\* again in the file.
SocialInv ==
  /\ today \in Int
  /\ NoFuture(baseline) /\ NoFuture(baselineFile)
  /\ scan.step \in {"gathering", "tickers", "details"} => loaded
  /\ \A v \in verdicts : v.day \in Int /\ v.day <= today
  /\ VerdictsAgree
  /\ ~unsaved =>
        /\ loaded => \A t : Recent(baseline, t, today) = Recent(baselineFile, t, today)
        /\ loaded /\ scan.step \notin {"gathering", "tickers", "details"} => baseline = baselineFile
        /\ \A v \in verdicts : v.day = today /\ ~v.old
              => v.spike = Exceeds(v.count, Recent(baselineFile, v.ticker, today))

LEMMA JudgeKeeps ==
  ASSUME SocialInv, NEW t, Judge(t)
  PROVE  SocialInv'
<1> DEFINE count == scan.reddit[t]
           spike == IsSpike(t, count)
           verdict == [ticker |-> t, day |-> today, count |-> count, spike |-> spike,
                       old |-> \E d \in DOMAIN DaysOf(t) : d < today - BaselineDays]
<1>1. /\ verdicts' = verdicts \cup {verdict}
      /\ UNCHANGED <<baseline, baselineFile, loaded, unsaved, today>>
      /\ scan.step = "tickers" /\ scan'.step = "details"
  BY DEF Judge, social
<1>2. ~verdict.old => PastDays(t) = {d \in DOMAIN DaysIn(baseline, t) : d < today /\ d >= today - BaselineDays}
  <2>1. DaysOf(t) = DaysIn(baseline, t)
    BY DEF DaysOf, DaysIn
  <2>2. DOMAIN DaysIn(baseline, t) \subseteq {d \in Int : d <= today}
    BY DEF SocialInv, NoFuture
  <2>3. verdict.old = \E d \in DOMAIN DaysOf(t) : d < today - BaselineDays
    OBVIOUS
  <2> HIDE DEF verdict
  <2>4. ~verdict.old => \A d \in DOMAIN DaysIn(baseline, t) : d >= today - BaselineDays
    BY <2>1, <2>2, <2>3, SocialAssumption DEF SocialInv
  <2> QED
    BY <2>1, <2>2, <2>4 DEF PastDays, SocialInv
<1>3. ~verdict.old => spike = Exceeds(count, Recent(baseline, t, today))
  BY <1>2 DEF IsSpike, DaysOf, DaysIn, Recent
<1>4. /\ verdict.ticker = t /\ verdict.day = today /\ verdict.count = count /\ verdict.spike = spike
      /\ today \in Int
  BY DEF SocialInv
<1> HIDE DEF verdict, spike, count
<1>5. ~unsaved => \A v \in verdicts' : v.day = today /\ ~v.old
                     => v.spike = Exceeds(v.count, Recent(baselineFile, v.ticker, today))
  BY <1>1, <1>3, <1>4 DEF SocialInv
<1>6. VerdictsAgree'
  <2> SUFFICES ASSUME NEW v \in verdicts', NEW w \in verdicts', v.ticker = w.ticker, v.day = w.day,
                      v.count = w.count, ~v.old, ~w.old, ~unsaved
               PROVE  v.spike = w.spike
    BY <1>1 DEF VerdictsAgree
  <2>1. CASE v \in verdicts /\ w \in verdicts
    BY <2>1 DEF SocialInv, VerdictsAgree
  <2>2. CASE v = verdict \/ w = verdict
    <3>1. v.day = today /\ w.day = today
      BY <1>4, <2>2
    <3> QED
      BY <1>5, <3>1
  <2> QED
    BY <1>1, <2>1, <2>2
<1> QED
  BY <1>1, <1>4, <1>5, <1>6 DEF SocialInv, NoFuture, Recent

\* A new count of today leaves the recent days as they were.
LEMMA DetailsKeeps ==
  ASSUME SocialInv, NEW trending, NEW volume, Details(trending, volume)
  PROVE  SocialInv'
<1> DEFINE t == scan.ticker
           count == scan.reddit[t]
           old == DaysIn(baseline, t)
           kept == {d \in DOMAIN old \cup {today} : d >= today - BaselineDays}
           new == DaysIn(baseline', t)
<1>1. /\ baseline' = UpdateBaseline(t, count)
      /\ UNCHANGED <<baselineFile, loaded, verdicts, unsaved, today>>
      /\ scan.step = "details" /\ scan'.step = "tickers"
  BY DEF Details, social
<1>2. /\ \A u : u # t => DaysIn(baseline', u) = DaysIn(baseline, u)
      /\ new = [d \in kept |-> IF d = today THEN count ELSE old[d]]
  BY <1>1 DEF UpdateBaseline, DaysOf, DaysIn, Restrict
<1> HIDE DEF count, new
<1>3. today \in Int /\ DOMAIN old \subseteq {d \in Int : d <= today} /\ BaselineDays \in Nat
  BY SocialAssumption DEF SocialInv, NoFuture
<1>4. /\ DOMAIN new = kept
      /\ \A d \in kept : d < today => new[d] = old[d] /\ d \in DOMAIN old
  BY <1>2, <1>3
<1>5. {d \in DOMAIN new : d < today /\ d >= today - BaselineDays}
         = {d \in DOMAIN old : d < today /\ d >= today - BaselineDays}
  BY <1>3, <1>4
<1>6. \A d \in {x \in DOMAIN old : x < today /\ x >= today - BaselineDays} : new[d] = old[d]
  BY <1>3, <1>4
<1>7. Restrict(new, {d \in DOMAIN new : d < today /\ d >= today - BaselineDays})
         = Restrict(old, {d \in DOMAIN old : d < today /\ d >= today - BaselineDays})
  BY <1>5, <1>6 DEF Restrict
<1>8. \A u : Recent(baseline', u, today') = Recent(baseline, u, today)
  BY <1>1, <1>2, <1>7 DEF Recent, new
<1>9. \A u : Recent(baselineFile', u, today') = Recent(baselineFile, u, today)
  BY <1>1 DEF Recent
<1>10. NoFuture(baseline)'
  <2>1. DOMAIN new \subseteq {d \in Int : d <= today}
    BY <1>3, <1>4
  <2> QED
    BY <1>1, <1>2, <2>1 DEF SocialInv, NoFuture, new
<1> HIDE DEF new, kept
<1> QED
  BY <1>1, <1>3, <1>8, <1>9, <1>10 DEF SocialInv, VerdictsAgree, NoFuture

\* The file is replaced by what is in memory, or the save failed for good.
LEMMA ConcludeKeeps ==
  ASSUME SocialInv, NEW written \in BOOLEAN, Conclude(written)
  PROVE  SocialInv'
<1>1. /\ scan.step = "tickers" /\ scan'.step \in {"price", "none"}
      /\ baselineFile' = IF written THEN baseline ELSE baselineFile
      /\ UNCHANGED <<baseline, loaded, today, verdicts>>
  BY DEF Conclude, NoScan
<1>2. unsaved' \/ (~unsaved /\ written)
  <2>1. unsaved' = (unsaved \/ ~written)
    BY DEF Conclude
  <2> QED
    BY <2>1
<1>3. loaded
  BY <1>1 DEF SocialInv
<1>4. CASE unsaved'
  BY <1>1, <1>3, <1>4 DEF SocialInv, NoFuture, VerdictsAgree
<1>5. CASE ~unsaved /\ written /\ ~unsaved'
  <2>1. baselineFile' = baseline /\ \A t : Recent(baseline, t, today) = Recent(baselineFile, t, today)
    BY <1>1, <1>3, <1>5 DEF SocialInv
  <2> QED
    BY <1>1, <1>3, <1>5, <2>1 DEF SocialInv, NoFuture, VerdictsAgree
<1> QED
  BY <1>2, <1>4, <1>5

LEMMA SocialNextKeeps ==
  ASSUME SocialInv, SocialNext
  PROVE  SocialInv'
<1>1. CASE StartScan
  <2>1. /\ scan = NoScan /\ scan'.step = "gathering" /\ loaded'
        /\ baseline' = IF loaded THEN baseline ELSE baselineFile
        /\ UNCHANGED <<baselineFile, today, verdicts, unsaved>>
    BY <1>1 DEF StartScan
  <2> QED
    BY <2>1 DEF SocialInv, NoFuture, VerdictsAgree
<1>2. ASSUME NEW reddit, NEW sentiment, SourcesAnswered(reddit, sentiment)
      PROVE  SocialInv'
  <2>1. /\ scan.step = "gathering" /\ scan'.step = "tickers"
        /\ UNCHANGED <<baseline, baselineFile, loaded, today, verdicts, unsaved>>
    BY <1>2 DEF SourcesAnswered, social
  <2> QED
    BY <2>1 DEF SocialInv, NoFuture, VerdictsAgree
<1>3. ASSUME NEW t, PassOver(t)
      PROVE  SocialInv'
  <2>1. /\ scan.step = "tickers" /\ scan'.step = "tickers"
        /\ UNCHANGED <<baseline, baselineFile, loaded, today, verdicts, unsaved>>
    BY <1>3 DEF PassOver, social
  <2> QED
    BY <2>1 DEF SocialInv, NoFuture, VerdictsAgree
<1>4. ASSUME NEW t, Judge(t)
      PROVE  SocialInv'
  BY <1>4, JudgeKeeps
<1>5. ASSUME NEW trending, NEW volume, Details(trending, volume)
      PROVE  SocialInv'
  BY <1>5, DetailsKeeps
<1>6. ASSUME NEW written \in BOOLEAN, Conclude(written)
      PROVE  SocialInv'
  BY <1>6, ConcludeKeeps
<1>7. ASSUME NEW priced, ContractSelected(priced)
      PROVE  SocialInv'
  <2>1. /\ scan.step = "price" /\ scan'.step = "none"
        /\ UNCHANGED <<baseline, baselineFile, loaded, today, verdicts, unsaved>>
    BY <1>7 DEF ContractSelected, NoScan
  <2> QED
    BY <2>1 DEF SocialInv, NoFuture, VerdictsAgree
<1>8. CASE NextDay
  <2>1. /\ scan = NoScan /\ today' = today + 1
        /\ UNCHANGED <<baseline, baselineFile, loaded, scan, verdicts, unsaved>>
    BY <1>8 DEF NextDay
  <2>2. NoFuture(baseline)' /\ NoFuture(baselineFile)'
    BY <2>1 DEF SocialInv, NoFuture
  <2>3. \A v \in verdicts : v.day \in Int /\ v.day <= today' /\ v.day # today'
    BY <2>1 DEF SocialInv
  <2>4. ~unsaved /\ loaded => baseline = baselineFile
    BY <2>1 DEF SocialInv, NoScan
  <2> QED
    BY <2>1, <2>2, <2>3, <2>4 DEF SocialInv, VerdictsAgree
<1>9. CASE RestartAnalyst
  <2>1. /\ ~loaded' /\ scan'.step = "none" /\ \A t : DaysIn(baseline', t) = NoDays
        /\ UNCHANGED <<baselineFile, today, verdicts, unsaved>>
    BY <1>9 DEF RestartAnalyst, NoScan, DaysIn
  <2>2. NoFuture(baseline)'
    BY <2>1 DEF NoFuture, NoDays
  <2> QED
    BY <2>1, <2>2 DEF SocialInv, NoFuture, VerdictsAgree
<1> QED
  BY <1>1, <1>2, <1>3, <1>4, <1>5, <1>6, <1>7, <1>8, <1>9 DEF SocialNext

LEMMA SocialAlways == DeskSpec => []SocialInv
<1>1. DeskInit => SocialInv
  BY DEF DeskInit, SocialInit, NoDays, NoScan, SocialInv, NoFuture, DaysIn, VerdictsAgree
<1>2. SocialInv /\ [DeskNext]_deskVars => SocialInv'
  <2> SUFFICES ASSUME SocialInv, [DeskNext]_deskVars PROVE SocialInv'
    OBVIOUS
  <2>1. CASE SocialNext
    BY <2>1, SocialNextKeeps
  <2>2. CASE UNCHANGED socialVars
    BY <2>2 DEF socialVars, SocialInv, NoFuture, VerdictsAgree
  <2> QED
    BY <2>1, <2>2 DEF DeskNext, ControlStep, DiscordStep, LearningStep, ExitRulesStep,
                      AccountsStep, MarketStep, SocialStep, UwStep, deskVars
<1> QED
  BY <1>1, <1>2, PTL DEF DeskSpec

\* Scans of one day agree, for any counts, any days of baseline and any restarts
\* (_is_spike, _update_baseline).
THEOREM ScansAgree == DeskSpec => []VerdictsAgree
<1>1. SocialInv => VerdictsAgree
  BY DEF SocialInv
<1> QED
  BY <1>1, SocialAlways, PTL

-----------------------------------------------------------------------------
(* The control files. *)

Names == {names \in SUBSET Staff : IsFiniteSet(names)}
Bits == {names \in SUBSET {"active"} : IsFiniteSet(names)}

\* What a program may be in, by the file that it writes.
OnPauses == [act : {"pause", "resume"}, step : {"empty", "write"}, names : Names]
OnKill == [act : {"kill"}, step : {"empty", "write"}, names : {{"active"}}]
          \cup [act : {"clear"}, step : {"empty", "write"}, names : {{}}]

ControlTyped ==
  /\ killFile \in [size : Nat, json : BOOLEAN, names : Bits]
  /\ pausedFile \in [size : Nat, json : BOOLEAN, names : Names]
  /\ doing \in [Writers -> {Nothing} \cup OnPauses \cup OnKill]
  /\ standing \in BOOLEAN /\ disturbed \in BOOLEAN
  /\ decreed \in Names

\* A file that a kill is in stays longer than the text of a clear.
KillInv == standing => IsBlocked /\ killFile.size >= 2

\* Of undisturbed commands one at most is on the file of pauses, it writes what
\* was decreed, and no other text is under the write.
PausesInv ==
  ~disturbed =>
     /\ \A w \in Writers : Pausing(doing[w]) =>
           /\ ~Pausing(doing[Other(w)])
           /\ doing[w].names = decreed
           /\ doing[w].step = "write" => pausedFile = NoText
     /\ PausesAreKept

\* Sizes of the texts.
LEMMA TextSizes ==
  ASSUME NEW names, IsFiniteSet(names)
  PROVE  /\ Text(names) = [size |-> 1 + Cardinality(names), json |-> TRUE, names |-> names]
         /\ Cardinality(names) \in Nat
BY FS_CardinalityType DEF Text

LEMMA KillSizes ==
  /\ Text({}) = [size |-> 1, json |-> TRUE, names |-> {}]
  /\ Text({"active"}) = [size |-> 2, json |-> TRUE, names |-> {"active"}]
  /\ {} \in Bits /\ {"active"} \in Bits /\ {} \in Names
<1>1. Cardinality({}) = 0 /\ IsFiniteSet({})
  BY FS_EmptySet
<1>2. Cardinality({"active"}) = 1 /\ IsFiniteSet({"active"})
  BY FS_Singleton
<1>3. {} \in Bits /\ {"active"} \in Bits /\ {} \in Names
  BY <1>1, <1>2 DEF Bits, Names
<1>4. 1 + Cardinality({}) = 1 /\ 1 + Cardinality({"active"}) = 2
  BY <1>1, <1>2
<1>5. Text({}) = [size |-> 1, json |-> TRUE, names |-> {}]
  BY <1>4 DEF Text
<1>6. Text({"active"}) = [size |-> 2, json |-> TRUE, names |-> {"active"}]
  BY <1>4 DEF Text
<1> QED
  BY <1>3, <1>5, <1>6

LEMMA NamesChange ==
  ASSUME NEW names \in Names, NEW a \in Staff
  PROVE  names \cup {a} \in Names /\ names \ {a} \in Names
BY FS_AddElement, FS_RemoveElement DEF Names

\* The other program.
LEMMA TwoWriters ==
  ASSUME NEW w \in Writers
  PROVE  Other(w) \in Writers /\ Other(w) # w /\ Other(Other(w)) = w
         /\ \A v \in Writers : v = w \/ v = Other(w)
BY DEF Writers, Other

\* What a program that begins is in.
LEMMA BeginTyped ==
  ASSUME ControlTyped, NEW w \in Writers, NEW c \in Commands \cup DashboardOnly, Begin(w, c)
  PROVE  /\ doing' \in [Writers -> {Nothing} \cup OnPauses \cup OnKill]
         /\ disturbed' \in BOOLEAN /\ decreed' \in Names
         /\ LoadPaused \in Names
<1>1. LoadPaused \in Names
  BY KillSizes DEF LoadPaused, ControlTyped
<1>2. CASE c.act \in {"pause", "resume"}
  <2>1. c.analyst \in Staff
    BY <1>2 DEF Commands, DashboardOnly
  <2>2. Paused(c, LoadPaused) \in Names /\ Decreed(c) \in Names
    BY <1>1, <2>1, NamesChange DEF Paused, Decreed, ControlTyped
  <2> DEFINE d == [act |-> c.act, step |-> "empty", names |-> Paused(c, LoadPaused)]
  <2>3. d \in OnPauses
    BY <1>2, <2>2 DEF OnPauses
  <2>4. doing' = [doing EXCEPT ![w] = d] /\ decreed' = Decreed(c)
    BY <1>2 DEF Begin, Pausing
  <2> QED
    BY <1>1, <2>2, <2>3, <2>4 DEF Begin, ControlTyped
<1>3. CASE c.act \in {"kill", "clear"}
  <2> DEFINE d == [act |-> c.act, step |-> "empty", names |-> IF c.act = "kill" THEN {"active"} ELSE {}]
  <2>1. d \in OnKill
    BY <1>3 DEF OnKill
  <2>2. doing' = [doing EXCEPT ![w] = d] /\ decreed' = decreed
    BY <1>3 DEF Begin, Pausing
  <2> QED
    BY <1>1, <2>1, <2>2 DEF Begin, ControlTyped
<1>4. CASE c.act = "other"
  BY <1>1, <1>4 DEF Begin, Pausing, ControlTyped
<1> QED
  BY <1>2, <1>3, <1>4 DEF Commands, DashboardOnly

\* What a write leaves in a file.
LEMMA OverwrittenTyped ==
  ASSUME NEW S, NEW old \in [size : Nat, json : BOOLEAN, names : S], {} \in S,
         NEW names \in S, IsFiniteSet(names)
  PROVE  /\ Overwritten(old, Text(names)) \in [size : Nat, json : BOOLEAN, names : S]
         /\ old.size = 0 => Overwritten(old, Text(names)) = Text(names)
<1>1. /\ Text(names) = [size |-> 1 + Cardinality(names), json |-> TRUE, names |-> names]
      /\ 1 + Cardinality(names) \in Nat /\ 1 + Cardinality(names) > 0
  BY TextSizes
<1>2. Text(names) \in [size : Nat, json : BOOLEAN, names : S] /\ Text(names).size > 0
  BY <1>1
<1> DEFINE cut == [old EXCEPT !.json = FALSE, !.names = {}]
<1>3. cut \in [size : Nat, json : BOOLEAN, names : S]
  OBVIOUS
<1>4. /\ Overwritten(old, Text(names)) \in {cut, Text(names)}
      /\ ~(old.size > Text(names).size) => Overwritten(old, Text(names)) = Text(names)
  BY DEF Overwritten
<1>5. old.size = 0 => ~(old.size > Text(names).size)
  BY <1>2
<1> HIDE DEF cut
<1> QED
  BY <1>2, <1>3, <1>4, <1>5

LEMMA ControlStepTyped ==
  ASSUME ControlTyped, ControlNext, updates \in Seq(Commands),
         \A i \in DOMAIN batch : batch[i] \in DOMAIN updates,
         batch # <<>> => Head(batch) \in DOMAIN updates
  PROVE  ControlTyped'
<1>1. CASE \E c \in Commands : SendUpdate(c)
  BY <1>1 DEF SendUpdate, ControlTyped
<1>2. CASE \E c \in Commands \cup DashboardOnly : DashboardRequest(c)
  <2>1. PICK c \in Commands \cup DashboardOnly : DashboardRequest(c)
    BY <1>2
  <2>2. Begin("dashboard", c) /\ UNCHANGED <<killFile, pausedFile, standing>>
    BY <2>1 DEF DashboardRequest
  <2> QED
    BY <2>2, BeginTyped DEF ControlTyped, Writers
<1>3. CASE GetUpdates
  BY <1>3 DEF GetUpdates, ControlTyped
<1>4. CASE HandleUpdate
  <2>1. updates[Head(batch)] \in Commands
    BY <1>4 DEF HandleUpdate
  <2>2. Begin("bot", updates[Head(batch)]) /\ UNCHANGED <<killFile, pausedFile, standing>>
    BY <1>4 DEF HandleUpdate
  <2> QED
    BY <2>1, <2>2, BeginTyped DEF ControlTyped, Writers
<1>5. CASE HandlerRaises
  BY <1>5 DEF HandlerRaises, ControlTyped
<1>6. ASSUME NEW w \in Writers, CrashWriter(w)
      PROVE  ControlTyped'
  BY <1>6 DEF CrashWriter, ControlTyped
<1>7. ASSUME NEW w \in Writers, Truncate(w)
      PROVE  ControlTyped'
  <2>1. doing' = [doing EXCEPT ![w].step = "write"] /\ doing[w] \in OnPauses \cup OnKill
    BY <1>7 DEF Truncate, ControlTyped
  <2>2. [doing[w] EXCEPT !.step = "write"] \in OnPauses \cup OnKill
    BY <2>1 DEF OnPauses, OnKill
  <2>3. doing' \in [Writers -> {Nothing} \cup OnPauses \cup OnKill]
    BY <2>1, <2>2 DEF ControlTyped
  <2>4. NoText \in [size : Nat, json : BOOLEAN, names : Bits]
        /\ NoText \in [size : Nat, json : BOOLEAN, names : Names]
    BY KillSizes DEF NoText
  <2> QED
    BY <1>7, <2>3, <2>4 DEF Truncate, ControlTyped
<1>8. ASSUME NEW w \in Writers, Write(w)
      PROVE  ControlTyped'
  <2>1. doing[w] \in OnPauses \cup OnKill
    BY <1>8 DEF Write, ControlTyped
  <2>2. CASE Pausing(doing[w])
    <3>1. doing[w].names \in Names /\ IsFiniteSet(doing[w].names)
      BY <2>1, <2>2 DEF OnPauses, OnKill, Pausing, Names
    <3>2. pausedFile' \in [size : Nat, json : BOOLEAN, names : Names]
      BY <1>8, <2>2, <3>1, OverwrittenTyped, KillSizes DEF Write, ControlTyped
    <3> QED
      BY <1>8, <2>2, <3>2 DEF Write, ControlTyped
  <2>3. CASE ~Pausing(doing[w])
    <3>1. doing[w].names \in {{}, {"active"}}
      BY <2>1, <2>3 DEF OnPauses, OnKill, Pausing
    <3>2. doing[w].names \in Bits /\ IsFiniteSet(doing[w].names) /\ {} \in Bits
      BY <3>1, KillSizes DEF Bits
    <3>3. killFile' \in [size : Nat, json : BOOLEAN, names : Bits]
      BY <1>8, <2>3, <3>2, OverwrittenTyped DEF Write, ControlTyped
    <3> QED
      BY <1>8, <2>3, <3>3 DEF Write, ControlTyped
  <2> QED
    BY <2>2, <2>3
<1> QED
  BY <1>1, <1>2, <1>3, <1>4, <1>5, <1>6, <1>7, <1>8 DEF ControlNext

LEMMA KillStep ==
  ASSUME ControlTyped, KillInv, ControlNext
  PROVE  KillInv'
<1> SUFFICES ASSUME standing' PROVE IsBlocked' /\ killFile'.size >= 2
  BY DEF KillInv
<1>1. CASE UNCHANGED <<killFile, standing>>
  BY <1>1 DEF KillInv, IsBlocked
<1>2. ASSUME NEW w \in Writers, Truncate(w), ~UNCHANGED <<killFile, standing>>
      PROVE  FALSE
  BY <1>2 DEF Truncate
<1>3. ASSUME NEW w \in Writers, Write(w), ~UNCHANGED <<killFile, standing>>
      PROVE  IsBlocked' /\ killFile'.size >= 2
  <2>1. /\ ~Pausing(doing[w]) /\ doing[w] \in OnPauses \cup OnKill
        /\ killFile' = Overwritten(killFile, Text(doing[w].names))
        /\ standing' = (standing \/ doing[w].act = "kill")
    BY <1>3 DEF Write, ControlTyped
  <2>2. \/ doing[w].act = "kill" /\ doing[w].names = {"active"}
        \/ doing[w].act = "clear" /\ doing[w].names = {} /\ standing
    BY <2>1 DEF OnPauses, OnKill, Pausing
  <2> DEFINE cut == [killFile EXCEPT !.json = FALSE, !.names = {}]
  <2>3. cut.size = killFile.size /\ cut.json = FALSE /\ killFile.size \in Nat
    BY DEF ControlTyped
  <2>4. CASE doing[w].names = {"active"}
    <3>1. CASE killFile.size > 2
      <4>1. killFile' = cut
        BY <2>1, <2>4, <3>1, KillSizes DEF Overwritten
      <4> QED
        BY <2>3, <3>1, <4>1 DEF IsBlocked
    <3>2. CASE ~(killFile.size > 2)
      <4>1. killFile' = Text({"active"})
        BY <2>1, <2>4, <3>2, KillSizes DEF Overwritten
      <4> QED
        BY <4>1, KillSizes DEF IsBlocked
    <3> QED
      BY <3>1, <3>2
  <2>5. CASE doing[w].names = {} /\ standing
    <3>1. killFile.size >= 2 /\ killFile.size > 1
      BY <2>3, <2>5 DEF KillInv
    <3>2. killFile' = cut
      BY <2>1, <2>5, <3>1, KillSizes DEF Overwritten
    <3> QED
      BY <2>3, <3>1, <3>2 DEF IsBlocked
  <2> QED
    BY <2>2, <2>4, <2>5
<1>4. UNCHANGED <<killFile, standing>> \/ \E w \in Writers : Truncate(w) \/ Write(w)
  BY DEF ControlNext, SendUpdate, DashboardRequest, GetUpdates, HandleUpdate, HandlerRaises, CrashWriter
<1> QED
  BY <1>1, <1>2, <1>3, <1>4

-----------------------------------------------------------------------------
(* The pauses. *)

\* What no step touches of the file of pauses.
LEMMA PausesUntouched ==
  ASSUME PausesInv, UNCHANGED <<pausedFile, decreed>>, disturbed => disturbed',
         \A w \in Writers : \/ doing'[w] = doing[w]
                            \/ (~Pausing(doing[w]) /\ ~Pausing(doing'[w]))
                            \/ disturbed'
  PROVE  PausesInv'
<1> SUFFICES ASSUME ~disturbed' PROVE PausesInv'
  BY DEF PausesInv
<1>1. \A w \in Writers : /\ Pausing(doing'[w]) <=> Pausing(doing[w])
                         /\ Pausing(doing[w]) => doing'[w] = doing[w]
  OBVIOUS
<1> QED
  BY <1>1, TwoWriters DEF PausesInv, PausesAreKept, LoadPaused

LEMMA PausesBegin ==
  ASSUME ControlTyped, PausesInv, NEW w \in Writers, NEW c \in Commands \cup DashboardOnly,
         Begin(w, c), UNCHANGED pausedFile
  PROVE  PausesInv'
<1>1. CASE ~Pausing(c)
  BY <1>1, PausesUntouched DEF Begin, ControlTyped, Pausing, Nothing
<1>2. CASE Pausing(c)
  <2> SUFFICES ASSUME ~disturbed' PROVE PausesInv'
    BY DEF PausesInv
  <2>1. ~disturbed /\ ~Pausing(doing[Other(w)]) /\ ~Pausing(doing[w])
    <3>1. disturbed' = (disturbed \/ (Pausing(c) /\ Pausing(doing[Other(w)]))) /\ doing[w] = Nothing
      BY DEF Begin
    <3>2. ~Pausing(Nothing)
      BY DEF Pausing, Nothing
    <3> QED
      BY <1>2, <3>1, <3>2
  <2>2. LoadPaused = decreed
    BY <2>1, TwoWriters DEF PausesInv, PausesAreKept
  <2>3. decreed' = Decreed(c) /\ Decreed(c) = Paused(c, LoadPaused)
    BY <1>2, <2>2 DEF Begin, Decreed, Paused
  <2>4. /\ doing'[w] = [act |-> c.act, step |-> "empty", names |-> Paused(c, LoadPaused)]
        /\ doing'[Other(w)] = doing[Other(w)]
    BY <1>2, TwoWriters DEF Begin, Pausing, ControlTyped
  <2>5. Pausing(doing'[w]) /\ doing'[w].names = decreed' /\ doing'[w].step = "empty"
        /\ ~Pausing(doing'[Other(w)])
    BY <1>2, <2>1, <2>3, <2>4 DEF Pausing
  <2> QED
    BY <2>5, TwoWriters DEF PausesInv, PausesAreKept
<1> QED
  BY <1>1, <1>2

LEMMA PausesStep ==
  ASSUME ControlTyped, PausesInv, ControlNext, updates \in Seq(Commands),
         batch # <<>> => Head(batch) \in DOMAIN updates
  PROVE  PausesInv'
<1>1. CASE (\E c \in Commands : SendUpdate(c)) \/ GetUpdates
  BY <1>1, PausesUntouched DEF SendUpdate, GetUpdates
<1>2. CASE \E c \in Commands \cup DashboardOnly : DashboardRequest(c)
  BY <1>2, PausesBegin DEF DashboardRequest, Writers
<1>3. CASE HandleUpdate
  <2>1. updates[Head(batch)] \in Commands /\ Begin("bot", updates[Head(batch)])
    BY <1>3 DEF HandleUpdate
  <2> QED
    BY <1>3, <2>1, PausesBegin DEF HandleUpdate, Writers
<1>4. CASE HandlerRaises
  <2>1. \A w \in Writers : \/ doing'[w] = doing[w]
                            \/ (~Pausing(doing[w]) /\ ~Pausing(doing'[w]))
                            \/ disturbed'
    <3>1. /\ disturbed' = (disturbed \/ Pausing(doing["bot"]))
          /\ doing'["bot"] = Nothing /\ doing'["dashboard"] = doing["dashboard"]
      BY <1>4 DEF HandlerRaises, ControlTyped, Writers
    <3>2. ~Pausing(doing'["bot"])
      BY <3>1 DEF Pausing, Nothing
    <3>3. disturbed' \/ ~Pausing(doing["bot"])
      BY <3>1
    <3>4. doing'["dashboard"] = doing["dashboard"]
      BY <3>1
    <3>5. \/ doing'["bot"] = doing["bot"]
          \/ (~Pausing(doing["bot"]) /\ ~Pausing(doing'["bot"]))
          \/ disturbed'
      BY <3>2, <3>3
    <3> QED
      BY <3>4, <3>5 DEF Writers
  <2> QED
    BY <1>4, <2>1, PausesUntouched DEF HandlerRaises, ControlTyped
<1>5. ASSUME NEW w \in Writers, CrashWriter(w)
      PROVE  PausesInv'
  <2>1. \A v \in Writers : \/ doing'[v] = doing[v]
                            \/ (~Pausing(doing[v]) /\ ~Pausing(doing'[v]))
                            \/ disturbed'
    <3>1. /\ disturbed' = (disturbed \/ w = "bot" \/ Pausing(doing[w]))
          /\ doing'[w] = Nothing /\ \A v \in Writers : v # w => doing'[v] = doing[v]
      BY <1>5 DEF CrashWriter, ControlTyped
    <3>2. ~Pausing(doing'[w])
      BY <3>1 DEF Pausing, Nothing
    <3>3. disturbed' \/ ~Pausing(doing[w])
      BY <3>1
    <3>4. \A v \in Writers : v # w => doing'[v] = doing[v]
      BY <3>1
    <3>5. \/ doing'[w] = doing[w]
          \/ (~Pausing(doing[w]) /\ ~Pausing(doing'[w]))
          \/ disturbed'
      BY <3>2, <3>3
    <3> QED
      BY <3>4, <3>5
  <2> QED
    BY <1>5, <2>1, PausesUntouched DEF CrashWriter, ControlTyped
<1>6. ASSUME NEW w \in Writers, Truncate(w)
      PROVE  PausesInv'
  <2> DEFINE d == [doing[w] EXCEPT !.step = "write"]
  <2>1. /\ doing' = [doing EXCEPT ![w] = d]
        /\ doing[w] \in OnPauses \cup OnKill
        /\ d.act = doing[w].act /\ d.names = doing[w].names
    BY <1>6 DEF Truncate, ControlTyped, OnPauses, OnKill
  <2>2. doing'[w] = d /\ \A v \in Writers : v # w => doing'[v] = doing[v]
    BY <2>1 DEF ControlTyped
  <2>3. CASE ~Pausing(doing[w])
    <3>1. ~Pausing(doing'[w])
      BY <2>1, <2>2, <2>3 DEF Pausing
    <3> QED
      BY <1>6, <2>2, <2>3, <3>1, PausesUntouched DEF Truncate
  <2>4. CASE Pausing(doing[w])
    <3>1. Pausing(doing'[w]) /\ doing'[w].names = doing[w].names
      BY <2>1, <2>2, <2>4 DEF Pausing
    <3>2. UNCHANGED <<decreed, disturbed>> /\ pausedFile' = NoText
      BY <1>6, <2>4 DEF Truncate
    <3>3. ~disturbed => ~Pausing(doing[Other(w)]) /\ doing[w].names = decreed
      BY <2>4 DEF PausesInv
    <3>4. doing'[Other(w)] = doing[Other(w)]
      BY <2>2, TwoWriters
    <3> QED
      BY <3>1, <3>2, <3>3, <3>4, TwoWriters DEF PausesInv, PausesAreKept
  <2> QED
    BY <2>3, <2>4
<1>7. ASSUME NEW w \in Writers, Write(w)
      PROVE  PausesInv'
  <2>1. /\ doing' = [doing EXCEPT ![w] = Nothing]
        /\ doing[w] \in OnPauses \cup OnKill /\ doing[w].step = "write"
        /\ UNCHANGED <<decreed, disturbed>>
    BY <1>7 DEF Write, ControlTyped
  <2>2. doing'[w] = Nothing /\ ~Pausing(Nothing) /\ \A v \in Writers : v # w => doing'[v] = doing[v]
    BY <2>1 DEF ControlTyped, Pausing, Nothing
  <2>3. CASE ~Pausing(doing[w])
    BY <1>7, <2>1, <2>2, <2>3, PausesUntouched DEF Write
  <2>4. CASE Pausing(doing[w])
    <3> SUFFICES ASSUME ~disturbed PROVE PausesInv'
      BY <2>1 DEF PausesInv
    <3>1. /\ ~Pausing(doing[Other(w)])
          /\ doing[w].names = decreed /\ pausedFile = NoText
      BY <2>1, <2>4 DEF PausesInv
    <3>2. pausedFile' = Overwritten(NoText, Text(decreed))
      BY <1>7, <2>4, <3>1 DEF Write
    <3>3. IsFiniteSet(decreed) /\ decreed \in Names /\ {} \in Names
      BY KillSizes DEF ControlTyped, Names
    <3>4. NoText \in [size : Nat, json : BOOLEAN, names : Names] /\ NoText.size = 0
      BY <3>3 DEF NoText
    <3>5. pausedFile' = Text(decreed)
      BY <3>2, <3>3, <3>4, OverwrittenTyped
    <3>6. pausedFile'.json = TRUE /\ pausedFile'.names = decreed'
      BY <2>1, <3>3, <3>5, TextSizes
    <3>7. \A v \in Writers : ~Pausing(doing'[v])
      BY <2>2, <3>1, TwoWriters
    <3> QED
      BY <3>6, <3>7 DEF PausesInv, PausesAreKept, LoadPaused
  <2> QED
    BY <2>3, <2>4
<1> QED
  BY <1>1, <1>2, <1>3, <1>4, <1>5, <1>6, <1>7 DEF ControlNext

-----------------------------------------------------------------------------
(* The bot's poll. *)

\* What is in hand is still with Telegram; what is neither handled nor in hand
\* will be in the next batch, or in the first one after a restart.
PollInv ==
  /\ updates \in Seq(Commands)
  /\ confirmed \in 0..Len(updates) /\ lastUpdate \in 0..Len(updates)
  /\ batch \in Seq(Nat)
  /\ \A k \in DOMAIN batch : batch[k] \in DOMAIN updates /\ batch[k] > confirmed
  /\ doing["bot"] # Nothing => batch # <<>>
  /\ \A i \in DOMAIN updates :
        \/ i \in answered \cup dropped
        \/ i \in Range(batch)
        \/ (i > confirmed /\ i > lastUpdate)

\* The head of a batch and what is behind it are all of the batch.
LEMMA HeadAndTail ==
  ASSUME NEW S, NEW s \in Seq(S), s # <<>>
  PROVE  /\ Head(s) \in S /\ Tail(s) \in Seq(S) /\ 1 \in DOMAIN s /\ Head(s) = s[1]
         /\ \A k \in DOMAIN Tail(s) : k + 1 \in DOMAIN s /\ Tail(s)[k] = s[k + 1]
         /\ Range(s) = {Head(s)} \cup Range(Tail(s))
<1>1. /\ Head(s) \in S /\ Tail(s) \in Seq(S) /\ 1 \in DOMAIN s /\ Head(s) = s[1]
      /\ DOMAIN s = 1..Len(s) /\ Len(s) \in Nat /\ Len(Tail(s)) = Len(s) - 1
      /\ DOMAIN Tail(s) = 1..(Len(s) - 1)
  OBVIOUS
<1>2. \A k \in DOMAIN Tail(s) : k + 1 \in DOMAIN s /\ Tail(s)[k] = s[k + 1]
  OBVIOUS
<1>3. \A k \in DOMAIN s : k = 1 \/ (k - 1 \in DOMAIN Tail(s) /\ Tail(s)[k - 1] = s[k])
  BY <1>1, <1>2
<1>4. Range(s) \subseteq {Head(s)} \cup Range(Tail(s))
  BY <1>1, <1>3 DEF Range
<1>5. {Head(s)} \cup Range(Tail(s)) \subseteq Range(s)
  BY <1>1, <1>2 DEF Range
<1> QED
  BY <1>1, <1>2, <1>4, <1>5

\* A fetch returns all that comes from its offset on and was not confirmed.
LEMMA PendingIsAll ==
  ASSUME updates \in Seq(Commands), confirmed \in Nat, NEW offset \in Nat
  PROVE  /\ Pending(offset) \in Seq(Nat)
         /\ Range(Pending(offset)) = {i \in DOMAIN updates : i >= offset /\ i > confirmed}
         /\ Pending(offset) # <<>> => Last(Pending(offset)) \in DOMAIN updates
<1> DEFINE first == IF offset > confirmed THEN offset ELSE confirmed + 1
           m == Len(updates) - first + 1
<1>1. /\ first \in Nat /\ m \in Int /\ Len(updates) \in Nat
      /\ \A i \in Int : i >= first <=> (i >= offset /\ i > confirmed)
      /\ DOMAIN updates = 1..Len(updates)
      /\ Pending(offset) = [k \in 1..m |-> first + k - 1]
  BY DEF Pending
<1>2. m = Len(updates) - first + 1
  OBVIOUS
<1> HIDE DEF first, m
<1>3. \A k \in 1..m : first + k - 1 \in Nat /\ first + k - 1 >= first /\ first + k - 1 <= Len(updates) /\ first + k - 1 >= 1
  BY <1>1, <1>2
<1>4. Pending(offset) \in Seq(Nat)
  <2>1. CASE m \in Nat
    BY <1>1, <1>3, <2>1
  <2>2. CASE m < 0
    <3>1. 1..m = 1..0
      BY <1>1, <2>2
    <3> QED
      BY <1>1, <1>3, <3>1
  <2> QED
    BY <1>1, <2>1, <2>2
<1>5. \A i \in DOMAIN updates : i >= first => i - first + 1 \in 1..m /\ first + (i - first + 1) - 1 = i
  BY <1>1, <1>2
<1>6. Range(Pending(offset)) = {i \in DOMAIN updates : i >= first}
  BY <1>1, <1>3, <1>5 DEF Range
<1>7. Pending(offset) # <<>> => Last(Pending(offset)) \in Range(Pending(offset))
  BY <1>4 DEF Last, Range
<1>8. {i \in DOMAIN updates : i >= first} = {i \in DOMAIN updates : i >= offset /\ i > confirmed}
  <2>1. ASSUME NEW i \in DOMAIN updates
        PROVE  i >= first <=> (i >= offset /\ i > confirmed)
    <3>1. i \in Int
      BY <1>1
    <3> QED
      BY <1>1, <3>1
  <2> QED
    BY <2>1
<1> QED
  BY <1>4, <1>6, <1>7, <1>8

LEMMA PollFetch ==
  ASSUME PollInv, GetUpdates
  PROVE  PollInv'
<1> DEFINE offset == lastUpdate + 1
           results == Pending(offset)
<1>0. lastUpdate \in Nat /\ confirmed \in Nat /\ Len(updates) \in Nat /\ updates \in Seq(Commands)
  BY DEF PollInv
<1>1. /\ offset \in Nat /\ offset - 1 = lastUpdate
      /\ batch = <<>> /\ doing["bot"] = Nothing
      /\ UNCHANGED <<doing, updates, answered, dropped>>
      /\ confirmed' = IF lastUpdate > confirmed THEN lastUpdate ELSE confirmed
      /\ batch' = results
      /\ lastUpdate' = IF results = <<>> THEN lastUpdate ELSE Last(results)
  BY <1>0 DEF GetUpdates, ConfirmedBy
<1>2. /\ results \in Seq(Nat)
      /\ Range(results) = {i \in DOMAIN updates : i >= offset /\ i > confirmed}
      /\ results # <<>> => Last(results) \in DOMAIN updates
  BY <1>0, <1>1, PendingIsAll
<1> HIDE DEF results
<1>3. /\ confirmed' \in 0..Len(updates) /\ lastUpdate' \in 0..Len(updates)
      /\ \A i \in Nat : i >= offset /\ i > confirmed => i > confirmed'
      /\ \A i \in Nat : i > confirmed /\ i > lastUpdate => i >= offset
  BY <1>0, <1>1, <1>2 DEF PollInv
<1>4. ASSUME NEW k \in DOMAIN results
      PROVE  results[k] \in DOMAIN updates /\ results[k] > confirmed'
  <2>1. results[k] \in Range(results)
    BY DEF Range
  <2> QED
    <3>1. results[k] \in DOMAIN updates /\ results[k] >= offset /\ results[k] > confirmed
      BY <1>2, <2>1
    <3>2. results[k] \in Nat
      BY <3>1 DEF PollInv
    <3> QED
      BY <1>3, <3>1, <3>2
<1>5. ASSUME NEW i \in DOMAIN updates, i \notin answered \cup dropped
      PROVE  i \in Range(results)
  <2>1. i \notin Range(batch)
    BY <1>1 DEF Range
  <2>2. i \in Nat /\ i > confirmed /\ i > lastUpdate
    BY <1>5, <2>1 DEF PollInv
  <2> QED
    BY <1>2, <1>3, <2>2
<1> QED
  BY <1>1, <1>2, <1>3, <1>4, <1>5 DEF PollInv

\* The bot is done with the first of its batch.
LEMMA PollAnswers ==
  ASSUME PollInv, batch # <<>>, batch' = Tail(batch), answered' = answered \cup {Head(batch)},
         doing'["bot"] = Nothing, UNCHANGED <<updates, confirmed, lastUpdate, dropped>>
  PROVE  PollInv'
<1>1. /\ Tail(batch) \in Seq(Nat)
      /\ \A k \in DOMAIN Tail(batch) : k + 1 \in DOMAIN batch /\ Tail(batch)[k] = batch[k + 1]
      /\ Range(batch) = {Head(batch)} \cup Range(Tail(batch))
  BY HeadAndTail DEF PollInv
<1>2. \A k \in DOMAIN batch' : batch'[k] \in DOMAIN updates /\ batch'[k] > confirmed
  BY <1>1 DEF PollInv
<1>3. \A i \in DOMAIN updates : i \in Range(batch) => i \in answered' \/ i \in Range(batch')
  BY <1>1
<1>4. batch' \in Seq(Nat) /\ answered \subseteq answered'
  BY <1>1
<1> QED
  BY <1>2, <1>3, <1>4 DEF PollInv

\* The bot begins a command, or goes on with it.
LEMMA PollBusy ==
  ASSUME PollInv, batch # <<>> \/ doing'["bot"] = doing["bot"] \/ doing'["bot"] = Nothing,
         UNCHANGED <<updates, confirmed, lastUpdate, batch, answered, dropped>>
  PROVE  PollInv'
BY DEF PollInv

LEMMA PollStep ==
  ASSUME ControlTyped, PollInv, ControlNext
  PROVE  PollInv'
<1>1. ASSUME NEW c \in Commands, SendUpdate(c)
      PROVE  PollInv'
  <2>1. /\ updates' = Append(updates, c) /\ updates' \in Seq(Commands)
        /\ DOMAIN updates = 1..Len(updates) /\ Len(updates) \in Nat
        /\ DOMAIN updates' = 1..(Len(updates) + 1)
        /\ UNCHANGED <<doing, confirmed, lastUpdate, batch, answered, dropped>>
    BY <1>1 DEF SendUpdate, PollInv
  <2> QED
    BY <2>1 DEF PollInv
<1>2. ASSUME NEW c \in Commands \cup DashboardOnly, DashboardRequest(c)
      PROVE  PollInv'
  <2>1. doing'["bot"] = doing["bot"]
    BY <1>2 DEF DashboardRequest, Begin, ControlTyped, Writers
  <2> QED
    BY <1>2, <2>1, PollBusy DEF DashboardRequest, telegram
<1>3. CASE GetUpdates
  BY <1>3, PollFetch
<1>4. CASE HandleUpdate
  <2>1. CASE updates[Head(batch)].act = "other"
    <3>1. doing'["bot"] = Nothing
      BY <1>4, <2>1 DEF HandleUpdate, Begin, ControlTyped, Writers
    <3> QED
      BY <1>4, <2>1, <3>1, PollAnswers DEF HandleUpdate
  <2>2. CASE updates[Head(batch)].act # "other"
    BY <1>4, <2>2, PollBusy DEF HandleUpdate
  <2> QED
    BY <2>1, <2>2
<1>5. CASE HandlerRaises
  <2>1. doing'["bot"] = Nothing
    BY <1>5 DEF HandlerRaises, ControlTyped, Writers
  <2>2. batch' = <<>> /\ <<>> \in Seq(Nat)
    BY <1>5 DEF HandlerRaises
  <2> QED
    BY <1>5, <2>1, <2>2 DEF HandlerRaises, PollInv
<1>6. ASSUME NEW w \in Writers, Truncate(w)
      PROVE  PollInv'
  <2>1. UNCHANGED <<updates, confirmed, lastUpdate, batch, answered, dropped>>
    BY <1>6 DEF Truncate, telegram
  <2>2. batch # <<>> \/ doing'["bot"] = doing["bot"]
    BY <1>6 DEF Truncate, ControlTyped, Writers, PollInv
  <2> QED
    BY <2>1, <2>2, PollBusy
<1>7. ASSUME NEW w \in Writers, Write(w)
      PROVE  PollInv'
  <2>1. CASE w = "bot"
    <3>1. doing'["bot"] = Nothing /\ batch # <<>>
      BY <1>7, <2>1 DEF Write, ControlTyped, PollInv
    <3> QED
      BY <1>7, <2>1, <3>1, PollAnswers DEF Write
  <2>2. CASE w # "bot"
    <3>1. doing'["bot"] = doing["bot"]
      BY <1>7, <2>2 DEF Write, ControlTyped, Writers
    <3> QED
      BY <1>7, <2>2, <3>1, PollBusy DEF Write
  <2> QED
    BY <2>1, <2>2
<1>8. ASSUME NEW w \in Writers, CrashWriter(w)
      PROVE  PollInv'
  <2>1. CASE w # "bot"
    <3>1. doing'["bot"] = doing["bot"]
      BY <1>8, <2>1 DEF CrashWriter, ControlTyped, Writers
    <3> QED
      BY <1>8, <2>1, <3>1, PollBusy DEF CrashWriter
  <2>2. CASE w = "bot"
    <3>1. /\ doing'["bot"] = Nothing /\ batch' = <<>> /\ lastUpdate' = 0
          /\ UNCHANGED <<updates, confirmed, answered, dropped>>
      BY <1>8, <2>2 DEF CrashWriter, ControlTyped
    <3>2. \A i \in Range(batch) : i > confirmed
      BY DEF PollInv, Range
    <3>3. <<>> \in Seq(Nat) /\ DOMAIN <<>> = {} /\ 0 \in Nat
      OBVIOUS
    <3>4. \A i \in DOMAIN updates : i \in answered \cup dropped \/ (i > confirmed /\ i > 0)
      BY <3>2 DEF PollInv
    <3> QED
      BY <3>1, <3>3, <3>4 DEF PollInv
  <2> QED
    BY <2>1, <2>2
<1> QED
  BY <1>1, <1>2, <1>3, <1>4, <1>5, <1>6, <1>7, <1>8 DEF ControlNext

-----------------------------------------------------------------------------
(* The files and the poll together. *)

ControlInv == ControlTyped /\ KillInv /\ PausesInv /\ PollInv

LEMMA ControlStart == ControlInit => ControlInv
<1> SUFFICES ASSUME ControlInit PROVE ControlInv
  OBVIOUS
<1>1. ControlTyped
  <2>1. NoText \in [size : Nat, json : BOOLEAN, names : Bits]
    BY KillSizes DEF NoText
  <2>2. \A S : {} \in S => [size |-> 1, json |-> TRUE, names |-> {}] \in [size : Nat, json : BOOLEAN, names : S]
    OBVIOUS
  <2>3. \A S : {"active"} \in S =>
           [size |-> 2, json |-> TRUE, names |-> {"active"}] \in [size : Nat, json : BOOLEAN, names : S]
    OBVIOUS
  <2>4. /\ Text({}) \in [size : Nat, json : BOOLEAN, names : Bits]
        /\ Text({}) \in [size : Nat, json : BOOLEAN, names : Names]
    BY <2>2, KillSizes
  <2>5. Text({"active"}) \in [size : Nat, json : BOOLEAN, names : Bits]
    BY <2>3, KillSizes
  <2> QED
    BY <2>1, <2>4, <2>5, KillSizes DEF ControlInit, ControlTyped
<1>2. KillInv
  BY DEF ControlInit, KillInv
<1>3. PausesInv
  <2>1. LoadPaused = {}
    BY KillSizes DEF ControlInit, LoadPaused
  <2> QED
    BY <2>1 DEF ControlInit, PausesInv, PausesAreKept, Pausing, Nothing
<1>4. PollInv
  BY DEF ControlInit, PollInv, Writers
<1> QED
  BY <1>1, <1>2, <1>3, <1>4 DEF ControlInv

LEMMA ControlNextKeeps ==
  ASSUME ControlInv, ControlNext
  PROVE  ControlInv'
<1>1. batch # <<>> => Head(batch) \in DOMAIN updates
  <2>1. batch # <<>> => 1 \in DOMAIN batch /\ Head(batch) = batch[1]
    BY HeadAndTail DEF ControlInv, PollInv
  <2> QED
    BY <2>1 DEF ControlInv, PollInv
<1>2. updates \in Seq(Commands) /\ \A i \in DOMAIN batch : batch[i] \in DOMAIN updates
  BY DEF ControlInv, PollInv
<1> QED
  BY <1>1, <1>2, ControlStepTyped, KillStep, PausesStep, PollStep DEF ControlInv

LEMMA ControlStutter == ControlInv /\ UNCHANGED controlVars => ControlInv'
BY DEF controlVars, ControlInv, ControlTyped, KillInv, IsBlocked, PausesInv, PausesAreKept,
       LoadPaused, PollInv

LEMMA ControlAlways == DeskSpec => []ControlInv
<1>1. DeskInit => ControlInv
  BY ControlStart DEF DeskInit
<1>2. ControlInv /\ [DeskNext]_deskVars => ControlInv'
  <2> SUFFICES ASSUME ControlInv, [DeskNext]_deskVars PROVE ControlInv'
    OBVIOUS
  <2>1. CASE ControlNext
    BY <2>1, ControlNextKeeps
  <2>2. CASE UNCHANGED controlVars
    BY <2>2, ControlStutter
  <2> QED
    BY <2>1, <2>2 DEF DeskNext, ControlStep, DiscordStep, LearningStep, ExitRulesStep,
                      AccountsStep, MarketStep, SocialStep, UwStep, deskVars
<1> QED
  BY <1>1, <1>2, PTL DEF DeskSpec

\* A kill that was written blocks until the next command on the file begins, for
\* any commands of the two programs and any crashes (set_blocked, set_healthy).
THEOREM KillHolds == DeskSpec => []KillStands
<1>1. ControlInv => KillStands
  BY DEF ControlInv, KillInv, KillStands
<1> QED
  BY <1>1, ControlAlways, PTL

\* No command is lost by a restart of the bot, for any commands and any crashes
\* (_get_updates, run_polling).
THEOREM CommandsSurvive == DeskSpec => []NoCommandLostByCrash
<1>1. ControlInv => NoCommandLostByCrash
  BY DEF ControlInv, PollInv, NoCommandLostByCrash
<1> QED
  BY <1>1, ControlAlways, PTL

\* The file of pauses says what the undisturbed commands say, for any analysts
\* and any commands of the two programs (_cmd_pause, pause_analyst).
THEOREM PausesHold == DeskSpec => []PausesAreKept
<1>1. ControlInv => PausesAreKept
  BY DEF ControlInv, PausesInv, PausesAreKept
<1> QED
  BY <1>1, ControlAlways, PTL

-----------------------------------------------------------------------------
(* The fan-out over accounts. *)

\* An order is among an answer's results.
AnsweredTo(o) ==
  \E r \in answers : /\ r.kind = o.kind /\ r.signal = o.signal
                     /\ o.account \in DOMAIN r.results /\ r.results[o.account].outcome = "order"

\* A call under way with the account's order among what it holds; the account
\* will not be asked again.
HeldFor(o) ==
  /\ fanOuts[o.kind].signal = o.signal
  /\ o.account \in DOMAIN fanOuts[o.kind].results
  /\ o.account \notin fanOuts[o.kind].waiting
  /\ fanOuts[o.kind].results[o.account].outcome = "order"

Traceable(o) ==
  /\ o.kind \in Kinds /\ o.kind # "positions"
  /\ AnsweredTo(o) \/ HeldFor(o) \/ o \in lost

\* A single call is of one account.
SoundFanOut(call) ==
  /\ call.waiting \subseteq DOMAIN call.results
  /\ call.single => \A a, b \in DOMAIN call.results : a = b

AccountsInv ==
  /\ \A k \in Kinds : SoundFanOut(fanOuts[k])
  /\ DOMAIN fanOuts = Kinds
  /\ \A o \in taken : Traceable(o)

\* What idles holds nothing.
LEMMA IdleHolds ==
  ASSUME NEW o, fanOuts[o.kind] = Idle
  PROVE  ~HeldFor(o)
BY DEF HeldFor, Idle, Call

LEMMA AccountsBegin ==
  ASSUME AccountsInv, NEW kind \in Kinds, fanOuts[kind] = Idle, NEW call,
         SoundFanOut(call),
         fanOuts' = [fanOuts EXCEPT ![kind] = call], UNCHANGED <<taken, lost, answers>>
  PROVE  AccountsInv'
<1>1. /\ DOMAIN fanOuts' = Kinds
      /\ \A k \in Kinds : fanOuts'[k] = IF k = kind THEN call ELSE fanOuts[k]
  BY DEF AccountsInv
<1>2. ASSUME NEW o \in taken
      PROVE  Traceable(o)'
  <2>1. Traceable(o)
    BY DEF AccountsInv
  <2>2. CASE o.kind = kind
    BY <2>1, <2>2, IdleHolds DEF Traceable, AnsweredTo
  <2>3. CASE o.kind # kind
    <3>1. fanOuts'[o.kind] = fanOuts[o.kind]
      BY <1>1, <2>1, <2>3 DEF Traceable
    <3> QED
      BY <2>1, <3>1 DEF Traceable, AnsweredTo, HeldFor
  <2> QED
    BY <2>2, <2>3
<1>3. \A k \in Kinds : SoundFanOut(fanOuts'[k])
  BY <1>1 DEF AccountsInv
<1> QED
  BY <1>1, <1>2, <1>3 DEF AccountsInv

\* An account answers; an order that it took is in its answer or lost with it.
LEMMA AccountsAnswer ==
  ASSUME AccountsInv, NEW kind \in Kinds, NEW a \in fanOuts[kind].waiting, NEW result,
         Answered(kind, a, result), UNCHANGED answers, lost \subseteq lost',
         \/ UNCHANGED taken
         \/ /\ kind # "positions" /\ taken' = taken \cup {OrderOf(kind, a)}
            /\ result.outcome = "order" \/ OrderOf(kind, a) \in lost'
  PROVE  AccountsInv'
<1> DEFINE old == fanOuts[kind]
           new == [old EXCEPT !.waiting = @ \ {a}, !.results[a] = result]
<1>1. /\ DOMAIN fanOuts' = Kinds
      /\ \A k \in Kinds : k # kind => fanOuts'[k] = fanOuts[k]
  BY DEF AccountsInv, Answered
<1>2. /\ a \in DOMAIN old.results /\ old.waiting \subseteq DOMAIN old.results
      /\ old.single => \A b, c \in DOMAIN old.results : b = c
  BY DEF AccountsInv, SoundFanOut
<1>3. /\ fanOuts'[kind].signal = old.signal /\ fanOuts'[kind].single = old.single
      /\ fanOuts'[kind].waiting = old.waiting \ {a}
      /\ DOMAIN fanOuts'[kind].results = DOMAIN old.results
      /\ fanOuts'[kind].results[a] = result
      /\ \A b \in DOMAIN old.results : b # a => fanOuts'[kind].results[b] = old.results[b]
  BY <1>2 DEF AccountsInv, Answered
<1> DEFINE order == [account |-> a, kind |-> kind, signal |-> old.signal]
<1>4. \A o \in taken' : \/ o \in taken
                        \/ o = order /\ kind # "positions" /\ (result.outcome = "order" \/ o \in lost')
  BY DEF OrderOf
<1>5. order.account = a /\ order.kind = kind /\ order.signal = old.signal
  OBVIOUS
<1> HIDE DEF old, order
<1>6. ASSUME NEW o \in taken'
      PROVE  Traceable(o)'
  <2>1. CASE o \in taken
    <3>1. Traceable(o)
      BY <2>1 DEF AccountsInv
    <3>2. CASE AnsweredTo(o) \/ o \in lost
      BY <3>1, <3>2 DEF Traceable, AnsweredTo
    <3>3. CASE HeldFor(o) /\ o.kind # kind
      <4>1. fanOuts'[o.kind] = fanOuts[o.kind]
        BY <1>1, <3>1, <3>3 DEF Traceable
      <4> QED
        BY <3>1, <3>3, <4>1 DEF Traceable, HeldFor
    <3>4. CASE HeldFor(o) /\ o.kind = kind
      <4>1. /\ old.signal = o.signal /\ o.account \in DOMAIN old.results
            /\ o.account \notin old.waiting /\ old.results[o.account].outcome = "order"
        BY <3>4 DEF HeldFor, old
      <4>2. o.account # a
        BY <4>1 DEF old
      <4>3. HeldFor(o)'
        BY <1>3, <3>4, <4>1, <4>2 DEF HeldFor
      <4> QED
        BY <3>1, <4>3 DEF Traceable
    <3> QED
      BY <3>1, <3>2, <3>3, <3>4 DEF Traceable
  <2>2. CASE o = order /\ kind # "positions" /\ o \in lost'
    BY <1>5, <2>2 DEF Traceable
  <2>3. CASE o = order /\ kind # "positions" /\ result.outcome = "order"
    <3>1. HeldFor(o)'
      BY <1>2, <1>3, <1>5, <2>3 DEF HeldFor
    <3> QED
      BY <1>5, <2>3, <3>1 DEF Traceable
  <2> QED
    BY <1>4, <2>1, <2>2, <2>3
<1>7. \A k \in Kinds : SoundFanOut(fanOuts'[k])
  <2>1. SoundFanOut(fanOuts'[kind])
    BY <1>2, <1>3 DEF SoundFanOut
  <2> QED
    BY <1>1, <2>1 DEF AccountsInv
<1> QED
  BY <1>1, <1>6, <1>7 DEF AccountsInv

\* A call ends with an answer that keeps the orders which the call held, or with
\* none if it held none.
LEMMA AccountsEnd ==
  ASSUME AccountsInv, NEW kind \in Kinds, fanOuts' = [fanOuts EXCEPT ![kind] = Idle],
         UNCHANGED <<taken, lost>>, answers \subseteq answers',
         NEW answer, answer.kind = kind, answer.signal = fanOuts[kind].signal,
         \A a \in DOMAIN fanOuts[kind].results :
            fanOuts[kind].results[a].outcome = "order" =>
               \/ kind = "positions"
               \/ /\ answer \in answers' /\ a \in DOMAIN answer.results
                  /\ answer.results[a].outcome = "order"
  PROVE  AccountsInv'
<1>1. /\ DOMAIN fanOuts' = Kinds /\ fanOuts'[kind] = Idle
      /\ \A k \in Kinds : k # kind => fanOuts'[k] = fanOuts[k]
  BY DEF AccountsInv
<1>2. ASSUME NEW o \in taken
      PROVE  Traceable(o)'
  <2>1. Traceable(o)
    BY DEF AccountsInv
  <2>2. CASE AnsweredTo(o) \/ o \in lost
    BY <2>1, <2>2 DEF Traceable, AnsweredTo
  <2>3. CASE HeldFor(o) /\ o.kind # kind
    <3>1. fanOuts'[o.kind] = fanOuts[o.kind]
      BY <1>1, <2>1, <2>3 DEF Traceable
    <3> QED
      BY <2>1, <2>3, <3>1 DEF Traceable, HeldFor
  <2>4. CASE HeldFor(o) /\ o.kind = kind
    <3>1. AnsweredTo(o)'
      BY <2>1, <2>4 DEF Traceable, HeldFor, AnsweredTo
    <3> QED
      BY <2>1, <3>1 DEF Traceable
  <2> QED
    BY <2>1, <2>2, <2>3, <2>4 DEF Traceable
<1>3. \A k \in Kinds : SoundFanOut(fanOuts'[k])
  BY <1>1 DEF AccountsInv, SoundFanOut, Idle, Call
<1> QED
  BY <1>1, <1>2, <1>3 DEF AccountsInv

LEMMA AccountsGathered ==
  ASSUME AccountsInv, NEW kind \in Kinds, Gathered(kind)
  PROVE  AccountsInv'
<1> DEFINE call == fanOuts[kind]
           answer == [kind |-> kind, signal |-> call.signal, results |-> Collected(call.results)]
<1>1. /\ fanOuts' = [fanOuts EXCEPT ![kind] = Idle] /\ UNCHANGED <<taken, lost>>
      /\ kind # "positions" => answers' = answers \cup {answer}
      /\ answers \subseteq answers'
  BY DEF Gathered
<1>2. answer.kind = kind /\ answer.signal = call.signal /\ answer.results = Collected(call.results)
  OBVIOUS
<1>3. \A a \in DOMAIN call.results : call.results[a].outcome = "order" =>
         a \in DOMAIN Collected(call.results) /\ Collected(call.results)[a].outcome = "order"
  BY DEF Collected
<1> HIDE DEF answer
<1> QED
  BY <1>1, <1>2, <1>3, AccountsEnd

\* A call in one account has no order to hide when it raised.
LEMMA AccountsReturned ==
  ASSUME AccountsInv, Returned
  PROVE  AccountsInv'
<1> DEFINE call == fanOuts["close"]
           answer == [kind |-> "close", signal |-> call.signal, results |-> call.results]
<1>1. /\ fanOuts' = [fanOuts EXCEPT !["close"] = Idle] /\ UNCHANGED <<taken, lost>>
      /\ answers \subseteq answers' /\ "close" \in Kinds
      /\ \/ answers' = answers \cup {answer}
         \/ \E a \in DOMAIN call.results : call.results[a].outcome = "raised"
  BY DEF Returned, Kinds
<1>2. answer.kind = "close" /\ answer.signal = call.signal /\ answer.results = call.results
  OBVIOUS
<1> HIDE DEF answer
<1>3. \A a \in DOMAIN call.results : call.results[a].outcome = "order" => answer \in answers'
  <2>1. call.single => \A a, b \in DOMAIN call.results : a = b
    BY <1>1 DEF AccountsInv, SoundFanOut
  <2> QED
    BY <1>1, <2>1 DEF Returned
<1> QED
  BY <1>1, <1>2, <1>3, AccountsEnd

LEMMA AccountsNextKeeps ==
  ASSUME AccountsInv, AccountsNext
  PROVE  AccountsInv'
<1>1. ASSUME NEW kind \in Kinds, NEW s, FanOut(kind, s)
      PROVE  AccountsInv'
  BY <1>1, AccountsBegin DEF FanOut, Call, SoundFanOut
<1>2. ASSUME NEW a \in AccountIds, NEW s \in SignalIds, CloseInAccount(a, s)
      PROVE  AccountsInv'
  BY <1>2, AccountsBegin DEF CloseInAccount, Kinds, Call, SoundFanOut
<1>3. ASSUME NEW kind \in Kinds, NEW a \in AccountIds, Accepts(kind, a)
      PROVE  AccountsInv'
  <2> DEFINE result == Result("order", {})
  <2>1. result.outcome = "order"
    BY DEF Result
  <2>2. /\ a \in fanOuts[kind].waiting /\ kind # "positions" /\ Answered(kind, a, result)
        /\ UNCHANGED <<answers, lost>> /\ taken' = taken \cup {OrderOf(kind, a)}
    BY <1>3 DEF Accepts
  <2> HIDE DEF result
  <2> QED
    BY <2>1, <2>2, AccountsAnswer
<1>4. ASSUME NEW kind \in Kinds, NEW a \in AccountIds, Repeats(kind, a) \/ Declines(kind, a)
      PROVE  AccountsInv'
  BY <1>4, AccountsAnswer DEF Repeats, Declines
<1>5. ASSUME NEW kind \in Kinds, NEW a \in AccountIds, RaisesIn(kind, a)
      PROVE  AccountsInv'
  BY <1>5, AccountsAnswer DEF RaisesIn
<1>6. ASSUME NEW a \in AccountIds, Fetches(a)
      PROVE  AccountsInv'
  BY <1>6, AccountsAnswer DEF Fetches, Kinds
<1>7. ASSUME NEW kind \in Kinds, Gathered(kind)
      PROVE  AccountsInv'
  BY <1>7, AccountsGathered
<1>8. {"execute", "close", "positions"} \subseteq Kinds
  BY DEF Kinds
<1> QED
  BY <1>1, <1>2, <1>3, <1>4, <1>5, <1>6, <1>7, <1>8, AccountsReturned DEF AccountsNext

LEMMA AccountsAlways == DeskSpec => []AccountsInv
<1>1. DeskInit => AccountsInv
  BY DEF DeskInit, AccountsInit, AccountsInv, SoundFanOut, Idle, Call
<1>2. AccountsInv /\ [DeskNext]_deskVars => AccountsInv'
  <2> SUFFICES ASSUME AccountsInv, [DeskNext]_deskVars PROVE AccountsInv'
    OBVIOUS
  <2>1. CASE AccountsNext
    BY <2>1, AccountsNextKeeps
  <2>2. CASE UNCHANGED accountVars
    BY <2>2 DEF accountVars, AccountsInv, Traceable, AnsweredTo, HeldFor
  <2> QED
    BY <2>1, <2>2 DEF DeskNext, ControlStep, DiscordStep, LearningStep, ExitRulesStep,
                      AccountsStep, MarketStep, SocialStep, UwStep, deskVars
<1> QED
  BY <1>1, <1>2, PTL DEF DeskSpec

\* No order of an account, simulated or at the broker, is hidden by the failure of
\* another, for any accounts and any calls at once (execute_signal,
\* close_position_all, close_position_in_account).
THEOREM OrdersShow == DeskSpec => []NoOrderHidden
<1>1. AccountsInv => NoOrderHidden
  BY DEF AccountsInv, Traceable, AnsweredTo, HeldFor, NoOrderHidden
<1> QED
  BY <1>1, AccountsAlways, PTL

-----------------------------------------------------------------------------
(* The exit rules. *)

ExitsInv ==
  /\ exits \in Seq([analyst : Traders, hold : Nat, agreed : BOOLEAN, pnl : {0}])
  /\ RuleIsOrdered

\* Finitely many numbers have a bound.
LEMMA HoldsAreBounded ==
  ASSUME NEW n \in Nat, NEW f \in [1..n -> Nat]
  PROVE  \E b \in Nat : \A j \in 1..n : f[j] <= b
<1> DEFINE S == {m \in Nat : m <= n => \E b \in Nat : \A j \in 1..m : f[j] <= b}
<1>1. 0 \in S
  OBVIOUS
<1>2. ASSUME NEW m \in Nat, m \in S  PROVE m + 1 \in S
  <2>1. CASE m + 1 <= n
    <3>1. PICK b \in Nat : \A j \in 1..m : f[j] <= b
      BY <1>2, <2>1
    <3>2. m + 1 \in 1..n /\ f[m + 1] \in Nat
      BY <2>1
    <3>3. b + f[m + 1] \in Nat /\ \A j \in 1..(m + 1) : f[j] <= b + f[m + 1]
      <4>1. \A j \in 1..(m + 1) : j \in 1..m \/ j = m + 1
        OBVIOUS
      <4>2. \A j \in 1..m : f[j] \in Nat
        BY <2>1
      <4> QED  BY <3>1, <3>2, <4>1, <4>2
    <3>4. \E c \in Nat : \A j \in 1..(m + 1) : f[j] <= c
      BY <3>3
    <3> QED  BY <3>4
  <2>2. CASE ~(m + 1 <= n)
    BY <2>2
  <2> QED  BY <2>1, <2>2
<1> HIDE DEF S
<1>3. n \in S
  BY <1>1, <1>2, Induct
<1> QED  BY <1>3 DEF S

\* What the records are made of.
LEMMA HoldsAreNumbers ==
  ASSUME ExitsInv
  PROVE  /\ Len(exits) \in Nat /\ DOMAIN exits = 1..Len(exits)
         /\ \A i \in DOMAIN exits : exits[i].hold \in Nat
<1> DEFINE R == [analyst : Traders, hold : Nat, agreed : BOOLEAN, pnl : {0}]
<1>1. exits \in Seq(R)
  BY DEF ExitsInv
<1>2. \A r \in R : r.hold \in Nat
  OBVIOUS
<1> HIDE DEF R
<1>3. /\ Len(exits) \in Nat /\ DOMAIN exits = 1..Len(exits)
      /\ \A i \in DOMAIN exits : exits[i] \in R
  BY <1>1
<1> QED
  BY <1>2, <1>3

\* There are finitely many.
LEMMA PlacesAreFinite ==
  ASSUME ExitsInv, NEW I \in SUBSET DOMAIN exits
  PROVE  IsFiniteSet(I)
<1>1. exits \in Seq([analyst : Traders, hold : Nat, agreed : BOOLEAN, pnl : {0}])
  BY DEF ExitsInv
<1>2. Len(exits) \in Int /\ DOMAIN exits = 1..Len(exits)
  BY <1>1
<1>3. IsFiniteSet(1..Len(exits))
  BY <1>2, FS_Interval
<1> QED
  BY <1>2, <1>3, FS_Subset

\* Of the holds recorded at some places one is the longest.
LEMMA LongestHold ==
  ASSUME ExitsInv, NEW I \in SUBSET DOMAIN exits, I # {}
  PROVE  \E i \in I : \A j \in I : exits[j].hold <= exits[i].hold
<1> DEFINE n == Len(exits)
           f == [j \in 1..n |-> exits[j].hold]
           T == {b \in Nat : \A j \in I : exits[j].hold <= b}
<1>1. n \in Nat /\ DOMAIN exits = 1..n /\ \A j \in 1..n : exits[j].hold \in Nat
  BY HoldsAreNumbers
<1> HIDE DEF n
<1>2. f \in [1..n -> Nat] /\ \A j \in 1..n : f[j] = exits[j].hold
  BY <1>1
<1>3. T # {}
  <2> HIDE DEF f
  <2>1. PICK b \in Nat : \A j \in 1..n : f[j] <= b
    BY <1>1, <1>2, HoldsAreBounded
  <2> QED  BY <1>1, <1>2, <2>1
<1>4. PICK b \in T : \A c \in T : b <= c
  BY <1>3, LeastNatural
<1> SUFFICES ASSUME \A i \in I : exits[i].hold # b  PROVE FALSE
  BY <1>4
<1>5. \A j \in I : exits[j].hold \in Nat /\ exits[j].hold <= b /\ exits[j].hold # b
  BY <1>1, <1>4
<1>6. b # 0 /\ b - 1 \in Nat /\ \A j \in I : exits[j].hold <= b - 1
  BY <1>4, <1>5
<1>7. b - 1 \in T
  BY <1>6
<1> QED  BY <1>4, <1>6, <1>7

\* The k-th shortest hold is one of the holds.
LEMMA RankedIsHold ==
  ASSUME ExitsInv, NEW I \in SUBSET DOMAIN exits, I # {},
         NEW k \in Nat, k <= Cardinality(I)
  PROVE  Ranked(I, k) \in Nat
<1> DEFINE T == {t \in {exits[i].hold : i \in I} : Cardinality({i \in I : exits[i].hold <= t}) >= k}
<1>1. \A i \in I : exits[i].hold \in Nat
  BY HoldsAreNumbers
<1>2. PICK i \in I : \A j \in I : exits[j].hold <= exits[i].hold
  BY LongestHold
<1>3. {j \in I : exits[j].hold <= exits[i].hold} = I
  BY <1>2
<1>4. IsFiniteSet(I)
  BY PlacesAreFinite
<1>5. exits[i].hold \in T
  BY <1>3, <1>4, FS_CardinalityType
<1>6. T \in SUBSET Nat /\ T # {}
  BY <1>1, <1>5
<1> HIDE DEF T
<1>7. PICK x \in T : \A y \in T : x <= y
  BY <1>6, LeastNatural
<1>8. Min(T) \in T
  BY <1>7 DEF Min
<1> QED  BY <1>6, <1>8 DEF T, Ranked

\* Bounds of any number are in order.
LEMMA BoundsAreOrdered ==
  ASSUME NEW m \in Int
  PROVE  /\ 2 <= HoldBounds(m).least
         /\ HoldBounds(m).least < HoldBounds(m).most
         /\ HoldBounds(m).most <= 390
<1> DEFINE quarter == m \div 4
           floored == Max({2, quarter})
           least == Min({floored, 390})
           most == Min({390, m})
           further == Min({390, least + 30})
           pushed == IF least >= most THEN further ELSE most
           back == Max({2, pushed - 30})
<1>0. HoldBounds(m) = [least |-> IF least >= pushed THEN back ELSE least, most |-> pushed]
  BY DEF HoldBounds
<1>1. quarter \in Int
  OBVIOUS
<1> HIDE DEF quarter
<1>2. floored \in Int /\ floored >= 2
  BY <1>1, MaxOfTwo
<1> HIDE DEF floored
<1>3. least \in Int /\ 2 <= least /\ least <= 390
  BY <1>2, MinOfTwo
<1> HIDE DEF least
<1>4. most \in Int /\ most <= 390
  BY MinOfTwo
<1> HIDE DEF most
<1>5. further \in Int /\ further \in {390, least + 30} /\ further <= 390
  <2>1. least + 30 \in Int
    BY <1>3
  <2> QED  BY <2>1, MinOfTwo
<1> HIDE DEF further
<1>6. pushed \in Int /\ pushed <= 390 /\ (least >= pushed => pushed = 390)
  BY <1>3, <1>4, <1>5
<1> HIDE DEF pushed
<1>7. least >= pushed => least = 390 /\ pushed = 390
  BY <1>3, <1>6
<1>8. back \in Int /\ back \in {2, pushed - 30} /\ back >= 2
  <2>1. pushed - 30 \in Int
    BY <1>6
  <2>2. \A x \in Int : Max({2, x}) \in {2, x} /\ Max({2, x}) >= 2
    BY MaxOfTwo
  <2> HIDE DEF pushed
  <2> QED  BY <1>6, <2>1, <2>2
<1> HIDE DEF back
<1> QED  BY <1>0, <1>3, <1>6, <1>7, <1>8

\* A rule of any records is in order.
LEMMA RuleOrdered ==
  ASSUME ExitsInv, NEW I \in SUBSET DOMAIN exits
  PROVE  /\ 2 <= DeriveRule(I).least
         /\ DeriveRule(I).least < DeriveRule(I).most
         /\ DeriveRule(I).most <= 390
<1> DEFINE positive == {i \in I : exits[i].hold > 0}
           winning == {i \in positive : exits[i].pnl > 0}
           source == IF Cardinality(winning) >= MinSamplesRequired THEN winning ELSE positive
           twice == IF source = {} THEN 10 ELSE DoubleMedian(source)
           bounds == HoldBounds(twice)
<1>1. source \in SUBSET DOMAIN exits
  OBVIOUS
<1>2. twice \in Int
  <2> HIDE DEF source
  <2>1. CASE source = {}
    BY <2>1
  <2>2. CASE source # {}
    <3> DEFINE n == Cardinality(source)
    <3>1. IsFiniteSet(source)
      BY <1>1, PlacesAreFinite
    <3>2. n \in Nat /\ n # 0
      BY <2>2, <3>1, FS_CardinalityType, FS_EmptySet
    <3> HIDE DEF n
    <3>3. (n + 1) \div 2 \in Nat /\ (n + 1) \div 2 <= n /\ n \div 2 + 1 \in Nat /\ n \div 2 + 1 <= n
      BY <3>2
    <3>4. Ranked(source, (n + 1) \div 2) \in Nat /\ Ranked(source, n \div 2 + 1) \in Nat
      BY <1>1, <2>2, <3>3, RankedIsHold DEF n
    <3> QED  BY <2>2, <3>4 DEF DoubleMedian, n
  <2> QED  BY <2>1, <2>2
<1>3. 2 <= bounds.least /\ bounds.least < bounds.most /\ bounds.most <= 390
  BY <1>2, BoundsAreOrdered
<1>4. DeriveRule(I) = IF Cardinality(I) < MinSamplesRequired
                      THEN [least |-> 5, most |-> 240, action |-> "HOLD"]
                      ELSE [least |-> bounds.least, most |-> bounds.most, action |-> DeriveTaAction(I)]
  BY DEF DeriveRule
<1> HIDE DEF bounds
<1> QED  BY <1>3, <1>4

LEMMA ExitsNextKeeps ==
  ASSUME ExitsInv, ExitRulesNext
  PROVE  ExitsInv'
<1>1. ASSUME NEW a \in Traders, NEW hold \in HoldTimes, NEW agreed \in BOOLEAN, RecordExit(a, hold, agreed)
      PROVE  ExitsInv'
  <2>1. hold \in Nat
    BY ExitRulesAssumption
  <2> QED  BY <1>1, <2>1 DEF ExitsInv, RecordExit, RuleIsOrdered
<1>2. CASE Learn
  <2> DEFINE Of(a) == {i \in DOMAIN exits : exits[i].analyst = a}
  <2>1. PICK known : rules' = [a \in known |-> DeriveRule(Of(a))]
    BY <1>2 DEF Learn
  <2>2. \A a \in known : /\ 2 <= DeriveRule(Of(a)).least
                         /\ DeriveRule(Of(a)).least < DeriveRule(Of(a)).most
                         /\ DeriveRule(Of(a)).most <= 390
    BY RuleOrdered
  <2>3. RuleIsOrdered'
    <3> HIDE DEF Of
    <3> QED  BY <2>1, <2>2 DEF RuleIsOrdered
  <2> QED  BY <1>2, <2>3 DEF Learn, ExitsInv
<1> QED
  BY <1>1, <1>2 DEF ExitRulesNext

LEMMA ExitsAlways == DeskSpec => []ExitsInv
<1>1. DeskInit => ExitsInv
  BY DEF DeskInit, ExitRulesInit, ExitsInv, RuleIsOrdered
<1>2. ExitsInv /\ [DeskNext]_deskVars => ExitsInv'
  <2> SUFFICES ASSUME ExitsInv, [DeskNext]_deskVars PROVE ExitsInv'
    OBVIOUS
  <2>1. CASE ExitRulesNext
    BY <2>1, ExitsNextKeeps
  <2>2. CASE UNCHANGED exitRulesVars
    BY <2>2 DEF exitRulesVars, ExitsInv, RuleIsOrdered
  <2> QED
    BY <2>1, <2>2 DEF DeskNext, ControlStep, DiscordStep, LearningStep, ExitRulesStep,
                      AccountsStep, MarketStep, SocialStep, UwStep, deskVars
<1> QED
  BY <1>1, <1>2, PTL DEF DeskSpec

\* Every rule leaves time between the earliest and the latest exit, within the
\* hard limits, for any holds (_derive_rule).
THEOREM RulesAreOrdered == DeskSpec => []RuleIsOrdered
<1>1. ExitsInv => RuleIsOrdered
  BY DEF ExitsInv
<1> QED
  BY <1>1, ExitsAlways, PTL
=============================================================================
