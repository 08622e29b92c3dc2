------------------------------- MODULE UWClient -------------------------------
(* The client of Unusual Whales (analysts/unusual_whales/uw_client.py): a token
   bucket behind a lock, and a cache in files for answers that fail. A token
   fills in TokenTime units of time, and tokens are counted in such units. *)
EXTENDS Integers, FiniteSetsExt, SequencesExt

CONSTANTS
    Callers, Endpoints,
    TokenTime,       \* 60 seconds / requests_per_minute
    Capacity,        \* tokens of a full bucket: requests_per_minute
    CacheTtl,        \* 60 seconds
    UwMaxTime, MaxRequests   \* bounds

ASSUME UwAssumption == {TokenTime, Capacity} \subseteq Nat \ {0} /\ CacheTtl \in Nat

VARIABLES
    tokens,       \* _tokens, in units of time
    lastRefill,
    rateLock,     \* the caller that holds _rate_lock, or NoCaller
    request,      \* per caller: idle, waiting for the lock, asleep with it, or sent
    granted,      \* history: the times of requests
    cache,        \* per endpoint, when its file was written, or -1
    served,       \* the oldest data that a call was given when it ended: its age
    uwTime

uwVars == <<tokens, lastRefill, rateLock, request, granted, cache, served, uwTime>>

NoCaller == "nobody"
IdleCall == [state |-> "idle", endpoint |-> "none", until |-> 0]

UwInit ==
    /\ tokens = Capacity * TokenTime /\ lastRefill = 0
    /\ rateLock = NoCaller
    /\ request = [c \in Callers |-> IdleCall]
    /\ granted = <<>>
    /\ cache = [e \in Endpoints |-> -1]
    /\ served = 0
    /\ uwTime = 0

-----------------------------------------------------------------------------
\* One of the four public methods.
Get(c, e) ==
    /\ request[c] = IdleCall
    /\ request' = [request EXCEPT ![c] = [state |-> "waiting", endpoint |-> e, until |-> 0]]
    /\ UNCHANGED <<tokens, lastRefill, rateLock, granted, cache, served, uwTime>>

\* A refill that is not bounded by the bucket.
Unbounded == tokens + (uwTime - lastRefill)
Refilled == Min({Capacity * TokenTime, tokens + (uwTime - lastRefill)})

\* A turn of the loop in _acquire_token, with the lock held: a token, or sleep for
\* what is missing of one. The lock stays with the sleeper.
AcquireToken(c) ==
    /\ Len(granted) < MaxRequests
    /\ \/ request[c].state = "waiting" /\ rateLock = NoCaller
       \/ request[c].state = "asleep" /\ uwTime >= request[c].until
    /\ lastRefill' = uwTime
    /\ IF Refilled >= TokenTime
       THEN /\ tokens' = Refilled - TokenTime
            /\ rateLock' = NoCaller
            /\ request' = [request EXCEPT ![c].state = "sent"]
            /\ granted' = Append(granted, uwTime)
       ELSE /\ tokens' = Refilled
            /\ rateLock' = c
            /\ request' = [request EXCEPT ![c].state = "asleep", ![c].until = uwTime + (TokenTime - Refilled)]
            /\ UNCHANGED granted
    /\ UNCHANGED <<cache, served, uwTime>>

\* Any file there is, and a file young enough.
AnyCache(e) == cache[e] # -1
ReadableCache(e) == cache[e] # -1 /\ uwTime - cache[e] <= CacheTtl

Ends(c) == request' = [request EXCEPT ![c] = IdleCall]

\* An answer of success is written to the cache, unless that fails.
Succeeds(c, written) ==
    /\ request[c].state = "sent"
    /\ cache' = IF written THEN [cache EXCEPT ![request[c].endpoint] = uwTime] ELSE cache
    /\ Ends(c)
    /\ UNCHANGED <<tokens, lastRefill, rateLock, granted, served, uwTime>>

\* On 404, and on an exception on the way, the cache is served if it can be read.
FallsBack(c) ==
    /\ request[c].state = "sent"
    /\ served' = IF ReadableCache(request[c].endpoint)
                 THEN Max({served, uwTime - cache[request[c].endpoint]}) ELSE served
    /\ Ends(c)
    /\ UNCHANGED <<tokens, lastRefill, rateLock, granted, cache, uwTime>>

\* Any other status: nothing, which the methods turn into an empty answer.
Refused(c) ==
    /\ request[c].state = "sent"
    /\ Ends(c)
    /\ UNCHANGED <<tokens, lastRefill, rateLock, granted, cache, served, uwTime>>

UwTick ==
    /\ uwTime < UwMaxTime
    /\ uwTime' = uwTime + 1
    /\ UNCHANGED <<tokens, lastRefill, rateLock, request, granted, cache, served>>

UwNext ==
    \/ \E c \in Callers, e \in Endpoints : Get(c, e)
    \/ \E c \in Callers : AcquireToken(c) \/ FallsBack(c) \/ Refused(c)
    \/ \E c \in Callers, written \in BOOLEAN : Succeeds(c, written)
    \/ UwTick

UwSpec == UwInit /\ [][UwNext]_uwVars

-----------------------------------------------------------------------------
\* Between any two requests there is the time that the requests after the first
\* bucketful need, whoever sleeps, and however long nobody asked (_acquire_token).
RateIsKept ==
    \A i, j \in DOMAIN granted :
       i <= j => (j - i + 1) * TokenTime <= Capacity * TokenTime + (granted[j] - granted[i])

\* No call is given data older than the cache's time to live, whatever fails ("with
\* 60-second TTL").
ServedIsFresh == served <= CacheTtl
=============================================================================
