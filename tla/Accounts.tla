------------------------------- MODULE Accounts -------------------------------
(* The fan-out over several Robinhood accounts (gateway/account_manager.py,
   gateway/multi_account_gateway.py): one gateway per enabled account, every call
   made on all of them at once. A live gateway logs in with the credentials of
   the environment (rh_gateway.py, _ensure_logged_in), whatever secrets its
   account names. What a gateway does inside a call is the matter of Gateway. *)
EXTENDS Integers, FiniteSetsExt, Functions

CONSTANTS
    AccountIds, SignalIds,
    MaxFanOuts, MaxRaised   \* bounds

VARIABLES
    accounts,    \* accounts.json: [paper, enabled] of each account
    override,    \* global_paper_mode_override
    fanOuts,     \* the calls under way: of a kind at most one
    handled,     \* per account, the keys in its gateway's cache
    paperHeld,   \* per account, the positions of its simulated book
    taken,       \* the orders in a simulated book or at the broker: [account, kind, signal]
    lost,        \* history: those whose own call raised after the broker took them
    answers,     \* history: what finished calls returned
    combined,    \* open_positions.json: [account, signal]
    started, raised   \* counters for the bounds

accountVars == <<accounts, override, fanOuts, handled, paperHeld, taken, lost, answers, combined, started, raised>>

Kinds == {"execute", "close", "positions"}
NoSignal == "no signal"
Result(outcome, held) == [outcome |-> outcome, held |-> held]
None == Result("none", {})
Call(signal, asked, single) ==
    [signal |-> signal, waiting |-> asked, results |-> [a \in asked |-> None], single |-> single]
Idle == Call(NoSignal, {}, FALSE)

AccountsInit ==
    /\ accounts \in [AccountIds -> [paper : BOOLEAN, enabled : BOOLEAN]]
    /\ override \in BOOLEAN
    /\ fanOuts = [k \in Kinds |-> Idle]
    /\ handled = [a \in AccountIds |-> {}]
    /\ paperHeld = [a \in AccountIds |-> {}]
    /\ taken = {} /\ lost = {}
    /\ answers = {} /\ combined = {}
    /\ started = 0 /\ raised = 0

\* load_accounts and AccountGateway's constructor.
Loaded == {a \in AccountIds : accounts[a].enabled}
PaperMode(a) == override \/ accounts[a].paper
LoginOf(a) == "environment"

-----------------------------------------------------------------------------
\* A call is under way from its start to the answer of the last account.
FanOut(kind, signal) ==
    /\ started < MaxFanOuts
    /\ fanOuts[kind] = Idle
    /\ Loaded # {}
    /\ fanOuts' = [fanOuts EXCEPT ![kind] = Call(signal, Loaded, FALSE)]
    /\ started' = started + 1
    /\ UNCHANGED <<accounts, override, handled, paperHeld, taken, lost, answers, combined, raised>>

\* close_position_in_account
CloseInAccount(account, signal) ==
    /\ started < MaxFanOuts
    /\ fanOuts["close"] = Idle
    /\ account \in Loaded
    /\ fanOuts' = [fanOuts EXCEPT !["close"] = Call(signal, {account}, TRUE)]
    /\ started' = started + 1
    /\ UNCHANGED <<accounts, override, handled, paperHeld, taken, lost, answers, combined, raised>>

Answered(kind, a, result) ==
    fanOuts' = [fanOuts EXCEPT ![kind].waiting = @ \ {a}, ![kind].results[a] = result]

OrderOf(kind, a) == [account |-> a, kind |-> kind, signal |-> fanOuts[kind].signal]
Known(kind, a) == <<kind, fanOuts[kind].signal>> \in handled[a]

\* The account's gateway takes an order of a key that is not in its cache.
Accepts(kind, a) ==
    LET s == fanOuts[kind].signal
    IN  /\ kind # "positions" /\ a \in fanOuts[kind].waiting
        /\ ~Known(kind, a)
        /\ Answered(kind, a, Result("order", {}))
        /\ handled' = [handled EXCEPT ![a] = @ \cup {<<kind, s>>}]
        /\ taken' = taken \cup {OrderOf(kind, a)}
        /\ paperHeld' = IF ~PaperMode(a) THEN paperHeld
                        ELSE [paperHeld EXCEPT ![a] = IF kind = "execute" THEN @ \cup {s} ELSE @ \ {s}]
    /\ UNCHANGED <<accounts, override, lost, answers, combined, started, raised>>

\* A known key is answered with the order that paper mode keeps; live mode keeps none.
Repeats(kind, a) ==
    /\ kind # "positions" /\ a \in fanOuts[kind].waiting
    /\ Known(kind, a)
    /\ Answered(kind, a, IF PaperMode(a) THEN Result("order", {}) ELSE None)
    /\ UNCHANGED <<accounts, override, handled, paperHeld, taken, lost, answers, combined, started, raised>>

\* A guard of the gateway returns None; a live broker refuses.
Declines(kind, a) ==
    /\ kind # "positions" /\ a \in fanOuts[kind].waiting
    /\ Answered(kind, a, None)
    /\ UNCHANGED <<accounts, override, handled, paperHeld, taken, lost, answers, combined, started, raised>>

\* The reply to a live order may be what is lost: the broker has the order, the
\* cache not its key.
RaisesIn(kind, a) ==
    /\ a \in fanOuts[kind].waiting /\ raised < MaxRaised
    /\ Answered(kind, a, Result("raised", {}))
    /\ \/ UNCHANGED <<taken, lost>>
       \/ /\ kind # "positions" /\ ~PaperMode(a) /\ ~Known(kind, a)
          /\ taken' = taken \cup {OrderOf(kind, a)}
          /\ lost' = lost \cup {OrderOf(kind, a)}
    /\ raised' = raised + 1
    /\ UNCHANGED <<accounts, override, handled, paperHeld, answers, combined, started>>

\* Of the login's live positions none is made a record (_live_positions).
Positions(a) == IF PaperMode(a) THEN paperHeld[a] ELSE {}

Fetches(a) ==
    /\ a \in fanOuts["positions"].waiting
    /\ Answered("positions", a, Result("fetched", Positions(a)))
    /\ UNCHANGED <<accounts, override, handled, paperHeld, taken, lost, answers, combined, started, raised>>

\* A gather that ends with the first exception.
FirstException(results) ==
    IF \E a \in DOMAIN results : results[a].outcome = "raised"
    THEN [a \in DOMAIN results |-> None] ELSE results
\* Whatever raised counts as no order, or no positions, of that account.
Collected(results) == [a \in DOMAIN results |-> IF results[a].outcome = "raised" THEN None ELSE results[a]]

\* The answer; the file of positions shows none of an account that failed.
Gathered(kind) ==
    LET call == fanOuts[kind]
        results == Collected(call.results)
    IN  /\ call # Idle /\ ~call.single /\ call.waiting = {}
        /\ fanOuts' = [fanOuts EXCEPT ![kind] = Idle]
        /\ IF kind = "positions"
           THEN /\ combined' = UNION {{[account |-> a, signal |-> s] : s \in results[a].held} : a \in DOMAIN results}
                /\ UNCHANGED answers
           ELSE /\ answers' = answers \cup
                     {[kind |-> kind, signal |-> call.signal, results |-> results]}
                /\ UNCHANGED combined
    /\ UNCHANGED <<accounts, override, handled, paperHeld, taken, lost, started, raised>>

\* The close in one account is awaited as it is: its exception is the caller's.
Returned ==
    LET call == fanOuts["close"]
    IN  /\ call.single /\ call.waiting = {}
        /\ fanOuts' = [fanOuts EXCEPT !["close"] = Idle]
        /\ answers' = IF \E a \in DOMAIN call.results : call.results[a].outcome = "raised" THEN answers
                      ELSE answers \cup {[kind |-> "close", signal |-> call.signal, results |-> call.results]}
    /\ UNCHANGED <<accounts, override, handled, paperHeld, taken, lost, combined, started, raised>>

AccountsNext ==
    \/ \E s \in SignalIds : FanOut("execute", s) \/ FanOut("close", s)
    \/ FanOut("positions", "all")
    \/ \E a \in AccountIds, s \in SignalIds : CloseInAccount(a, s)
    \/ \E kind \in Kinds, a \in AccountIds : 
          Accepts(kind, a) \/ Repeats(kind, a) \/ Declines(kind, a) \/ RaisesIn(kind, a)
    \/ \E a \in AccountIds : Fetches(a)
    \/ \E kind \in Kinds : Gathered(kind)
    \/ Returned

AccountsSpec == AccountsInit /\ [][AccountsNext]_accountVars

-----------------------------------------------------------------------------
\* What an account bought or sold, in its simulated book or at the broker, is in an
\* answer, unless its call still runs or raised itself: the failure of one account
\* hides no order of another (gather with return_exceptions).
NoOrderHidden ==
    \A o \in taken \ lost :
       \/ \E r \in answers : /\ r.kind = o.kind /\ r.signal = o.signal
                            /\ o.account \in DOMAIN r.results /\ r.results[o.account].outcome = "order"
       \/ fanOuts[o.kind].signal = o.signal

\* Every account trades for itself: no brokerage account gets one signal's order
\* twice ("Fan-out execution across multiple Robinhood accounts").
OneOrderPerLogin ==
    \A o, x \in taken :
       /\ o.kind = "execute" /\ x.kind = "execute" /\ o.signal = x.signal
       /\ ~PaperMode(o.account) /\ ~PaperMode(x.account) /\ LoginOf(o.account) = LoginOf(x.account)
       => o = x
=============================================================================
