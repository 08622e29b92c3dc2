--------------------------- MODULE DiscordAnalysts ---------------------------
(* The Discord side of the desk: the one WebSocket process and its replay of
   history (analysts/discord/gateway.py), the seven analysts that turn alerts
   into signals (vinod.py, albert.py, zabes.py, adi.py, pilla_swings.py,
   everest.py), and the monitor at the far end of the sell queues.

   A message is the record of what the analysts' patterns find in it, a contract
   its side of one strike. Premiums are in dollars, time in the units of the
   delays. Channels have nothing in common before the signal queue, so a
   behaviour follows one of them. An analyst's turn is one step: nothing between its read of the kill
   switch and its put into the signal queue lets another task run. *)
EXTENDS Integers, SequencesExt

CONSTANTS
    Messages,       \* what may be posted
    Channel,        \* [Analysts -> STRING]: "" or "PLACEHOLDER" where none is configured
    MaxPremium,     \* [Analysts -> Nat]
    ShortDelay,     \* for how long an alert silences its repeats: 5 minutes
    LongDelay,      \* the same for Zabes: one hour
    ReplayWindow,   \* 30 minutes
    HistoryLimit,   \* 50 messages
    MaxPosts, MaxTime, MaxOutages, MaxKills   \* bounds

Analysts == {"vinod_spx", "vinod_other", "albert", "zabes", "adi", "pilla_swings", "everest"}
Sides == {"CALL", "PUT"}

ASSUME DiscordAssumption ==
    /\ Messages \subseteq
          [channel : STRING, author : STRING, bot : BOOLEAN, here : BOOLEAN, header : STRING,
           verb : STRING, symbol : STRING, side : Sides \cup {"none"}, premium : Nat,
           expiry : STRING, lines : BOOLEAN, spread : BOOLEAN]
    /\ Channel \in [Analysts -> STRING]
    /\ MaxPremium \in [Analysts -> Nat]
    /\ {ShortDelay, LongDelay, ReplayWindow, HistoryLimit} \subseteq Nat \ {0}

VARIABLES
    channel,     \* the channel that this behaviour follows
    posted,      \* what Discord holds of it, oldest first: [message, at]
    connected,
    replays,     \* the cutoffs of replays whose fetch has not returned
    inbox,       \* the message queues of its analysts
    sellQueue,   \* the monitor's queue for it
    dedup,       \* keys that silence a repeat, with the time when their task wakes
    emitted,     \* signals put into the signal queue: [analyst, key, at]
    silenced,    \* alerts dropped as duplicates: [analyst, key]
    killed, kills,
    held,        \* whether a FIRST_SELL position of it is open
    closedOn,    \* the messages that closed a position
    outages, now

wire == <<channel, posted, connected, replays, outages>>
queues == <<inbox, sellQueue>>
memory == <<dedup, emitted, silenced>>
switch == <<killed, kills>>
position == <<held, closedOn>>
discordVars == <<wire, queues, memory, switch, position, now>>

-----------------------------------------------------------------------------
(* What each analyst takes for a purchase: the contract, or NoBuy. *)

NoBuy == [symbol |-> "none"]
Buy(m, expiry) == [symbol |-> m.symbol, side |-> m.side, premium |-> m.premium, expiry |-> expiry]
BuyIf(condition, m, expiry) == IF condition THEN Buy(m, expiry) ELSE NoBuy

\* A contract with its price on one line.
HasContract(m) == m.side \in Sides /\ ~m.lines
\* The optional group of a pattern: what cannot be read as a date is no date.
DateOf(m) == IF m.expiry = "unreadable" THEN "none" ELSE m.expiry

IsBuyAuthor(m) == m.author = "INFRA" /\ m.bot
IsIgnoredStrategy(m) == m.spread

ParseSpxBuy(m) ==
    BuyIf(/\ IsBuyAuthor(m) /\ ~IsIgnoredStrategy(m)
          /\ m.header = "SPX" /\ m.verb = "Bought" /\ m.symbol = "SPX" /\ HasContract(m),
          m, "none")

ParseOtherBuy(m) ==
    BuyIf(/\ IsBuyAuthor(m) /\ ~IsIgnoredStrategy(m)
          /\ m.header = "OTHER" /\ m.verb = "Bought" /\ HasContract(m)
          /\ m.symbol \notin {"SPX", "ES", "NQ"},
          m, DateOf(m))

ParseAlbertBuy(m) ==
    BuyIf(m.author = "albert" /\ m.bot /\ m.verb = "Bought" /\ HasContract(m), m, "none")

\* Several lines with an average price need a date; one line may do without.
ParseZabesBuy(m) ==
    BuyIf(/\ m.here /\ m.side \in Sides /\ m.symbol \in {"SPY", "SPX", "QQQ", "IWM"}
          /\ m.lines \/ m.verb = "none"
          /\ m.expiry # "unreadable"
          /\ m.lines => m.expiry # "none",
          m, IF m.expiry = "none" THEN "in a week" ELSE m.expiry)

\* The fragment "infr" is in the name of Vinod's bot too.
IsAdiAuthor(m) == m.author \in {"aadi", "INFRA"} /\ m.bot

ParseAdiBuy(m) ==
    BuyIf(/\ IsAdiAuthor(m) /\ m.here /\ m.verb = "none"
          /\ m.symbol = "SPX" /\ HasContract(m),
          m, "none")

\* Whoever wrote it.
ParsePillaBuy(m) ==
    BuyIf(m.verb \in {"Entering", "Buy", "Added", "Bought"} /\ HasContract(m), m, DateOf(m))

ParseEverestBuy(m) ==
    BuyIf(/\ HasContract(m)
          /\ \/ m.verb \in {"Buying", "Buy", "Added", "Bought"}
             \/ m.here /\ m.verb = "none",
          m, DateOf(m))

(* What they call a sale. No code of the desk asks. *)

ParseSell(m) ==
    /\ m.author = "singhvinod77" /\ m.bot
    /\ \/ m.verb \in {"Sold", "Closed", "Last"} /\ HasContract(m)
       \/ m.here /\ m.premium > 0
ParseZabesSell(m) == m.verb \in {"Sold", "Closed", "Out", "Selling"}
ParseAdiSell(m) ==
    IsAdiAuthor(m) /\ m.here /\ m.verb \in {"Sold", "Closed", "Out"} /\ m.symbol = "SPX" /\ HasContract(m)
IsPillaSell(m) == m.verb \in {"Selling", "Out", "Closed"}

IsSell(m) == ParseSell(m) \/ ParseZabesSell(m) \/ ParseAdiSell(m) \/ IsPillaSell(m)

-----------------------------------------------------------------------------
\* The start scripts skip an analyst without a channel.
Subscribed(a) == Channel[a] \notin {"", "PLACEHOLDER"}

DiscordInit ==
    /\ channel \in {Channel[a] : a \in {b \in Analysts : Subscribed(b)}}
    /\ posted = <<>>
    /\ connected = FALSE
    /\ replays = {}
    /\ inbox = [a \in Analysts |-> <<>>]
    /\ sellQueue = <<>>
    /\ dedup = {}
    /\ emitted = <<>>
    /\ silenced = {}
    /\ killed = FALSE /\ kills = 0
    /\ held = FALSE
    /\ closedOn = {}
    /\ outages = 0 /\ now = 0

Subscribers == {a \in Analysts : Channel[a] = channel}

\* A message goes to the analysts of its channel and, whatever it says, to the
\* sell queue.
Dispatch(messages) ==
    /\ inbox' = [a \in Analysts |-> IF a \in Subscribers THEN inbox[a] \o messages ELSE inbox[a]]
    /\ sellQueue' = sellQueue \o messages

Post(m) ==
    /\ m.channel = channel /\ Len(posted) < MaxPosts
    /\ posted' = Append(posted, [message |-> m, at |-> now])
    /\ IF connected THEN Dispatch(<<m>>) ELSE UNCHANGED <<inbox, sellQueue>>
    /\ UNCHANGED <<channel, connected, replays, outages, memory, switch, position, now>>

Disconnect ==
    /\ connected /\ outages < MaxOutages
    /\ connected' = FALSE /\ outages' = outages + 1
    /\ UNCHANGED <<channel, posted, replays, queues, memory, switch, position, now>>

\* Every connection starts a replay, the first one too.
OnReady ==
    /\ ~connected
    /\ connected' = TRUE
    /\ replays' = replays \cup {now - ReplayWindow}
    /\ UNCHANGED <<channel, posted, outages, queues, memory, switch, position, now>>

\* What the fetch returns: the last messages, oldest first, without those from
\* before the cutoff.
History(cutoff) ==
    LET n == Len(posted)
        last == SubSeq(posted, IF n > HistoryLimit THEN n - HistoryLimit + 1 ELSE 1, n)
        young == SelectSeq(last, LAMBDA p : p.at >= cutoff)
    IN  [i \in DOMAIN young |-> young[i].message]

ReplayHistory(cutoff) ==
    /\ replays' = replays \ {cutoff}
    /\ Dispatch(History(cutoff))
    /\ UNCHANGED <<channel, posted, connected, outages, memory, switch, position, now>>

\* A fetch that fails returns an empty history.
FetchFails(cutoff) ==
    /\ replays' = replays \ {cutoff}
    /\ UNCHANGED <<channel, posted, connected, outages, queues, memory, switch, position, now>>

-----------------------------------------------------------------------------
(* An analyst's turn: kill switch, parse, premium, duplicate, emission. *)

DedupKey(a, buy) ==
    [symbol |-> buy.symbol, side |-> buy.side, expiry |-> IF a = "zabes" THEN buy.expiry ELSE "any"]
\* The delay that the other analysts use.
ShortForAll(a) == ShortDelay
DedupDelay(a) == IF a = "zabes" THEN LongDelay ELSE ShortDelay

Silenced(a, key) == \E d \in dedup : d.analyst = a /\ d.key = key
Affordable(a, buy) == buy.premium <= MaxPremium[a]
Mark(a, key) == dedup' = dedup \cup {[analyst |-> a, key |-> key, due |-> now + DedupDelay(a)]}
Emit(a, key) == emitted' = Append(emitted, [analyst |-> a, key |-> key, at |-> now])

\* A turn that notes the alert before it looks at the premium.
MarkFirst(a, buy) ==
    LET key == DedupKey(a, buy)
    IN  \/ /\ Silenced(a, key)
           /\ silenced' = silenced \cup {[analyst |-> a, key |-> key]}
           /\ UNCHANGED <<dedup, emitted>>
        \/ /\ ~Silenced(a, key)
           /\ Mark(a, key)
           /\ IF Affordable(a, buy) THEN Emit(a, key) ELSE UNCHANGED emitted
           /\ UNCHANGED silenced

Decide(a, buy) ==
    LET key == DedupKey(a, buy)
    IN  \/ ~Affordable(a, buy) /\ UNCHANGED <<dedup, emitted, silenced>>
        \/ /\ Affordable(a, buy) /\ Silenced(a, key)
           /\ silenced' = silenced \cup {[analyst |-> a, key |-> key]}
           /\ UNCHANGED <<dedup, emitted>>
        \/ /\ Affordable(a, buy) /\ ~Silenced(a, key)
           /\ Mark(a, key)
           /\ Emit(a, key)
           /\ UNCHANGED silenced

\* The first message of an analyst's queue is taken and "buy" was made of it.
Turn(a, buy) ==
    /\ inbox[a] # <<>>
    /\ inbox' = [inbox EXCEPT ![a] = Tail(@)]
    /\ IF killed \/ buy = NoBuy THEN UNCHANGED <<dedup, emitted, silenced>> ELSE Decide(a, buy)
    /\ UNCHANGED <<wire, sellQueue, switch, position, now>>

VinodSPXAnalyst == Turn("vinod_spx", ParseSpxBuy(Head(inbox["vinod_spx"])))
VinodOtherAnalyst == Turn("vinod_other", ParseOtherBuy(Head(inbox["vinod_other"])))
\* The earnings calendar is evidence only: no answer of it stops the signal.
AlbertAnalyst == Turn("albert", ParseAlbertBuy(Head(inbox["albert"])))
ZabesAnalyst == Turn("zabes", ParseZabesBuy(Head(inbox["zabes"])))
ADIAnalyst == Turn("adi", ParseAdiBuy(Head(inbox["adi"])))
PillaSwingsAnalyst == Turn("pilla_swings", ParsePillaBuy(Head(inbox["pilla_swings"])))
EverestAnalyst == Turn("everest", ParseEverestBuy(Head(inbox["everest"])))

ClearDedup(d) ==
    /\ d \in dedup /\ now >= d.due
    /\ dedup' = dedup \ {d}
    /\ UNCHANGED <<wire, queues, emitted, silenced, switch, position, now>>

ToggleKillSwitch ==
    /\ kills < MaxKills
    /\ killed' = ~killed /\ kills' = kills + 1
    /\ UNCHANGED <<wire, queues, memory, position, now>>

Tick ==
    /\ now < MaxTime
    /\ now' = now + 1
    /\ UNCHANGED <<wire, queues, memory, switch, position>>

-----------------------------------------------------------------------------
\* A signal of an analyst that leaves on the first sale is bought.
OpenPosition(a) ==
    /\ a \in {"vinod_spx", "adi", "zabes"} /\ ~held
    /\ \E i \in DOMAIN emitted : emitted[i].analyst = a
    /\ held' = TRUE
    /\ UNCHANGED <<wire, queues, memory, switch, closedOn, now>>

\* Whatever waits in the queue of the channel counts as its owner's sale.
HandleFirstSell ==
    /\ held /\ sellQueue # <<>>
    /\ sellQueue' = <<>>
    /\ held' = FALSE
    /\ closedOn' = closedOn \cup {Range(sellQueue)}
    /\ UNCHANGED <<wire, inbox, memory, switch, now>>

DiscordNext ==
    \/ \E m \in Messages : Post(m)
    \/ Disconnect \/ OnReady \/ ToggleKillSwitch \/ Tick
    \/ \E cutoff \in replays : ReplayHistory(cutoff) \/ FetchFails(cutoff)
    \/ VinodSPXAnalyst \/ VinodOtherAnalyst \/ AlbertAnalyst \/ ZabesAnalyst
    \/ ADIAnalyst \/ PillaSwingsAnalyst \/ EverestAnalyst
    \/ \E d \in dedup : ClearDedup(d)
    \/ \E a \in Analysts : OpenPosition(a)
    \/ HandleFirstSell

DiscordSpec == DiscordInit /\ [][DiscordNext]_discordVars

-----------------------------------------------------------------------------
\* An alert is dropped as a repeat only if the analyst did emit that contract
\* before: one that was too dear, or came under the kill switch, silences
\* nothing (the analysts' _process).
SilencedWasEmitted ==
    \A s \in silenced : \E i \in DOMAIN emitted :
       emitted[i].analyst = s.analyst /\ emitted[i].key = s.key

\* However often Discord reconnects and replays its history, an analyst emits
\* one contract again only after its delay, Zabes one expiry after an hour
\* (_clear_dedup against _replay_history).
EmissionsAreSpaced ==
    \A i, j \in DOMAIN emitted :
       i < j /\ emitted[i].analyst = emitted[j].analyst /\ emitted[i].key = emitted[j].key
       => emitted[j].at - emitted[i].at
             >= IF emitted[i].analyst = "zabes" THEN LongDelay ELSE ShortDelay

\* A position that leaves on the first sale is closed on a sale
\* (MonitorAgent._handle_first_sell: "close 100% on first sell message").
ClosedOnSale == \A messages \in closedOn : \E m \in messages : IsSell(m)
=============================================================================
