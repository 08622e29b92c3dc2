----------------------------- MODULE SocialTrends -----------------------------
(* The analyst of what is said about companies (analysts/social/social_trends.py):
   a scan counts mentions, compares each company's count with its baseline of the
   last weeks, and takes the best supported one to the signal queue. The baseline
   is in memory and, after every scan, in a file; between the answers of the
   sources other tasks run, and the program may die. Of sentiment, interest and
   volume the model keeps which side of their thresholds they are on. *)
EXTENDS Integers, FiniteSetsExt, SequencesExt, Functions

CONSTANTS
    Tickers,
    Counts,          \* numbers of mentions
    BaselineDays,    \* 30
    MinHistory,      \* 3
    SocialThreshold, \* confidence_threshold, percent
    MaxScans, MaxDays, MaxFaults   \* bounds

ASSUME SocialAssumption ==
    Counts \subseteq Nat \ {0} /\ BaselineDays \in Nat /\ MinHistory \in Nat \ {0, 1}

VARIABLES
    baseline,    \* in memory: per ticker, the mentions of a day
    baselineFile,
    loaded,
    scan,        \* the scan under way, or NoScan
    today,
    alerts,      \* signals: [ticker, spike, volume]
    verdicts,    \* history: [ticker, day, count, old, spike]
    unsaved,     \* history: a save of the baseline failed
    scans, faults   \* counters for the bounds

socialVars == <<baseline, baselineFile, loaded, scan, today, alerts, verdicts, unsaved, scans, faults>>
social == <<today, alerts, scans, faults>>

Volumes == {"unknown", "below", "at", "above"}   \* 500 000 contracts
NoScan == [step |-> "none"]
NoBest == [score |-> 0, ticker |-> "none"]
NoDays == [d \in {} |-> 0]

SocialInit ==
    /\ baseline = [t \in {} |-> NoDays] /\ baselineFile = baseline
    /\ loaded = FALSE /\ scan = NoScan /\ today = 0
    /\ alerts = {} /\ verdicts = {} /\ unsaved = FALSE
    /\ scans = 0 /\ faults = 0

-----------------------------------------------------------------------------
DaysOf(t) == IF t \in DOMAIN baseline THEN baseline[t] ELSE NoDays

\* Every day there is, and the days before this one.
AllDays(t) == DOMAIN DaysOf(t)
PastDays(t) == DOMAIN DaysOf(t) \ {today}

\* count > mean + 2 * stdev, in whole numbers; without spread, count > mean.
Exceeds(count, past) ==
    LET n == Cardinality(DOMAIN past)
        sum == MapThenSumSet(LAMBDA d : past[d], DOMAIN past)
        squares == MapThenSumSet(LAMBDA d : past[d] * past[d], DOMAIN past)
        above == n * count - sum
    IN  /\ n >= MinHistory
        /\ above > 0
        /\ (n - 1) * above * above > 4 * n * (n * squares - sum * sum)

IsSpike(t, count) == Exceeds(count, Restrict(DaysOf(t), PastDays(t)))

\* Entries that are too old go when there is a new one.
UpdateBaseline(t, count) ==
    LET days == [d \in DOMAIN DaysOf(t) \cup {today} |-> IF d = today THEN count ELSE DaysOf(t)[d]]
        kept == {d \in DOMAIN days : d >= today - BaselineDays}
    IN  [u \in DOMAIN baseline \cup {t} |-> IF u = t THEN Restrict(days, kept) ELSE baseline[u]]

-----------------------------------------------------------------------------
\* A cycle that the kill switch lets begin, inside the market's hours.
StartScan ==
    /\ scans < MaxScans
    /\ scan = NoScan
    /\ baseline' = IF loaded THEN baseline ELSE baselineFile
    /\ loaded' = TRUE
    /\ scan' = [step |-> "gathering"]
    /\ scans' = scans + 1
    /\ UNCHANGED <<baselineFile, today, alerts, verdicts, unsaved, faults>>

\* A source that fails has nothing to say.
SourcesAnswered(reddit, sentiment) ==
    /\ scan.step = "gathering"
    /\ scan' = [step |-> "tickers", reddit |-> reddit, sentiment |-> sentiment, best |-> NoBest,
                todo |-> DOMAIN reddit \cup DOMAIN sentiment]
    /\ UNCHANGED <<baseline, baselineFile, loaded, verdicts, unsaved, social>>

\* A ticker without mentions is passed over.
PassOver(t) ==
    /\ scan.step = "tickers" /\ t \in scan.todo
    /\ t \notin DOMAIN scan.reddit
    /\ scan' = [scan EXCEPT !.todo = @ \ {t}]
    /\ UNCHANGED <<baseline, baselineFile, loaded, verdicts, unsaved, social>>

Judge(t) ==
    /\ scan.step = "tickers" /\ t \in scan.todo
    /\ t \in DOMAIN scan.reddit
    /\ LET count == scan.reddit[t]
           spike == IsSpike(t, count)
       IN  /\ scan' = [step |-> "details", ticker |-> t, spike |-> spike, reddit |-> scan.reddit,
                       sentiment |-> scan.sentiment, best |-> scan.best, todo |-> scan.todo \ {t}]
           /\ verdicts' = verdicts \cup
                 {[ticker |-> t, day |-> today, count |-> count, spike |-> spike,
                   old |-> \E d \in DOMAIN DaysOf(t) : d < today - BaselineDays]}
    /\ UNCHANGED <<baseline, baselineFile, loaded, unsaved, social>>

IsBullishSentiment(t) == t \in DOMAIN scan.sentiment /\ scan.sentiment[t] = "bullish"

\* What speaks for a ticker, and with what weight.
Weight == [mentions |-> 30, sentiment |-> 25, interest |-> 25, volume |-> 20]
Support(t, trending, volume) ==
    {w \in DOMAIN Weight :
       \/ w = "mentions" /\ scan.spike
       \/ w = "sentiment" /\ IsBullishSentiment(t)
       \/ w = "interest" /\ trending
       \/ w = "volume" /\ volume = "above"}
Score(support) == MapThenSumSet(LAMBDA w : Weight[w], support)

\* Volume and interest of the ticker are there. A volume that could not be fetched
\* does not stop it.
Details(trending, volume) ==
    /\ scan.step = "details"
    /\ LET t == scan.ticker
           support == Support(t, trending, volume)
           better == volume # "below" /\ Cardinality(support) >= 2 /\ Score(support) > scan.best.score
       IN  /\ baseline' = UpdateBaseline(t, scan.reddit[t])
           /\ scan' = [step |-> "tickers", reddit |-> scan.reddit, sentiment |-> scan.sentiment,
                       todo |-> scan.todo,
                       best |-> IF better THEN [score |-> Score(support), ticker |-> t,
                                                spike |-> scan.spike, volume |-> volume]
                                ELSE scan.best]
    /\ UNCHANGED <<baselineFile, loaded, verdicts, unsaved, social>>

\* The end of build_evidence: the file is replaced, or the error is logged; a best
\* ticker of enough confidence waits for its price.
Conclude(written) ==
    /\ scan.step = "tickers" /\ scan.todo = {}
    /\ baselineFile' = IF written THEN baseline ELSE baselineFile
    /\ unsaved' = (unsaved \/ ~written)
    /\ faults' = IF written THEN faults ELSE faults + 1
    /\ scan' = IF scan.best # NoBest /\ scan.best.score >= SocialThreshold
               THEN [step |-> "price", best |-> scan.best] ELSE NoScan
    /\ UNCHANGED <<baseline, loaded, today, alerts, verdicts, scans>>

ContractSelected(priced) ==
    /\ scan.step = "price"
    /\ alerts' = IF priced THEN alerts \cup {scan.best} ELSE alerts
    /\ scan' = NoScan
    /\ UNCHANGED <<baseline, baselineFile, loaded, today, verdicts, unsaved, scans, faults>>

NextDay ==
    /\ today < MaxDays /\ scan = NoScan
    /\ today' = today + 1
    /\ UNCHANGED <<baseline, baselineFile, loaded, scan, alerts, verdicts, unsaved, scans, faults>>

RestartAnalyst ==
    /\ faults < MaxFaults /\ loaded
    /\ baseline' = [t \in {} |-> NoDays] /\ loaded' = FALSE
    /\ scan' = NoScan
    /\ faults' = faults + 1
    /\ UNCHANGED <<baselineFile, today, alerts, verdicts, unsaved, scans>>

SocialNext ==
    \/ StartScan
    \/ \E named \in SUBSET Tickers, spoken \in SUBSET Tickers :
          \E reddit \in [named -> Counts], sentiment \in [spoken -> {"bullish", "other"}] :
             SourcesAnswered(reddit, sentiment)
    \/ \E t \in Tickers : PassOver(t) \/ Judge(t)
    \/ \E trending \in BOOLEAN, volume \in Volumes : Details(trending, volume)
    \/ Conclude(TRUE) \/ (faults < MaxFaults /\ Conclude(FALSE))
    \/ \E priced \in BOOLEAN : ContractSelected(priced)
    \/ NextDay \/ RestartAnalyst

SocialSpec == SocialInit /\ [][SocialNext]_socialVars

-----------------------------------------------------------------------------
\* Scans of one day that count the same find the same, although each writes today's
\* count into the baseline and the program may restart between them (_is_spike
\* leaves today out, _update_baseline); except where entries older than the
\* baseline's days were still there, or a save failed.
VerdictsAgree ==
    \A v, w \in verdicts :
       /\ v.ticker = w.ticker /\ v.day = w.day /\ v.count = w.count
       /\ ~v.old /\ ~w.old /\ ~unsaved
       => v.spike = w.spike

\* "Emits a TradeSignal when a ticker shows a 2-sigma spike AND has option volume
\* > 500k."
AlertsAreSpikes == \A alert \in alerts : alert.spike /\ alert.volume = "above"
=============================================================================
