------------------------------- MODULE ExitRules -------------------------------
(* The exit rules that are derived from the monitor's records of closed positions
   (gateway/monitor_rules.py), by a program of its own. Hold times are minutes,
   profits percentages. *)
EXTENDS Integers, FiniteSetsExt, SequencesExt

CONSTANTS
    Traders,              \* analysts whose positions are closed
    HoldTimes,
    MinSamplesRequired,   \* 3
    MaxExits              \* bound

ASSUME ExitRulesAssumption == HoldTimes \subseteq Nat /\ MinSamplesRequired \in Nat \ {0}

VARIABLES
    exits,        \* monitor_rl_data.jsonl
    rules         \* monitor_rules.json

exitRulesVars == <<exits, rules>>

ExitRulesInit == exits = <<>> /\ rules = <<>>

\* The monitor has no price at hand when it writes a record: pnl_pct is 0.
RecordExit(a, hold, agreed) ==
    /\ Len(exits) < MaxExits
    /\ exits' = Append(exits, [analyst |-> a, hold |-> hold, agreed |-> agreed, pnl |-> 0])
    /\ UNCHANGED rules

\* The k-th shortest of the holds recorded at the places I.
Ranked(I, k) ==
    Min({t \in {exits[i].hold : i \in I} : Cardinality({i \in I : exits[i].hold <= t}) >= k})

\* Twice the median.
DoubleMedian(I) ==
    LET n == Cardinality(I) IN Ranked(I, (n + 1) \div 2) + Ranked(I, n \div 2 + 1)

\* The bounds without their last correction.
HoldBoundsUncorrected(median2) ==
    LET least == Min({Max({2, median2 \div 4}), 390})
        most == Min({390, median2})
    IN  [least |-> least, most |-> IF least >= most THEN Min({390, least + 30}) ELSE most]

HoldBounds(median2) ==
    LET least == Min({Max({2, median2 \div 4}), 390})
        most == Min({390, median2})
        pushed == IF least >= most THEN Min({390, least + 30}) ELSE most
    IN  [least |-> IF least >= pushed THEN Max({2, pushed - 30}) ELSE least, most |-> pushed]

\* Averages over all of a kind, in percentage points.
DeriveTaAction(I) ==
    LET Profit(kind) == MapThenSumSet(LAMBDA i : exits[i].pnl, kind)
        agreed == {i \in I : exits[i].agreed}
        against == I \ agreed
        outperformance == Profit(agreed) * Cardinality(against) - Profit(against) * Cardinality(agreed)
        unit == Cardinality(agreed) * Cardinality(against)
    IN  IF Cardinality(agreed) < 2 \/ Cardinality(against) < 2 THEN "HOLD"
        ELSE IF outperformance > 10 * unit THEN "EXIT"
        ELSE IF outperformance > 5 * unit THEN "ALERT"
        ELSE "HOLD"

\* The rule of one analyst, whose records are at the places I.
DeriveRule(I) ==
    LET positive == {i \in I : exits[i].hold > 0}
        winning == {i \in positive : exits[i].pnl > 0}
        source == IF Cardinality(winning) >= MinSamplesRequired THEN winning ELSE positive
        bounds == HoldBounds(IF source = {} THEN 10 ELSE DoubleMedian(source))
    IN  IF Cardinality(I) < MinSamplesRequired
        THEN [least |-> 5, most |-> 240, action |-> "HOLD"]
        ELSE [least |-> bounds.least, most |-> bounds.most, action |-> DeriveTaAction(I)]

\* Rules are derived for the analysts that have records; the file is replaced.
Learn ==
    LET Of(a) == {i \in DOMAIN exits : exits[i].analyst = a}
        known == {a \in Traders : Of(a) # {}}
    IN  rules' = [a \in known |-> DeriveRule(Of(a))] /\ UNCHANGED exits

ExitRulesNext ==
    \/ \E a \in Traders, hold \in HoldTimes, agreed \in BOOLEAN : RecordExit(a, hold, agreed)
    \/ Learn

ExitRulesSpec == ExitRulesInit /\ [][ExitRulesNext]_exitRulesVars

-----------------------------------------------------------------------------
\* Every rule leaves time between the earliest and the latest exit, within the
\* hard limits, however long the positions were held (_derive_rule's corrections
\* of bounds that meet).
RuleIsOrdered ==
    \A a \in DOMAIN rules : 2 <= rules[a].least /\ rules[a].least < rules[a].most /\ rules[a].most <= 390
=============================================================================
