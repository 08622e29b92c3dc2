------------------------------- MODULE Learning -------------------------------
(* What the desk learns from closed trades: the journal (memory_journal.py), and
   the evaluation after the close of the market, which moves parameters in the
   analysts' configurations (eod_evaluator.py). The journal's writer
   and the evaluation are processes of their own; SQLite lets one transaction
   write, and a reader sees what is committed. Profits are percentages,
   confidences hundredths, premiums dollars. *)
EXTENDS Integers, FiniteSetsExt, SequencesExt

CONSTANTS
    Learners,         \* the analysts, in the order of their configuration files
    Patterns,         \* symbol and direction of a trade
    Profits,          \* percentages that trades may end with
    FirstParameters,  \* a set of [Range(Learners) -> parameters]
    MinTradesForEval, MaxChangesPerEval,   \* 5 and 3
    RejectMinTrades,  \* 10
    MaxCloses, MaxEvaluations, MaxStops   \* bounds

LearnerSet == Range(Learners)
Labels == {"dated", "UNKNOWN"}
Parameters == [confidence : Nat, premium : Nat]

ASSUME LearningAssumption ==
    /\ IsFiniteSet(Patterns)
    /\ Profits \subseteq Int
    /\ FirstParameters \subseteq [LearnerSet -> Parameters]
    /\ {MinTradesForEval, MaxChangesPerEval, RejectMinTrades} \subseteq Nat \ {0}

VARIABLES
    trades,       \* rows: [id, analyst, pattern, pnl, recent]
    stats,        \* counters of each analyst and pattern type
    tx,           \* both tables as the open transaction sees them, or NoTx
    reclosed,     \* a position was recorded more than once
    closes,       \* how many transactions were begun
    configs,      \* the parameters in the analysts' files
    evaluation,   \* the evaluation that is running, or NoEvaluation
    saved,        \* history: every change, as it was written to a file
    reports,      \* evaluations.json
    stops         \* counter for the bound

learningVars == <<trades, stats, tx, reclosed, closes, configs, evaluation, saved, reports, stops>>
journal == <<trades, stats, tx, reclosed, closes>>
tuning == <<configs, evaluation, saved, reports>>

Types == [pattern : Patterns, label : Labels]
NoTx == [step |-> "none"]
NoEvaluation == [step |-> "none"]
NoCounts == [wins |-> 0, losses |-> 0]

LearningInit ==
    /\ trades = {} /\ stats = [a \in LearnerSet |-> [t \in Types |-> NoCounts]]
    /\ tx = NoTx /\ reclosed = FALSE /\ closes = 0
    /\ configs \in FirstParameters
    /\ evaluation = NoEvaluation /\ saved = {} /\ reports = <<>>
    /\ stops = 0

-----------------------------------------------------------------------------
(* record_close: the row, the counters and the commit are calls with other tasks
   between them. *)

Outcome(pnl) == IF pnl > 5 THEN "WIN" ELSE IF pnl < -5 THEN "LOSS" ELSE "BREAKEVEN"

\* INSERT OR REPLACE: the row of an id that is there already goes.
WithRow(rows, row) == {r \in rows : r.id # row.id} \cup {row}

\* A transaction that shows its row before it ends, and the code's, which does not.
InsertedAtOnce(row) == trades' = WithRow(trades, row)
Inserted(row) == UNCHANGED trades

\* A position that is recorded again is the same analyst's and pattern's.
InsertTrade(id, a, p, l, pnl) ==
    /\ closes < MaxCloses
    /\ tx = NoTx
    /\ \A r \in trades : r.id = id => r.analyst = a /\ r.pattern = p
    /\ LET row == [id |-> id, analyst |-> a, pattern |-> p, pnl |-> pnl, recent |-> TRUE]
       IN  /\ tx' = [step |-> "counters", row |-> row, label |-> l,
                     trades |-> WithRow(trades, row), stats |-> stats]
           /\ Inserted(row)
    /\ closes' = closes + 1
    /\ UNCHANGED <<stats, reclosed, tuning, stops>>

\* A breakeven adds to the profit of its pattern alone.
Counted(counts, pnl) ==
    CASE Outcome(pnl) = "WIN"  -> [counts EXCEPT !.wins = @ + 1]
      [] Outcome(pnl) = "LOSS" -> [counts EXCEPT !.losses = @ + 1]
      [] OTHER                 -> counts

UpdateCounters ==
    /\ tx.step = "counters"
    /\ LET t == [pattern |-> tx.row.pattern, label |-> tx.label]
       IN  tx' = [tx EXCEPT !.step = "commit",
                            !.stats[tx.row.analyst][t] = Counted(@, tx.row.pnl)]
    /\ UNCHANGED <<trades, stats, reclosed, closes, tuning, stops>>

Commit ==
    /\ tx.step = "commit"
    /\ reclosed' = (reclosed \/ \E r \in trades : r.id = tx.row.id)
    /\ trades' = tx.trades
    /\ stats' = tx.stats
    /\ tx' = NoTx
    /\ UNCHANGED <<closes, tuning, stops>>

\* A crash, or an error of SQLite: the connection closes without a commit.
Rollback ==
    /\ stops < MaxStops
    /\ tx # NoTx
    /\ tx' = NoTx
    /\ stops' = stops + 1
    /\ UNCHANGED <<trades, stats, reclosed, closes, tuning>>

\* A week later no row of today is recent.
WeekPasses ==
    /\ tx = NoTx
    /\ \E r \in trades : r.recent
    /\ trades' = {[r EXCEPT !.recent = FALSE] : r \in trades}
    /\ UNCHANGED <<stats, tx, reclosed, closes, tuning, stops>>

(* What the master and the gateway read of it. *)

Wins(a) == SumFunction([t \in Types |-> stats[a][t].wins])
Losses(a) == SumFunction([t \in Types |-> stats[a][t].losses])

\* {} where the code returns None; a rate is wins out of decided trades.
GetAnalystWinRate(a, minTrades) ==
    IF Wins(a) + Losses(a) < minTrades THEN {} ELSE {<<Wins(a), Wins(a) + Losses(a)>>}

ShouldRejectPattern(a, t) ==
    LET c == stats[a][t]
    IN  c.wins + c.losses >= RejectMinTrades /\ 100 * c.wins < 40 * (c.wins + c.losses)

-----------------------------------------------------------------------------
(* run_evaluation *)

GetRecentTrades(a) == {r \in trades : r.analyst = a /\ r.recent}

ComputeAnalystStats(a) ==
    LET rows == GetRecentTrades(a)
    IN  [analyst |-> a,
         total_trades |-> Cardinality(rows),
         wins |-> Cardinality({r \in rows : Outcome(r.pnl) = "WIN"}),
         decided |-> Cardinality({r \in rows : Outcome(r.pnl) # "BREAKEVEN"}),
         pnl |-> MapThenSumSet(LAMBDA r : r.pnl, rows)]

\* win_rate is 0 where nothing was decided.
WinRateBelow(s, percent) == IF s.decided = 0 THEN 0 < percent ELSE 100 * s.wins < percent * s.decided
WinRateAbove(s, percent) == s.decided > 0 /\ 100 * s.wins > percent * s.decided
Worse(s, t) == IF t.decided = 0 THEN FALSE ELSE s.wins * t.decided < t.wins * (IF s.decided = 0 THEN 1 ELSE s.decided)

\* sorted() keeps the order of analysts with the same rate.
WorstFirst(all) ==
    LET Before(i, j) == Worse(all[i], all[j]) \/ (~Worse(all[j], all[i]) /\ i < j)
        order == SetToSortSeq(DOMAIN all, Before)
    IN  [i \in DOMAIN all |-> all[order[i]]]

Change(a, parameter, old, new, reason) ==
    IF old = new THEN <<>>
    ELSE <<[analyst |-> a, parameter |-> parameter, old |-> old, new |-> new, reason |-> reason]>>

ProposeConfidenceChange(s, current) ==
    IF WinRateBelow(s, 40)
    THEN Change(s.analyst, "confidence", current, Min({current + 5, 90}), "poor")
    ELSE IF WinRateAbove(s, 65) /\ s.pnl > 0
    THEN Change(s.analyst, "confidence", current, Max({current - 5, 50}), "strong")
    ELSE <<>>

ProposePremiumChange(s, current) ==
    IF s.pnl < -10 * s.total_trades
    THEN Change(s.analyst, "premium", current, Max({current - 50, 100}), "losing")
    ELSE IF s.pnl > 15 * s.total_trades /\ WinRateAbove(s, 50)
    THEN Change(s.analyst, "premium", current, Min({current + 50, 500}), "winning")
    ELSE <<>>

GenerateParameterChanges(all) ==
    LET OfAnalyst(s) ==
            IF s.total_trades < MinTradesForEval THEN <<>>
            ELSE ProposeConfidenceChange(s, configs[s.analyst].confidence)
                 \o ProposePremiumChange(s, configs[s.analyst].premium)
        worst == WorstFirst(all)
    IN  FlattenSeq([i \in DOMAIN all |-> OfAnalyst(worst[i])])

RunEvaluation ==
    /\ Len(reports) < MaxEvaluations
    /\ evaluation = NoEvaluation
    /\ evaluation' = [step |-> "stats", stats |-> <<>>]
    /\ UNCHANGED <<journal, configs, saved, reports, stops>>

\* One analyst after the other, each with a query of its own.
ComputeStats ==
    /\ evaluation.step = "stats" /\ Len(evaluation.stats) < Len(Learners)
    /\ evaluation' = [evaluation EXCEPT !.stats =
                         Append(@, ComputeAnalystStats(Learners[Len(@) + 1]))]
    /\ UNCHANGED <<journal, configs, saved, reports, stops>>

Split ==
    /\ evaluation.step = "stats" /\ Len(evaluation.stats) = Len(Learners)
    /\ LET candidates == GenerateParameterChanges(evaluation.stats)
           count == Min({MaxChangesPerEval, Len(candidates)})
           made == [i \in 1..count |-> candidates[i]]
       IN  evaluation' = [step |-> "apply", made |-> made, applied |-> 0,
                          deferred |-> SubSeq(candidates, count + 1, Len(candidates))]
    /\ UNCHANGED <<journal, configs, saved, reports, stops>>

ClampValue(parameter, value) ==
    IF parameter = "confidence" THEN Max({50, Min({90, value})}) ELSE Max({100, Min({500, value})})

\* What _apply_changes makes of a change; the report keeps the change as it was.
Clamped(change) == [change EXCEPT !.new = ClampValue(change.parameter, change.new)]

\* One file at a time, each replaced as a whole.
ApplyChange ==
    /\ evaluation.step = "apply" /\ evaluation.applied + 1 \in DOMAIN evaluation.made
    /\ LET change == Clamped(evaluation.made[evaluation.applied + 1])
       IN  /\ configs' = [configs EXCEPT ![change.analyst][change.parameter] = change.new]
           /\ saved' = saved \cup {change}
    /\ evaluation' = [evaluation EXCEPT !.applied = @ + 1]
    /\ UNCHANGED <<journal, reports, stops>>

\* A report of what is going to be applied.
BeforeChanges == evaluation.applied = 0
AfterChanges == \A i \in DOMAIN evaluation.made : i <= evaluation.applied

WriteReport ==
    /\ evaluation.step = "apply" /\ AfterChanges
    /\ reports' = Append(reports, [made |-> evaluation.made, deferred |-> evaluation.deferred])
    /\ evaluation' = NoEvaluation
    /\ UNCHANGED <<journal, configs, saved, stops>>

CrashEvaluation ==
    /\ stops < MaxStops
    /\ evaluation # NoEvaluation
    /\ evaluation' = NoEvaluation
    /\ stops' = stops + 1
    /\ UNCHANGED <<journal, configs, saved, reports>>

-----------------------------------------------------------------------------
LearningNext ==
    \/ \E id \in {r.id : r \in trades} \cup {closes + 1}, a \in LearnerSet, p \in Patterns,
          l \in Labels, pnl \in Profits :
          InsertTrade(id, a, p, l, pnl)
    \/ UpdateCounters \/ Commit \/ Rollback \/ WeekPasses
    \/ RunEvaluation \/ ComputeStats \/ Split \/ ApplyChange \/ WriteReport \/ CrashEvaluation

LearningSpec == LearningInit /\ [][LearningNext]_learningVars

-----------------------------------------------------------------------------
\* The counters that the master and the gateway read agree with the rows, through
\* any crash between the statements of record_close, as long as no position is
\* recorded twice: a repetition replaces the row and counts again.
TablesAgree ==
    ~reclosed => \A a \in LearnerSet :
       LET decided == {r \in trades : r.analyst = a /\ Outcome(r.pnl) # "BREAKEVEN"}
           won == {r \in decided : Outcome(r.pnl) = "WIN"}
       IN  /\ GetAnalystWinRate(a, 1) =
                 IF decided = {} THEN {} ELSE {<<Cardinality(won), Cardinality(decided)>>}
           /\ \A t \in Types :
                 ShouldRejectPattern(a, t) => Cardinality(decided) >= RejectMinTrades

\* What a report lists as made was written to the analyst's file, at the value
\* that its hard limit allows, through a crash of the evaluation as well
\* (run_evaluation applies before it reports).
ReportedIsSaved ==
    \A i \in DOMAIN reports : \A j \in DOMAIN reports[i].made : Clamped(reports[i].made[j]) \in saved

\* What is changed because an analyst gains raises its limit (the comment on
\* avg_pnl_pct above 0.15 in _generate_parameter_changes).
WinnersAreRaised == \A change \in saved : change.reason = "winning" => change.new > change.old
=============================================================================
