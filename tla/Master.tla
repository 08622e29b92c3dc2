------------------------------- MODULE Master -------------------------------
(***************************************************************************)
(* master/master_analyst.py: the MasterAnalyst, which takes the signals of *)
(* all analysts from one queue, one at a time, and passes on to the        *)
(* gateway those that its gates and Claude approve.                        *)
(*                                                                         *)
(* _process is split at its two awaits: the reinforcement-learning gate,   *)
(* which queries the trade database, and Claude.  While it waits, analysts *)
(* emit signals, time passes, the operator works the kill switch and the   *)
(* pauses, and the market changes its volatility.                          *)
(***************************************************************************)
EXTENDS Naturals, Sequences, FiniteSets

CONSTANTS
  Signals,          \* the signals that may be emitted
  Analysts,         \* analyst ids
  Symbols,          \* symbols
  By,               \* analyst_id of a signal
  Symbol,           \* symbol of a signal
  Direction,        \* direction of a signal
  Contract,         \* strike and expiry of a signal
  Confidence,       \* the signal's confidence: below 0.5, up to 0.9, from 0.9
  HighRisk,         \* is its risk_level HIGH?
  Thresholds,       \* values consensus_threshold may have in global.json
  Regimes,          \* volatility that occurs: elevated from VIX 20, crisis above 30
  DedupWindow,      \* _DEDUP_WINDOW_SECONDS, in ticks of the clock
  ConsensusWindow,  \* how long a held signal counts
  ConflictWindow,   \* _CONFLICT_WINDOW_SECONDS
  Pausable,         \* bound: the analysts that the operator pauses
  MaxTime           \* bound: ticks of the clock

Directions == {"CALL", "PUT"}

ASSUME MasterConstants ==
  /\ IsFiniteSet(Signals)
  /\ By \in [Signals -> Analysts]
  /\ Symbol \in [Signals -> Symbols]
  /\ Direction \in [Signals -> Directions]
  /\ Confidence \in [Signals -> {"low", "usual", "sure"}]
  /\ HighRisk \in [Signals -> BOOLEAN]
  /\ Thresholds \subseteq Nat \ {0}
  /\ Regimes \subseteq {"unknown", "calm", "elevated", "crisis"}
  /\ DedupWindow \in Nat
  /\ ConsensusWindow \in Nat
  /\ ConflictWindow \in Nat
  /\ Pausable \subseteq Analysts
  /\ MaxTime \in Nat

VARIABLES
  now,        \* the clock
  pc,         \* "idle", or waiting for the "gate" or for "claude"
  cur,        \* the signal being processed
  began,      \* history: when its processing began
  backers,    \* history: the signals that took it past the consensus gate
  inbox,      \* signal_queue
  threshold,  \* _consensus_threshold
  seen,       \* _seen: when a deduplication key was seen, 0 if not
  recent,     \* _recently_approved of a symbol: a direction and a time, 0 if none
  pending,    \* _pending_consensus: the signals held for a symbol and direction
  killed,     \* is kill_switch.json active (or missing, or malformed)?
  paused,     \* paused_analysts.json
  regime,     \* the VIX of ta_signal.json
  born,       \* timestamp of a signal, 0 until it is emitted
  settled,    \* history: the signals whose processing has ended
  approvals   \* history: the signals put into gateway_queue, and how they got there

task == <<pc, cur, began, backers>>
gates == <<threshold, seen, recent, pending>>
world == <<killed, paused, regime>>
vars == <<now, task, inbox, gates, world, born, settled, approvals>>

-----------------------------------------------------------------------------
NoSignal == "no signal"

\* _dedup_key
Key(s) == <<By[s], Symbol[s], Contract[s], Direction[s]>>
Keys == {Key(s) : s \in Signals}

\* The entry of _pending_consensus that a signal belongs to.
Side(s) == <<Symbol[s], Direction[s]>>

\* A time t that is not older than window w; 0 stands for no time at all.
Within(t, w) == t > 0 /\ t + w >= now

Unapproved == [dir |-> "CALL", at |-> 0]

Init ==
  /\ now = 1
  /\ pc = "idle"
  /\ cur = NoSignal
  /\ began = 0
  /\ backers = {}
  /\ inbox = <<>>
  /\ threshold \in Thresholds
  /\ seen = [k \in Keys |-> 0]
  /\ recent = [y \in Symbols |-> Unapproved]
  /\ pending = [d \in Symbols \X Directions |-> {}]
  /\ killed = FALSE
  /\ paused = {}
  /\ regime \in Regimes
  /\ born = [s \in Signals |-> 0]
  /\ settled = {}
  /\ approvals = {}

-----------------------------------------------------------------------------
\* _process up to its first await.

\* run takes the next signal from the queue.
Takes(s) ==
  /\ pc = "idle"
  /\ inbox # <<>>
  /\ s = Head(inbox)
  /\ inbox' = Tail(inbox)
  /\ UNCHANGED <<now, threshold, recent, pending, world, born, approvals>>

\* It is settled without an await.
SettlesAtOnce(s) ==
  /\ Takes(s)
  /\ settled' = settled \cup {s}
  /\ UNCHANGED task

RejectPaused(s) ==
  /\ SettlesAtOnce(s)
  /\ By[s] \in paused
  /\ UNCHANGED seen

\* Mutant: a key exactly as old as the window is evicted.
LiveStrictly == [k \in Keys |-> IF seen[k] + DedupWindow > now THEN seen[k] ELSE 0]

\* _is_duplicate evicts the keys whose window has passed.
Live == [k \in Keys |-> IF Within(seen[k], DedupWindow) THEN seen[k] ELSE 0]

Duplicate(s) == Live[Key(s)] > 0

DropDuplicate(s) ==
  /\ SettlesAtOnce(s)
  /\ By[s] \notin paused
  /\ Duplicate(s)
  /\ seen' = Live

\* A signal that is no duplicate is seen, whatever becomes of it later.
Sees(s) ==
  /\ By[s] \notin paused
  /\ ~Duplicate(s)
  /\ seen' = [Live EXCEPT ![Key(s)] = now]

\* adjust_confidence_threshold is given the signal's own confidence, so it asks
\* for more than the signal has as soon as the VIX reaches 20, up to the cap of
\* 0.9; in quieter markets only the floor of 0.5 bites.
Volatile(s) ==
  \/ regime # "unknown" /\ Confidence[s] = "low"
  \/ regime \in {"elevated", "crisis"} /\ Confidence[s] # "sure"
  \/ regime = "crisis" /\ HighRisk[s]

\* Kill switch and volatility.
RejectAtOnce(s) ==
  /\ SettlesAtOnce(s)
  /\ Sees(s)
  /\ killed \/ Volatile(s)

\* The signal reaches the reinforcement-learning gate and waits.
AwaitGate(s) ==
  /\ Takes(s)
  /\ Sees(s)
  /\ ~killed
  /\ ~Volatile(s)
  /\ pc' = "gate"
  /\ cur' = s
  /\ began' = now
  /\ UNCHANGED <<backers, settled>>

-----------------------------------------------------------------------------
\* From the answer of the trade database to the question to Claude.

\* _process ends, and run waits for the next signal.
Settles ==
  /\ pc' = "idle"
  /\ cur' = NoSignal
  /\ began' = 0
  /\ backers' = {}
  /\ settled' = settled \cup {cur}
  /\ UNCHANGED <<now, inbox, threshold, seen, world, born>>

\* A pattern that loses too often; a REJECT of Claude, an answer that is neither
\* APPROVE nor REJECT, an error of the API.  The database may also raise, at the
\* gate or when the win rate is fetched for Claude: run logs the exception and
\* goes on with the next signal.
TurnAway ==
  /\ pc # "idle"
  /\ Settles
  /\ UNCHANGED <<recent, pending, approvals>>

\* _check_conflict evicts the approvals whose window has passed.
Standing ==
  [y \in Symbols |-> IF Within(recent[y].at, ConflictWindow) THEN recent[y]
                     ELSE Unapproved]

Conflict(s) ==
  LET last == Standing[Symbol[s]]
  IN last.at > 0 /\ last.dir # Direction[s]

RejectConflict ==
  /\ pc = "gate"
  /\ Conflict(cur)
  /\ Settles
  /\ recent' = Standing
  /\ UNCHANGED <<pending, approvals>>

\* Mutant: signals are counted, not analysts.
AgreeingSignals ==
  {t \in pending[Side(cur)] : now < born[t] + ConsensusWindow} \cup {cur}

\* The held signals that still count, and cur unless its analyst is among theirs.
Agreeing ==
  LET held == {t \in pending[Side(cur)] : now < born[t] + ConsensusWindow}
  IN IF \E t \in held : By[t] = By[cur] THEN held ELSE held \cup {cur}

\* Too few analysts agree: the signal is held, and not heard of again.
Hold ==
  /\ pc = "gate"
  /\ ~Conflict(cur)
  /\ threshold > 1
  /\ Cardinality(Agreeing) < threshold
  /\ Settles
  /\ recent' = Standing
  /\ pending' = [pending EXCEPT ![Side(cur)] = Agreeing]
  /\ UNCHANGED approvals

\* Enough agree, or none need to.  The win rate is fetched and Claude is asked.
AskClaude ==
  /\ pc = "gate"
  /\ ~Conflict(cur)
  /\ IF threshold > 1
     THEN /\ Cardinality(Agreeing) >= threshold
          /\ pending' = [pending EXCEPT ![Side(cur)] = {}]
          /\ backers' = Agreeing
     ELSE UNCHANGED <<pending, backers>>
  /\ recent' = Standing
  /\ pc' = "claude"
  /\ UNCHANGED <<now, cur, began, inbox, threshold, seen, world, born, settled, approvals>>

\* Mutant: an approval that still stands is not replaced by a later one.
ApproveUnlessStanding ==
  /\ pc = "claude"
  /\ Settles
  /\ recent' = IF recent[Symbol[cur]].at > 0 THEN recent
               ELSE [recent EXCEPT ![Symbol[cur]] = [dir |-> Direction[cur], at |-> now]]
  /\ approvals' = approvals \cup
       {[signal |-> cur, began |-> began, at |-> now, backers |-> backers]}
  /\ UNCHANGED pending

\* Claude says APPROVE: the signal goes into gateway_queue.
Approve ==
  /\ pc = "claude"
  /\ Settles
  /\ recent' = [recent EXCEPT ![Symbol[cur]] = [dir |-> Direction[cur], at |-> now]]
  /\ approvals' = approvals \cup
       {[signal |-> cur, began |-> began, at |-> now, backers |-> backers]}
  /\ UNCHANGED pending

-----------------------------------------------------------------------------
\* The analysts, the operator, the market and the clock.

\* The last steps of an analyst's _process.  _seen_signal_keys, which suppresses
\* a repeat there, lives in the analyst's memory: one that was started again and
\* replays the history of its channel repeats itself, so any signal may follow.
Emit(s) ==
  /\ born[s] = 0
  /\ born' = [born EXCEPT ![s] = now]
  /\ inbox' = Append(inbox, s)
  /\ UNCHANGED <<now, task, gates, world, settled, approvals>>

Tick ==
  /\ now < MaxTime
  /\ now' = now + 1
  /\ UNCHANGED <<task, inbox, gates, world, born, settled, approvals>>

ToggleKillSwitch ==
  /\ killed' = ~killed
  /\ UNCHANGED <<now, task, inbox, gates, paused, regime, born, settled, approvals>>

TogglePause(a) ==
  /\ paused' = IF a \in paused THEN paused \ {a} ELSE paused \cup {a}
  /\ UNCHANGED <<now, task, inbox, gates, killed, regime, born, settled, approvals>>

MarketMoves ==
  /\ regime' \in Regimes \ {regime}
  /\ UNCHANGED <<now, task, inbox, gates, killed, paused, born, settled, approvals>>

-----------------------------------------------------------------------------
Process(s) ==
  RejectPaused(s) \/ DropDuplicate(s) \/ RejectAtOnce(s) \/ AwaitGate(s)

MasterStep ==
  \/ \E s \in Signals : Process(s)
  \/ TurnAway
  \/ RejectConflict
  \/ Hold
  \/ AskClaude
  \/ Approve

Environment ==
  \/ \E s \in Signals : Emit(s)
  \/ Tick
  \/ ToggleKillSwitch
  \/ \E a \in Pausable : TogglePause(a)
  \/ MarketMoves

Next == MasterStep \/ Environment

Spec == Init /\ [][Next]_vars

-----------------------------------------------------------------------------
Approval == [signal : Signals, began : Nat, at : Nat, backers : SUBSET Signals]

TypeOK ==
  /\ now \in Nat \ {0}
  /\ pc \in {"idle", "gate", "claude"}
  /\ cur \in Signals \cup {NoSignal}
  /\ pc # "idle" => cur \in Signals
  /\ began \in Nat
  /\ backers \subseteq Signals
  /\ inbox \in Seq(Signals)
  /\ threshold \in Thresholds
  /\ seen \in [Keys -> Nat]
  /\ recent \in [Symbols -> [dir : Directions, at : Nat]]
  /\ pending \in [Symbols \X Directions -> SUBSET Signals]
  /\ killed \in BOOLEAN
  /\ paused \subseteq Analysts
  /\ regime \in Regimes
  /\ born \in [Signals -> Nat]
  /\ settled \subseteq Signals
  /\ approvals \subseteq Approval

\* "Conflicting signals (opposite direction, same symbol, within 30 min) are
\* rejected": the approvals of a call and of a put on one symbol are further
\* apart than the window, whatever was approved and evicted between them.
NoOppositeApprovals == \A a, b \in approvals :
  (/\ Symbol[a.signal] = Symbol[b.signal]
   /\ Direction[a.signal] # Direction[b.signal])
  => a.at > b.at + ConflictWindow \/ b.at > a.at + ConflictWindow

\* "Duplicate within 300s -> dropped": two approved signals of one analyst for
\* one contract and direction began to be processed further apart than the
\* window, whatever the gates, Claude and the queue did to others in between.
NoRepeatedApproval == \A a, b \in approvals :
  (a # b /\ Key(a.signal) = Key(b.signal))
  => a.began > b.began + DedupWindow \/ b.began > a.began + DedupWindow

\* An approval that needed consensus had signals of as many different analysts
\* behind it, for the same symbol and direction, none of which had carried
\* another approved signal past the gate.
ConsensusBacked == threshold > 1 =>
  \A a \in approvals :
    /\ Cardinality({By[t] : t \in a.backers}) >= threshold
    /\ \A t \in a.backers : Side(t) = Side(a.signal)
    /\ \A b \in approvals \ {a} : a.backers \cap b.backers = {}

\* "Kill switch ACTIVATED. All trading halted.": nothing is approved while the
\* kill switch is active.
HaltedMeansHalted == [][killed => approvals' = approvals]_vars
=============================================================================
