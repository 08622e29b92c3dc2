---------------------------- MODULE MasterProofs ----------------------------
(***************************************************************************)
(* What holds of Master for any signals, analysts, windows and thresholds. *)
(* _seen and _recently_approved forget: the argument is that what they     *)
(* forget is older than the window, and that what they keep of a symbol or *)
(* a key bounds all that was approved for it before.                       *)
(***************************************************************************)
EXTENDS Master, TLAPS, FiniteSetTheorems

-----------------------------------------------------------------------------
\* Every signal has a key, a symbol and a side.
LEMMA SignalTypes ==
  ASSUME NEW s \in Signals
  PROVE  /\ Key(s) \in Keys
         /\ Symbol[s] \in Symbols
         /\ Direction[s] \in Directions
         /\ Side(s) \in Symbols \X Directions
<1>1. Key(s) \in Keys
  BY DEF Keys
<1>2. Symbol[s] \in Symbols /\ Direction[s] \in Directions
  BY MasterConstants
<1> QED  BY <1>1, <1>2 DEF Side

\* The master starts well typed.
LEMMA InitType == Init => TypeOK
<1> SUFFICES ASSUME Init PROVE TypeOK
  OBVIOUS
<1>1. /\ recent \in [Symbols -> [dir : Directions, at : Nat]]
      /\ pending \in [Symbols \X Directions -> SUBSET Signals]
      /\ seen \in [Keys -> Nat]
      /\ born \in [Signals -> Nat]
  BY DEF Init, Unapproved, Directions
<1>2. cur \in Signals \cup {NoSignal} /\ inbox \in Seq(Signals)
  BY DEF Init
<1>3. killed \in BOOLEAN
  BY DEF Init
<1>4. /\ now = 1 /\ pc = "idle" /\ began = 0 /\ backers = {}
      /\ threshold \in Thresholds /\ regime \in Regimes
      /\ paused = {} /\ settled = {} /\ approvals = {}
  BY DEF Init
<1> QED  BY <1>1, <1>2, <1>3, <1>4 DEF TypeOK

\* Forgetting keeps the types of what is remembered.
LEMMA EvictionTypes ==
  ASSUME TypeOK
  PROVE  /\ Live \in [Keys -> Nat]
         /\ Standing \in [Symbols -> [dir : Directions, at : Nat]]
BY DEF TypeOK, Live, Standing, Unapproved, Directions

\* The head of the queue is a signal.
LEMMA TakesType ==
  ASSUME TypeOK, NEW s \in Signals, Takes(s)
  PROVE  inbox' \in Seq(Signals)
BY DEF Takes, TypeOK

\* The steps up to the first await keep the types.
LEMMA ProcessType ==
  ASSUME TypeOK, NEW s \in Signals, Process(s)
  PROVE  TypeOK'
<1>1. Takes(s)
  BY DEF Process, RejectPaused, DropDuplicate, RejectAtOnce, AwaitGate, SettlesAtOnce
<1>2. inbox' \in Seq(Signals)
  BY <1>1, TakesType
<1>3. UNCHANGED <<now, threshold, recent, pending, killed, paused, regime, born, approvals>>
  BY <1>1 DEF Takes, world
<1>4. seen' \in [Keys -> Nat]
  <2>1. seen' \in {seen, Live, [Live EXCEPT ![Key(s)] = now]}
    BY DEF Process, RejectPaused, DropDuplicate, RejectAtOnce, AwaitGate, Sees
  <2> QED  BY <2>1, EvictionTypes DEF TypeOK
<1>5. /\ pc' \in {"idle", "gate", "claude"}
      /\ cur' \in Signals \cup {NoSignal}
      /\ pc' # "idle" => cur' \in Signals
      /\ began' \in Nat
      /\ backers' \subseteq Signals
      /\ settled' \subseteq Signals
  BY DEF Process, RejectPaused, DropDuplicate, RejectAtOnce, AwaitGate, SettlesAtOnce,
         task, TypeOK
<1> QED  BY <1>2, <1>3, <1>4, <1>5 DEF TypeOK

\* The signals that agree are signals.
LEMMA AgreeingType ==
  ASSUME TypeOK, cur \in Signals
  PROVE  Agreeing \subseteq Signals
BY SignalTypes DEF Agreeing, TypeOK

\* The end of a signal keeps the types of what it settles.
LEMMA SettlesType ==
  ASSUME TypeOK, pc # "idle", Settles,
         recent' \in [Symbols -> [dir : Directions, at : Nat]],
         pending' \in [Symbols \X Directions -> SUBSET Signals],
         approvals' \subseteq Approval
  PROVE  TypeOK'
BY DEF Settles, TypeOK, world

\* The steps after the first await keep the types.
LEMMA ReviewType ==
  ASSUME TypeOK, TurnAway \/ RejectConflict \/ Hold \/ AskClaude \/ Approve
  PROVE  TypeOK'
<1>1. cur \in Signals /\ pc # "idle"
  BY DEF TypeOK, TurnAway, RejectConflict, Hold, AskClaude, Approve
<1>2. CASE TurnAway
  BY <1>2, <1>1, SettlesType DEF TurnAway, TypeOK
<1>3. CASE RejectConflict
  BY <1>3, <1>1, SettlesType, EvictionTypes DEF RejectConflict, TypeOK
<1>4. CASE Hold
  <2>1. pending' \in [Symbols \X Directions -> SUBSET Signals]
    BY <1>4, <1>1, AgreeingType DEF Hold, TypeOK
  <2> QED  BY <1>4, <1>1, <2>1, SettlesType, EvictionTypes DEF Hold, TypeOK
<1>5. CASE AskClaude
  <2>1. /\ pending' \in [Symbols \X Directions -> SUBSET Signals]
        /\ backers' \subseteq Signals
    BY <1>5, <1>1, AgreeingType DEF AskClaude, TypeOK
  <2>2. recent' \in [Symbols -> [dir : Directions, at : Nat]]
    BY <1>5, EvictionTypes DEF AskClaude
  <2> QED  BY <1>5, <1>1, <2>1, <2>2 DEF AskClaude, TypeOK, world
<1>6. CASE Approve
  <2>1. recent' \in [Symbols -> [dir : Directions, at : Nat]]
    BY <1>6, <1>1, SignalTypes DEF Approve, TypeOK
  <2>2. approvals' \subseteq Approval
    BY <1>6, <1>1 DEF Approve, TypeOK, Approval
  <2> QED  BY <1>6, <1>1, <2>1, <2>2, SettlesType DEF Approve, TypeOK
<1> QED  BY <1>2, <1>3, <1>4, <1>5, <1>6

\* So do the steps of everyone else.
LEMMA EnvironmentType ==
  ASSUME TypeOK, Environment
  PROVE  TypeOK'
<1>1. CASE \E s \in Signals : Emit(s)
  BY <1>1 DEF Emit, TypeOK, task, gates, world
<1>2. CASE Tick
  BY <1>2 DEF Tick, TypeOK, task, gates, world
<1>3. CASE ToggleKillSwitch
  BY <1>3 DEF ToggleKillSwitch, TypeOK, task, gates
<1>4. CASE \E a \in Pausable : TogglePause(a)
  BY <1>4, MasterConstants DEF TogglePause, TypeOK, task, gates
<1>5. CASE MarketMoves
  BY <1>5 DEF MarketMoves, TypeOK, task, gates
<1> QED  BY <1>1, <1>2, <1>3, <1>4, <1>5 DEF Environment

\* TypeOK is inductive.
LEMMA NextType == TypeOK /\ [Next]_vars => TypeOK'
<1> SUFFICES ASSUME TypeOK, [Next]_vars PROVE TypeOK'
  OBVIOUS
<1>1. CASE Next
  BY <1>1, ProcessType, ReviewType, EnvironmentType DEF Next, MasterStep
<1>2. CASE UNCHANGED vars
  BY <1>2 DEF TypeOK, vars, task, gates, world
<1> QED  BY <1>1, <1>2

\* The master, its memory and its queue keep their types.
THEOREM TypeCorrect == Spec => []TypeOK
BY InitType, NextType, PTL DEF Spec

-----------------------------------------------------------------------------
(* No opposite approvals.  What is forgotten of an approval is that it was    *)
(* made longer ago than the window; as long as it is remembered, or a later   *)
(* approval of the same symbol is, an opposite signal conflicts.              *)

\* The approval a is too old to conflict, or the memory r of its symbol is as
\* late as a, and of the same direction unless a was too old by then.
Covered(a, r) ==
  \/ a.at + ConflictWindow < now
  \/ /\ a.at > 0
     /\ a.at <= r.at
     /\ r.dir = Direction[a.signal] \/ a.at + ConflictWindow < r.at

\* Everything approved is covered, and what Claude is asked about conflicts
\* with nothing that was approved.
ConflictInv ==
  /\ \A y \in Symbols : recent[y].at <= now
  /\ \A a \in approvals : a.at <= now /\ Covered(a, recent[Symbol[a.signal]])
  /\ pc = "claude" => \A a \in approvals :
       (/\ Symbol[a.signal] = Symbol[cur]
        /\ Direction[a.signal] # Direction[cur])
       => a.at + ConflictWindow < now
  /\ NoOppositeApprovals

\* What an approval is made of.
LEMMA ApprovalTypes ==
  ASSUME TypeOK, NEW a \in approvals
  PROVE  /\ a.signal \in Signals
         /\ a.began \in Nat
         /\ a.at \in Nat
         /\ Symbol[a.signal] \in Symbols
         /\ Key(a.signal) \in Keys
BY SignalTypes DEF TypeOK, Approval

\* What is remembered of a symbol.
LEMMA RecentTypes ==
  ASSUME TypeOK, NEW y \in Symbols
  PROVE  /\ recent[y].at \in Nat
         /\ now \in Nat
         /\ ConflictWindow \in Nat
         /\ DedupWindow \in Nat
BY MasterConstants DEF TypeOK

\* Eviction uncovers nothing.
LEMMA EvictionCovers ==
  ASSUME TypeOK, ConflictInv, NEW a \in approvals
  PROVE  Covered(a, Standing[Symbol[a.signal]])
<1> DEFINE y == Symbol[a.signal]
<1>1. y \in Symbols /\ a.at \in Nat
  BY ApprovalTypes
<1>2. recent[y].at \in Nat /\ now \in Nat /\ ConflictWindow \in Nat
  BY <1>1, RecentTypes
<1>3. Covered(a, recent[y])
  BY DEF ConflictInv
<1>4. CASE Within(recent[y].at, ConflictWindow)
  <2>1. Standing[y] = recent[y]
    BY <1>1, <1>4 DEF Standing
  <2> QED  BY <1>3, <2>1
<1>5. CASE ~Within(recent[y].at, ConflictWindow)
  <2>1. recent[y].at > 0 => recent[y].at + ConflictWindow < now
    BY <1>2, <1>5 DEF Within
  <2>2. a.at + ConflictWindow < now
    BY <1>1, <1>2, <1>3, <2>1 DEF Covered
  <2> QED  BY <2>2 DEF Covered
<1> QED  BY <1>4, <1>5

\* What stands is not of the future.
LEMMA StandingTime ==
  ASSUME TypeOK, ConflictInv, NEW y \in Symbols
  PROVE  Standing[y].at \in Nat /\ Standing[y].at <= now
<1>1. recent[y].at \in Nat /\ now \in Nat /\ recent[y].at <= now
  BY RecentTypes DEF ConflictInv
<1>2. Standing[y] \in {recent[y], Unapproved}
  BY DEF Standing
<1> QED  BY <1>1, <1>2 DEF Unapproved

\* Steps that leave approvals and their memory alone; only the clock advances.
LEMMA ConflictFrame ==
  ASSUME TypeOK, ConflictInv, now' \in Nat, now <= now',
         UNCHANGED <<recent, approvals>>,
         pc' = "claude" => pc = "claude" /\ cur' = cur
  PROVE  ConflictInv'
<1>1. now \in Nat /\ ConflictWindow \in Nat
  BY MasterConstants DEF TypeOK
<1>2. \A y \in Symbols : recent'[y].at <= now'
  BY <1>1, RecentTypes DEF ConflictInv
<1>3. ASSUME NEW a \in approvals'
      PROVE  a.at <= now' /\ Covered(a, recent[Symbol[a.signal]])'
  <2>1. a.at \in Nat /\ recent[Symbol[a.signal]].at \in Nat
    BY ApprovalTypes, RecentTypes
  <2>2. a.at <= now /\ Covered(a, recent[Symbol[a.signal]])
    BY DEF ConflictInv
  <2> QED  BY <1>1, <2>1, <2>2 DEF Covered
<1>4. ASSUME pc' = "claude", NEW a \in approvals',
             Symbol[a.signal] = Symbol[cur'], Direction[a.signal] # Direction[cur']
      PROVE  a.at + ConflictWindow < now'
  <2>1. a.at \in Nat
    BY ApprovalTypes
  <2>2. a.at + ConflictWindow < now
    BY <1>4 DEF ConflictInv
  <2> QED  BY <1>1, <2>1, <2>2
<1>5. NoOppositeApprovals'
  BY DEF ConflictInv, NoOppositeApprovals
<1> QED  BY <1>2, <1>3, <1>4, <1>5 DEF ConflictInv

\* Steps that only evict.
LEMMA ConflictEvict ==
  ASSUME TypeOK, ConflictInv, recent' = Standing, UNCHANGED <<now, approvals>>,
         pc' = "claude" => \A a \in approvals :
           (/\ Symbol[a.signal] = Symbol[cur']
            /\ Direction[a.signal] # Direction[cur'])
           => a.at + ConflictWindow < now
  PROVE  ConflictInv'
<1>1. \A y \in Symbols : recent'[y].at <= now'
  BY StandingTime
<1>2. ASSUME NEW a \in approvals'
      PROVE  a.at <= now' /\ Covered(a, recent[Symbol[a.signal]])'
  <2>1. Covered(a, Standing[Symbol[a.signal]])
    BY EvictionCovers
  <2>2. a.at <= now
    BY DEF ConflictInv
  <2> QED  BY <2>1, <2>2 DEF Covered
<1>3. NoOppositeApprovals'
  BY DEF ConflictInv, NoOppositeApprovals
<1> QED  BY <1>1, <1>2, <1>3 DEF ConflictInv

\* A signal that passes _check_conflict opposes no approval of the window.
LEMMA PassesConflict ==
  ASSUME TypeOK, ConflictInv, cur \in Signals, ~Conflict(cur),
         NEW a \in approvals,
         Symbol[a.signal] = Symbol[cur], Direction[a.signal] # Direction[cur]
  PROVE  a.at + ConflictWindow < now
<1> DEFINE r == Standing[Symbol[cur]]
<1>1. Symbol[cur] \in Symbols /\ a.at \in Nat
  BY ApprovalTypes
<1>2. r.at \in Nat /\ r.at <= now
  BY <1>1, StandingTime
<1>3. Covered(a, r)
  BY EvictionCovers
<1>4. r.at > 0 => r.dir = Direction[cur]
  BY DEF Conflict
<1>5. now \in Nat /\ ConflictWindow \in Nat
  BY MasterConstants DEF TypeOK
<1> HIDE DEF r
<1> QED  BY <1>1, <1>2, <1>3, <1>4, <1>5 DEF Covered

\* What is approved opposes nothing of the window, and is remembered.
LEMMA ConflictApprove ==
  ASSUME TypeOK, ConflictInv, Approve
  PROVE  ConflictInv'
<1> DEFINE new == [signal |-> cur, began |-> began, at |-> now, backers |-> backers]
           y == Symbol[cur]
<1>1. pc = "claude" /\ cur \in Signals /\ now' = now /\ now \in Nat /\ pc' # "claude"
  BY DEF Approve, Settles, TypeOK
<1>2. approvals' = approvals \cup {new}
  BY DEF Approve
<1>3. y \in Symbols /\ ConflictWindow \in Nat /\ now > 0
  BY <1>1, SignalTypes, MasterConstants DEF TypeOK
<1>4. recent' = [recent EXCEPT ![y] = [dir |-> Direction[cur], at |-> now]]
  BY DEF Approve
<1>5. recent'[y] = [dir |-> Direction[cur], at |-> now]
  BY <1>3, <1>4 DEF TypeOK
<1>6. \A z \in Symbols \ {y} : recent'[z] = recent[z]
  BY <1>4 DEF TypeOK
<1>7. \A z \in Symbols : recent'[z].at <= now'
  BY <1>1, <1>5, <1>6 DEF ConflictInv
<1>8. ASSUME NEW a \in approvals, Symbol[a.signal] = y, Direction[a.signal] # Direction[cur]
      PROVE  a.at + ConflictWindow < now
  BY <1>1, <1>8 DEF ConflictInv
<1>9. ASSUME NEW a \in approvals
      PROVE  a.at <= now' /\ Covered(a, recent[Symbol[a.signal]])'
  <2>1. a.at \in Nat /\ Symbol[a.signal] \in Symbols
    BY ApprovalTypes
  <2>2. a.at <= now /\ Covered(a, recent[Symbol[a.signal]])
    BY DEF ConflictInv
  <2>3. CASE Symbol[a.signal] = y
    <3>1. \/ a.at = 0
          \/ Direction[a.signal] = Direction[cur]
          \/ a.at + ConflictWindow < now
      BY <1>8, <2>3
    <3>2. a.at = 0 => a.at + ConflictWindow < now
      BY <2>2 DEF Covered
    <3> QED  BY <1>1, <1>3, <1>5, <2>1, <2>2, <2>3, <3>1, <3>2 DEF Covered
  <2>4. CASE Symbol[a.signal] # y
    BY <1>1, <1>6, <2>1, <2>2, <2>4 DEF Covered
  <2> QED  BY <2>3, <2>4
<1>10. ASSUME NEW a, a = new
       PROVE  a.at <= now' /\ Covered(a, recent[Symbol[a.signal]])'
  BY <1>1, <1>3, <1>5, <1>10 DEF Covered
<1>11. NoOppositeApprovals'
  <2> SUFFICES ASSUME NEW a \in approvals', NEW b \in approvals',
                      Symbol[a.signal] = Symbol[b.signal],
                      Direction[a.signal] # Direction[b.signal]
               PROVE  a.at > b.at + ConflictWindow \/ b.at > a.at + ConflictWindow
    BY DEF NoOppositeApprovals
  <2>1. CASE a \in approvals /\ b \in approvals
    BY <2>1 DEF ConflictInv, NoOppositeApprovals
  <2>2. CASE a \in approvals /\ b = new
    <3>1. a.at \in Nat /\ a.at + ConflictWindow < now
      BY <1>8, <2>2, ApprovalTypes
    <3> QED  BY <1>1, <1>3, <2>2, <3>1
  <2>3. CASE a = new /\ b \in approvals
    <3>1. b.at \in Nat /\ b.at + ConflictWindow < now
      BY <1>8, <2>3, ApprovalTypes
    <3> QED  BY <1>1, <1>3, <2>3, <3>1
  <2>4. CASE a = new /\ b = new
    BY <2>4
  <2> QED  BY <1>2, <2>1, <2>2, <2>3, <2>4
<1> QED  BY <1>1, <1>2, <1>7, <1>9, <1>10, <1>11 DEF ConflictInv

\* ConflictInv is inductive.
LEMMA ConflictStep ==
  ASSUME TypeOK, TypeOK', ConflictInv, [Next]_vars
  PROVE  ConflictInv'
<1>1. now \in Nat /\ now' \in Nat
  BY DEF TypeOK
<1>2. CASE \E s \in Signals : Process(s)
  <2>1. UNCHANGED <<now, recent, approvals>> /\ pc' # "claude"
    BY <1>2 DEF Process, RejectPaused, DropDuplicate, RejectAtOnce, AwaitGate,
                SettlesAtOnce, Takes, task
  <2> QED  BY <1>1, <2>1, ConflictFrame
<1>3. CASE TurnAway
  <2>1. UNCHANGED <<now, recent, approvals>> /\ pc' # "claude"
    BY <1>3 DEF TurnAway, Settles
  <2> QED  BY <1>1, <2>1, ConflictFrame
<1>4. CASE RejectConflict \/ Hold
  <2>1. recent' = Standing /\ UNCHANGED <<now, approvals>> /\ pc' # "claude"
    BY <1>4 DEF RejectConflict, Hold, Settles
  <2> QED  BY <2>1, ConflictEvict
<1>5. CASE AskClaude
  <2>1. recent' = Standing /\ UNCHANGED <<now, approvals, cur>> /\ ~Conflict(cur)
    BY <1>5 DEF AskClaude
  <2>2. cur \in Signals
    BY <1>5 DEF AskClaude, TypeOK
  <2> QED  BY <2>1, <2>2, PassesConflict, ConflictEvict
<1>6. CASE Approve
  BY <1>6, ConflictApprove
<1>7. CASE Environment
  <2>1. /\ UNCHANGED <<recent, approvals, pc, cur>>
        /\ now' \in {now, now + 1}
    BY <1>7 DEF Environment, Emit, Tick, ToggleKillSwitch, TogglePause, MarketMoves,
                task, gates
  <2> QED  BY <1>1, <2>1, ConflictFrame
<1>8. CASE UNCHANGED vars
  BY <1>1, <1>8, ConflictFrame DEF vars, task, gates
<1> QED  BY <1>2, <1>3, <1>4, <1>5, <1>6, <1>7, <1>8 DEF Next, MasterStep

\* "Conflicting signals are rejected": whatever the other gates, Claude and the
\* operator do, and for windows and signals of any number, no call and put on
\* one symbol are approved within the conflict window of each other.
THEOREM ConflictsRejected == Spec => []NoOppositeApprovals
<1>1. Init => ConflictInv
  BY DEF Init, ConflictInv, NoOppositeApprovals, Unapproved
<1>2. TypeOK /\ TypeOK' /\ ConflictInv /\ [Next]_vars => ConflictInv'
  BY ConflictStep
<1>3. ConflictInv => NoOppositeApprovals
  BY DEF ConflictInv
<1> QED  BY <1>1, <1>2, <1>3, TypeCorrect, PTL DEF Spec

-----------------------------------------------------------------------------
(* No repeated approvals.  The time that _seen has for a key is not before    *)
(* the last approval of that key was taken from the queue, until that is      *)
(* longer ago than the window.                                                *)

\* What began at time t is not later than v, or it is out of the window.
Kept(t, v) == t > 0 /\ (t <= v \/ t + DedupWindow < now)

\* Everything approved, and the signal in process, is kept by _seen; and that
\* signal repeats nothing that was approved.
DedupInv ==
  /\ \A k \in Keys : seen[k] <= now
  /\ \A a \in approvals : a.began <= now /\ Kept(a.began, seen[Key(a.signal)])
  /\ pc # "idle" =>
       /\ began <= now
       /\ Kept(began, seen[Key(cur)])
       /\ \A a \in approvals :
            Key(a.signal) = Key(cur) => a.began + DedupWindow < began
  /\ NoRepeatedApproval

\* What is remembered of a key.
LEMMA SeenTypes ==
  ASSUME TypeOK, NEW k \in Keys
  PROVE  /\ seen[k] \in Nat
         /\ now \in Nat
         /\ DedupWindow \in Nat
BY MasterConstants DEF TypeOK

\* What _is_duplicate evicts is kept by its age.
LEMMA LiveKeeps ==
  ASSUME TypeOK, NEW k \in Keys, NEW t \in Nat, Kept(t, seen[k]), seen[k] <= now
  PROVE  Kept(t, Live[k]) /\ Live[k] \in Nat /\ Live[k] <= now
<1>1. seen[k] \in Nat /\ now \in Nat /\ DedupWindow \in Nat
  BY SeenTypes
<1>2. CASE Within(seen[k], DedupWindow)
  <2>1. Live[k] = seen[k]
    BY <1>2 DEF Live
  <2> QED  BY <1>1, <2>1
<1>3. CASE ~Within(seen[k], DedupWindow)
  <2>1. Live[k] = 0
    BY <1>3 DEF Live
  <2> QED  BY <1>1, <1>3, <2>1 DEF Within, Kept
<1> QED  BY <1>2, <1>3

\* The times after eviction are not of the future.
LEMMA LiveTimes ==
  ASSUME TypeOK, DedupInv, NEW k \in Keys
  PROVE  Live[k] <= now
<1>1. seen[k] \in Nat /\ now \in Nat /\ seen[k] <= now
  BY SeenTypes DEF DedupInv
<1>2. Live[k] \in {seen[k], 0}
  BY DEF Live
<1> QED  BY <1>1, <1>2

\* Steps after the first await, and those of the environment: _seen stays, and
\* the signal in process stays or is left.
LEMMA DedupFrame ==
  ASSUME TypeOK, DedupInv, now' \in Nat, now <= now', UNCHANGED <<seen, approvals>>,
         pc' # "idle" => pc # "idle" /\ UNCHANGED <<cur, began>>
  PROVE  DedupInv'
<1>1. now \in Nat /\ DedupWindow \in Nat
  BY MasterConstants DEF TypeOK
<1>2. \A k \in Keys : seen'[k] <= now'
  BY <1>1, SeenTypes DEF DedupInv
<1>3. ASSUME NEW a \in approvals'
      PROVE  a.began <= now' /\ Kept(a.began, seen[Key(a.signal)])'
  <2>1. a.began \in Nat /\ seen[Key(a.signal)] \in Nat
    BY ApprovalTypes, SeenTypes
  <2>2. a.began <= now /\ Kept(a.began, seen[Key(a.signal)])
    BY DEF DedupInv
  <2> QED  BY <1>1, <2>1, <2>2 DEF Kept
<1>4. ASSUME pc' # "idle"
      PROVE  /\ began' <= now'
             /\ Kept(began, seen[Key(cur)])'
             /\ \A a \in approvals' :
                  Key(a.signal) = Key(cur') => a.began + DedupWindow < began'
  <2>1. pc # "idle" /\ cur \in Signals /\ began \in Nat
    BY <1>4 DEF TypeOK
  <2>2. Key(cur) \in Keys
    BY <2>1, SignalTypes
  <2>3. seen[Key(cur)] \in Nat
    BY <2>2, SeenTypes
  <2>4. began <= now /\ Kept(began, seen[Key(cur)])
    BY <2>1 DEF DedupInv
  <2>5. cur' = cur /\ began' = began /\ seen' = seen
    BY <1>4
  <2>6. Key(cur') = Key(cur)
    BY <2>5
  <2>7. began' <= now' /\ Kept(began, seen[Key(cur)])'
    BY <1>1, <2>1, <2>3, <2>4, <2>5, <2>6 DEF Kept
  <2>8. \A a \in approvals : Key(a.signal) = Key(cur) => a.began + DedupWindow < began
    BY <2>1 DEF DedupInv
  <2> QED  BY <2>5, <2>6, <2>7, <2>8
<1>5. NoRepeatedApproval'
  BY DEF DedupInv, NoRepeatedApproval
<1> QED  BY <1>2, <1>3, <1>4, <1>5 DEF DedupInv

\* The step that takes a signal from the queue, as far as _seen goes.
LEMMA DedupProcess ==
  ASSUME TypeOK, DedupInv, NEW s \in Signals, Process(s)
  PROVE  DedupInv'
<1>1. now' = now /\ approvals' = approvals /\ pc = "idle"
  BY DEF Process, RejectPaused, DropDuplicate, RejectAtOnce, AwaitGate, SettlesAtOnce,
         Takes
<1>2. now \in Nat /\ now > 0 /\ DedupWindow \in Nat /\ Key(s) \in Keys
  BY SignalTypes, MasterConstants DEF TypeOK
<1>3. NoRepeatedApproval'
  BY <1>1 DEF DedupInv, NoRepeatedApproval
<1>4. CASE RejectPaused(s)
  <2>1. UNCHANGED <<seen, approvals, pc, cur, began, now>>
    BY <1>1, <1>4 DEF RejectPaused, SettlesAtOnce, task
  <2> QED  BY <1>2, <2>1, DedupFrame
<1>5. ASSUME NEW a \in approvals
      PROVE  /\ a.began \in Nat /\ a.began <= now /\ Key(a.signal) \in Keys
             /\ Kept(a.began, Live[Key(a.signal)])
  <2>1. a.began \in Nat /\ Key(a.signal) \in Keys
    BY ApprovalTypes
  <2>2. a.began <= now /\ Kept(a.began, seen[Key(a.signal)]) /\ seen[Key(a.signal)] <= now
    BY <2>1 DEF DedupInv
  <2> QED  BY <2>1, <2>2, LiveKeeps
<1>6. CASE DropDuplicate(s)
  <2>1. seen' = Live /\ pc' = "idle"
    BY <1>1, <1>6 DEF DropDuplicate, SettlesAtOnce, task
  <2>2. \A k \in Keys : seen'[k] <= now'
    BY <1>1, <2>1, LiveTimes
  <2>3. \A a \in approvals' : a.began <= now' /\ Kept(a.began, seen[Key(a.signal)])'
    BY <1>1, <1>5, <2>1 DEF Kept
  <2> QED  BY <1>3, <2>1, <2>2, <2>3 DEF DedupInv
<1>7. CASE RejectAtOnce(s) \/ AwaitGate(s)
  <2>1. ~Duplicate(s) /\ seen' = [Live EXCEPT ![Key(s)] = now]
    BY <1>7 DEF RejectAtOnce, AwaitGate, Sees
  <2>2. Live \in [Keys -> Nat]
    BY EvictionTypes
  <2>3. seen'[Key(s)] = now /\ \A k \in Keys \ {Key(s)} : seen'[k] = Live[k]
    BY <1>2, <2>1, <2>2
  <2>4. \A k \in Keys : seen'[k] <= now'
    BY <1>1, <1>2, <2>3, LiveTimes
  <2>5. \A a \in approvals' : a.began <= now' /\ Kept(a.began, seen[Key(a.signal)])'
    <3> SUFFICES ASSUME NEW a \in approvals
                 PROVE  a.began <= now' /\ Kept(a.began, seen[Key(a.signal)])'
      BY <1>1
    <3>1. CASE Key(a.signal) = Key(s)
      BY <1>1, <1>5, <2>3, <3>1 DEF Kept
    <3>2. CASE Key(a.signal) # Key(s)
      <4>1. seen'[Key(a.signal)] = Live[Key(a.signal)]
        BY <1>5, <2>3, <3>2
      <4> QED  BY <1>1, <1>5, <4>1 DEF Kept
    <3> QED  BY <3>1, <3>2
  <2>6. \A a \in approvals : Key(a.signal) = Key(s) => a.began + DedupWindow < now
    <3> SUFFICES ASSUME NEW a \in approvals, Key(a.signal) = Key(s)
                 PROVE  a.began + DedupWindow < now
      OBVIOUS
    <3>1. Live[Key(s)] \in Nat /\ ~(Live[Key(s)] > 0)
      BY <1>2, <2>1, <2>2 DEF Duplicate
    <3>2. Kept(a.began, Live[Key(s)]) /\ a.began \in Nat
      BY <1>5
    <3> QED  BY <1>2, <3>1, <3>2 DEF Kept
  <2>7. pc' = "idle" \/ (cur' = s /\ began' = now)
    BY <1>1, <1>7 DEF RejectAtOnce, AwaitGate, SettlesAtOnce, task
  <2>8. ASSUME pc' # "idle"
        PROVE  /\ began' <= now'
               /\ Kept(began, seen[Key(cur)])'
               /\ \A a \in approvals' :
                    Key(a.signal) = Key(cur') => a.began + DedupWindow < began'
    <3>1. cur' = s /\ began' = now
      BY <2>7, <2>8
    <3>2. Key(cur') = Key(s)
      BY <3>1
    <3>3. began' <= now' /\ Kept(began, seen[Key(cur)])'
      BY <1>1, <1>2, <2>3, <3>1, <3>2 DEF Kept
    <3> QED  BY <1>1, <2>6, <3>1, <3>2, <3>3
  <2> QED  BY <1>3, <2>4, <2>5, <2>8 DEF DedupInv
<1> QED  BY <1>4, <1>6, <1>7 DEF Process

\* What is approved repeats nothing of the window, and is kept by _seen.
LEMMA DedupApprove ==
  ASSUME TypeOK, DedupInv, Approve
  PROVE  DedupInv'
<1> DEFINE new == [signal |-> cur, began |-> began, at |-> now, backers |-> backers]
<1>1. pc # "idle" /\ pc' = "idle" /\ UNCHANGED <<now, seen>>
  BY DEF Approve, Settles
<1>2. approvals' = approvals \cup {new}
  BY DEF Approve
<1>3. began \in Nat /\ DedupWindow \in Nat
  BY MasterConstants DEF TypeOK
<1>4. began <= now /\ Kept(began, seen[Key(cur)])
  BY <1>1 DEF DedupInv
<1>5. ASSUME NEW a \in approvals, Key(a.signal) = Key(cur)
      PROVE  a.began + DedupWindow < began
  BY <1>1, <1>5 DEF DedupInv
<1>6. \A k \in Keys : seen'[k] <= now'
  BY <1>1 DEF DedupInv
<1>7. ASSUME NEW a \in approvals
      PROVE  a.began <= now' /\ Kept(a.began, seen[Key(a.signal)])'
  BY <1>1 DEF DedupInv, Kept
<1>8. ASSUME NEW a, a = new
      PROVE  a.began <= now' /\ Kept(a.began, seen[Key(a.signal)])'
  <2>1. a.began = began /\ Key(a.signal) = Key(cur)
    BY <1>8
  <2> QED  BY <1>1, <1>4, <2>1 DEF Kept
<1>9. NoRepeatedApproval'
  <2> SUFFICES ASSUME NEW a \in approvals', NEW b \in approvals', a # b,
                      Key(a.signal) = Key(b.signal)
               PROVE  a.began > b.began + DedupWindow \/ b.began > a.began + DedupWindow
    BY DEF NoRepeatedApproval
  <2>1. CASE a \in approvals /\ b \in approvals
    BY <2>1 DEF DedupInv, NoRepeatedApproval
  <2>2. CASE a \in approvals /\ b = new
    <3>1. b.began = began /\ Key(b.signal) = Key(cur)
      BY <2>2
    <3>2. a.began \in Nat /\ a.began + DedupWindow < began
      BY <1>5, <2>2, <3>1, ApprovalTypes
    <3> QED  BY <1>3, <3>1, <3>2
  <2>3. CASE a = new /\ b \in approvals
    <3>1. a.began = began /\ Key(a.signal) = Key(cur)
      BY <2>3
    <3>2. b.began \in Nat /\ b.began + DedupWindow < began
      BY <1>5, <2>3, <3>1, ApprovalTypes
    <3> QED  BY <1>3, <3>1, <3>2
  <2> QED  BY <1>2, <2>1, <2>2, <2>3
<1> QED  BY <1>1, <1>2, <1>6, <1>7, <1>8, <1>9 DEF DedupInv

\* DedupInv is inductive.
LEMMA DedupStep ==
  ASSUME TypeOK, TypeOK', DedupInv, [Next]_vars
  PROVE  DedupInv'
<1>1. now \in Nat /\ now' \in Nat
  BY DEF TypeOK
<1>2. CASE \E s \in Signals : Process(s)
  BY <1>2, DedupProcess
<1>3. CASE TurnAway \/ RejectConflict \/ Hold
  <2>1. UNCHANGED <<now, seen, approvals>> /\ pc' = "idle"
    BY <1>3 DEF TurnAway, RejectConflict, Hold, Settles
  <2> QED  BY <1>1, <2>1, DedupFrame
<1>4. CASE AskClaude
  <2>1. UNCHANGED <<now, seen, approvals, cur, began>> /\ pc # "idle"
    BY <1>4 DEF AskClaude
  <2> QED  BY <1>1, <2>1, DedupFrame
<1>5. CASE Approve
  BY <1>5, DedupApprove
<1>6. CASE Environment
  <2>1. /\ UNCHANGED <<seen, approvals, pc, cur, began>>
        /\ now' \in {now, now + 1}
    BY <1>6 DEF Environment, Emit, Tick, ToggleKillSwitch, TogglePause, MarketMoves,
                task, gates
  <2> QED  BY <1>1, <2>1, DedupFrame
<1>7. CASE UNCHANGED vars
  BY <1>1, <1>7, DedupFrame DEF vars, task, gates
<1> QED  BY <1>2, <1>3, <1>4, <1>5, <1>6, <1>7 DEF Next, MasterStep

\* "Duplicate within 300s -> dropped": whatever queues, gates and answers come
\* between, and for windows and signals of any number, two approved signals of
\* one key were taken from the queue further apart than the window.
THEOREM DuplicatesDropped == Spec => []NoRepeatedApproval
<1>1. Init => DedupInv
  BY DEF Init, DedupInv, NoRepeatedApproval
<1>2. TypeOK /\ TypeOK' /\ DedupInv /\ [Next]_vars => DedupInv'
  BY DedupStep
<1>3. DedupInv => NoRepeatedApproval
  BY DEF DedupInv
<1> QED  BY <1>1, <1>2, <1>3, TypeCorrect, PTL DEF Spec

-----------------------------------------------------------------------------
(* Consensus.  A signal is handled once: it waits in the queue, is in         *)
(* process, or is settled.  What is held is settled, so the signal in process *)
(* is new to every side; and who has carried a signal past the gate is gone   *)
(* from _pending_consensus for good.                                          *)

\* Every emitted signal is in one place.
OnceInv ==
  /\ \A i, j \in 1..Len(inbox) : inbox[i] = inbox[j] => i = j
  /\ \A i \in 1..Len(inbox) :
       /\ born[inbox[i]] > 0
       /\ inbox[i] \notin settled
       /\ pc # "idle" => inbox[i] # cur
  /\ \A s \in settled : born[s] > 0
  /\ pc # "idle" => born[cur] > 0 /\ cur \notin settled

Sides == Symbols \X Directions

\* What is held for a side: settled signals of that side, one of each analyst,
\* none of which stands behind an approval.
HeldInv == \A d \in Sides :
  /\ \A t \in pending[d] : t \in settled /\ Side(t) = d
  /\ \A t, u \in pending[d] : By[t] = By[u] => t = u
  /\ \A a \in approvals : pending[d] \cap a.backers = {}

\* What is held against what Claude is asked about.
AskedInv == pc = "claude" =>
  /\ Cardinality({By[t] : t \in backers}) >= threshold
  /\ \A t \in backers : Side(t) = Side(cur) /\ t \in settled \cup {cur}
  /\ \A d \in Sides : pending[d] \cap backers = {}
  /\ \A a \in approvals : a.backers \cap backers = {}

BackersInv == threshold > 1 =>
  /\ HeldInv
  /\ AskedInv
  /\ \A a \in approvals : a.backers \subseteq settled
  /\ ConsensusBacked

\* A step that moves no signal but the one in process, which it may settle.
LEMMA OnceFrame ==
  ASSUME TypeOK, OnceInv, UNCHANGED <<inbox, born>>,
         \/ pc' = "idle" /\ pc # "idle" /\ settled' = settled \cup {cur}
         \/ UNCHANGED <<pc, settled, cur>>
         \/ pc # "idle" /\ UNCHANGED <<settled, cur>>
  PROVE  OnceInv'
BY DEF OnceInv

\* The queue hands over a signal that is nowhere else.
LEMMA OnceProcess ==
  ASSUME TypeOK, OnceInv, NEW s \in Signals, Process(s)
  PROVE  OnceInv'
<1>1. /\ inbox \in Seq(Signals) /\ inbox # <<>> /\ s = inbox[1] /\ inbox' = Tail(inbox)
      /\ pc = "idle" /\ born' = born
  BY DEF Process, RejectPaused, DropDuplicate, RejectAtOnce, AwaitGate, SettlesAtOnce,
         Takes, TypeOK
<1>2. Len(inbox) \in Nat /\ Len(inbox) > 0
  BY <1>1
<1>3. Len(inbox') = Len(inbox) - 1
  BY <1>1, <1>2
<1>4. \A i \in 1..Len(inbox') : inbox'[i] = inbox[i + 1] /\ i + 1 \in 1..Len(inbox)
  BY <1>1, <1>2, <1>3
<1>5. \A i, j \in 1..Len(inbox') : inbox'[i] = inbox'[j] => i = j
  BY <1>2, <1>3, <1>4 DEF OnceInv
<1>6. \A i \in 1..Len(inbox') : born[inbox'[i]] > 0 /\ inbox'[i] \notin settled /\ inbox'[i] # s
  BY <1>1, <1>2, <1>3, <1>4 DEF OnceInv
<1>7. born[s] > 0 /\ s \notin settled
  BY <1>1, <1>2 DEF OnceInv
<1>8. \/ pc' = pc /\ settled' = settled \cup {s}
      \/ pc' = "gate" /\ cur' = s /\ settled' = settled
  BY DEF Process, RejectPaused, DropDuplicate, RejectAtOnce, AwaitGate, SettlesAtOnce, task
<1>9. \A t \in settled : born[t] > 0
  BY DEF OnceInv
<1> QED  BY <1>1, <1>5, <1>6, <1>7, <1>8, <1>9 DEF OnceInv

\* A signal is emitted once.
LEMMA OnceEmit ==
  ASSUME TypeOK, OnceInv, NEW s \in Signals, Emit(s)
  PROVE  OnceInv'
<1>1. /\ inbox \in Seq(Signals) /\ inbox' = Append(inbox, s) /\ born \in [Signals -> Nat]
      /\ born[s] = 0 /\ born' = [born EXCEPT ![s] = now] /\ now \in Nat /\ now > 0
      /\ UNCHANGED <<pc, cur, settled>>
  BY DEF Emit, TypeOK, task
<1>2. /\ Len(inbox') = Len(inbox) + 1 /\ Len(inbox) \in Nat
      /\ inbox'[Len(inbox) + 1] = s
      /\ \A i \in 1..Len(inbox) : inbox'[i] = inbox[i] /\ inbox[i] \in Signals
  BY <1>1
<1>3. \A i \in 1..Len(inbox) : inbox[i] # s
  BY <1>1, <1>2 DEF OnceInv
<1>4. \A t \in Signals \ {s} : born'[t] = born[t]
  BY <1>1
<1>5. born'[s] > 0 /\ s \notin settled /\ (pc # "idle" => cur # s)
  BY <1>1 DEF OnceInv, TypeOK
<1>6. \A i, j \in 1..Len(inbox') : inbox'[i] = inbox'[j] => i = j
  BY <1>2, <1>3 DEF OnceInv
<1>7. \A i \in 1..Len(inbox') :
        /\ born'[inbox'[i]] > 0
        /\ inbox'[i] \notin settled
        /\ pc # "idle" => inbox'[i] # cur
  BY <1>2, <1>3, <1>4, <1>5 DEF OnceInv
<1>8. \A t \in settled : born'[t] > 0
  BY <1>4, <1>5 DEF OnceInv, TypeOK
<1>9. pc # "idle" => born'[cur] > 0 /\ cur \notin settled
  BY <1>4, <1>5 DEF OnceInv, TypeOK
<1> QED  BY <1>1, <1>6, <1>7, <1>8, <1>9 DEF OnceInv

\* OnceInv is inductive.
LEMMA OnceStep ==
  ASSUME TypeOK, OnceInv, [Next]_vars
  PROVE  OnceInv'
<1>1. CASE \E s \in Signals : Process(s)
  BY <1>1, OnceProcess
<1>2. CASE TurnAway \/ RejectConflict \/ Hold \/ Approve
  <2>1. pc # "idle"
    BY <1>2 DEF TurnAway, RejectConflict, Hold, Approve
  <2>2. Settles
    BY <1>2 DEF TurnAway, RejectConflict, Hold, Approve
  <2> QED  BY <2>1, <2>2, OnceFrame DEF Settles
<1>3. CASE AskClaude
  BY <1>3, OnceFrame DEF AskClaude
<1>4. CASE \E s \in Signals : Emit(s)
  BY <1>4, OnceEmit
<1>5. CASE Tick \/ ToggleKillSwitch \/ (\E a \in Pausable : TogglePause(a)) \/ MarketMoves
  <2>1. UNCHANGED <<inbox, born, pc, settled, cur>>
    BY <1>5 DEF Tick, ToggleKillSwitch, TogglePause, MarketMoves, task
  <2> QED  BY <2>1, OnceFrame
<1>6. CASE UNCHANGED vars
  BY <1>6, OnceFrame DEF vars, task
<1> QED  BY <1>1, <1>2, <1>3, <1>4, <1>5, <1>6 DEF Next, MasterStep, Environment

\* Signals of different analysts are as many as their analysts.
LEMMA OneEach ==
  ASSUME NEW S \in SUBSET Signals, \A t, u \in S : By[t] = By[u] => t = u
  PROVE  Cardinality({By[t] : t \in S}) = Cardinality(S)
<1> DEFINE f == [t \in S |-> By[t]]
           T == {By[t] : t \in S}
<1>1. f \in Surjection(S, T)
  BY DEF Surjection
<1>2. f \in Injection(S, T)
  BY DEF Injection, IsInjective
<1>3. IsFiniteSet(S)
  BY MasterConstants, FS_Subset
<1> HIDE DEF f, T
<1>4. Cardinality(T) = Cardinality(S)
  BY <1>1, <1>2, <1>3, FS_Surjection
<1> QED  BY <1>4 DEF T

\* Those who agree are of one side and of different analysts, and stand behind
\* no approval.
LEMMA AgreeingFacts ==
  ASSUME TypeOK, OnceInv, HeldInv, cur \in Signals, pc # "idle",
         \A a \in approvals : a.backers \subseteq settled
  PROVE  /\ Agreeing \in SUBSET Signals
         /\ \A t \in Agreeing : Side(t) = Side(cur) /\ t \in settled \cup {cur}
         /\ \A t, u \in Agreeing : By[t] = By[u] => t = u
         /\ \A a \in approvals : Agreeing \cap a.backers = {}
<1> DEFINE held == {t \in pending[Side(cur)] : now < born[t] + ConsensusWindow}
<1>1. Side(cur) \in Sides /\ cur \notin settled
  BY SignalTypes DEF Sides, OnceInv
<1>2. held \subseteq pending[Side(cur)]
  OBVIOUS
<1>3. Agreeing = IF \E t \in held : By[t] = By[cur] THEN held ELSE held \cup {cur}
  BY DEF Agreeing
<1> HIDE DEF held
<1>4. /\ \A t \in held : Side(t) = Side(cur) /\ t \in settled
      /\ \A t, u \in held : By[t] = By[u] => t = u
      /\ \A a \in approvals : held \cap a.backers = {}
  BY <1>1, <1>2 DEF HeldInv
<1>5. \A a \in approvals : cur \notin a.backers
  BY <1>1
<1>6. Agreeing \in SUBSET Signals
  BY AgreeingType
<1>7. CASE \E t \in held : By[t] = By[cur]
  BY <1>3, <1>4, <1>6, <1>7
<1>8. CASE ~\E t \in held : By[t] = By[cur]
  BY <1>3, <1>4, <1>5, <1>6, <1>8
<1> QED  BY <1>7, <1>8

\* A step that approves nothing, holds nothing and asks nothing.
LEMMA BackersFrame ==
  ASSUME TypeOK, BackersInv, UNCHANGED <<threshold, pending, approvals>>,
         settled \subseteq settled',
         pc' = "claude" => pc = "claude" /\ UNCHANGED <<cur, backers>>
  PROVE  BackersInv'
<1> SUFFICES ASSUME threshold > 1 PROVE HeldInv' /\ AskedInv' /\ ConsensusBacked'
                          /\ \A a \in approvals : a.backers \subseteq settled'
  BY DEF BackersInv
<1>1. HeldInv /\ AskedInv /\ ConsensusBacked /\ \A a \in approvals : a.backers \subseteq settled
  BY DEF BackersInv
<1>2. HeldInv'
  BY <1>1 DEF HeldInv, Sides, Side
<1>3. AskedInv'
  <2> SUFFICES ASSUME pc' = "claude" PROVE AskedInv'
    BY DEF AskedInv
  <2>1. pc = "claude" /\ cur' = cur /\ backers' = backers
    OBVIOUS
  <2>2. /\ Cardinality({By[t] : t \in backers}) >= threshold
        /\ \A t \in backers : Side(t) = Side(cur) /\ t \in settled \cup {cur}
        /\ \A d \in Sides : pending[d] \cap backers = {}
        /\ \A a \in approvals : a.backers \cap backers = {}
    BY <1>1, <2>1 DEF AskedInv
  <2>3. \A t \in backers' : Side(t) = Side(cur') /\ t \in settled' \cup {cur'}
    BY <2>1, <2>2 DEF Side
  <2> QED  BY <2>1, <2>2, <2>3 DEF AskedInv, Sides
<1>4. ConsensusBacked'
  BY <1>1 DEF ConsensusBacked
<1> QED  BY <1>1, <1>2, <1>3, <1>4

\* Too few: what is held instead is as good.
LEMMA BackersHold ==
  ASSUME TypeOK, OnceInv, BackersInv, Hold
  PROVE  BackersInv'
<1>1. /\ threshold > 1 /\ threshold' = threshold /\ pc = "gate" /\ cur \in Signals
      /\ approvals' = approvals /\ settled' = settled \cup {cur} /\ pc' = "idle"
      /\ pending' = [pending EXCEPT ![Side(cur)] = Agreeing]
  BY DEF Hold, Settles, TypeOK
<1>2. HeldInv /\ ConsensusBacked /\ \A a \in approvals : a.backers \subseteq settled
  BY <1>1 DEF BackersInv
<1>3. /\ \A t \in Agreeing : Side(t) = Side(cur) /\ t \in settled'
      /\ \A t, u \in Agreeing : By[t] = By[u] => t = u
      /\ \A a \in approvals : Agreeing \cap a.backers = {}
  BY <1>1, <1>2, AgreeingFacts
<1>4. pending'[Side(cur)] = Agreeing /\ \A d \in Sides \ {Side(cur)} : pending'[d] = pending[d]
  BY <1>1, SignalTypes DEF TypeOK, Sides
<1>5. ASSUME NEW d \in Sides
      PROVE  /\ \A t \in pending'[d] : t \in settled' /\ Side(t) = d
             /\ \A t, u \in pending'[d] : By[t] = By[u] => t = u
             /\ \A a \in approvals : pending'[d] \cap a.backers = {}
  <2>1. CASE d = Side(cur)
    BY <1>3, <1>4, <2>1
  <2>2. CASE d # Side(cur)
    BY <1>1, <1>2, <1>4, <2>2 DEF HeldInv
  <2> QED  BY <2>1, <2>2
<1>6. HeldInv'
  BY <1>1, <1>5 DEF HeldInv, Sides, Side
<1>7. AskedInv'
  BY <1>1 DEF AskedInv
<1>8. ConsensusBacked' /\ \A a \in approvals' : a.backers \subseteq settled'
  BY <1>1, <1>2 DEF ConsensusBacked
<1> QED  BY <1>6, <1>7, <1>8 DEF BackersInv

\* Enough: they are taken out of what is held, and stand behind the question.
LEMMA BackersAsk ==
  ASSUME TypeOK, OnceInv, BackersInv, AskClaude
  PROVE  BackersInv'
<1> SUFFICES ASSUME threshold > 1 PROVE BackersInv'
  BY DEF BackersInv, AskClaude
<1>1. /\ threshold' = threshold /\ pc = "gate" /\ cur \in Signals /\ cur' = cur
      /\ approvals' = approvals /\ settled' = settled /\ backers' = Agreeing
      /\ pending' = [pending EXCEPT ![Side(cur)] = {}]
      /\ Cardinality(Agreeing) >= threshold
  BY DEF AskClaude, TypeOK
<1>2. HeldInv /\ ConsensusBacked /\ \A a \in approvals : a.backers \subseteq settled
  BY DEF BackersInv
<1>3. /\ Agreeing \in SUBSET Signals
      /\ \A t \in Agreeing : Side(t) = Side(cur) /\ t \in settled \cup {cur}
      /\ \A t, u \in Agreeing : By[t] = By[u] => t = u
      /\ \A a \in approvals : Agreeing \cap a.backers = {}
  BY <1>1, <1>2, AgreeingFacts
<1>4. pending'[Side(cur)] = {} /\ \A d \in Sides \ {Side(cur)} : pending'[d] = pending[d]
  BY <1>1, SignalTypes DEF TypeOK, Sides
<1>5. \A d \in Sides : pending'[d] \subseteq pending[d]
  BY <1>4
<1>6. HeldInv'
  <2>1. ASSUME NEW d \in Sides
        PROVE  /\ \A t \in pending'[d] : t \in settled /\ Side(t) = d
               /\ \A t, u \in pending'[d] : By[t] = By[u] => t = u
               /\ \A a \in approvals : pending'[d] \cap a.backers = {}
    BY <1>2, <1>5 DEF HeldInv
  <2> QED  BY <1>1, <2>1 DEF HeldInv, Sides, Side
<1>7. ASSUME NEW d \in Sides
      PROVE  pending'[d] \cap Agreeing = {}
  <2>1. CASE d = Side(cur)
    BY <1>4, <2>1
  <2>2. CASE d # Side(cur)
    <3>1. \A t \in pending'[d] : Side(t) = d
      BY <1>2, <1>5 DEF HeldInv
    <3> QED  BY <1>3, <2>2, <3>1
  <2> QED  BY <2>1, <2>2
<1>8. Cardinality({By[t] : t \in Agreeing}) >= threshold
  <2>1. Cardinality({By[t] : t \in Agreeing}) = Cardinality(Agreeing)
    BY <1>3, OneEach
  <2> QED  BY <1>1, <2>1
<1>9. AskedInv'
  <2>1. \A t \in backers' : Side(t) = Side(cur') /\ t \in settled' \cup {cur'}
    BY <1>1, <1>3 DEF Side
  <2>2. \A a \in approvals' : a.backers \cap backers' = {}
    BY <1>1, <1>3
  <2>3. Cardinality({By[t] : t \in backers'}) >= threshold'
    BY <1>1, <1>8
  <2>4. \A d \in Sides : pending'[d] \cap backers' = {}
    BY <1>1, <1>7
  <2> QED  BY <2>1, <2>2, <2>3, <2>4 DEF AskedInv, Sides
<1>10. ConsensusBacked' /\ \A a \in approvals' : a.backers \subseteq settled'
  BY <1>1, <1>2 DEF ConsensusBacked
<1> QED  BY <1>6, <1>9, <1>10 DEF BackersInv

\* An approval takes over the backers of the question.
LEMMA BackersApprove ==
  ASSUME TypeOK, BackersInv, Approve
  PROVE  BackersInv'
<1> DEFINE new == [signal |-> cur, began |-> began, at |-> now, backers |-> backers]
<1> SUFFICES ASSUME threshold > 1 PROVE BackersInv'
  BY DEF BackersInv, Approve, Settles
<1>1. /\ UNCHANGED <<threshold, pending>> /\ pc = "claude" /\ pc' = "idle"
      /\ settled' = settled \cup {cur} /\ approvals' = approvals \cup {new}
  BY DEF Approve, Settles
<1>2. /\ HeldInv /\ ConsensusBacked /\ \A a \in approvals : a.backers \subseteq settled
      /\ Cardinality({By[t] : t \in backers}) >= threshold
      /\ \A t \in backers : Side(t) = Side(cur) /\ t \in settled \cup {cur}
      /\ \A d \in Sides : pending[d] \cap backers = {}
      /\ \A a \in approvals : a.backers \cap backers = {}
  BY <1>1 DEF BackersInv, AskedInv
<1>3. new.backers = backers /\ new.signal = cur
  OBVIOUS
<1> HIDE DEF new
<1>4. HeldInv'
  <2>1. \A d \in Sides :
          /\ \A t \in pending[d] : t \in settled /\ Side(t) = d
          /\ \A t, u \in pending[d] : By[t] = By[u] => t = u
          /\ \A a \in approvals \cup {new} : pending[d] \cap a.backers = {}
    BY <1>2, <1>3 DEF HeldInv
  <2> QED  BY <1>1, <2>1 DEF HeldInv, Sides, Side
<1>5. ConsensusBacked'
  <2>1. \A a \in approvals :
          /\ Cardinality({By[t] : t \in a.backers}) >= threshold
          /\ \A t \in a.backers : Side(t) = Side(a.signal)
          /\ \A b \in approvals \ {a} : a.backers \cap b.backers = {}
    BY <1>2 DEF ConsensusBacked
  <2>2. Cardinality({By[t] : t \in new.backers}) >= threshold
    BY <1>2, <1>3
  <2>3. \A t \in new.backers : Side(t) = Side(new.signal)
    BY <1>2, <1>3
  <2>4. \A b \in approvals : b.backers \cap new.backers = {}
    BY <1>2, <1>3
  <2> QED  BY <1>1, <2>1, <2>2, <2>3, <2>4 DEF ConsensusBacked, Side
<1>6. AskedInv' /\ \A a \in approvals' : a.backers \subseteq settled'
  BY <1>1, <1>2, <1>3 DEF AskedInv
<1> QED  BY <1>4, <1>5, <1>6 DEF BackersInv

\* BackersInv is inductive.
LEMMA BackersStep ==
  ASSUME TypeOK, OnceInv, BackersInv, [Next]_vars
  PROVE  BackersInv'
<1>1. CASE \E s \in Signals : Process(s)
  <2>1. UNCHANGED <<threshold, pending, approvals>> /\ settled \subseteq settled' /\ pc' # "claude"
    BY <1>1 DEF Process, RejectPaused, DropDuplicate, RejectAtOnce, AwaitGate, SettlesAtOnce,
                Takes, task
  <2> QED  BY <2>1, BackersFrame
<1>2. CASE TurnAway \/ RejectConflict
  <2>1. UNCHANGED <<threshold, pending, approvals>> /\ settled \subseteq settled' /\ pc' # "claude"
    BY <1>2 DEF TurnAway, RejectConflict, Settles
  <2> QED  BY <2>1, BackersFrame
<1>3. CASE Hold
  BY <1>3, BackersHold
<1>4. CASE AskClaude
  BY <1>4, BackersAsk
<1>5. CASE Approve
  BY <1>5, BackersApprove
<1>6. CASE Environment
  <2>1. UNCHANGED <<threshold, pending, approvals, settled, pc, cur, backers>>
    BY <1>6 DEF Environment, Emit, Tick, ToggleKillSwitch, TogglePause, MarketMoves,
                task, gates
  <2> QED  BY <2>1, BackersFrame
<1>7. CASE UNCHANGED vars
  BY <1>7, BackersFrame DEF vars, task, gates
<1> QED  BY <1>1, <1>2, <1>3, <1>4, <1>5, <1>6, <1>7 DEF Next, MasterStep

\* For any threshold above one: whatever expires, is held, is turned away by
\* Claude or arrives while it thinks, an approval has signals of as many
\* different analysts behind it, all of its symbol and direction, and no signal
\* stands behind two approvals.
THEOREM ApprovalsAreBacked == Spec => []ConsensusBacked
<1>1. Init => OnceInv /\ BackersInv
  <2> SUFFICES ASSUME Init PROVE OnceInv /\ BackersInv
    OBVIOUS
  <2>1. OnceInv
    BY DEF Init, OnceInv
  <2>2. BackersInv
    BY DEF Init, BackersInv, HeldInv, AskedInv, ConsensusBacked, Sides
  <2> QED  BY <2>1, <2>2
<1>2. TypeOK /\ OnceInv /\ BackersInv /\ [Next]_vars => OnceInv' /\ BackersInv'
  BY OnceStep, BackersStep
<1>3. TypeOK /\ BackersInv => ConsensusBacked
  BY DEF BackersInv, ConsensusBacked
<1> QED  BY <1>1, <1>2, <1>3, TypeCorrect, PTL DEF Spec
=============================================================================
