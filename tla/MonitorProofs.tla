---------------------------- MODULE MonitorProofs ----------------------------
(***************************************************************************)
(* Theorems about Monitor, for every set of positions and channels, every  *)
(* exit strategy and percentage, paper and live mode.  The gateway's part  *)
(* of the state is dealt with by the lemmas of GatewayProofs.              *)
(***************************************************************************)
EXTENDS Monitor, GatewayProofs

-----------------------------------------------------------------------------
\* Rounding a share of n never gives more than n.
LEMMA RoundPctBound ==
  ASSUME NEW n \in Nat, NEW pct \in 1..100
  PROVE  RoundPct(n, pct) \in 0..n
<1> DEFINE whole == (n * pct) \div 100
           part == (n * pct) % 100
<1>1. n * pct \in Nat /\ n * pct <= n * 100
  OBVIOUS
<1>2. whole \in Nat /\ part \in 0..99 /\ n * pct = 100 * whole + part
  BY <1>1
<1>3. whole <= n
  BY <1>1, <1>2
<1>4. part > 0 => whole < n
  BY <1>1, <1>2
<1>5. RoundPct(n, pct) \in {whole, whole + 1}
      /\ (RoundPct(n, pct) = whole + 1 => part > 0)
  BY <1>2 DEF RoundPct
<1> QED  BY <1>2, <1>3, <1>4, <1>5

\* A first partial sale is of one contract at least, and never of more than all.
LEMMA PartialQtyBound ==
  ASSUME NEW p \in Pids
  PROVE  PartialQty(p) \in 1..Qty[p] /\ PartialQty(p) \in 1..MaxQty
<1>1. Qty[p] \in 1..MaxQty /\ PctSold[p] \in 1..100 /\ MaxQty \in Nat
  BY GatewayConstants, MonitorConstants
<1>2. RoundPct(Qty[p], PctSold[p]) \in 0..Qty[p]
  <2>1. Qty[p] \in Nat
    BY <1>1
  <2> QED  BY <1>1, <2>1, RoundPctBound
<1> QED  BY <1>1, <1>2 DEF PartialQty

-----------------------------------------------------------------------------
\* Monitor and gateway start well typed.
LEMMA InitType == Init => TypeOK
<1> SUFFICES ASSUME Init PROVE MonitorTypeOK
  BY GatewayInitType DEF Init, TypeOK
<1>1. /\ [p \in Pids |-> 0] \in [Pids -> 0..MaxQty]
      /\ [p \in Pids |-> 0] \in [Pids -> Int]
  BY GatewayConstants
<1>2. /\ snap \in [Pids -> 0..MaxQty] /\ pqty \in [Pids -> 0..MaxQty]
      /\ file \in [pids : SUBSET Pids, sold : [Pids -> 0..MaxQty]]
      /\ risk \in [Pids -> Int]
  BY <1>1 DEF Init, MonitorInit
<1>3. /\ pc = "sleep" /\ resume = NoResume /\ lines = <<>> /\ requests = <<>>
      /\ agenda = {} /\ tracked = {} /\ lastSell = {} /\ kept = {} /\ opened = {}
      /\ paused = {} /\ unsaved = FALSE
      /\ sellq \in [Channels -> Nat]
  BY DEF Init, MonitorInit
<1>4. /\ pc \in Stages \cup {"sleep", "clear", "closing", "down"}
      /\ resume \in [stage : Stages, partial : BOOLEAN]
      /\ lines \in Seq(SUBSET Pids) /\ requests \in Seq(SUBSET Pids)
  BY <1>3 DEF NoResume, Stages
<1> QED  BY <1>2, <1>3, <1>4 DEF MonitorTypeOK

\* Whatever a stage of the poll asks to close, the gateway's state, the stage
\* and the place to resume keep their types.
LEMMA BeginCloseType ==
  ASSUME TypeOK, NEW p \in Pids, NEW q \in Int, q <= MaxQty,
         NEW size \in 0..MaxQty, NEW stage \in Stages, NEW partial \in BOOLEAN,
         BeginClose(p, q, size, stage, partial), UNCHANGED gatewayRest
  PROVE  /\ GatewayTypeOK'
         /\ pc' \in Stages \cup {"sleep", "clear", "closing", "down"}
         /\ resume' \in [stage : Stages, partial : BOOLEAN]
<1>1. CASE q <= 0
  BY <1>1 DEF BeginClose, TypeOK, GatewayTypeOK, MonitorTypeOK, gatewayRest
<1>2. CASE ~(q <= 0)
  <2>1. q \in 1..MaxQty
    BY <1>2, GatewayConstants
  <2>2. Ask("SELL", p, q, size) /\ pc' = "closing"
        /\ resume' = [stage |-> stage, partial |-> partial]
    BY <1>2 DEF BeginClose
  <2>3. GatewayTypeOK'
    BY <2>1, <2>2, AskType DEF TypeOK, Actions
  <2> QED  BY <2>2, <2>3
<1> QED  BY <1>1, <1>2

\* What remains of a position is a quantity the gateway can be asked to sell.
LEMMA QuantityTypes ==
  ASSUME TypeOK, NEW p \in Pids
  PROVE  /\ Remaining(p) \in Int /\ Remaining(p) <= MaxQty
         /\ Qty[p] \in 0..MaxQty
         /\ Qty[p] \in 1..MaxQty
BY GatewayConstants DEF TypeOK, MonitorTypeOK, Remaining

\* A close of all that remains, of a tracked record, at the given stage.
LEMMA CloseRemainingType ==
  ASSUME TypeOK, NEW p \in Pids, NEW stage \in Stages,
         BeginClose(p, Remaining(p), Qty[p], stage, FALSE), UNCHANGED gatewayRest
  PROVE  /\ GatewayTypeOK'
         /\ pc' \in Stages \cup {"sleep", "clear", "closing", "down"}
         /\ resume' \in [stage : Stages, partial : BOOLEAN]
BY QuantityTypes, BeginCloseType

-----------------------------------------------------------------------------
\* Every check of a position visits it and leaves the rest of the poll alone.
LEMMA CheckFrame ==
  ASSUME NEW p \in Pids, Check(p)
  PROVE  /\ pc = "check" /\ p \in agenda
         /\ agenda' = agenda \ {p}
         /\ UNCHANGED <<gatewayRest, lines, snap, tracked, pqty, file, unsaved, kept,
                        opened, risk, requests, paused>>
         /\ lastSell' \subseteq lastSell \cup {p}
         /\ sellq' \in {sellq, [sellq EXCEPT ![Channel[p]] = 0]}
         /\ \/ UNCHANGED <<calls, pc, resume>>
            \/ BeginClose(p, Remaining(p), Qty[p], "check", FALSE)
            \/ /\ pqty[p] = 0 /\ Strategy[p] = "PARTIAL_SELL_PCT"
               /\ BeginClose(p, PartialQty(p), Qty[p], "check", TRUE)
<1>1. CASE Skip(p)
  BY <1>1 DEF Skip, Visit, gatewayVars, gatewayRest, worldVars
<1>2. CASE CheckHardStop(p)
  BY <1>2 DEF CheckHardStop, Visit, worldVars
<1>3. CASE CheckFirstSell(p)
  BY <1>3 DEF CheckFirstSell, Consult, Visit, Drain
<1>4. CASE CheckPartialSell(p)
  BY <1>4 DEF CheckPartialSell, Consult, Visit, Drain
<1>5. CASE CheckLastSellHeard(p)
  BY <1>5 DEF CheckLastSellHeard, Consult, Visit, Drain, gatewayVars, gatewayRest
<1>6. CASE CheckLastSellSilent(p)
  BY <1>6 DEF CheckLastSellSilent, Consult, Visit, worldVars
<1>7. CASE CheckPriceTarget(p)
  BY <1>7 DEF CheckPriceTarget, Consult, Visit, worldVars
<1>8. CASE CheckTechnicals(p)
  BY <1>8 DEF CheckTechnicals, Consult, Visit, worldVars
<1>9. CASE CheckHolds(p)
  BY <1>9 DEF CheckHolds, Consult, Visit, gatewayVars, gatewayRest, worldVars
<1> QED
  BY <1>1, <1>2, <1>3, <1>4, <1>5, <1>6, <1>7, <1>8, <1>9 DEF Check

\* No check of a position breaks a type.
LEMMA CheckType ==
  ASSUME TypeOK, NEW p \in Pids, Check(p)
  PROVE  TypeOK'
<1>1. GatewayTypeOK'
      /\ pc' \in Stages \cup {"sleep", "clear", "closing", "down"}
      /\ resume' \in [stage : Stages, partial : BOOLEAN]
  <2>1. CASE UNCHANGED <<calls, pc, resume>>
    BY <2>1, CheckFrame DEF TypeOK, GatewayTypeOK, MonitorTypeOK, gatewayRest
  <2>2. CASE BeginClose(p, Remaining(p), Qty[p], "check", FALSE)
    BY <2>2, CheckFrame, CloseRemainingType DEF Stages
  <2>3. CASE BeginClose(p, PartialQty(p), Qty[p], "check", TRUE)
    <3>1. PartialQty(p) \in Int /\ PartialQty(p) <= MaxQty
      BY PartialQtyBound, GatewayConstants
    <3> QED  BY <2>3, <3>1, CheckFrame, QuantityTypes, BeginCloseType DEF Stages
  <2> QED  BY <2>1, <2>2, <2>3, CheckFrame
<1>2. sellq' \in [Channels -> Nat]
  <2>1. sellq \in [Channels -> Nat] /\ [sellq EXCEPT ![Channel[p]] = 0] \in [Channels -> Nat]
    BY DEF TypeOK, MonitorTypeOK
  <2> QED  BY <2>1, CheckFrame
<1>3. lastSell' \subseteq Pids /\ agenda' \subseteq Pids
  BY CheckFrame DEF TypeOK, MonitorTypeOK
<1>4. UNCHANGED <<lines, snap, tracked, pqty, file, unsaved, kept, opened, risk,
                  requests, paused>>
  BY CheckFrame
<1> QED  BY <1>1, <1>2, <1>3, <1>4 DEF TypeOK, MonitorTypeOK

-----------------------------------------------------------------------------
\* The steps of the poll other than the checks.
LEMMA EnterChecksType ==
  ASSUME MonitorTypeOK, EnterChecks
  PROVE  /\ pc' \in Stages \cup {"sleep", "clear", "closing", "down"}
         /\ agenda' \subseteq Pids
BY DEF EnterChecks, MonitorTypeOK, Stages

\* A manual close sells what the gateway had recorded.
LEMMA ManualCloseType ==
  ASSUME TypeOK, NEW p \in Pids, ManualClose(p)
  PROVE  TypeOK'
<1>1. snap[p] \in Int /\ snap[p] <= MaxQty /\ snap[p] \in 0..MaxQty
  BY GatewayConstants DEF TypeOK, MonitorTypeOK
<1>2. /\ GatewayTypeOK'
      /\ pc' \in Stages \cup {"sleep", "clear", "closing", "down"}
      /\ resume' \in [stage : Stages, partial : BOOLEAN]
  BY <1>1, BeginCloseType DEF ManualClose, Stages
<1>3. lines' \in Seq(SUBSET Pids)
  <2>1. lines \in Seq(SUBSET Pids) /\ lines # <<>> /\ lines' = [lines EXCEPT ![1] = @ \ {p}]
    BY DEF ManualClose, TypeOK, MonitorTypeOK
  <2> QED  BY <2>1
<1> QED  BY <1>2, <1>3 DEF ManualClose, TypeOK, MonitorTypeOK, worldVars

\* The sweep at the end of the day sells what remains.
LEMMA SweepCloseType ==
  ASSUME TypeOK, NEW p \in Pids, SweepClose(p)
  PROVE  TypeOK'
<1>1. /\ GatewayTypeOK'
      /\ pc' \in Stages \cup {"sleep", "clear", "closing", "down"}
      /\ resume' \in [stage : Stages, partial : BOOLEAN]
  BY CloseRemainingType DEF SweepClose, Stages
<1> QED  BY <1>1 DEF SweepClose, TypeOK, MonitorTypeOK, worldVars

\* What a write leaves in the file is typed as the memory before and after it is.
LEMMA PersistType ==
  ASSUME MonitorTypeOK, NEW earlier \in SUBSET {Memory}, Persist(earlier),
         tracked' \subseteq Pids, pqty' \in [Pids -> 0..MaxQty]
  PROVE  /\ file' \in [pids : SUBSET Pids, sold : [Pids -> 0..MaxQty]]
         /\ unsaved' \in BOOLEAN
         /\ kept' \subseteq Pids
<1>1. file' \in {file, Memory, Memory'}
  BY DEF Persist
<1>2. Memory' = [pids |-> tracked', sold |-> pqty']
  BY DEF Memory
<1>3. file' \in [pids : SUBSET Pids, sold : [Pids -> 0..MaxQty]]
  BY <1>1, <1>2 DEF Memory, MonitorTypeOK
<1> QED  BY <1>3 DEF Persist, MonitorTypeOK

\* A close that is answered was of a position, and of a quantity in range.
LEMMA RecordCloseType ==
  ASSUME TypeOK, RecordClose
  PROVE  TypeOK'
<1> DEFINE c == calls["SELL"]
<1>1. Return("SELL") /\ UNCHANGED gatewayRest
  BY DEF RecordClose, Answered, Untrack
<1>2. GatewayTypeOK'
  BY <1>1, ReturnType DEF TypeOK, Actions
<1>3. c.pid \in Pids /\ c.qty \in 0..MaxQty
  BY <1>1, TypeOKCalls DEF Return, TypeOK, CallsTyped, Sound, Call, Actions
<1>4. /\ tracked' \subseteq Pids
      /\ lastSell' \subseteq Pids
      /\ pqty' \in [Pids -> 0..MaxQty]
  <2>1. tracked' \in {tracked, tracked \ {c.pid}} /\ lastSell' \in {lastSell, lastSell \ {c.pid}}
    BY DEF RecordClose, Answered, Untrack
  <2>2. pqty' \in {pqty, [pqty EXCEPT ![c.pid] = 0], [pqty EXCEPT ![c.pid] = c.qty]}
    BY DEF RecordClose, Answered, Untrack
  <2>3. pqty \in [Pids -> 0..MaxQty] /\ 0 \in 0..MaxQty
    BY GatewayConstants DEF TypeOK, MonitorTypeOK
  <2>4. tracked \subseteq Pids /\ lastSell \subseteq Pids
    BY DEF TypeOK, MonitorTypeOK
  <2> HIDE DEF c
  <2>5. pqty' \in [Pids -> 0..MaxQty]
    BY <1>3, <2>2, <2>3
  <2> QED  BY <2>1, <2>4, <2>5
<1>5. /\ file' \in [pids : SUBSET Pids, sold : [Pids -> 0..MaxQty]]
      /\ unsaved' \in BOOLEAN
      /\ kept' \subseteq Pids
  <2>1. PICK earlier \in SUBSET {Memory} : Persist(earlier)
    BY DEF RecordClose
  <2> QED  BY <1>4, <2>1, PersistType DEF TypeOK
<1>6. pc' \in Stages /\ resume' = NoResume
  BY DEF RecordClose, Answered, Untrack, TypeOK, MonitorTypeOK
<1>7. UNCHANGED <<agenda, lines, snap, opened, risk, worldVars>>
  BY DEF RecordClose, Answered, Untrack
<1> QED
  BY <1>2, <1>4, <1>5, <1>6, <1>7
     DEF TypeOK, MonitorTypeOK, NoResume, Stages, worldVars

\* No step of the monitor's task breaks a type.
LEMMA MonitorStepType ==
  ASSUME TypeOK, MonitorStep
  PROVE  TypeOK'
<1>1. CASE StartPoll
  BY <1>1, EnterChecksType
     DEF StartPoll, TypeOK, MonitorTypeOK, GatewayTypeOK, gatewayVars, worldVars
<1>2. CASE ReadRequests
  BY <1>2 DEF ReadRequests, TypeOK, MonitorTypeOK, GatewayTypeOK, gatewayVars, worldVars
<1>3. CASE ClearRequests
  <2>1. snap' \in [Pids -> 0..MaxQty]
    BY <1>3, GatewayConstants DEF ClearRequests, TypeOK, GatewayTypeOK
  <2> QED
    BY <1>3, <2>1
       DEF ClearRequests, TypeOK, MonitorTypeOK, GatewayTypeOK, gatewayVars, Stages
<1>4. ASSUME NEW p \in Pids, ManualClose(p)
      PROVE  TypeOK'
  BY <1>4, ManualCloseType
<1>5. CASE ManualNextLine
  BY <1>5 DEF ManualNextLine, TypeOK, MonitorTypeOK, GatewayTypeOK, gatewayVars, worldVars
<1>6. CASE ManualDone
  <2>1. snap' \in [Pids -> 0..MaxQty]
    BY <1>6, GatewayConstants DEF ManualDone
  <2> QED
    BY <1>6, <2>1, EnterChecksType
       DEF ManualDone, TypeOK, MonitorTypeOK, GatewayTypeOK, gatewayVars, worldVars
<1>7. ASSUME NEW p \in Pids, SweepClose(p)
      PROVE  TypeOK'
  BY <1>7, SweepCloseType
<1>8. CASE SweepDone
  BY <1>8
     DEF SweepDone, TypeOK, MonitorTypeOK, GatewayTypeOK, gatewayVars, worldVars, Stages
<1>9. CASE CheckDone
  BY <1>9 DEF CheckDone, TypeOK, MonitorTypeOK, GatewayTypeOK, gatewayVars, worldVars
<1>10. ASSUME NEW p \in Pids, Check(p)
       PROVE  TypeOK'
  BY <1>10, CheckType
<1>11. CASE RecordClose
  BY <1>11, RecordCloseType
<1> QED
  BY <1>1, <1>2, <1>3, <1>4, <1>5, <1>6, <1>7, <1>8, <1>9, <1>10, <1>11
     DEF MonitorStep

-----------------------------------------------------------------------------
\* The buyer's task.
LEMMA BuyerStepType ==
  ASSUME TypeOK, BuyerStep
  PROVE  TypeOK'
<1>1. ASSUME NEW p \in Pids, StartBuy(p)
      PROVE  TypeOK'
  <2>1. GatewayTypeOK'
    BY <1>1, QuantityTypes, AskType DEF StartBuy, TypeOK, Actions
  <2> QED  BY <1>1, <2>1 DEF StartBuy, TypeOK, MonitorTypeOK, monitorVars, worldVars
<1>2. CASE AddPosition
  <2> DEFINE c == calls["BUY"]
  <2>1. GatewayTypeOK'
    BY <1>2, ReturnType DEF AddPosition, TypeOK, Actions
  <2>2. c.pid \in Pids
    BY <1>2, TypeOKCalls
       DEF AddPosition, Return, TypeOK, CallsTyped, Sound, Call, Actions
  <2>3. /\ tracked' = tracked \cup {c.pid}
        /\ pqty' = [pqty EXCEPT ![c.pid] = 0]
        /\ Persist({})
        /\ opened' = opened \cup {c.pid}
        /\ UNCHANGED <<pc, resume, agenda, lines, snap, lastSell, risk, worldVars>>
    BY <1>2 DEF AddPosition
  <2> HIDE DEF c
  <2>4. tracked' \subseteq Pids /\ opened' \subseteq Pids
    BY <2>2, <2>3 DEF TypeOK, MonitorTypeOK
  <2>5. pqty' \in [Pids -> 0..MaxQty]
    <3>1. pqty \in [Pids -> 0..MaxQty] /\ 0 \in 0..MaxQty
      BY GatewayConstants DEF TypeOK, MonitorTypeOK
    <3> QED  BY <2>2, <2>3, <3>1
  <2>6. /\ file' \in [pids : SUBSET Pids, sold : [Pids -> 0..MaxQty]]
        /\ unsaved' \in BOOLEAN
        /\ kept' \subseteq Pids
    BY <2>3, <2>4, <2>5, PersistType DEF TypeOK
  <2> QED
    BY <2>1, <2>3, <2>4, <2>5, <2>6 DEF TypeOK, MonitorTypeOK, worldVars
<1>3. CASE BuyOpensNothing
  <2>1. GatewayTypeOK'
    BY <1>3, ReturnType DEF BuyOpensNothing, TypeOK, Actions
  <2> QED  BY <1>3, <2>1 DEF BuyOpensNothing, TypeOK, MonitorTypeOK, monitorVars, worldVars
<1> QED  BY <1>1, <1>2, <1>3 DEF BuyerStep

\* What a call asks for is a number.
LEMMA AskedIsNatural ==
  ASSUME TypeOK, NEW a \in Actions
  PROVE  calls[a].qty \in Nat
<1>1. ASSUME NEW q \in 0..MaxQty
      PROVE  q \in Nat
  BY GatewayConstants
<1>2. calls[a].qty \in 0..MaxQty
  BY DEF TypeOK, GatewayTypeOK, Call
<1> QED  BY <1>1, <1>2

\* What is written off, on file or not, and what a crash would add to it, are numbers.
LEMMA AccountTypes ==
  ASSUME TypeOK, NEW p \in Pids
  PROVE  /\ WrittenOff(p) \in Nat /\ Unfiled(p) \in Int /\ Unrecorded(p) \in Nat
         /\ risk[p] \in Int /\ ordered[p] \in Nat
<1>1. Qty[p] \in Nat /\ pqty[p] \in Nat /\ file.sold[p] \in Nat
  BY GatewayConstants DEF TypeOK, MonitorTypeOK
<1>2. WrittenOff(p) \in Nat
  BY <1>1 DEF WrittenOff
<1>3. Unfiled(p) \in Int
  BY <1>1, <1>2 DEF Unfiled
<1>4. Unrecorded(p) \in Nat
  BY AskedIsNatural DEF Unrecorded, Actions
<1> QED  BY <1>2, <1>3, <1>4 DEF TypeOK, MonitorTypeOK, GatewayTypeOK

\* A crash books the contracts of the lost sales on risk.
LEMMA DieType ==
  ASSUME TypeOK, Die
  PROVE  TypeOK'
<1>1. GatewayTypeOK'
  BY CrashType DEF Die, TypeOK
<1>2. risk' \in [Pids -> Int]
  BY AccountTypes DEF Die
<1>3. [p \in Pids |-> 0] \in [Pids -> 0..MaxQty]
  BY GatewayConstants
<1>4. sellq' \in [Channels -> Nat]
  BY DEF Die
<1>5. /\ pc' = "down" /\ resume' = NoResume /\ agenda' = {} /\ lines' = <<>>
      /\ snap' = [p \in Pids |-> 0] /\ pqty' = [p \in Pids |-> 0]
      /\ tracked' = {} /\ lastSell' = {}
      /\ UNCHANGED <<file, unsaved, kept, opened, requests, paused>>
  BY DEF Die
<1> QED
  BY <1>1, <1>2, <1>3, <1>4, <1>5 DEF TypeOK, MonitorTypeOK, NoResume, Stages

\* Types depend on the variables only.
LEMMA GatewayStutters ==
  ASSUME GatewayTypeOK, UNCHANGED gatewayVars
  PROVE  GatewayTypeOK'
BY DEF GatewayTypeOK, gatewayVars

\* Types depend on the variables only.
LEMMA MonitorStutters ==
  ASSUME MonitorTypeOK, UNCHANGED monitorVars,
         sellq' \in [Channels -> Nat],
         requests' \in Seq(SUBSET Pids),
         paused' \subseteq Analysts
  PROVE  MonitorTypeOK'
BY DEF MonitorTypeOK, monitorVars

\* Nor does a step of the other processes, a crash or a restart.
LEMMA WorldType ==
  ASSUME TypeOK, World
  PROVE  TypeOK'
<1> USE DEF TypeOK
<1>0. /\ sellq \in [Channels -> Nat]
      /\ requests \in Seq(SUBSET Pids)
      /\ paused \subseteq Analysts
  BY DEF MonitorTypeOK
<1>1. ASSUME NEW ch \in Channels, SellMessage(ch)
      PROVE  TypeOK'
  <2>1. sellq' \in [Channels -> Nat]
    BY <1>0, <1>1 DEF SellMessage
  <2> QED
    BY <1>0, <1>1, <2>1, GatewayStutters, MonitorStutters DEF SellMessage
<1>2. ASSUME NEW r \in Requests, RequestClose(r)
      PROVE  TypeOK'
  <2>1. requests' \in Seq(SUBSET Pids)
    BY <1>0, <1>2, MonitorConstants DEF RequestClose
  <2> QED
    BY <1>0, <1>2, <2>1, GatewayStutters, MonitorStutters DEF RequestClose
<1>3. ASSUME NEW a \in Analysts, TogglePause(a)
      PROVE  TypeOK'
  <2>1. paused' \subseteq Analysts
    BY <1>0, <1>3 DEF TogglePause
  <2> QED
    BY <1>0, <1>3, <2>1, GatewayStutters, MonitorStutters DEF TogglePause
<1>4. CASE Die
  BY <1>4, DieType
<1>5. CASE Restart
  <2>1. GatewayTypeOK'
    BY <1>5, GatewayStutters DEF Restart
  <2>2. file.pids \subseteq Pids /\ file.sold \in [Pids -> 0..MaxQty]
    BY DEF MonitorTypeOK
  <2> QED  BY <1>5, <2>1, <2>2 DEF Restart, MonitorTypeOK, worldVars
<1> QED  BY <1>1, <1>2, <1>3, <1>4, <1>5 DEF World

\* TypeOK is inductive.
LEMMA NextType == TypeOK /\ [Next]_vars => TypeOK'
<1> SUFFICES ASSUME TypeOK, [Next]_vars PROVE TypeOK'
  OBVIOUS
<1>1. CASE GatewayStep
  BY <1>1, InternalType DEF GatewayStep, TypeOK, MonitorTypeOK, monitorVars, worldVars
<1>2. CASE MonitorStep
  BY <1>2, MonitorStepType
<1>3. CASE BuyerStep
  BY <1>3, BuyerStepType
<1>4. CASE World
  BY <1>4, WorldType
<1>5. CASE UNCHANGED vars
  BY <1>5 DEF vars, gatewayVars, monitorVars, worldVars, TypeOK, GatewayTypeOK, MonitorTypeOK
<1> QED  BY <1>1, <1>2, <1>3, <1>4, <1>5 DEF Next

\* Monitor and gateway keep their types together: the quantities of the partial
\* sales, in memory and in open_positions.json, stay within what can be bought.
THEOREM TypeCorrect == Spec => []TypeOK
<1>1. Init => TypeOK
  BY InitType
<1> QED  BY <1>1, NextType, PTL DEF Spec

-----------------------------------------------------------------------------
(***************************************************************************)
(* What open_positions.json promises is kept by an invariant over the      *)
(* file, the memory of the monitor, the agenda of the poll and the two     *)
(* calls in flight: a close that waits for its answer still means what it  *)
(* meant when it was asked for.                                            *)
(***************************************************************************)

\* A record of what is held: positions that were opened, each with contracts left.
Holding(record) ==
  /\ record.pids \subseteq opened
  /\ \A p \in record.pids : record.sold[p] < Qty[p]
  /\ \A p \in Pids \ record.pids : record.sold[p] = 0

\* What was in the file once and is not there now is not tracked, and the file
\* lags behind memory by a first partial sale at most.
FileInv ==
  /\ Holding(Memory)
  /\ Holding(file)
  /\ file.pids \subseteq kept
  /\ kept \subseteq opened
  /\ tracked \cap kept \subseteq file.pids
  /\ \A p \in tracked \cap file.pids : file.sold[p] \in {0, pqty[p]}

\* A process that is down has no memory and no calls.
DownInv == pc = "down" =>
  /\ tracked = {}
  /\ pqty = [p \in Pids |-> 0]
  /\ \A a \in Actions : calls[a].st = "none"

\* The poll visits tracked positions only, and none outside its two passes.
AgendaInv ==
  /\ agenda \subseteq tracked
  /\ pc \in {"sleep", "clear", "manual", "down"} => agenda = {}
  /\ pc = "closing" /\ resume.stage = "manual" => agenda = {}

\* What is being bought is not tracked yet.
BuyInv == calls["BUY"].st # "none" => calls["BUY"].pid \notin opened

\* A close in flight sells all that remains of its record, or is the first
\* partial sale of a position that is still tracked and still whole.
CloseInv == pc = "closing" =>
  /\ calls["SELL"].st # "none"
  /\ calls["SELL"].pid \notin agenda
  /\ ~resume.partial =>
       calls["SELL"].qty >= calls["SELL"].size - pqty[calls["SELL"].pid]
  /\ resume.partial =>
       /\ calls["SELL"].pid \in tracked
       /\ pqty[calls["SELL"].pid] = 0
       /\ calls["SELL"].size = Qty[calls["SELL"].pid]

Durable == FileIsMemory /\ FileInv /\ DownInv /\ AgendaInv /\ BuyInv /\ CloseInv

\* Nothing is tracked, persisted or in flight at the start.
LEMMA DurableInit == Init => Durable
BY DEF Init, GatewayInit, MonitorInit, Durable, FileIsMemory, FileInv, Holding, Memory,
       DownInv, AgendaInv, BuyInv, CloseInv, NoCall, Actions

\* What is tracked was opened, has contracts left, and nothing else was sold in part.
LEMMA MemoryHolds ==
  ASSUME TypeOK, Durable
  PROVE  /\ tracked \subseteq opened /\ tracked \subseteq Pids
         /\ \A p \in tracked : pqty[p] < Qty[p]
         /\ \A p \in Pids \ tracked : pqty[p] = 0
         /\ pqty \in [Pids -> 0..MaxQty]
BY DEF Durable, FileInv, Holding, Memory, TypeOK, MonitorTypeOK

\* Durable is strong enough for TrackedHasRemainder.
LEMMA DurableRemainder == TypeOK /\ Durable => TrackedHasRemainder
BY MemoryHolds DEF TrackedHasRemainder

-----------------------------------------------------------------------------
\* Steps that keep positions, file and calls: only the agenda and the place of
\* the poll move.
LEMMA PollMoves ==
  ASSUME TypeOK, Durable, pc # "down", pc # "closing",
         pc' # "down", pc' # "closing",
         UNCHANGED <<calls, tracked, pqty, file, unsaved, kept, opened>>,
         agenda' \subseteq tracked,
         pc' \in {"sleep", "clear", "manual"} => agenda' = {}
  PROVE  Durable'
BY DEF Durable, FileIsMemory, FileInv, Holding, Memory, DownInv, AgendaInv, BuyInv,
       CloseInv

\* Steps of the environment and of the gateway that leave the monitor alone.
LEMMA MonitorUntouched ==
  ASSUME TypeOK, Durable,
         UNCHANGED <<pc, resume, agenda, tracked, pqty, file, unsaved, kept, opened>>,
         pc = "down" => \A a \in Actions : calls'[a].st = "none",
         calls'["BUY"].st # "none" => calls'["BUY"].pid \notin opened,
         pc = "closing" =>
           /\ calls'["SELL"].st # "none"
           /\ calls'["SELL"].pid = calls["SELL"].pid
           /\ calls'["SELL"].qty = calls["SELL"].qty
           /\ calls'["SELL"].size = calls["SELL"].size
  PROVE  Durable'
BY DEF Durable, FileIsMemory, FileInv, Holding, Memory, DownInv, AgendaInv, BuyInv,
       CloseInv

\* A stage that asks to close one position.
LEMMA BeginCloseDurable ==
  ASSUME TypeOK, Durable, NEW p \in Pids, NEW q \in Int, NEW size \in Nat,
         NEW stage \in Stages, NEW partial \in BOOLEAN,
         pc = stage, BeginClose(p, q, size, stage, partial),
         UNCHANGED <<tracked, pqty, file, unsaved, kept, opened>>,
         agenda' = agenda \ {p},
         ~partial => q >= size - pqty[p],
         partial => p \in tracked /\ pqty[p] = 0 /\ size = Qty[p]
  PROVE  Durable'
<1>1. CASE q <= 0
  <2>1. UNCHANGED <<calls, pc>>
    BY <1>1 DEF BeginClose
  <2> QED
    BY <2>1, PollMoves DEF Durable, AgendaInv, Stages
<1>2. CASE ~(q <= 0)
  <2>1. /\ Ask("SELL", p, q, size)
        /\ pc' = "closing"
        /\ resume' = [stage |-> stage, partial |-> partial]
    BY <1>2 DEF BeginClose
  <2>2. /\ calls'["SELL"].st # "none"
        /\ calls'["SELL"].pid = p
        /\ calls'["SELL"].qty = q
        /\ calls'["SELL"].size = size
        /\ calls'["BUY"] = calls["BUY"]
    BY <2>1 DEF Ask, Actions, TypeOK, GatewayTypeOK
  <2>3. FileIsMemory' /\ FileInv' /\ DownInv' /\ BuyInv'
    BY <2>1, <2>2
       DEF Durable, FileIsMemory, FileInv, Holding, Memory, DownInv, BuyInv, Stages
  <2>4. AgendaInv'
    BY <2>1 DEF Durable, AgendaInv, Stages
  <2>5. CloseInv'
    BY <2>1, <2>2 DEF CloseInv
  <2> QED  BY <2>3, <2>4, <2>5 DEF Durable
<1> QED  BY <1>1, <1>2

\* A close of all that remains of a position of the agenda.
LEMMA CloseRemainingDurable ==
  ASSUME TypeOK, Durable, NEW p \in Pids, NEW stage \in Stages,
         pc = stage, BeginClose(p, Remaining(p), Qty[p], stage, FALSE),
         UNCHANGED <<tracked, pqty, file, unsaved, kept, opened>>, agenda' = agenda \ {p}
  PROVE  Durable'
<1>1. Remaining(p) \in Int /\ Qty[p] \in Nat
  BY QuantityTypes, GatewayConstants
<1>2. Remaining(p) >= Qty[p] - pqty[p]
  BY <1>1 DEF Remaining
<1> QED  BY <1>1, <1>2, BeginCloseDurable

\* A check moves the agenda, and may begin a close.
LEMMA CheckDurable ==
  ASSUME TypeOK, Durable, NEW p \in Pids, Check(p)
  PROVE  Durable'
<1>1. /\ pc = "check" /\ p \in agenda
      /\ agenda' = agenda \ {p}
      /\ UNCHANGED <<tracked, pqty, file, unsaved, kept, opened>>
  BY CheckFrame
<1>2. CASE UNCHANGED <<calls, pc, resume>>
  BY <1>1, <1>2, PollMoves DEF Durable, AgendaInv
<1>3. CASE BeginClose(p, Remaining(p), Qty[p], "check", FALSE)
  BY <1>1, <1>3, CloseRemainingDurable DEF Stages
<1>4. CASE pqty[p] = 0 /\ BeginClose(p, PartialQty(p), Qty[p], "check", TRUE)
  <2>1. p \in tracked
    BY <1>1 DEF Durable, AgendaInv
  <2>2. PartialQty(p) \in Int /\ Qty[p] \in Nat
    BY PartialQtyBound, GatewayConstants
  <2> QED  BY <1>1, <1>4, <2>1, <2>2, BeginCloseDurable DEF Stages
<1> QED  BY <1>2, <1>3, <1>4, CheckFrame

\* The poll starts with every tracked position on its agenda.
LEMMA EnterChecksDurable ==
  ASSUME TypeOK, Durable, pc \in {"sleep", "manual"}, EnterChecks,
         UNCHANGED <<calls, tracked, pqty, file, unsaved, kept, opened>>
  PROVE  Durable'
<1>1. agenda = {}
  BY DEF Durable, AgendaInv
<1>2. /\ agenda' \subseteq tracked
      /\ pc' \in {"sleep", "sweep", "check"}
      /\ pc' = "sleep" => agenda' = {}
  BY <1>1 DEF EnterChecks
<1> QED  BY <1>2, PollMoves

\* What one write does to the file: what was dropped does not come back, and
\* nothing but a first partial sale is added to what stays.
FileFollows ==
  /\ kept' = kept \cup file'.pids
  /\ file'.pids \cap kept \subseteq file.pids
  /\ \A p \in file'.pids \cap file.pids : file.sold[p] \in {0, file'.sold[p]}

\* A change of memory that is written, or of which the write fails, keeps what
\* Durable says of the file.
LEMMA WriteDurable ==
  ASSUME TypeOK, Durable, NEW earlier \in SUBSET {Memory}, Persist(earlier),
         Holding(Memory)', opened \subseteq opened', tracked' \subseteq opened',
         tracked' \cap kept \subseteq tracked,
         \A p \in tracked' \cap tracked : pqty[p] \in {0, pqty'[p]}
  PROVE  FileIsMemory' /\ FileInv' /\ FileFollows
<1>1. /\ Holding(Memory) /\ Holding(file)
      /\ file.pids \subseteq kept /\ kept \subseteq opened
      /\ tracked \cap kept \subseteq file.pids
      /\ \A p \in tracked \cap file.pids : file.sold[p] \in {0, pqty[p]}
      /\ tracked \subseteq opened
  BY MemoryHolds DEF Durable, FileInv
<1>2. /\ Memory.pids = tracked /\ Memory.sold = pqty
      /\ Memory'.pids = tracked' /\ Memory'.sold = pqty'
  BY DEF Memory
<1>3. /\ file' \in {file, Memory, Memory'}
      /\ ~unsaved' => file' = Memory'
      /\ kept' = kept \cup file'.pids
  BY DEF Persist
<1>4. FileIsMemory'
  BY <1>3 DEF FileIsMemory
<1>5. /\ file'.pids \cap kept \subseteq file.pids
      /\ \A p \in file'.pids \cap file.pids : file.sold[p] \in {0, file'.sold[p]}
  <2>1. CASE file' = file
    BY <2>1
  <2>2. CASE file' = Memory
    BY <1>1, <1>2, <2>2
  <2>3. CASE file' = Memory'
    BY <1>1, <1>2, <2>3
  <2> QED  BY <1>3, <2>1, <2>2, <2>3
<1>6. /\ tracked' \cap kept' \subseteq file'.pids
      /\ \A p \in tracked' \cap file'.pids : file'.sold[p] \in {0, pqty'[p]}
  <2>1. CASE file' = file
    BY <1>1, <1>3, <2>1
  <2>2. CASE file' = Memory
    BY <1>1, <1>2, <1>3, <2>2
  <2>3. CASE file' = Memory'
    BY <1>2, <2>3
  <2> QED  BY <1>3, <2>1, <2>2, <2>3
<1>7. Holding(file)'
  <2>1. CASE file' = file
    BY <1>1, <2>1 DEF Holding
  <2>2. CASE file' = Memory
    BY <1>1, <2>2 DEF Holding
  <2>3. CASE file' = Memory'
    BY <2>3 DEF Holding
  <2> QED  BY <1>3, <2>1, <2>2, <2>3
<1>8. kept' \subseteq opened'
  BY <1>1, <1>3, <1>7 DEF Holding
<1>9. FileInv'
  BY <1>3, <1>6, <1>7, <1>8 DEF FileInv
<1> QED  BY <1>3, <1>4, <1>5, <1>9 DEF FileFollows

\* What the answer to a close changes: the position is dropped, or its first
\* partial sale is noted.
LEMMA CloseRecorded ==
  ASSUME TypeOK, Durable, RecordClose
  PROVE  LET c == calls["SELL"]
         IN /\ pc = "closing" /\ pc' \in Stages /\ pc' = resume.stage
            /\ c.st = "done" /\ calls'["SELL"] = NoCall /\ calls'["BUY"] = calls["BUY"]
            /\ c.pid \in Pids /\ c.qty \in 1..MaxQty /\ c.size \in Nat
            /\ UNCHANGED <<agenda, snap, opened, risk, book, local, redis, placed, ordered>>
            /\ \E earlier \in SUBSET {Memory} : Persist(earlier)
            /\ \/ /\ c.qty >= c.size - pqty[c.pid]
                  /\ tracked' = tracked \ {c.pid}
                  /\ pqty' = [pqty EXCEPT ![c.pid] = 0]
               \/ /\ resume.partial /\ c.pid \in tracked
                  /\ pqty[c.pid] = 0 /\ c.qty < Qty[c.pid]
                  /\ tracked' = tracked
                  /\ pqty' = [pqty EXCEPT ![c.pid] = c.qty]
<1> DEFINE c == calls["SELL"]
           p == c.pid
<1>1. /\ pc = "closing" /\ c.st = "done" /\ pc' = resume.stage
      /\ calls' = [calls EXCEPT !["SELL"] = NoCall]
      /\ UNCHANGED <<agenda, snap, opened, risk, book, local, redis, placed, ordered>>
  BY DEF RecordClose, Answered, Untrack, Return, gatewayRest
<1>2. /\ pc' \in Stages
      /\ calls'["SELL"] = NoCall /\ calls'["BUY"] = calls["BUY"]
  BY <1>1 DEF TypeOK, GatewayTypeOK, MonitorTypeOK, Actions
<1>3. p \in Pids /\ c.qty \in 1..MaxQty /\ c.size \in Nat
  <2>1. c \in Call /\ Sound(c)
    BY TypeOKCalls DEF TypeOK, CallsTyped, Actions
  <2>2. c.size \in 0..MaxQty /\ MaxQty \in Nat
    BY <2>1, GatewayConstants DEF Call
  <2>3. p \in Pids /\ c.qty \in 1..MaxQty
    BY <1>1, <2>1 DEF Sound
  <2> QED  BY <2>2, <2>3
<1>4. \E earlier \in SUBSET {Memory} : Persist(earlier)
  BY DEF RecordClose
<1>5. CASE c.qty >= c.size - pqty[p]
  BY <1>1, <1>2, <1>3, <1>4, <1>5 DEF RecordClose, Answered, Untrack
<1>6. CASE ~(c.qty >= c.size - pqty[p])
  <2>1. /\ p \in tracked
        /\ resume.partial
        /\ pqty[p] = 0
        /\ c.size = Qty[p]
    BY <1>1, <1>6 DEF Durable, CloseInv, TypeOK, MonitorTypeOK
  <2>2. tracked' = tracked /\ pqty' = [pqty EXCEPT ![p] = c.qty]
    BY <1>6, <2>1 DEF RecordClose, Answered, Untrack
  <2>3. c.qty < Qty[p]
    <3>1. Qty[p] \in 1..MaxQty
      BY <1>3, GatewayConstants
    <3> HIDE DEF c, p
    <3> QED  BY <1>3, <1>6, <2>1, <3>1
  <2> QED  BY <1>1, <1>2, <1>3, <1>4, <2>1, <2>2, <2>3
<1> QED  BY <1>5, <1>6

\* The answer to a close: all of what remained, or the first part of it.
LEMMA RecordCloseDurable ==
  ASSUME TypeOK, Durable, RecordClose
  PROVE  Durable' /\ FileFollows
<1>1. PICK p, q, size : p = calls["SELL"].pid /\ q = calls["SELL"].qty
                        /\ size = calls["SELL"].size
  OBVIOUS
<1>2. /\ pc = "closing" /\ pc' \in Stages /\ pc' = resume.stage
      /\ calls'["BUY"] = calls["BUY"]
      /\ p \in Pids /\ q \in 1..MaxQty
      /\ UNCHANGED <<agenda, opened>>
      /\ p \notin agenda
  BY <1>1, CloseRecorded DEF Durable, CloseInv
<1>3. PICK earlier \in SUBSET {Memory} : Persist(earlier)
  BY CloseRecorded
<1>4. \/ tracked' = tracked \ {p} /\ pqty' = [pqty EXCEPT ![p] = 0]
      \/ /\ tracked' = tracked /\ pqty' = [pqty EXCEPT ![p] = q]
         /\ p \in tracked /\ pqty[p] = 0 /\ q < Qty[p]
  BY <1>1, CloseRecorded
<1>5. Holding(Memory)'
  <2>1. /\ tracked' \subseteq opened'
        /\ \A o \in tracked' : pqty'[o] < Qty[o]
        /\ \A o \in Pids \ tracked' : pqty'[o] = 0
    BY <1>2, <1>4, MemoryHolds
  <2> QED  BY <2>1 DEF Holding, Memory
<1>6. /\ tracked' \subseteq tracked
      /\ \A o \in tracked' : pqty[o] \in {0, pqty'[o]}
  BY <1>2, <1>4, MemoryHolds
<1>7. FileIsMemory' /\ FileInv' /\ FileFollows
  BY <1>2, <1>3, <1>5, <1>6, MemoryHolds, WriteDurable
<1>8. DownInv' /\ CloseInv'
  BY <1>2 DEF DownInv, CloseInv, Stages
<1>9. AgendaInv'
  BY <1>2, <1>4 DEF Durable, AgendaInv, Stages
<1>10. BuyInv'
  BY <1>2 DEF Durable, BuyInv
<1> QED  BY <1>7, <1>8, <1>9, <1>10 DEF Durable

\* The monitor's task keeps Durable.
LEMMA MonitorStepDurable ==
  ASSUME TypeOK, Durable, MonitorStep
  PROVE  Durable'
<1>1. CASE StartPoll
  BY <1>1, EnterChecksDurable DEF StartPoll, gatewayVars
<1>2. CASE ReadRequests
  BY <1>2, PollMoves DEF ReadRequests, gatewayVars, Durable, AgendaInv
<1>3. CASE ClearRequests
  BY <1>3, PollMoves DEF ClearRequests, gatewayVars, Durable, AgendaInv
<1>4. ASSUME NEW p \in Pids, ManualClose(p)
      PROVE  Durable'
  <2>1. snap[p] \in Int /\ snap[p] \in Nat
    BY GatewayConstants DEF TypeOK, MonitorTypeOK
  <2>2. snap[p] >= snap[p] - pqty[p]
    BY <2>1, GatewayConstants DEF TypeOK, MonitorTypeOK
  <2>3. agenda' = agenda \ {p}
    BY <1>4 DEF ManualClose, Durable, AgendaInv
  <2> QED  BY <1>4, <2>1, <2>2, <2>3, BeginCloseDurable DEF ManualClose, Stages
<1>5. CASE ManualNextLine
  BY <1>5, PollMoves DEF ManualNextLine, gatewayVars, Durable, AgendaInv
<1>6. CASE ManualDone
  BY <1>6, EnterChecksDurable DEF ManualDone, gatewayVars
<1>7. ASSUME NEW p \in Pids, SweepClose(p)
      PROVE  Durable'
  BY <1>7, CloseRemainingDurable DEF SweepClose, Stages
<1>8. CASE SweepDone
  BY <1>8, PollMoves DEF SweepDone, gatewayVars
<1>9. CASE CheckDone
  BY <1>9, PollMoves DEF CheckDone, gatewayVars, Durable, AgendaInv
<1>10. ASSUME NEW p \in Pids, Check(p)
       PROVE  Durable'
  BY <1>10, CheckDurable
<1>11. CASE RecordClose
  BY <1>11, RecordCloseDurable
<1> QED
  BY <1>1, <1>2, <1>3, <1>4, <1>5, <1>6, <1>7, <1>8, <1>9, <1>10, <1>11
     DEF MonitorStep

\* The gateway moves a call on without changing what it asks for.
LEMMA InternalCalls ==
  ASSUME TypeOK, Internal
  PROVE  \A a \in Actions : /\ calls'[a].pid = calls[a].pid
                            /\ calls'[a].qty = calls[a].qty
                            /\ calls'[a].size = calls[a].size
                            /\ calls'[a].st = "none" <=> calls[a].st = "none"
<1>1. ASSUME NEW b \in Actions, NEW st \in {"accepted", "done"}, NEW got,
             calls[b].st # "none",
             \/ calls' = [calls EXCEPT ![b].st = st]
             \/ calls' = [calls EXCEPT ![b].st = st, ![b].got = got]
      PROVE  \A a \in Actions : /\ calls'[a].pid = calls[a].pid
                                /\ calls'[a].qty = calls[a].qty
                                /\ calls'[a].size = calls[a].size
                                /\ calls'[a].st = "none" <=> calls[a].st = "none"
  <2>1. calls \in [Actions -> Call] /\ calls[b] \in Call
    BY DEF TypeOK, GatewayTypeOK
  <2>2. /\ calls'[b].st = st
        /\ calls'[b].pid = calls[b].pid
        /\ calls'[b].qty = calls[b].qty
        /\ calls'[b].size = calls[b].size
    <3>1. CASE calls' = [calls EXCEPT ![b].st = st]
      <4>1. calls'[b] = [calls[b] EXCEPT !.st = st]
        BY <2>1, <3>1
      <4> QED  BY <2>1, <4>1 DEF Call
    <3>2. CASE calls' = [calls EXCEPT ![b].st = st, ![b].got = got]
      <4>1. calls'[b] = [calls[b] EXCEPT !.st = st, !.got = got]
        BY <2>1, <3>2
      <4> QED  BY <2>1, <4>1 DEF Call
    <3> QED  BY <1>1, <3>1, <3>2
  <2>3. \A a \in Actions : a # b => calls'[a] = calls[a]
    BY <1>1, <2>1
  <2> QED  BY <1>1, <2>2, <2>3
<1>2. ASSUME NEW b \in Actions, Accept(b) \/ Refuse(b) \/ LoseReply(b) \/ Remember(b)
      PROVE  \A a \in Actions : /\ calls'[a].pid = calls[a].pid
                                /\ calls'[a].qty = calls[a].qty
                                /\ calls'[a].size = calls[a].size
                                /\ calls'[a].st = "none" <=> calls[a].st = "none"
  <2>1. CASE Accept(b)
    BY <2>1, <1>1 DEF Accept, Placed
  <2>2. CASE Refuse(b)
    BY <2>2, <1>1 DEF Refuse
  <2>3. CASE LoseReply(b)
    BY <2>3, <1>1 DEF LoseReply, Placed
  <2>4. CASE Remember(b)
    BY <2>4, <1>1 DEF Remember
  <2> QED  BY <1>2, <2>1, <2>2, <2>3, <2>4
<1>3. ASSUME \/ \E p \in Pids : PriceMoves(p) \/ BrokerFills(p)
             \/ RedisFails \/ RedisReturns
      PROVE  calls' = calls
  BY <1>3 DEF PriceMoves, BrokerFills, RedisFails, RedisReturns
<1> QED  BY <1>2, <1>3 DEF Internal

\* The gateway's own steps move its call forward and nothing of the monitor.
LEMMA GatewayStepDurable ==
  ASSUME TypeOK, Durable, GatewayStep
  PROVE  Durable'
<1>1. Internal /\ UNCHANGED <<pc, resume, agenda, tracked, pqty, file, unsaved, kept, opened>>
  BY DEF GatewayStep, monitorVars
<1>2. /\ pc = "down" => \A a \in Actions : calls'[a].st = "none"
      /\ calls'["BUY"].st # "none" => calls'["BUY"].pid \notin opened
  BY <1>1, InternalCalls DEF Durable, DownInv, BuyInv, Actions
<1>3. pc = "closing" =>
        /\ calls'["SELL"].st # "none"
        /\ calls'["SELL"].pid = calls["SELL"].pid
        /\ calls'["SELL"].qty = calls["SELL"].qty
        /\ calls'["SELL"].size = calls["SELL"].size
  BY <1>1, InternalCalls DEF Durable, CloseInv, Actions
<1> QED  BY <1>1, <1>2, <1>3, MonitorUntouched

\* What the confirmation of a buy changes.
LEMMA PositionAdded ==
  ASSUME TypeOK, Durable, AddPosition
  PROVE  LET p == calls["BUY"].pid
         IN /\ pc # "down"
            /\ calls'["BUY"] = NoCall /\ calls'["SELL"] = calls["SELL"]
            /\ p \in Pids /\ p \notin opened
            /\ tracked' = tracked \cup {p} /\ pqty' = pqty
            /\ opened' = opened \cup {p}
            /\ Persist({})
            /\ UNCHANGED <<pc, resume, agenda, snap, risk, book, local, redis, placed, ordered>>
<1> DEFINE p == calls["BUY"].pid
<1>1. /\ calls["BUY"].st = "done"
      /\ calls'["BUY"] = NoCall
      /\ calls'["SELL"] = calls["SELL"]
      /\ tracked' = tracked \cup {p}
      /\ pqty' = [pqty EXCEPT ![p] = 0]
      /\ opened' = opened \cup {p}
      /\ Persist({})
      /\ UNCHANGED <<pc, resume, agenda, snap, risk, book, local, redis, placed, ordered>>
  BY DEF AddPosition, Return, Actions, TypeOK, GatewayTypeOK, gatewayRest
<1>2. pc # "down"
  BY <1>1 DEF Durable, DownInv, Actions
<1>3. p \in Pids /\ p \notin opened
  BY <1>1, TypeOKCalls DEF Durable, BuyInv, TypeOK, CallsTyped, Sound, Actions
<1>4. pqty' = pqty
  <2> HIDE DEF p
  <2> QED  BY <1>1, <1>3, MemoryHolds
<1> QED  BY <1>1, <1>2, <1>3, <1>4

\* A new position is tracked, persisted and counted as opened in one step.
LEMMA AddPositionDurable ==
  ASSUME TypeOK, Durable, AddPosition
  PROVE  Durable' /\ FileFollows
<1>1. PICK p : p = calls["BUY"].pid
  OBVIOUS
<1>2. /\ pc # "down"
      /\ calls'["BUY"].st = "none" /\ calls'["SELL"] = calls["SELL"]
      /\ p \in Pids /\ p \notin opened
      /\ tracked' = tracked \cup {p} /\ pqty' = pqty
      /\ opened' = opened \cup {p}
      /\ Persist({})
      /\ UNCHANGED <<pc, resume, agenda>>
  BY <1>1, PositionAdded DEF NoCall
<1>3. 0 < Qty[p]
  BY <1>2, GatewayConstants
<1>4. Holding(Memory)'
  <2>1. /\ tracked' \subseteq opened'
        /\ \A o \in tracked' : pqty'[o] < Qty[o]
        /\ \A o \in Pids \ tracked' : pqty'[o] = 0
    BY <1>2, <1>3, MemoryHolds
  <2> QED  BY <2>1 DEF Holding, Memory
<1>5. /\ tracked' \cap kept \subseteq tracked
      /\ opened \subseteq opened' /\ tracked' \subseteq opened'
  BY <1>2, MemoryHolds DEF Durable, FileInv
<1>6. FileIsMemory' /\ FileInv' /\ FileFollows
  <2>1. {} \in SUBSET {Memory} /\ \A o \in tracked' \cap tracked : pqty[o] \in {0, pqty'[o]}
    BY <1>2
  <2> QED  BY <1>2, <1>4, <1>5, <2>1, WriteDurable
<1>7. DownInv' /\ AgendaInv' /\ BuyInv'
  BY <1>2 DEF Durable, DownInv, AgendaInv, BuyInv
<1>8. CloseInv'
  BY <1>2 DEF Durable, CloseInv
<1> QED  BY <1>6, <1>7, <1>8 DEF Durable

\* The buyer's task keeps Durable.
LEMMA BuyerStepDurable ==
  ASSUME TypeOK, Durable, BuyerStep
  PROVE  Durable'
<1>1. ASSUME NEW p \in Pids, StartBuy(p)
      PROVE  Durable'
  <2>1. /\ pc # "down"
        /\ calls'["BUY"].pid = p
        /\ p \notin opened
        /\ calls'["SELL"] = calls["SELL"]
        /\ UNCHANGED <<pc, resume, agenda, tracked, pqty, file, unsaved, kept, opened>>
    BY <1>1 DEF StartBuy, Ask, Actions, TypeOK, GatewayTypeOK, monitorVars
  <2> QED  BY <2>1, MonitorUntouched DEF Durable, CloseInv
<1>2. CASE AddPosition
  BY <1>2, AddPositionDurable
<1>3. CASE BuyOpensNothing
  <2>1. /\ calls["BUY"].st = "done"
        /\ calls'["BUY"].st = "none"
        /\ calls'["SELL"] = calls["SELL"]
        /\ UNCHANGED <<pc, resume, agenda, tracked, pqty, file, unsaved, kept, opened>>
    BY <1>3 DEF BuyOpensNothing, Return, NoCall, Actions, TypeOK, GatewayTypeOK, monitorVars
  <2>2. pc # "down"
    BY <2>1 DEF Durable, DownInv, Actions
  <2> QED  BY <2>1, <2>2, MonitorUntouched DEF Durable, CloseInv
<1> QED  BY <1>1, <1>2, <1>3 DEF BuyerStep

\* A crash leaves the file alone, and a restart reads it back.
LEMMA WorldDurable ==
  ASSUME TypeOK, Durable, World
  PROVE  Durable'
<1>1. ASSUME \/ \E ch \in Channels : SellMessage(ch)
             \/ \E r \in Requests : RequestClose(r)
             \/ \E a \in Analysts : TogglePause(a)
      PROVE  Durable'
  <2>1. UNCHANGED <<calls, pc, resume, agenda, tracked, pqty, file, unsaved, kept, opened>>
    BY <1>1 DEF SellMessage, RequestClose, TogglePause, gatewayVars, monitorVars
  <2> QED  BY <2>1, MonitorUntouched DEF Durable, DownInv, BuyInv, CloseInv
<1>2. CASE Die
  <2>1. /\ pc' = "down" /\ tracked' = {} /\ agenda' = {}
        /\ pqty' = [p \in Pids |-> 0]
        /\ \A a \in Actions : calls'[a].st = "none"
        /\ UNCHANGED <<file, unsaved, kept, opened>>
    BY <1>2 DEF Die, Crash, NoCall
  <2> QED
    BY <2>1
       DEF Durable, FileIsMemory, FileInv, Holding, Memory, DownInv, AgendaInv, BuyInv,
           CloseInv, Actions
<1>3. CASE Restart
  <2>1. /\ pc' = "sleep"
        /\ tracked' = file.pids
        /\ pqty' = file.sold
        /\ UNCHANGED <<calls, agenda, file, kept, opened>>
    BY <1>3 DEF Restart, gatewayVars
  <2>2. file = [pids |-> file.pids, sold |-> file.sold]
    BY DEF TypeOK, MonitorTypeOK
  <2>3. agenda = {}
    BY <1>3 DEF Restart, Durable, AgendaInv
  <2> QED
    BY <2>1, <2>2, <2>3
       DEF Durable, FileIsMemory, FileInv, Holding, Memory, DownInv, AgendaInv, BuyInv,
           CloseInv
<1> QED  BY <1>1, <1>2, <1>3 DEF World

\* Durable is inductive, given the types.
LEMMA NextDurable == TypeOK /\ Durable /\ [Next]_vars => Durable'
<1> SUFFICES ASSUME TypeOK, Durable, [Next]_vars PROVE Durable'
  OBVIOUS
<1>1. CASE UNCHANGED vars
  <2>1. UNCHANGED <<calls, pc, resume, agenda, tracked, pqty, file, unsaved, kept, opened>>
    BY <1>1 DEF vars, gatewayVars, monitorVars
  <2> QED  BY <2>1, MonitorUntouched DEF Durable, DownInv, BuyInv, CloseInv
<1> QED
  BY <1>1, GatewayStepDurable, MonitorStepDurable, BuyerStepDurable, WorldDurable DEF Next

\* Durable, the strengthening of FileIsMemory that is inductive, holds always:
\* file and memory hold opened positions with contracts left, a failed write
\* leaves the file behind memory by drops, additions and first partial sales
\* only, and no close in flight is of a position still on the agenda.
THEOREM DurableHolds == Spec => []Durable
<1> QED  BY DurableInit, NextDurable, TypeCorrect, PTL DEF Spec

\* Whenever the process may die and the last write of open_positions.json did
\* not fail, it holds all that the monitor would lose: no change of memory goes
\* unwritten across an await, and one write that succeeds makes up for every
\* one before it that failed (_persist_positions after every change).
THEOREM FileIsMemoryHolds == Spec => []FileIsMemory
<1>1. Durable => FileIsMemory
  BY DEF Durable
<1> QED  BY <1>1, DurableHolds, PTL

\* No exit strategy, percentage, answer of the gateway or restart leaves the
\* monitor with a position it tracks and _close_position would skip for ever.
THEOREM RemainderHolds == Spec => []TrackedHasRemainder
<1> QED  BY DurableRemainder, DurableHolds, TypeCorrect, PTL

-----------------------------------------------------------------------------
(***************************************************************************)
(* The refinement: only the confirmation of a fill and the answer to a     *)
(* close write the file, and each write is a move of the ledger, also when *)
(* it makes up for writes that failed.                                     *)
(***************************************************************************)
LEMMA FileMoves ==
  ASSUME TypeOK, Durable, [Next]_vars
  PROVE  UNCHANGED <<file, kept>> \/ FileFollows
<1>1. ASSUME NEW p \in Pids, Check(p)
      PROVE  UNCHANGED <<file, kept>>
  BY <1>1, CheckFrame
<1>2. ASSUME MonitorStep
      PROVE  UNCHANGED <<file, kept>> \/ RecordClose
  BY <1>1, <1>2
     DEF MonitorStep, StartPoll, ReadRequests, ClearRequests, ManualClose,
         ManualNextLine, ManualDone, SweepClose, SweepDone, CheckDone
<1>3. ASSUME BuyerStep
      PROVE  UNCHANGED <<file, kept>> \/ AddPosition
  BY <1>3 DEF BuyerStep, StartBuy, BuyOpensNothing, monitorVars
<1>4. ASSUME World
      PROVE  UNCHANGED <<file, kept>>
  BY <1>4 DEF World, SellMessage, RequestClose, TogglePause, Die, Restart, monitorVars
<1>5. ASSUME GatewayStep \/ UNCHANGED vars
      PROVE  UNCHANGED <<file, kept>>
  BY <1>5 DEF GatewayStep, vars, monitorVars
<1> QED
  BY <1>2, <1>3, <1>4, <1>5, RecordCloseDurable, AddPositionDurable DEF Next

\* A write moves each position as the ledger allows.
LEMMA WriteMoves ==
  ASSUME TypeOK, TypeOK', Durable, Durable', FileFollows
  PROVE  Ledger!Next
<1>1. /\ Holding(file) /\ file.pids \subseteq kept
      /\ file.sold \in [Pids -> 0..MaxQty]
  BY DEF Durable, FileInv, TypeOK, MonitorTypeOK
<1>2. /\ \A p \in file'.pids : file'.sold[p] < Qty[p]
      /\ \A p \in Pids \ file'.pids : file'.sold[p] = 0
      /\ file'.pids \subseteq kept'
      /\ file'.sold \in [Pids -> 0..MaxQty]
  BY DEF Durable, FileInv, Holding, TypeOK, MonitorTypeOK
<1>3. /\ kept' = kept \cup file'.pids
      /\ file'.pids \cap kept \subseteq file.pids
      /\ \A p \in file'.pids \cap file.pids : file.sold[p] \in {0, file'.sold[p]}
  BY DEF FileFollows
<1>4. LedgerStatus' \in [Pids -> {"new", "open", "closed"}]
  BY DEF LedgerStatus
<1>5. LedgerSold' \in [Pids -> Nat]
  <2>1. \A p \in Pids : Qty[p] \in Nat /\ file'.sold[p] \in Nat
    BY <1>2, GatewayConstants
  <2> QED  BY <2>1 DEF LedgerSold
<1>6. ASSUME NEW p \in Pids
      PROVE  Ledger!Stays(p) \/ Ledger!Opens(p) \/ Ledger!SellsPart(p) \/ Ledger!Closes(p)
  <2>1. /\ LedgerStatus[p] = IF p \in file.pids THEN "open"
                             ELSE IF p \in kept THEN "closed" ELSE "new"
        /\ LedgerStatus'[p] = IF p \in file'.pids THEN "open"
                              ELSE IF p \in kept' THEN "closed" ELSE "new"
        /\ LedgerSold[p] = IF p \in kept \ file.pids THEN Qty[p] ELSE file.sold[p]
        /\ LedgerSold'[p] = IF p \in kept' \ file'.pids THEN Qty[p] ELSE file'.sold[p]
    BY DEF LedgerStatus, LedgerSold
  <2>2. Qty[p] \in Nat /\ file.sold[p] \in Nat /\ file'.sold[p] \in Nat
    BY <1>1, <1>2, GatewayConstants
  <2>3. CASE p \in file.pids /\ p \in file'.pids
    <3>1. CASE file'.sold[p] = file.sold[p]
      BY <2>1, <2>3, <3>1 DEF Ledger!Stays
    <3>2. CASE file'.sold[p] # file.sold[p]
      <4>1. file.sold[p] = 0 /\ file'.sold[p] \in 1..(Qty[p] - 1)
        BY <1>2, <1>3, <2>2, <2>3, <3>2
      <4> QED  BY <2>1, <2>3, <4>1 DEF Ledger!SellsPart
    <3> QED  BY <3>1, <3>2
  <2>4. CASE p \in file.pids /\ p \notin file'.pids
    BY <1>1, <1>3, <2>1, <2>4 DEF Ledger!Closes
  <2>5. CASE p \notin file.pids /\ p \in file'.pids
    <3>1. p \notin kept /\ file'.sold[p] \in 0..(Qty[p] - 1)
      BY <1>2, <1>3, <2>2, <2>5
    <3> QED  BY <2>1, <2>5, <3>1 DEF Ledger!Opens
  <2>6. CASE p \notin file.pids /\ p \notin file'.pids
    <3>1. file.sold[p] = 0 /\ file'.sold[p] = 0
      BY <1>1, <1>2, <2>6 DEF Holding
    <3> QED  BY <1>3, <2>1, <2>6, <3>1 DEF Ledger!Stays
  <2> QED  BY <2>3, <2>4, <2>5, <2>6
<1> QED  BY <1>4, <1>5, <1>6 DEF Ledger!Next

\* The monitor, its files, its failed writes, its crashes and its restarts
\* implement the ledger: a position is opened once, sold in part once at most,
\* and closed for good.
THEOREM LedgerImplemented == Spec => LedgerSpec
<1>1. Init => Ledger!Init
  BY DEF Init, MonitorInit, Ledger!Init, LedgerStatus, LedgerSold
<1>2. TypeOK /\ TypeOK' /\ Durable /\ Durable' /\ [Next]_vars
        => [Ledger!Next]_<<LedgerStatus, LedgerSold>>
  <2>1. UNCHANGED <<file, kept>> => UNCHANGED <<LedgerStatus, LedgerSold>>
    BY DEF LedgerStatus, LedgerSold
  <2> QED  BY <2>1, FileMoves, WriteMoves
<1> QED
  BY <1>1, <1>2, TypeCorrect, DurableHolds, PTL DEF Spec, LedgerSpec, Ledger!Spec

-----------------------------------------------------------------------------
(***************************************************************************)
(* Idempotency keys.  Whatever the monitor, the buyer and a crash do, they *)
(* move the gateway in one of the ways that GatewayProofs deals with.      *)
(***************************************************************************)

\* What a step of the whole may do to the gateway.
GatewayMoves ==
  \/ Internal
  \/ Crash
  \/ UNCHANGED gatewayVars
  \/ \E a \in Actions, p \in Pids, q \in 1..MaxQty, size \in 0..MaxQty :
       Ask(a, p, q, size) /\ UNCHANGED gatewayRest
  \/ \E a \in Actions : Return(a) /\ UNCHANGED gatewayRest

\* A stage that asks for a close asks the gateway properly, or does not ask.
LEMMA BeginCloseMoves ==
  ASSUME NEW p \in Pids, NEW q \in Int, q <= MaxQty, NEW size \in 0..MaxQty,
         NEW stage, NEW partial,
         BeginClose(p, q, size, stage, partial), UNCHANGED gatewayRest
  PROVE  GatewayMoves
<1>1. CASE q <= 0
  BY <1>1 DEF BeginClose, GatewayMoves, gatewayVars, gatewayRest
<1>2. CASE ~(q <= 0)
  <2>1. q \in 1..MaxQty
    BY <1>2, GatewayConstants
  <2> QED  BY <1>2, <2>1 DEF BeginClose, GatewayMoves, Actions
<1> QED  BY <1>1, <1>2

\* The monitor's task asks for closes, takes answers, and else leaves the
\* gateway alone.
LEMMA MonitorStepMoves ==
  ASSUME TypeOK, MonitorStep
  PROVE  GatewayMoves
<1>1. ASSUME StartPoll \/ ReadRequests \/ ClearRequests \/ ManualNextLine
             \/ ManualDone \/ SweepDone \/ CheckDone
      PROVE  UNCHANGED gatewayVars
  BY <1>1 DEF StartPoll, ReadRequests, ClearRequests, ManualNextLine, ManualDone,
              SweepDone, CheckDone
<1>2. ASSUME NEW p \in Pids, ManualClose(p)
      PROVE  GatewayMoves
  <2>1. snap[p] \in Int /\ snap[p] <= MaxQty /\ snap[p] \in 0..MaxQty
    BY GatewayConstants DEF TypeOK, MonitorTypeOK
  <2> QED  BY <1>2, <2>1, BeginCloseMoves DEF ManualClose
<1>3. ASSUME NEW p \in Pids, SweepClose(p)
      PROVE  GatewayMoves
  BY <1>3, QuantityTypes, BeginCloseMoves DEF SweepClose
<1>4. ASSUME NEW p \in Pids, Check(p)
      PROVE  GatewayMoves
  <2>1. UNCHANGED gatewayRest
    BY <1>4, CheckFrame
  <2>2. CASE UNCHANGED <<calls, pc, resume>>
    BY <2>1, <2>2 DEF GatewayMoves, gatewayVars, gatewayRest
  <2>3. CASE BeginClose(p, Remaining(p), Qty[p], "check", FALSE)
    BY <2>1, <2>3, QuantityTypes, BeginCloseMoves
  <2>4. CASE BeginClose(p, PartialQty(p), Qty[p], "check", TRUE)
    <3>1. PartialQty(p) \in Int /\ PartialQty(p) <= MaxQty
      BY PartialQtyBound, GatewayConstants
    <3> QED  BY <2>1, <2>4, <3>1, QuantityTypes, BeginCloseMoves
  <2> QED  BY <1>4, <2>2, <2>3, <2>4, CheckFrame
<1>5. CASE RecordClose
  BY <1>5 DEF RecordClose, Answered, Untrack, GatewayMoves, Actions
<1> QED
  BY <1>1, <1>2, <1>3, <1>4, <1>5 DEF MonitorStep, GatewayMoves

\* No step of anyone moves the gateway in another way.
LEMMA NextMoves ==
  ASSUME TypeOK, [Next]_vars
  PROVE  GatewayMoves
<1>1. CASE BuyerStep
  <2>1. ASSUME NEW p \in Pids, StartBuy(p)
        PROVE  GatewayMoves
    BY <2>1, QuantityTypes DEF StartBuy, GatewayMoves, Actions
  <2>2. CASE AddPosition
    BY <2>2 DEF AddPosition, GatewayMoves, Actions
  <2>3. CASE BuyOpensNothing
    BY <2>3 DEF BuyOpensNothing, GatewayMoves, Actions
  <2> QED  BY <1>1, <2>1, <2>2, <2>3 DEF BuyerStep
<1>2. CASE World
  BY <1>2 DEF World, SellMessage, RequestClose, TogglePause, Die, Restart, GatewayMoves
<1>3. CASE GatewayStep \/ UNCHANGED vars
  BY <1>3 DEF GatewayStep, vars, GatewayMoves
<1> QED  BY <1>1, <1>2, <1>3, MonitorStepMoves DEF Next

\* The invariant on the keys survives every move of the gateway.
LEMMA MovesKeepKeys ==
  ASSUME GatewayTypeOK, KeyInv, GatewayMoves
  PROVE  KeyInv'
<1>1. CASE UNCHANGED gatewayVars
  BY <1>1 DEF gatewayVars, KeyInv, OneOrderPerKey, UnknownKeys, UnseenCalls,
              InFlight, Known, KeyOf, OrderKey
<1> QED  BY <1>1, InternalKeys, CrashKeys, AskKeys, ReturnKeys DEF GatewayMoves

\* The promise of the idempotency cache survives the composition: with the
\* monitor, the buyer, manual closes, crashes and restarts as its callers, the
\* gateway places at most one order per key more than there were faults.
THEOREM MonitorKeysPlaceOneOrder == Spec => []OneOrderPerKey
<1>1. Init => KeyInv
  BY KeyInvInit DEF Init
<1>2. TypeOK /\ KeyInv /\ [Next]_vars => KeyInv'
  BY NextMoves, MovesKeepKeys DEF TypeOK
<1>3. KeyInv => OneOrderPerKey
  BY DEF KeyInv
<1> QED  BY <1>1, <1>2, <1>3, TypeCorrect, PTL DEF Spec

-----------------------------------------------------------------------------
(***************************************************************************)
(* Live mode never orders more for sale than it bought.  The invariant     *)
(* keeps three accounts of the contracts ordered out of a position: what   *)
(* the monitor has written off, what the close in flight has placed, and   *)
(* what a crash erased, be it an answer on its way or a note that could    *)
(* not be filed.  A close in flight asks for no more than is left.         *)
(***************************************************************************)

\* What memory holds, or will hold after a restart.
Held == IF pc = "down" THEN file ELSE Memory

\* Contracts of p written off there.
Sold(p) == IF p \in opened \ Held.pids THEN Qty[p] ELSE Held.sold[p]

\* A call that has not reached the broker has no outcome.
NothingYet ==
  calls["SELL"].st \in {"none", "unseen"} => calls["SELL"].got = "nothing"

\* A live close in flight is of a tracked position and fits in what it has left.
LiveClose == calls["SELL"].st # "none" =>
  /\ pc = "closing"
  /\ calls["SELL"].pid \in tracked
  /\ calls["SELL"].size = Qty[calls["SELL"].pid]
  /\ calls["SELL"].qty <= Qty[calls["SELL"].pid] - pqty[calls["SELL"].pid]

\* Every contract ordered out is written off, not recorded yet, or was erased by a
\* crash.
Accounted == \A p \in Pids : ordered[p] <= Sold(p) + Unrecorded(p) + risk[p]

\* Live mode has no records of its own to close by hand.
NoRecords == snap = [p \in Pids |-> 0]

LiveInv == NothingYet /\ LiveClose /\ Accounted /\ NoRecords

\* Nothing is ordered at the start.
LEMMA LiveInit == Init => LiveInv
<1> SUFFICES ASSUME Init PROVE LiveInv
  OBVIOUS
<1>1. NothingYet /\ LiveClose /\ NoRecords
  BY DEF Init, GatewayInit, MonitorInit, NothingYet, LiveClose, NoRecords, NoCall, Actions
<1>2. ASSUME NEW p \in Pids
      PROVE  Sold(p) = 0 /\ Unrecorded(p) = 0 /\ ordered[p] = 0 /\ risk[p] = 0
  BY DEF Init, GatewayInit, MonitorInit, Sold, Held, Memory, Unrecorded, NoCall, Actions
<1>3. ASSUME NEW p \in Pids
      PROVE  ordered[p] <= Sold(p) + Unrecorded(p) + risk[p]
  <2>1. Sold(p) = 0 /\ Unrecorded(p) = 0 /\ ordered[p] = 0 /\ risk[p] = 0
    BY <1>2
  <2> QED  BY <2>1
<1> QED  BY <1>1, <1>3 DEF LiveInv, Accounted

\* What is written off of a position is never more than was bought.
LEMMA SoldBound ==
  ASSUME TypeOK, Durable, NEW p \in Pids
  PROVE  /\ Sold(p) \in Nat /\ Sold(p) <= Qty[p] /\ Qty[p] \in Nat
         /\ pc # "down" /\ p \in tracked => Sold(p) = pqty[p]
         /\ pc # "down" => Sold(p) = WrittenOff(p)
<1>1. Qty[p] \in Nat /\ Qty[p] > 0 /\ file.sold[p] \in Nat /\ pqty[p] \in Nat
  BY GatewayConstants DEF TypeOK, MonitorTypeOK
<1>2. /\ Held.sold[p] \in Nat
      /\ p \in Held.pids => Held.sold[p] < Qty[p]
      /\ p \notin Held.pids => Held.sold[p] = 0
  BY <1>1 DEF Durable, FileInv, Holding, Held, Memory
<1>3. Sold(p) \in Nat /\ Sold(p) <= Qty[p]
  BY <1>1, <1>2 DEF Sold
<1> QED  BY <1>1, <1>3 DEF Sold, Held, Memory, WrittenOff

\* LiveInv is strong enough.
LEMMA LiveIsEnough == TypeOK /\ Durable /\ LiveInv => SoldWithinHoldings
<1> SUFFICES ASSUME TypeOK, Durable, LiveInv, NEW p \in Pids
             PROVE  ordered[p] <= Qty[p] + risk[p]
  BY DEF SoldWithinHoldings
<1>1. ordered[p] <= Sold(p) + Unrecorded(p) + risk[p]
  BY DEF LiveInv, Accounted
<1>2. Sold(p) + Unrecorded(p) <= Qty[p]
  <2>1. CASE Unrecorded(p) = 0
    BY <2>1, SoldBound
  <2>2. CASE Unrecorded(p) # 0
    <3>1. /\ calls["SELL"].pid = p
          /\ calls["SELL"].st # "none"
          /\ Unrecorded(p) = calls["SELL"].qty
      BY <2>2 DEF Unrecorded, LiveInv, NothingYet
    <3>2. pc = "closing" /\ p \in tracked /\ calls["SELL"].qty <= Qty[p] - pqty[p]
      BY <3>1 DEF LiveInv, LiveClose
    <3>3. Sold(p) = pqty[p]
      BY <3>2, SoldBound
    <3>4. Qty[p] \in Nat /\ pqty[p] \in Nat
      BY GatewayConstants DEF TypeOK, MonitorTypeOK
    <3> QED  BY <3>1, <3>2, <3>3, <3>4, AccountTypes
  <2> QED  BY <2>1, <2>2
<1> QED  BY <1>1, <1>2, AccountTypes, SoldBound

\* Steps that touch neither the close in flight nor what is kept of a position.
LEMMA LiveQuiet ==
  ASSUME LiveInv, calls'["SELL"] = calls["SELL"],
         UNCHANGED <<tracked, pqty, file, unsaved, kept, opened, ordered, risk>>,
         snap' \in {snap, [p \in Pids |-> 0]},
         calls["SELL"].st # "none" => pc' = pc,
         pc' = "down" <=> pc = "down"
  PROVE  LiveInv'
BY DEF LiveInv, NothingYet, LiveClose, Accounted, NoRecords, Sold, Held, Memory, Unrecorded

\* A stage that asks for a close of a tracked position.
LEMMA LiveBeginClose ==
  ASSUME TypeOK, Durable, LiveInv, NEW p \in Pids, NEW q \in Int, NEW stage, NEW partial,
         pc \in Stages, stage \in Stages, p \in tracked, q <= Qty[p] - pqty[p],
         BeginClose(p, q, Qty[p], stage, partial),
         UNCHANGED <<gatewayRest, snap, tracked, pqty, file, unsaved, kept, opened, risk>>
  PROVE  LiveInv'
<1>1. calls["SELL"].st = "none" /\ pc # "down"
  BY DEF LiveInv, LiveClose, Stages
<1>2. CASE q <= 0
  BY <1>1, <1>2, LiveQuiet DEF BeginClose, gatewayRest, Stages
<1>3. CASE ~(q <= 0)
  <2>1. Ask("SELL", p, q, Qty[p]) /\ pc' = "closing"
    BY <1>3 DEF BeginClose
  <2>2. /\ calls'["SELL"].st \in {"done", "unseen"}
        /\ calls'["SELL"].st = "unseen" => calls'["SELL"].got = "nothing"
        /\ calls'["SELL"].got \in {"cached", "nothing"}
        /\ calls'["SELL"].pid = p
        /\ calls'["SELL"].qty = q
        /\ calls'["SELL"].size = Qty[p]
    BY <2>1 DEF Ask, Actions, TypeOK, GatewayTypeOK
  <2>3. \A o \in Pids : Unrecorded(o)' = 0 /\ Unrecorded(o) = 0
    BY <1>1, <2>2 DEF Unrecorded, LiveInv, NothingYet
  <2>4. Accounted'
    BY <1>1, <2>1, <2>3 DEF LiveInv, Accounted, Sold, Held, Memory, gatewayRest
  <2>5. NothingYet' /\ LiveClose' /\ NoRecords'
    BY <2>1, <2>2 DEF LiveInv, NothingYet, LiveClose, NoRecords
  <2> QED  BY <2>4, <2>5 DEF LiveInv
<1> QED  BY <1>2, <1>3

\* What one account gains, the sum gains.
LEMMA OneAccountGrows ==
  ASSUME NEW o \in Nat, NEW l \in Nat, NEW r \in Int, NEW n \in Nat, o <= l + 0 + r
  PROVE  o + n <= l + n + r
OBVIOUS

\* An order the broker takes is outstanding from then on.
LEMMA LivePlaced ==
  ASSUME TypeOK, Durable, LiveInv, Placed("SELL"),
         calls'["SELL"].st \in {"accepted", "done"},
         calls'["SELL"].got \in {"order", "lost reply"},
         calls'["SELL"].pid = calls["SELL"].pid,
         calls'["SELL"].qty = calls["SELL"].qty,
         calls'["SELL"].size = calls["SELL"].size,
         UNCHANGED monitorVars
  PROVE  LiveInv'
<1> DEFINE c == calls["SELL"]
<1>1. c \in Call /\ c.st = "unseen" /\ c.pid \in Pids
  BY TypeOKCalls DEF TypeOK, CallsTyped, Sound, Placed, Actions
<1>2. c.qty \in Nat
  BY AskedIsNatural DEF Actions
<1>3. ordered' = [ordered EXCEPT ![c.pid] = @ + c.qty]
  BY DEF Placed
<1>4. ASSUME NEW p \in Pids
      PROVE  ordered'[p] <= Sold(p)' + Unrecorded(p)' + risk'[p]
  <2>1. ordered[p] <= Sold(p) + Unrecorded(p) + risk[p]
    BY DEF LiveInv, Accounted
  <2>2. Sold(p)' = Sold(p) /\ risk'[p] = risk[p]
    BY DEF Sold, Held, Memory, monitorVars
  <2>3. Unrecorded(p) = 0
    BY <1>1 DEF LiveInv, NothingYet, Unrecorded
  <2>4. CASE p = c.pid
    <3>1. Unrecorded(p)' = c.qty
      BY <2>4 DEF Unrecorded
    <3>2. ordered'[p] = ordered[p] + c.qty
      BY <1>1, <1>3, <2>4 DEF TypeOK, GatewayTypeOK
    <3> HIDE DEF c
    <3>3. Sold(p) \in Nat /\ risk[p] \in Int /\ ordered[p] \in Nat
      BY AccountTypes, SoldBound
    <3> QED  BY <1>2, <2>1, <2>2, <2>3, <3>1, <3>2, <3>3, OneAccountGrows
  <2>5. CASE p # c.pid
    <3>1. Unrecorded(p)' = 0
      BY <2>5 DEF Unrecorded
    <3>2. ordered'[p] = ordered[p]
      BY <1>1, <1>3, <2>5 DEF TypeOK, GatewayTypeOK
    <3> HIDE DEF c
    <3> QED  BY <2>1, <2>2, <2>3, <3>1, <3>2
  <2> QED  BY <2>4, <2>5
<1>5. Accounted'
  BY <1>4 DEF Accounted
<1>6. NothingYet' /\ NoRecords'
  BY DEF LiveInv, NothingYet, NoRecords, monitorVars
<1>7. LiveClose'
  <2>1. /\ pc = "closing" /\ c.pid \in tracked
        /\ c.size = Qty[c.pid] /\ c.qty <= Qty[c.pid] - pqty[c.pid]
    BY <1>1 DEF LiveInv, LiveClose
  <2>2. UNCHANGED <<pc, tracked, pqty>>
    BY DEF monitorVars
  <2> HIDE DEF c
  <2> QED  BY <2>1, <2>2 DEF LiveClose, c
<1> QED  BY <1>5, <1>6, <1>7 DEF LiveInv

\* A call that goes on says how it went, and keeps its outcome when the key is
\* written.
LEMMA SellAdvances ==
  ASSUME TypeOK
  PROVE  /\ Accept("SELL") => calls'["SELL"].st = "accepted" /\ calls'["SELL"].got = "order"
         /\ Refuse("SELL") => calls'["SELL"].st = "done" /\ calls'["SELL"].got = "refused"
         /\ LoseReply("SELL") => calls'["SELL"].st = "done" /\ calls'["SELL"].got = "lost reply"
         /\ Remember("SELL") => calls'["SELL"].st = "done" /\ calls'["SELL"].got = calls["SELL"].got
<1> DEFINE c == calls["SELL"]
<1>1. c \in Call /\ calls \in [Actions -> Call] /\ "SELL" \in Actions
  BY DEF TypeOK, GatewayTypeOK, Actions
<1>2. ASSUME NEW st, NEW got, calls' = [calls EXCEPT !["SELL"].st = st, !["SELL"].got = got]
      PROVE  calls'["SELL"].st = st /\ calls'["SELL"].got = got
  <2>1. calls'["SELL"] = [c EXCEPT !.st = st, !.got = got]
    BY <1>1, <1>2
  <2> HIDE DEF c
  <2> QED  BY <1>1, <2>1 DEF Call
<1>3. Remember("SELL") => calls'["SELL"] = [c EXCEPT !.st = "done"]
  BY <1>1 DEF Remember
<1>4. ASSUME Remember("SELL")
      PROVE  calls'["SELL"].st = "done" /\ calls'["SELL"].got = c.got
  <2> HIDE DEF c
  <2> QED  BY <1>1, <1>3, <1>4 DEF Call
<1>5. ASSUME Accept("SELL")
      PROVE  calls'["SELL"].st = "accepted" /\ calls'["SELL"].got = "order"
  BY <1>2, <1>5 DEF Accept
<1>6. ASSUME Refuse("SELL")
      PROVE  calls'["SELL"].st = "done" /\ calls'["SELL"].got = "refused"
  BY <1>2, <1>6 DEF Refuse
<1>7. ASSUME LoseReply("SELL")
      PROVE  calls'["SELL"].st = "done" /\ calls'["SELL"].got = "lost reply"
  BY <1>2, <1>7 DEF LoseReply
<1> HIDE DEF c
<1> QED  BY <1>4, <1>5, <1>6, <1>7 DEF c

\* The gateway's own steps move the contracts of the close in flight from
\* nowhere to outstanding, and no others.
LEMMA LiveInternal ==
  ASSUME TypeOK, Durable, LiveInv, Internal, UNCHANGED monitorVars
  PROVE  LiveInv'
<1>1. /\ calls'["SELL"].pid = calls["SELL"].pid
      /\ calls'["SELL"].qty = calls["SELL"].qty
      /\ calls'["SELL"].size = calls["SELL"].size
      /\ calls'["SELL"].st = "none" <=> calls["SELL"].st = "none"
  BY InternalCalls DEF Actions
<1>2. CASE Accept("SELL") \/ LoseReply("SELL")
  <2>1. /\ Placed("SELL")
        /\ calls'["SELL"].st \in {"accepted", "done"}
        /\ calls'["SELL"].got \in {"order", "lost reply"}
    BY <1>2, SellAdvances DEF Accept, LoseReply
  <2> QED  BY <1>1, <2>1, LivePlaced
<1>3. CASE Refuse("SELL") \/ Remember("SELL")
  <2>1. /\ calls'["SELL"].st = "done"
        /\ calls["SELL"].st # "none"
        /\ \/ calls'["SELL"].got = calls["SELL"].got
           \/ calls'["SELL"].got = "refused" /\ calls["SELL"].got = "nothing"
        /\ ordered' = ordered
    BY <1>3, SellAdvances DEF Refuse, Remember, LiveInv, NothingYet
  <2>2. \A p \in Pids : Unrecorded(p)' = Unrecorded(p)
    BY <1>1, <2>1 DEF Unrecorded
  <2>3. Accounted'
    BY <2>1, <2>2 DEF LiveInv, Accounted, Sold, Held, Memory, monitorVars
  <2>4. NothingYet' /\ NoRecords'
    BY <2>1 DEF LiveInv, NothingYet, NoRecords, monitorVars
  <2>5. LiveClose'
    BY <1>1, <2>1 DEF LiveInv, LiveClose, monitorVars
  <2> QED  BY <2>3, <2>4, <2>5 DEF LiveInv
<1>4. CASE \/ Accept("BUY") \/ LoseReply("BUY") \/ Refuse("BUY") \/ Remember("BUY")
           \/ RedisFails \/ RedisReturns
           \/ \E p \in Pids : PriceMoves(p) \/ BrokerFills(p)
  <2>1. calls'["SELL"] = calls["SELL"] /\ ordered' = ordered
    BY <1>4 DEF Accept, LoseReply, Refuse, Remember, Placed, RedisFails, RedisReturns,
                PriceMoves, BrokerFills, TypeOK, GatewayTypeOK, Actions
  <2> QED  BY <2>1, LiveQuiet DEF monitorVars
<1> QED  BY <1>2, <1>3, <1>4 DEF Internal, Actions

\* What was outstanding is noted.
LEMMA OutstandingIsNoted ==
  ASSUME NEW o \in Int, NEW l \in Int, NEW n \in Int, NEW r \in Int, NEW m \in Int,
         o <= l + n + r, l + n <= m
  PROVE  o <= m + 0 + r
OBVIOUS

\* The answer to a close writes off what was not recorded.
LEMMA LiveRecordClose ==
  ASSUME TypeOK, Durable, LiveInv, RecordClose
  PROVE  LiveInv'
<1>1. PICK p, q : p = calls["SELL"].pid /\ q = calls["SELL"].qty
  OBVIOUS
<1>2. /\ pc = "closing" /\ pc' \in Stages /\ pc # "down" /\ pc' # "down"
      /\ calls'["SELL"] = NoCall
      /\ p \in Pids /\ q \in 1..MaxQty
      /\ UNCHANGED <<opened, ordered, risk, snap>>
  BY <1>1, CloseRecorded DEF Stages
<1>3. /\ p \in tracked /\ p \in opened
      /\ q <= Qty[p] - pqty[p]
      /\ q \in Int /\ pqty[p] \in Nat /\ Qty[p] \in Nat
  <2>1. p \in tracked /\ q <= Qty[p] - pqty[p]
    BY <1>1, CloseRecorded DEF LiveInv, LiveClose
  <2>2. pqty[p] \in Nat /\ Qty[p] \in Nat /\ q \in Int
    BY <1>2, GatewayConstants DEF TypeOK, MonitorTypeOK
  <2> QED  BY <2>1, <2>2, MemoryHolds
<1>4. \/ tracked' = tracked \ {p} /\ pqty' = [pqty EXCEPT ![p] = 0]
      \/ tracked' = tracked /\ pqty' = [pqty EXCEPT ![p] = q] /\ pqty[p] = 0
  BY <1>1, CloseRecorded
<1>5. NothingYet' /\ LiveClose' /\ NoRecords'
  BY <1>2 DEF LiveInv, NothingYet, LiveClose, NoRecords, NoCall
<1>6. ASSUME NEW o \in Pids
      PROVE  /\ Unrecorded(o)' = 0
             /\ Unrecorded(o) = 0 \/ (o = p /\ Unrecorded(o) = q)
  <2>1. Unrecorded(o)' = 0
    BY <1>2 DEF Unrecorded, NoCall
  <2>2. Unrecorded(o) = 0 \/ (o = p /\ Unrecorded(o) = q)
    BY <1>1 DEF Unrecorded
  <2> QED  BY <2>1, <2>2
<1>7. ASSUME NEW o \in Pids
      PROVE  /\ Sold(o) = IF o \in opened \ tracked THEN Qty[o] ELSE pqty[o]
             /\ Sold(o)' = IF o \in opened \ tracked' THEN Qty[o] ELSE pqty'[o]
  BY <1>2 DEF Sold, Held, Memory
<1>8. /\ Sold(p)' \in Int /\ Sold(p) + q <= Sold(p)'
      /\ \A o \in Pids : o # p => Sold(o)' = Sold(o)
  BY <1>2, <1>3, <1>4, <1>7, MemoryHolds
<1>9. ASSUME NEW o \in Pids
      PROVE  ordered'[o] <= Sold(o)' + Unrecorded(o)' + risk'[o]
  <2>1. /\ ordered[o] \in Int /\ Sold(o) \in Int /\ Unrecorded(o) \in Int
        /\ risk[o] \in Int /\ Sold(o)' \in Int
    BY <1>8, AccountTypes, SoldBound
  <2>2. Sold(o) + Unrecorded(o) <= Sold(o)'
    BY <1>2, <1>3, <1>6, <1>8, <2>1
  <2>3. ordered[o] <= Sold(o) + Unrecorded(o) + risk[o]
    BY DEF LiveInv, Accounted
  <2> QED  BY <1>2, <1>6, <2>1, <2>2, <2>3, OutstandingIsNoted
<1> QED  BY <1>5, <1>9 DEF LiveInv, Accounted

\* What was written off and not filed, or not recorded yet, at a crash is booked
\* on risk.
LEMMA LiveDie ==
  ASSUME TypeOK, Durable, LiveInv, Die
  PROVE  LiveInv'
<1>1. /\ calls'["SELL"] = NoCall
      /\ snap' = [p \in Pids |-> 0]
      /\ pc # "down" /\ pc' = "down"
      /\ UNCHANGED <<file, opened, ordered>>
  BY DEF Die, Crash, Actions
<1>2. NothingYet' /\ LiveClose' /\ NoRecords'
  BY <1>1 DEF NothingYet, LiveClose, NoRecords, NoCall
<1>3. ASSUME NEW o \in Pids
      PROVE  ordered'[o] <= Sold(o)' + Unrecorded(o)' + risk'[o]
  <2>1. ordered[o] <= WrittenOff(o) + Unrecorded(o) + risk[o]
    BY <1>1, SoldBound DEF LiveInv, Accounted
  <2>2. /\ risk'[o] = risk[o] + Unfiled(o) + Unrecorded(o)
        /\ Unrecorded(o)' = 0
    <3>1. risk'[o] = risk[o] + Unfiled(o) + Unrecorded(o)
      BY DEF Die
    <3>2. Unrecorded(o)' = 0
      BY <1>1 DEF Unrecorded, NoCall
    <3> QED  BY <3>1, <3>2
  <2>3. /\ Sold(o)' = IF o \in opened \ file.pids THEN Qty[o] ELSE file.sold[o]
        /\ Sold(o)' \in Int
    <3>1. Sold(o)' = IF o \in opened \ file.pids THEN Qty[o] ELSE file.sold[o]
      BY <1>1 DEF Sold, Held
    <3>2. Qty[o] \in Int /\ file.sold[o] \in Int
      BY GatewayConstants DEF TypeOK, MonitorTypeOK
    <3> QED  BY <3>1, <3>2
  <2>4. WrittenOff(o) <= Sold(o)' + Unfiled(o)
    <3>1. CASE o \in file.pids
      BY <2>3, <3>1, AccountTypes DEF Unfiled, Durable, FileInv
    <3>2. CASE o \in opened \ file.pids
      BY <1>1, <2>3, <3>2, SoldBound DEF Unfiled
    <3>3. CASE o \notin opened
      <4>1. o \notin tracked /\ o \notin file.pids /\ pqty[o] = 0 /\ file.sold[o] = 0
        BY <3>3, MemoryHolds DEF Durable, FileInv, Holding
      <4> QED  BY <2>3, <3>3, <4>1 DEF WrittenOff, Unfiled
    <3> QED  BY <3>1, <3>2, <3>3 DEF Durable, FileInv, Holding
  <2>5. /\ ordered[o] \in Int /\ WrittenOff(o) \in Int /\ Unfiled(o) \in Int
        /\ Unrecorded(o) \in Int /\ risk[o] \in Int
    BY AccountTypes
  <2>6. ordered[o] <= Sold(o)' + (risk[o] + Unfiled(o) + Unrecorded(o))
    BY <2>1, <2>3, <2>4, <2>5
  <2> QED  BY <1>1, <2>2, <2>3, <2>5, <2>6
<1> QED  BY <1>2, <1>3 DEF LiveInv, Accounted

\* A new position has nothing in any account.
LEMMA LiveAddPosition ==
  ASSUME TypeOK, Durable, LiveInv, AddPosition
  PROVE  LiveInv'
<1>1. PICK p : p = calls["BUY"].pid
  OBVIOUS
<1>2. /\ pc # "down"
      /\ calls'["SELL"] = calls["SELL"]
      /\ p \in Pids /\ p \notin opened
      /\ tracked' = tracked \cup {p} /\ pqty' = pqty
      /\ opened' = opened \cup {p}
      /\ UNCHANGED <<pc, snap, ordered, risk>>
  BY <1>1, PositionAdded
<1>3. ASSUME NEW o \in Pids
      PROVE  Sold(o)' = Sold(o) /\ Unrecorded(o)' = Unrecorded(o)
  BY <1>2, MemoryHolds DEF Sold, Held, Memory, Unrecorded
<1>4. Accounted'
  BY <1>2, <1>3 DEF LiveInv, Accounted
<1>5. NothingYet' /\ LiveClose' /\ NoRecords'
  BY <1>2 DEF LiveInv, NothingYet, LiveClose, NoRecords
<1> QED  BY <1>4, <1>5 DEF LiveInv

\* The monitor's task in live mode.
LEMMA LiveMonitorStep ==
  ASSUME ~Paper, TypeOK, Durable, LiveInv, MonitorStep
  PROVE  LiveInv'
<1>1. ASSUME StartPoll \/ ReadRequests \/ ClearRequests \/ ManualNextLine
             \/ ManualDone \/ SweepDone \/ CheckDone
      PROVE  LiveInv'
  <2>1. /\ UNCHANGED <<calls, ordered, tracked, pqty, file, unsaved, kept, opened, risk>>
        /\ pc # "closing" /\ pc # "down" /\ pc' # "down"
        /\ snap' \in {snap, [p \in Pids |-> 0]}
    BY <1>1 DEF EnterChecks, StartPoll, ReadRequests, ClearRequests, ManualNextLine, ManualDone,
                SweepDone, CheckDone, gatewayVars
  <2>2. calls["SELL"].st = "none"
    BY <2>1 DEF LiveInv, LiveClose
  <2> QED  BY <2>1, <2>2, LiveQuiet
<1>2. ASSUME NEW p \in Pids, ManualClose(p)
      PROVE  LiveInv'
  BY <1>2 DEF ManualClose, LiveInv, NoRecords
<1>3. ASSUME NEW p \in Pids, pc \in {"sweep", "check"}, p \in agenda
      PROVE  /\ p \in tracked
             /\ Remaining(p) \in Int /\ Remaining(p) <= Qty[p] - pqty[p]
             /\ PartialQty(p) \in Int
             /\ pqty[p] = 0 => PartialQty(p) <= Qty[p] - pqty[p]
  <2>1. p \in tracked
    BY <1>3 DEF Durable, AgendaInv
  <2>2. Qty[p] \in Nat /\ pqty[p] \in Nat
    BY GatewayConstants DEF TypeOK, MonitorTypeOK
  <2> QED  BY <2>1, <2>2, PartialQtyBound DEF Remaining
<1>4. ASSUME NEW p \in Pids, SweepClose(p)
      PROVE  LiveInv'
  <2>1. "sweep" \in Stages
    BY DEF Stages
  <2> QED  BY <1>3, <1>4, <2>1, LiveBeginClose DEF SweepClose
<1>5. ASSUME NEW p \in Pids, Check(p)
      PROVE  LiveInv'
  <2>1. /\ pc = "check" /\ p \in agenda /\ "check" \in Stages
        /\ UNCHANGED <<gatewayRest, snap, tracked, pqty, file, unsaved, kept, opened, risk>>
    BY <1>5, CheckFrame DEF Stages
  <2>2. CASE UNCHANGED <<calls, pc, resume>>
    BY <2>1, <2>2, LiveQuiet DEF gatewayRest
  <2>3. CASE BeginClose(p, Remaining(p), Qty[p], "check", FALSE)
    BY <1>3, <2>1, <2>3, LiveBeginClose
  <2>4. CASE pqty[p] = 0 /\ BeginClose(p, PartialQty(p), Qty[p], "check", TRUE)
    BY <1>3, <2>1, <2>4, LiveBeginClose
  <2> QED  BY <1>5, <2>2, <2>3, <2>4, CheckFrame
<1>6. CASE RecordClose
  BY <1>6, LiveRecordClose
<1> QED  BY <1>1, <1>2, <1>4, <1>5, <1>6 DEF MonitorStep

\* LiveInv is inductive in live mode.
LEMMA NextLive == ~Paper /\ TypeOK /\ Durable /\ LiveInv /\ [Next]_vars => LiveInv'
<1> SUFFICES ASSUME ~Paper, TypeOK, Durable, LiveInv, [Next]_vars PROVE LiveInv'
  OBVIOUS
<1>1. CASE GatewayStep
  BY <1>1, LiveInternal DEF GatewayStep
<1>2. CASE MonitorStep
  BY <1>2, LiveMonitorStep
<1>3. CASE BuyerStep
  <2>1. ASSUME (\E p \in Pids : StartBuy(p)) \/ BuyOpensNothing
        PROVE  LiveInv'
    <3>1. /\ calls'["SELL"] = calls["SELL"]
          /\ UNCHANGED <<pc, snap, tracked, pqty, file, unsaved, kept, opened, ordered, risk>>
      BY <2>1 DEF StartBuy, Ask, BuyOpensNothing, Return, Actions, TypeOK, GatewayTypeOK,
                  gatewayRest, monitorVars
    <3> QED  BY <3>1, LiveQuiet
  <2> QED  BY <1>3, <2>1, LiveAddPosition DEF BuyerStep
<1>4. CASE World
  <2>1. ASSUME \/ \E ch \in Channels : SellMessage(ch)
               \/ \E r \in Requests : RequestClose(r)
               \/ \E a \in Analysts : TogglePause(a)
        PROVE  LiveInv'
    BY <2>1, LiveQuiet DEF SellMessage, RequestClose, TogglePause, gatewayVars, monitorVars
  <2>2. CASE Restart
    <3>1. calls["SELL"].st = "none"
      BY <2>2 DEF Restart, Durable, DownInv, Actions
    <3>2. /\ UNCHANGED <<calls, ordered, snap, file, opened, risk>>
          /\ pc = "down" /\ pc' = "sleep"
          /\ tracked' = file.pids /\ pqty' = file.sold
      BY <2>2 DEF Restart, gatewayVars
    <3>3. \A o \in Pids : Sold(o)' = Sold(o) /\ Unrecorded(o)' = Unrecorded(o)
      BY <3>2 DEF Sold, Held, Memory, Unrecorded
    <3> QED
      BY <3>1, <3>2, <3>3 DEF LiveInv, NothingYet, LiveClose, Accounted, NoRecords
  <2> QED  BY <1>4, <2>1, <2>2, LiveDie DEF World
<1>5. CASE UNCHANGED vars
  BY <1>5, LiveQuiet DEF vars, gatewayVars, monitorVars
<1> QED  BY <1>1, <1>2, <1>3, <1>4, <1>5 DEF Next

\* In live mode no strategy, quantity, poll, lost reply, duplicate order, crash
\* or restart makes the monitor order more contracts of a position for sale than
\* were bought, but for those of which a crash erased the record: the order that
\* was not answered, and what failed writes had kept from the file.
THEOREM LiveSellsWithinHoldings ==
  ASSUME ~Paper
  PROVE  Spec => []SoldWithinHoldings
<1>1. Init => LiveInv
  BY LiveInit
<1>2. TypeOK /\ Durable /\ LiveInv /\ [Next]_vars => LiveInv'
  BY NextLive
<1> QED  BY <1>1, <1>2, LiveIsEnough, TypeCorrect, DurableHolds, PTL DEF Spec

-----------------------------------------------------------------------------
(***************************************************************************)
(* Paper mode sells all of what it drops, if the two sales of a position   *)
(* sold in part have different keys.  A close may be answered from the     *)
(* cache; the invariant shows that then the same close was made before.    *)
(* It remembers the sales of a position by their keys: what the cache      *)
(* knows, what the paper book records, what the file notes and what the    *)
(* close in flight asks for are each explained by sales that were made.    *)
(***************************************************************************)

\* No two positions share a contract, and so a key of the same quantity.
DistinctContracts == \A p, o \in Pids : Contract[p] = Contract[o] => p = o

\* The first sale of a position: a part of it, if its strategy sells in parts.
Part(p) == IF Strategy[p] = "PARTIAL_SELL_PCT" THEN PartialQty(p) ELSE Qty[p]

\* No first sale is of one half of its position.
NoHalves == \A p \in Pids : Part(p) # Qty[p] - Part(p)

\* A sale of q contracts of p was made.
SoldOnce(p, q) == q \in Sizes /\ placed[OrderKey("SELL", p, q)] > 0

\* What is left after the first sale in part.
Rest(p) == Qty[p] - Part(p)

\* All of p was sold, at once or in two parts.
SoldOut(p) ==
  \/ SoldOnce(p, Qty[p])
  \/ SoldOnce(p, Part(p)) /\ SoldOnce(p, Rest(p))

\* A record of n contracts: the whole, or what one of the two sales in part
\* leaves.  (A sale of the rest leaves the first part in the paper book.)
Explained(p, n) ==
  \/ n = 0
  \/ n = Qty[p]
  \/ n = Rest(p) /\ SoldOnce(p, Part(p))
  \/ n = Part(p) /\ SoldOnce(p, Rest(p))

\* Sales are counted in full, those of different keys apart.
SalesCount == \A p \in Pids :
  /\ \A q \in Sizes : SoldOnce(p, q) => ordered[p] >= q
  /\ SoldOnce(p, Part(p)) /\ SoldOnce(p, Rest(p)) => ordered[p] >= Qty[p]

\* The cache knows only sales that were made.
CacheTells == \A p \in Pids, q \in Sizes :
  OrderKey("SELL", p, q) \in local \cup redis => SoldOnce(p, q)

RecordsExplained == \A p \in Pids : Explained(p, book[p]) /\ Explained(p, snap[p])

\* A partial sale that memory or file notes was made.
Noted(p, n) == n = 0 \/ (n = Part(p) /\ SoldOnce(p, n))
PartsNoted == \A p \in Pids : Noted(p, pqty[p]) /\ Noted(p, file.sold[p])

\* What the monitor asks for: the first part, all that remains, or a record.
Fits(p, q, size, partial) ==
  \/ partial /\ size = Qty[p] /\ q = Part(p)
  \/ ~partial /\ size = Qty[p] /\ q = Qty[p]
  \/ ~partial /\ size = Qty[p] /\ q = Rest(p) /\ SoldOnce(p, Part(p))
  \/ ~partial /\ size = q /\ Explained(p, q)

CloseFits ==
  LET c == calls["SELL"]
  IN c.st # "none" =>
       /\ pc = "closing"
       /\ Fits(c.pid, c.qty, c.size, resume.partial)
       /\ c.st \in {"accepted", "done"} => SoldOnce(c.pid, c.qty)

BuyIsWhole == calls["BUY"].st # "none" => calls["BUY"].qty = Qty[calls["BUY"].pid]

\* What was in the file and is not in it any more, or will not be after the next
\* write.
Dropped == {p \in kept : p \notin file.pids \/ (pc # "down" /\ p \notin tracked)}

DroppedIsSoldOut == \A p \in Dropped : SoldOut(p)

PaperInv ==
  /\ SalesCount /\ CacheTells /\ RecordsExplained /\ PartsNoted
  /\ CloseFits /\ BuyIsWhole /\ DroppedIsSoldOut

\* A first sale is of one contract at least, and never of more than all.
LEMMA PartBound ==
  ASSUME NEW p \in Pids
  PROVE  Part(p) \in 1..Qty[p] /\ Part(p) \in 1..MaxQty
BY PartialQtyBound, GatewayConstants DEF Part

\* Nothing is sold, known, recorded or asked for at the start.
LEMMA PaperInit == Init => PaperInv
<1> SUFFICES ASSUME Init PROVE PaperInv
  OBVIOUS
<1>1. \A p \in Pids, q \in Sizes : ~SoldOnce(p, q)
  BY GatewayConstants DEF Init, GatewayInit, SoldOnce, OrderKey, Keys, Actions
<1>2. \A p \in Pids : Part(p) \in Sizes
  BY PartBound DEF Sizes
<1>3. SalesCount
  BY <1>1, <1>2 DEF SalesCount
<1>4. /\ CacheTells /\ RecordsExplained /\ PartsNoted /\ CloseFits /\ BuyIsWhole
      /\ DroppedIsSoldOut
  BY DEF Init, GatewayInit, MonitorInit, CacheTells, RecordsExplained, Explained, PartsNoted,
         Noted, CloseFits, BuyIsWhole, DroppedIsSoldOut, Dropped, NoCall, Actions
<1> QED  BY <1>3, <1>4 DEF PaperInv

\* Two parts make the whole.
LEMMA PartsMakeWhole ==
  ASSUME NEW p \in Pids
  PROVE  /\ Qty[p] \in Sizes /\ Part(p) \in Sizes
         /\ Rest(p) \in Int /\ Part(p) + Rest(p) = Qty[p]
         /\ Rest(p) <= MaxQty
BY PartBound, GatewayConstants DEF Rest, Sizes

\* PaperInv is strong enough.
LEMMA PaperIsEnough == TypeOK /\ PaperInv => DroppedIsSold
<1> SUFFICES ASSUME TypeOK, PaperInv, NEW p \in kept \ file.pids
             PROVE  ordered[p] >= Qty[p]
  BY DEF DroppedIsSold
<1>1. p \in Pids
  BY DEF TypeOK, MonitorTypeOK
<1>2. SoldOut(p)
  BY DEF PaperInv, DroppedIsSoldOut, Dropped
<1> QED  BY <1>1, <1>2, PartsMakeWhole DEF SoldOut, PaperInv, SalesCount

\* Without a new order, no sale is made.
LEMMA SalesStay ==
  ASSUME UNCHANGED placed, NEW p, NEW q
  PROVE  /\ SoldOnce(p, q)' <=> SoldOnce(p, q)
         /\ SoldOut(p)' <=> SoldOut(p)
         /\ Explained(p, q)' <=> Explained(p, q)
         /\ Noted(p, q)' <=> Noted(p, q)
BY DEF SoldOnce, SoldOut, Explained, Noted

\* A new order is a new sale of its key.
LEMMA SalesGrow ==
  ASSUME DistinctContracts, TypeOK, NEW a \in Actions, Placed(a)
  PROVE  \A p \in Pids, q \in Int :
           SoldOnce(p, q)' <=>
             \/ SoldOnce(p, q)
             \/ a = "SELL" /\ p = calls[a].pid /\ q = calls[a].qty
<1> DEFINE c == calls[a]
<1>1. c.pid \in Pids /\ c.qty \in Sizes /\ KeyOf(a) \in Keys
  BY TypeOKCalls, KeyOfType DEF TypeOK, CallsTyped, Sound, Placed, Sizes
<1>2. placed' = [placed EXCEPT ![KeyOf(a)] = @ + 1] /\ placed \in [Keys -> Nat]
  BY DEF Placed, TypeOK, GatewayTypeOK
<1>3. KeyOf(a) = <<a, Contract[c.pid], c.qty>>
  BY DEF KeyOf, OrderKey
<1> HIDE DEF c
<1>4. ASSUME NEW p \in Pids, NEW q \in Sizes
      PROVE  SoldOnce(p, q)' <=>
               \/ SoldOnce(p, q)
               \/ a = "SELL" /\ p = c.pid /\ q = c.qty
  <2> DEFINE k == <<"SELL", Contract[p], q>>
  <2>1. k \in Keys
    BY GatewayConstants DEF Keys, Actions
  <2>2. k = KeyOf(a) <=> a = "SELL" /\ p = c.pid /\ q = c.qty
    BY <1>1, <1>3 DEF DistinctContracts
  <2>3. /\ SoldOnce(p, q) <=> placed[k] > 0
        /\ SoldOnce(p, q)' <=> placed'[k] > 0
    BY DEF SoldOnce, OrderKey
  <2> HIDE DEF k
  <2>4. CASE k = KeyOf(a)
    BY <1>2, <2>1, <2>2, <2>3, <2>4
  <2>5. CASE k # KeyOf(a)
    BY <1>2, <2>1, <2>2, <2>3, <2>5
  <2> QED  BY <2>4, <2>5
<1>5. \A p \in Pids, q \in Int : q \notin Sizes => ~SoldOnce(p, q) /\ ~SoldOnce(p, q)'
  BY DEF SoldOnce
<1> QED  BY <1>1, <1>4, <1>5 DEF c

\* Steps without a new order or a new close: what memory, book and file hold
\* afterwards one of them held before, or nothing.
LEMMA PaperQuiet ==
  ASSUME PaperInv, UNCHANGED <<placed, ordered>>,
         calls'["SELL"] \in {calls["SELL"], NoCall},
         calls'["SELL"].st # "none" => UNCHANGED <<pc, resume>>,
         calls'["BUY"].st # "none" => calls'["BUY"].qty = Qty[calls'["BUY"].pid],
         local' \cup redis' \subseteq local \cup redis,
         \A p \in Pids :
           /\ book'[p] \in {0, book[p]}
           /\ snap'[p] \in {0, snap[p], book[p]}
           /\ pqty'[p] \in {0, pqty[p], file.sold[p]}
           /\ file'.sold[p] \in {0, pqty[p], file.sold[p]},
         Dropped' \subseteq Dropped
  PROVE  PaperInv'
<1>1. SalesCount'
  BY SalesStay DEF PaperInv, SalesCount
<1>2. CacheTells'
  BY SalesStay DEF PaperInv, CacheTells
<1>3. RecordsExplained'
  <2> SUFFICES ASSUME NEW p \in Pids PROVE Explained(p, book[p])' /\ Explained(p, snap[p])'
    BY DEF RecordsExplained
  <2>1. /\ Explained(p, 0) /\ Explained(p, book[p]) /\ Explained(p, snap[p])
    BY DEF PaperInv, RecordsExplained, Explained
  <2> QED  BY <2>1 DEF Explained, SoldOnce
<1>4. PartsNoted'
  <2> SUFFICES ASSUME NEW p \in Pids PROVE Noted(p, pqty[p])' /\ Noted(p, file.sold[p])'
    BY DEF PartsNoted
  <2>1. /\ Noted(p, 0) /\ Noted(p, pqty[p]) /\ Noted(p, file.sold[p])
    BY DEF PaperInv, PartsNoted, Noted
  <2> QED  BY <2>1 DEF Noted, SoldOnce
<1>5. CloseFits'
  BY DEF PaperInv, CloseFits, Fits, Explained, SoldOnce, NoCall
<1>6. BuyIsWhole'
  BY DEF BuyIsWhole
<1>7. DroppedIsSoldOut'
  BY SalesStay DEF PaperInv, DroppedIsSoldOut
<1> QED  BY <1>1, <1>2, <1>3, <1>4, <1>5, <1>6, <1>7 DEF PaperInv

\* A close that is asked for fits, and one the cache answers was made before.
LEMMA PaperBeginClose ==
  ASSUME TypeOK, PaperInv, NEW p \in Pids, NEW q \in Int, q <= MaxQty, NEW size,
         NEW stage, NEW partial,
         pc \in Stages, stage \in Stages, q > 0 => Fits(p, q, size, partial),
         BeginClose(p, q, size, stage, partial),
         UNCHANGED <<gatewayRest, snap, tracked, pqty, file, kept>>
  PROVE  PaperInv'
<1>0. /\ UNCHANGED <<book, local, redis, redisUp, placed, ordered>>
      /\ Dropped' = Dropped
  BY DEF gatewayRest, Dropped, BeginClose, Stages
<1>1. CASE q <= 0
  <2>1. UNCHANGED calls
    BY <1>1 DEF BeginClose
  <2>2. calls["SELL"].st = "none"
    BY DEF PaperInv, CloseFits, Stages
  <2> QED  BY <1>0, <2>1, <2>2, PaperQuiet DEF PaperInv, BuyIsWhole
<1>2. CASE ~(q <= 0)
  <2>1. q \in Sizes
    BY <1>2, GatewayConstants DEF Sizes
  <2>2. /\ Ask("SELL", p, q, size) /\ pc' = "closing"
        /\ resume' = [stage |-> stage, partial |-> partial]
    BY <1>2 DEF BeginClose
  <2>3. /\ calls'["BUY"] = calls["BUY"]
        /\ calls'["SELL"].pid = p
        /\ calls'["SELL"].qty = q
        /\ calls'["SELL"].size = size
        /\ calls'["SELL"].st \in {"unseen", "done"}
        /\ calls'["SELL"].st = "done" => Known(OrderKey("SELL", p, q))
    BY <2>2 DEF Ask, Actions, TypeOK, GatewayTypeOK
  <2>4. Known(OrderKey("SELL", p, q)) => SoldOnce(p, q)
    BY <2>1 DEF PaperInv, CacheTells, Known
  <2>5. Fits(p, q, size, partial)
    BY <1>2
  <2>6. CloseFits'
    BY <1>0, <2>2, <2>3, <2>4, <2>5 DEF CloseFits, Fits, Explained, SoldOnce
  <2>7. BuyIsWhole'
    BY <2>3 DEF PaperInv, BuyIsWhole
  <2>8. /\ SalesCount' /\ CacheTells' /\ RecordsExplained' /\ PartsNoted'
        /\ DroppedIsSoldOut'
    BY <1>0
       DEF PaperInv, SalesCount, CacheTells, RecordsExplained, PartsNoted, DroppedIsSoldOut,
           SoldOut, Explained, Noted, SoldOnce
  <2> QED  BY <2>6, <2>7, <2>8 DEF PaperInv
<1> QED  BY <1>1, <1>2

\* A close that fits and was made, of at least what remains, was of the last
\* contracts of its position.
LEMMA LastSaleSellsOut ==
  ASSUME TypeOK, NEW p \in Pids, NEW q \in 1..MaxQty, NEW size \in Int, NEW partial,
         NEW n \in Int,
         Fits(p, q, size, partial), SoldOnce(p, q), Noted(p, n), partial => n = 0,
         q >= size - n
  PROVE  SoldOut(p)
<1>1. Qty[p] \in Int /\ Part(p) \in 1..Qty[p] /\ Rest(p) = Qty[p] - Part(p)
      /\ q \in Int /\ q > 0
  BY PartBound, GatewayConstants DEF Rest
<1>2. CASE partial /\ size = Qty[p] /\ q = Part(p)
  <2>1. q = Qty[p]
    BY <1>1, <1>2
  <2> QED  BY <2>1 DEF SoldOut
<1>3. CASE size = Qty[p] /\ q = Qty[p]
  BY <1>3 DEF SoldOut
<1>4. CASE q = Rest(p) /\ SoldOnce(p, Part(p))
  BY <1>4 DEF SoldOut
<1>5. CASE Explained(p, q)
  BY <1>1, <1>5 DEF Explained, SoldOut
<1> QED  BY <1>2, <1>3, <1>4, <1>5 DEF Fits

\* The answer to a close: what was the last sale drops a position sold out, and
\* what was the first is noted.
LEMMA PaperRecordClose ==
  ASSUME TypeOK, Durable, PaperInv, RecordClose
  PROVE  PaperInv'
<1>1. PICK p, q, size : p = calls["SELL"].pid /\ q = calls["SELL"].qty
                        /\ size = calls["SELL"].size
  OBVIOUS
<1>2. /\ pc = "closing" /\ pc' # "down" /\ calls["SELL"].st = "done"
      /\ calls'["SELL"] = NoCall
      /\ calls'["BUY"] = calls["BUY"]
      /\ p \in Pids /\ q \in 1..MaxQty /\ size \in Int
      /\ UNCHANGED <<ordered, placed, local, redis, book, snap>>
  BY <1>1, CloseRecorded DEF Stages
<1>3. PICK earlier \in SUBSET {Memory} : Persist(earlier)
  BY CloseRecorded
<1>4. \/ /\ q >= size - pqty[p]
         /\ tracked' = tracked \ {p} /\ pqty' = [pqty EXCEPT ![p] = 0]
      \/ /\ resume.partial
         /\ tracked' = tracked /\ pqty' = [pqty EXCEPT ![p] = q]
  BY <1>1, CloseRecorded
<1>5. /\ Fits(p, q, size, resume.partial)
      /\ SoldOnce(p, q)
      /\ Noted(p, pqty[p])
      /\ resume.partial => pqty[p] = 0
  BY <1>1, <1>2 DEF PaperInv, CloseFits, PartsNoted, Durable, CloseInv
<1>6. \A o \in Pids : Noted(o, pqty'[o])
  <2>1. q = Part(p) \/ ~resume.partial
    BY <1>5 DEF Fits
  <2> SUFFICES ASSUME NEW o \in Pids PROVE Noted(o, pqty'[o])
    OBVIOUS
  <2>2. CASE o = p
    BY <1>2, <1>4, <1>5, <2>1, <2>2, MemoryHolds DEF Noted
  <2>3. CASE o # p
    BY <1>2, <1>4, <2>3, MemoryHolds DEF PaperInv, PartsNoted
  <2> QED  BY <2>2, <2>3
<1>7. /\ file' \in {file, Memory, Memory'}
      /\ kept' = kept \cup file'.pids
      /\ Memory.pids = tracked /\ Memory.sold = pqty
      /\ Memory'.pids = tracked' /\ Memory'.sold = pqty'
  BY <1>3 DEF Persist, Memory
<1>8. PartsNoted'
  <2>1. \A o \in Pids : Noted(o, file'.sold[o])
    BY <1>6, <1>7 DEF PaperInv, PartsNoted
  <2> QED  BY <1>2, <1>6, <2>1 DEF PartsNoted, Noted, SoldOnce
<1>9. tracked \ tracked' # {} => SoldOut(p) /\ tracked' = tracked \ {p}
  <2>1. pqty[p] \in Int /\ resume.partial \in BOOLEAN
    BY <1>2, GatewayConstants DEF TypeOK, MonitorTypeOK
  <2>2. CASE q >= size - pqty[p]
    BY <1>2, <1>4, <1>5, <2>1, <2>2, LastSaleSellsOut
  <2>3. CASE ~(q >= size - pqty[p])
    BY <1>4, <2>3
  <2> QED  BY <2>2, <2>3
<1>10. DroppedIsSoldOut'
  <2> SUFFICES ASSUME NEW o \in Dropped' PROVE SoldOut(o)
    BY <1>2 DEF DroppedIsSoldOut, SoldOut, SoldOnce
  <2>1. CASE o \in tracked
    <3>1. o \notin tracked'
      <4>1. o \in kept' /\ (o \notin file'.pids \/ o \notin tracked')
        BY DEF Dropped
      <4>2. tracked' \cap kept' \subseteq file'.pids
        BY RecordCloseDurable DEF Durable, FileInv
      <4> QED  BY <4>1, <4>2
    <3> QED  BY <1>4, <1>9, <2>1, <3>1
  <2>2. CASE o \notin tracked
    <3>1. tracked' \subseteq tracked
      BY <1>4
    <3>2. o \in kept
      BY <1>7, <2>2, <3>1 DEF Dropped, Durable, FileInv
    <3>3. o \in Dropped
      BY <1>2, <2>2, <3>2 DEF Dropped
    <3> QED  BY <3>3 DEF PaperInv, DroppedIsSoldOut
  <2> QED  BY <2>1, <2>2
<1>11. /\ SalesCount' /\ CacheTells' /\ RecordsExplained'
  BY <1>2 DEF PaperInv, SalesCount, CacheTells, RecordsExplained, Explained, SoldOnce
<1>12. CloseFits' /\ BuyIsWhole'
  BY <1>2 DEF PaperInv, CloseFits, BuyIsWhole, NoCall
<1> QED  BY <1>8, <1>10, <1>11, <1>12 DEF PaperInv

\* What explained a record or a note still does after one more order.
LEMMA OrderKeepsSales ==
  ASSUME DistinctContracts, TypeOK, NEW a \in Actions, Placed(a), NEW p \in Pids
  PROVE  /\ \A q \in Int : SoldOnce(p, q) => SoldOnce(p, q)'
         /\ SoldOut(p) => SoldOut(p)'
         /\ \A n : Explained(p, n) => Explained(p, n)'
         /\ \A n : Noted(p, n) => Noted(p, n)'
<1>1. Qty[p] \in Int /\ Part(p) \in Int /\ Rest(p) \in Int
  BY PartsMakeWhole DEF Sizes
<1>2. \A q \in Int : SoldOnce(p, q) => SoldOnce(p, q)'
  BY SalesGrow
<1>3. /\ SoldOnce(p, Qty[p]) => SoldOnce(p, Qty[p])'
      /\ SoldOnce(p, Part(p)) => SoldOnce(p, Part(p))'
      /\ SoldOnce(p, Rest(p)) => SoldOnce(p, Rest(p))'
  BY <1>1, <1>2
<1>4. SoldOut(p) => SoldOut(p)'
  BY <1>3 DEF SoldOut, Rest
<1>5. \A n : Explained(p, n) => Explained(p, n)'
  BY <1>3 DEF Explained, Rest
<1>6. \A n : Noted(p, n) => Noted(p, n)'
  <2> SUFFICES ASSUME NEW n, Noted(p, n) PROVE Noted(p, n)'
    OBVIOUS
  <2>1. CASE n = 0
    BY <2>1 DEF Noted
  <2>2. CASE n = Part(p) /\ SoldOnce(p, n)
    <3>1. n \in Int
      BY <1>1, <2>2
    <3> QED  BY <1>2, <2>2, <3>1 DEF Noted
  <2> QED  BY <2>1, <2>2 DEF Noted
<1> QED  BY <1>2, <1>4, <1>5, <1>6

\* What an order does not touch of the invariant, whoever placed it.
LEMMA PaperPlaced ==
  ASSUME DistinctContracts, TypeOK, PaperInv, NEW a \in Actions, Placed(a),
         UNCHANGED <<local, redis, monitorVars>>
  PROVE  /\ CacheTells' /\ PartsNoted' /\ DroppedIsSoldOut'
         /\ \A p \in Pids : Explained(p, snap[p])'
<1>1. UNCHANGED <<snap, pqty, file>> /\ Dropped' = Dropped
  BY DEF monitorVars, Dropped
<1>2. CacheTells'
  <2> SUFFICES ASSUME NEW p \in Pids, NEW q \in Sizes,
                      OrderKey("SELL", p, q) \in local \cup redis
               PROVE  SoldOnce(p, q)'
    BY DEF CacheTells, OrderKey
  <2>1. q \in Int
    BY GatewayConstants DEF Sizes
  <2> QED  BY <2>1, OrderKeepsSales DEF PaperInv, CacheTells
<1>3. \A p \in Pids : Noted(p, pqty[p])' /\ Noted(p, file.sold[p])'
  <2> SUFFICES ASSUME NEW p \in Pids PROVE Noted(p, pqty[p])' /\ Noted(p, file.sold[p])'
    OBVIOUS
  <2>1. Noted(p, pqty[p]) /\ Noted(p, file.sold[p])
    BY DEF PaperInv, PartsNoted
  <2> DEFINE m == pqty[p]
             n == file.sold[p]
  <2>2. m' = m /\ n' = n
    BY <1>1
  <2>3. PICK i, j : i = m /\ j = n
    OBVIOUS
  <2>4. Noted(p, i)' /\ Noted(p, j)'
    BY <2>1, <2>3, OrderKeepsSales
  <2> QED  BY <2>2, <2>3, <2>4 DEF Noted
<1>4. DroppedIsSoldOut'
  <2>1. \A p \in Dropped : p \in Pids
    BY DEF Dropped, TypeOK, MonitorTypeOK
  <2> QED  BY <1>1, <2>1, OrderKeepsSales DEF PaperInv, DroppedIsSoldOut
<1>5. \A p \in Pids : Explained(p, snap[p])'
  <2> SUFFICES ASSUME NEW p \in Pids PROVE Explained(p, snap[p])'
    OBVIOUS
  <2>1. PICK i : i = snap[p]
    OBVIOUS
  <2>2. Explained(p, i)'
    BY <2>1, OrderKeepsSales DEF PaperInv, RecordsExplained
  <2> QED  BY <1>1, <2>1, <2>2 DEF Explained
<1> QED  BY <1>2, <1>3, <1>4, <1>5 DEF PartsNoted

\* Of two parts, one is what the other leaves of the sum, ...
LEMMA PartOfSum ==
  ASSUME NEW a \in Int, NEW b \in Int, NEW c \in Int, a + b = c
  PROVE  c - b = a
OBVIOUS

\* ... and adding one to no less than the other gives no less than the sum.
LEMMA SumReached ==
  ASSUME NEW o \in Int, NEW a \in Int, NEW b \in Int, NEW c \in Int, o >= b, a + b = c
  PROVE  o + a >= c /\ b + a = c
OBVIOUS

\* A sale is counted, and the book records what it leaves.
LEMMA PaperSells ==
  ASSUME Paper, DistinctContracts, NoHalves, TypeOK, PaperInv, Accept("SELL"),
         UNCHANGED monitorVars
  PROVE  PaperInv'
<1>1. PICK s, q, size, partial :
        /\ s = calls["SELL"].pid /\ q = calls["SELL"].qty
        /\ size = calls["SELL"].size /\ partial = resume.partial
  OBVIOUS
<1> DEFINE after == IF q >= size THEN 0 ELSE size - q
<1>2. /\ Placed("SELL") /\ calls["SELL"].st = "unseen"
      /\ book' = [book EXCEPT ![s] = after]
      /\ ordered' = [ordered EXCEPT ![s] = @ + q]
      /\ UNCHANGED <<local, redis>>
      /\ calls'["BUY"] = calls["BUY"]
  BY <1>1 DEF Accept, Placed, BookAfter, TypeOK, GatewayTypeOK, Actions
<1>3. s \in Pids /\ q \in Sizes /\ q \in Nat /\ q > 0
  <2>1. s \in Pids /\ q \in 1..MaxQty
    BY <1>1, <1>2, TypeOKCalls DEF TypeOK, CallsTyped, Sound, Actions
  <2> QED  BY <2>1, GatewayConstants DEF Sizes
<1>4. Fits(s, q, size, partial) /\ pc = "closing"
  BY <1>1, <1>2 DEF PaperInv, CloseFits
<1>5. ordered \in [Pids -> Nat] /\ book \in [Pids -> 0..MaxQty]
  BY DEF TypeOK, GatewayTypeOK
<1>6. \A p \in Pids, n \in Int :
        SoldOnce(p, n)' <=> SoldOnce(p, n) \/ (p = s /\ n = q)
  BY <1>1, <1>2, SalesGrow DEF Actions
<1>7. CacheTells' /\ PartsNoted' /\ DroppedIsSoldOut' /\ \A p \in Pids : Explained(p, snap[p])'
  BY <1>2, PaperPlaced DEF Actions
<1>8. /\ calls'["SELL"].pid = s
      /\ calls'["SELL"].qty = q
      /\ calls'["SELL"].size = size
  BY <1>1, InternalCalls DEF Internal, Actions
<1>9. SoldOnce(s, q)'
  BY <1>3, <1>6
<1>10. Qty[s] \in Sizes /\ Part(s) \in Sizes /\ Rest(s) \in Int
       /\ Part(s) + Rest(s) = Qty[s] /\ Sizes \subseteq Int
       /\ Qty[s] \in Int /\ Part(s) \in Int
  <2>1. Sizes \subseteq Int
    BY GatewayConstants DEF Sizes
  <2> QED  BY <1>3, <2>1, PartsMakeWhole
<1>11. CloseFits'
  <2>1. SoldOnce(s, Part(s)) => SoldOnce(s, Part(s))'
    BY <1>3, <1>6, <1>10
  <2>2. Explained(s, q) => Explained(s, q)'
    BY <1>2, <1>3, OrderKeepsSales DEF Actions
  <2>3. Fits(s, q, size, partial)'
    BY <1>4, <2>1, <2>2 DEF Fits, Rest
  <2>4. pc' = "closing" /\ resume'.partial = partial
    BY <1>1, <1>4 DEF monitorVars
  <2> QED  BY <1>8, <1>9, <2>3, <2>4 DEF CloseFits, Fits, Explained, SoldOnce
<1>12. RecordsExplained'
  <2> SUFFICES ASSUME NEW p \in Pids PROVE Explained(p, book[p])'
    BY <1>7 DEF RecordsExplained
  <2>1. CASE p = s
    <3>1. Explained(s, after)'
      <4>1. CASE after = 0
        BY <4>1 DEF Explained
      <4>2. CASE size = Qty[s] /\ q = Part(s) /\ after = size - q
        BY <1>9, <4>2 DEF Explained, Rest
      <4>3. CASE size = Qty[s] /\ q = Rest(s) /\ after = size - q
        <5>1. Qty[s] - Rest(s) = Part(s)
          BY <1>10, PartOfSum
        <5>2. SoldOnce(s, Rest(s))'
          BY <1>9, <4>3
        <5> HIDE DEF after
        <5>3. after = Part(s)
          BY <4>3, <5>1
        <5> QED  BY <5>2, <5>3 DEF Explained
      <4>4. q \in Int /\ (size = Qty[s] \/ size = q) /\ Qty[s] \in Int
        BY <1>3, <1>4, <1>10 DEF Fits
      <4>5. after = 0 \/ (after = size - q /\ size # q)
        BY <4>4
      <4> HIDE DEF after
      <4> QED  BY <1>4, <4>1, <4>2, <4>3, <4>5 DEF Fits
    <3>2. book'[p] = after
      BY <1>2, <1>3, <1>5, <2>1
    <3>3. PICK n : n = after
      OBVIOUS
    <3> HIDE DEF after
    <3> QED  BY <2>1, <3>1, <3>2 DEF Explained, SoldOnce
  <2>2. CASE p # s
    <3>1. book'[p] = book[p]
      BY <1>2, <1>5, <2>2
    <3>2. PICK n : n = book[p]
      OBVIOUS
    <3>3. Explained(p, n)'
      BY <1>2, <3>2, OrderKeepsSales DEF PaperInv, RecordsExplained, Actions
    <3> QED  BY <3>1, <3>2, <3>3 DEF Explained
  <2> QED  BY <2>1, <2>2
<1>13. SalesCount'
  <2> SUFFICES ASSUME NEW p \in Pids
               PROVE  /\ \A n \in Sizes : SoldOnce(p, n)' => ordered'[p] >= n
                      /\ SoldOnce(p, Part(p))' /\ SoldOnce(p, Rest(p))'
                           => ordered'[p] >= Qty[p]
    BY DEF SalesCount, Rest
  <2>1. /\ \A n \in Sizes : SoldOnce(p, n) => ordered[p] >= n
        /\ SoldOnce(p, Part(p)) /\ SoldOnce(p, Rest(p)) => ordered[p] >= Qty[p]
    BY DEF PaperInv, SalesCount
  <2>2. CASE p # s
    <3>1. ordered'[p] = ordered[p]
      BY <1>2, <1>5, <2>2
    <3> QED  BY <1>6, <1>10, <2>1, <2>2, <3>1, PartsMakeWhole
  <2>3. CASE p = s
    <3>1. ordered'[p] = ordered[p] + q /\ ordered[p] \in Nat
      BY <1>2, <1>3, <1>5, <2>3
    <3>2. ASSUME NEW n \in Sizes, SoldOnce(p, n)'
          PROVE  ordered'[p] >= n
      <4>1. n \in Int
        BY <1>10
      <4>2. ordered[p] >= n \/ q = n
        BY <1>6, <2>1, <2>3, <3>2, <4>1
      <4> QED  BY <1>3, <3>1, <4>1, <4>2
    <3>3. ASSUME SoldOnce(p, Part(p))', SoldOnce(p, Rest(p))'
          PROVE  ordered'[p] >= Qty[p]
      <4>1. /\ SoldOnce(s, Part(s)) \/ Part(s) = q
            /\ SoldOnce(s, Rest(s)) \/ Rest(s) = q
        BY <1>3, <1>6, <1>10, <2>3, <3>3
      <4>2. Part(s) # Rest(s)
        BY <1>3 DEF NoHalves, Rest
      <4>3. Rest(s) \in Sizes
        BY <1>3, <2>3, <3>3, <4>1 DEF SoldOnce
      <4> DEFINE a == Part(s)
                 b == Rest(s)
                 n == Qty[s]
                 o == ordered[s]
      <4>7. a \in Int /\ b \in Int /\ n \in Int /\ o \in Int /\ a + b = n
        <5>1. o \in Int
          BY <2>3, <3>1
        <5> HIDE DEF o
        <5> QED  BY <1>10, <5>1
      <4>8. b + a = n
        <5> HIDE DEF a, b, n
        <5> QED  BY <4>7
      <4>4. CASE Part(s) = q
        <5>1. ordered[s] >= Rest(s)
          BY <2>1, <2>3, <4>1, <4>2, <4>3, <4>4
        <5>2. o + a >= n
          <6> HIDE DEF a, n, o
          <6> QED  BY <4>7, <5>1, SumReached DEF o
        <5> QED  BY <2>3, <3>1, <4>4, <5>2
      <4>5. CASE Rest(s) = q
        <5>1. ordered[s] >= Part(s)
          BY <1>10, <2>1, <2>3, <4>1, <4>2, <4>5
        <5>2. o + b >= n
          BY <4>7, <4>8, <5>1, SumReached
        <5> QED  BY <2>3, <3>1, <4>5, <5>2
      <4>6. CASE SoldOnce(s, Part(s)) /\ SoldOnce(s, Rest(s))
        <5>1. o >= n
          BY <2>1, <2>3, <4>6
        <5>2. o + q >= n
          <6> HIDE DEF a, b, n, o
          <6> QED  BY <1>3, <4>7, <5>1
        <5> QED  BY <2>3, <3>1, <5>2
      <4> QED  BY <4>1, <4>4, <4>5, <4>6
    <3> QED  BY <3>2, <3>3
  <2> QED  BY <2>2, <2>3
<1>14. BuyIsWhole'
  BY <1>2 DEF PaperInv, BuyIsWhole
<1> QED  BY <1>7, <1>11, <1>12, <1>13, <1>14 DEF PaperInv

\* A buy makes no sale, and is recorded whole.
LEMMA PaperBuys ==
  ASSUME Paper, DistinctContracts, TypeOK, PaperInv, Accept("BUY"), UNCHANGED monitorVars
  PROVE  PaperInv'
<1>1. PICK b, n : b = calls["BUY"].pid /\ n = calls["BUY"].qty
  OBVIOUS
<1>2. /\ Placed("BUY") /\ calls["BUY"].st = "unseen"
      /\ book' = [book EXCEPT ![b] = n]
      /\ UNCHANGED <<local, redis, ordered>>
      /\ calls'["SELL"] = calls["SELL"]
  BY <1>1 DEF Accept, Placed, BookAfter, TypeOK, GatewayTypeOK, Actions
<1>3. b \in Pids /\ n = Qty[b]
  BY <1>1, <1>2, TypeOKCalls DEF PaperInv, BuyIsWhole, TypeOK, CallsTyped, Sound, Actions
<1>4. \A p \in Pids, q \in Int : SoldOnce(p, q)' <=> SoldOnce(p, q)
  BY <1>2, SalesGrow DEF Actions
<1>5. CacheTells' /\ PartsNoted' /\ DroppedIsSoldOut' /\ \A p \in Pids : Explained(p, snap[p])'
  BY <1>2, PaperPlaced DEF Actions
<1>6. ASSUME NEW p \in Pids
      PROVE  Explained(p, book[p])'
  <2>1. \/ book'[p] = Qty[p]
        \/ book'[p] = book[p]
    BY <1>2, <1>3 DEF TypeOK, GatewayTypeOK
  <2>2. PICK i : i = book[p]
    OBVIOUS
  <2>3. Explained(p, i)'
    BY <1>2, <2>2, OrderKeepsSales DEF PaperInv, RecordsExplained, Actions
  <2> QED  BY <2>1, <2>2, <2>3 DEF Explained
<1>7. RecordsExplained'
  BY <1>5, <1>6 DEF RecordsExplained
<1>8. SalesCount'
  <2> SUFFICES ASSUME NEW p \in Pids
               PROVE  /\ \A q \in Sizes : SoldOnce(p, q)' => ordered[p] >= q
                      /\ SoldOnce(p, Part(p))' /\ SoldOnce(p, Rest(p))'
                           => ordered[p] >= Qty[p]
    BY <1>2 DEF SalesCount, Rest
  <2>1. Sizes \subseteq Int
    BY GatewayConstants DEF Sizes
  <2> QED  BY <1>4, <2>1, PartsMakeWhole DEF PaperInv, SalesCount
<1>9. BuyIsWhole'
  <2>1. calls'["BUY"].pid = b /\ calls'["BUY"].qty = n
    BY <1>1, InternalCalls DEF Internal, Actions
  <2> QED  BY <1>3, <2>1 DEF BuyIsWhole
<1>10. CloseFits'
  <2> SUFFICES ASSUME calls["SELL"].st # "none"
               PROVE  /\ pc' = "closing"
                      /\ Fits(calls["SELL"].pid, calls["SELL"].qty, calls["SELL"].size,
                              resume.partial)'
                      /\ calls["SELL"].st \in {"accepted", "done"} =>
                           SoldOnce(calls["SELL"].pid, calls["SELL"].qty)'
    BY <1>2 DEF CloseFits
  <2>1. PICK s, q, size, partial :
          /\ s = calls["SELL"].pid /\ q = calls["SELL"].qty
          /\ size = calls["SELL"].size /\ partial = resume.partial
    OBVIOUS
  <2>2. s \in Pids /\ q \in Int
    BY <2>1, TypeOKCalls, AskedIsNatural DEF TypeOK, CallsTyped, Sound, Actions
  <2>3. /\ pc = "closing" /\ Fits(s, q, size, partial)
        /\ calls["SELL"].st \in {"accepted", "done"} => SoldOnce(s, q)
    BY <2>1 DEF PaperInv, CloseFits
  <2>4. /\ SoldOnce(s, q) => SoldOnce(s, q)'
        /\ SoldOnce(s, Part(s)) => SoldOnce(s, Part(s))'
        /\ Explained(s, q) => Explained(s, q)'
    <3>1. Part(s) \in Int
      BY <2>2, PartsMakeWhole, GatewayConstants DEF Sizes
    <3> QED  BY <1>2, <2>2, <3>1, OrderKeepsSales DEF Actions
  <2>5. Fits(s, q, size, partial)'
    BY <2>3, <2>4 DEF Fits, Rest
  <2>6. UNCHANGED <<pc, resume>> /\ calls'["SELL"] = calls["SELL"]
    BY <1>2 DEF monitorVars
  <2> QED  BY <2>1, <2>3, <2>4, <2>5, <2>6 DEF Fits, Explained, SoldOnce
<1> QED  BY <1>5, <1>7, <1>8, <1>9, <1>10 DEF PaperInv

\* The cache learns of a sale after it was made.
LEMMA PaperRemembers ==
  ASSUME TypeOK, PaperInv, NEW a \in Actions, Remember(a), UNCHANGED monitorVars
  PROVE  PaperInv'
<1>1. /\ calls[a].st = "accepted"
      /\ local' \cup redis' \subseteq local \cup redis \cup {KeyOf(a)}
      /\ UNCHANGED <<book, placed, ordered>>
  BY DEF Remember
<1>2. /\ calls'["SELL"].pid = calls["SELL"].pid
      /\ calls'["SELL"].qty = calls["SELL"].qty
      /\ calls'["SELL"].size = calls["SELL"].size
      /\ calls'["SELL"].st = "none" <=> calls["SELL"].st = "none"
      /\ calls'["BUY"].pid = calls["BUY"].pid
      /\ calls'["BUY"].qty = calls["BUY"].qty
      /\ calls'["BUY"].st = "none" <=> calls["BUY"].st = "none"
  BY InternalCalls DEF Internal, Actions
<1>3. calls'["SELL"].st \in {"accepted", "done"} => calls["SELL"].st \in {"accepted", "done"}
  <2>1. CASE a = "SELL"
    BY <1>1, <2>1
  <2>2. CASE a = "BUY"
    BY <2>2 DEF Remember, TypeOK, GatewayTypeOK, Actions
  <2> QED  BY <2>1, <2>2 DEF Actions
<1>4. UNCHANGED <<pc, resume, snap, pqty, file>> /\ Dropped' = Dropped
  BY DEF monitorVars, Dropped
<1>5. CacheTells'
  <2> SUFFICES ASSUME NEW p \in Pids, NEW q \in Sizes,
                      OrderKey("SELL", p, q) \in local' \cup redis'
               PROVE  SoldOnce(p, q)
    BY <1>1 DEF CacheTells, OrderKey, SoldOnce
  <2>1. CASE OrderKey("SELL", p, q) \in local \cup redis
    BY <2>1 DEF PaperInv, CacheTells
  <2>2. CASE OrderKey("SELL", p, q) = KeyOf(a)
    <3>1. /\ a = "SELL" /\ q = calls["SELL"].qty
          /\ Contract[p] = Contract[calls["SELL"].pid]
      BY <2>2 DEF OrderKey, KeyOf
    <3>2. SoldOnce(calls["SELL"].pid, calls["SELL"].qty)
      BY <1>1, <3>1 DEF PaperInv, CloseFits
    <3> QED  BY <3>1, <3>2 DEF SoldOnce, OrderKey
  <2> QED  BY <1>1, <2>1, <2>2
<1>6. CloseFits'
  BY <1>1, <1>2, <1>3, <1>4 DEF PaperInv, CloseFits, Fits, Explained, SoldOnce
<1>7. BuyIsWhole'
  BY <1>2 DEF PaperInv, BuyIsWhole
<1>8. SalesCount' /\ RecordsExplained' /\ PartsNoted' /\ DroppedIsSoldOut'
  BY <1>1, <1>4
     DEF PaperInv, SalesCount, RecordsExplained, PartsNoted, DroppedIsSoldOut,
         SoldOut, Explained, Noted, SoldOnce
<1> QED  BY <1>5, <1>6, <1>7, <1>8 DEF PaperInv

\* What remains of a position fits.
LEMMA RemainingFits ==
  ASSUME TypeOK, PaperInv, NEW p \in Pids
  PROVE  Fits(p, Remaining(p), Qty[p], FALSE)
<1>1. Qty[p] \in Int
  BY PartsMakeWhole, GatewayConstants DEF Sizes
<1>2. CASE pqty[p] = 0
  BY <1>1, <1>2 DEF Fits, Remaining
<1>3. CASE pqty[p] = Part(p) /\ SoldOnce(p, Part(p))
  BY <1>3 DEF Fits, Remaining, Rest
<1> QED  BY <1>2, <1>3 DEF PaperInv, PartsNoted, Noted

\* The gateway's own steps in paper mode: an order is accepted or its key is
\* written, and nothing is refused or lost.
LEMMA PaperInternal ==
  ASSUME Paper, DistinctContracts, NoHalves, TypeOK, PaperInv, Internal,
         UNCHANGED monitorVars
  PROVE  PaperInv'
<1>1. CASE \E a \in Actions : Accept(a) \/ Remember(a)
  BY <1>1, PaperSells, PaperBuys, PaperRemembers DEF Actions
<1>2. CASE \/ RedisFails \/ RedisReturns
           \/ \E p \in Pids : PriceMoves(p) \/ BrokerFills(p)
  <2>1. UNCHANGED <<book, local, redis, calls, placed, ordered>>
    BY <1>2 DEF RedisFails, RedisReturns, PriceMoves, BrokerFills
  <2> QED
    BY <2>1, PaperQuiet DEF monitorVars, PaperInv, BuyIsWhole, Dropped
<1>3. CASE \E a \in Actions : Refuse(a) \/ LoseReply(a)
  BY <1>3 DEF Refuse, LoseReply
<1> QED  BY <1>1, <1>2, <1>3 DEF Internal

\* The monitor's task in paper mode.
LEMMA PaperMonitorStep ==
  ASSUME TypeOK, Durable, PaperInv, MonitorStep
  PROVE  PaperInv'
<1>1. ASSUME StartPoll \/ ReadRequests \/ ClearRequests \/ ManualNextLine
             \/ ManualDone \/ SweepDone \/ CheckDone
      PROVE  PaperInv'
  <2>1. /\ UNCHANGED <<book, local, redis, calls, placed, ordered>>
        /\ UNCHANGED <<tracked, pqty, file, kept>>
        /\ pc # "closing" /\ pc # "down"
        /\ snap' \in {snap, book, [p \in Pids |-> 0]}
    BY <1>1 DEF StartPoll, ReadRequests, ClearRequests, ManualNextLine, ManualDone,
                SweepDone, CheckDone, gatewayVars
  <2>2. calls["SELL"].st = "none"
    BY <2>1 DEF PaperInv, CloseFits
  <2>3. \A p \in Pids : snap'[p] \in {0, snap[p], book[p]}
    BY <2>1
  <2> QED  BY <2>1, <2>2, <2>3, PaperQuiet DEF PaperInv, BuyIsWhole, Dropped
<1>2. ASSUME NEW p \in Pids, ManualClose(p)
      PROVE  PaperInv'
  <2>1. snap[p] \in Int /\ snap[p] <= MaxQty
    BY GatewayConstants DEF TypeOK, MonitorTypeOK
  <2>2. Fits(p, snap[p], snap[p], FALSE)
    BY DEF PaperInv, RecordsExplained, Fits
  <2>3. "manual" \in Stages
    BY DEF Stages
  <2> QED  BY <1>2, <2>1, <2>2, <2>3, PaperBeginClose DEF ManualClose
<1>3. ASSUME NEW p \in Pids, SweepClose(p)
      PROVE  PaperInv'
  <2>1. "sweep" \in Stages
    BY DEF Stages
  <2> QED  BY <1>3, <2>1, QuantityTypes, RemainingFits, PaperBeginClose DEF SweepClose
<1>4. ASSUME NEW p \in Pids, Check(p)
      PROVE  PaperInv'
  <2>1. /\ pc = "check" /\ "check" \in Stages
        /\ UNCHANGED <<gatewayRest, snap, tracked, pqty, file, kept>>
    BY <1>4, CheckFrame DEF Stages
  <2>2. CASE UNCHANGED <<calls, pc, resume>>
    <3>1. UNCHANGED <<book, local, redis, placed, ordered>> /\ Dropped' = Dropped
      BY <2>1, <2>2 DEF gatewayRest, Dropped
    <3> QED  BY <2>1, <2>2, <3>1, PaperQuiet DEF PaperInv, BuyIsWhole
  <2>3. CASE BeginClose(p, Remaining(p), Qty[p], "check", FALSE)
    BY <2>1, <2>3, QuantityTypes, RemainingFits, PaperBeginClose
  <2>4. CASE /\ Strategy[p] = "PARTIAL_SELL_PCT"
             /\ BeginClose(p, PartialQty(p), Qty[p], "check", TRUE)
    <3>1. Part(p) \in Int /\ Part(p) <= MaxQty
      BY PartBound, GatewayConstants
    <3>2. Fits(p, Part(p), Qty[p], TRUE) /\ Part(p) = PartialQty(p)
      BY <2>4 DEF Fits, Part
    <3> QED  BY <2>1, <2>4, <3>1, <3>2, PaperBeginClose
  <2> QED  BY <1>4, <2>2, <2>3, <2>4, CheckFrame
<1>5. CASE RecordClose
  BY <1>5, PaperRecordClose
<1> QED  BY <1>1, <1>2, <1>3, <1>4, <1>5 DEF MonitorStep

\* The buyer asks for the whole, and a position that is opened is filed.
LEMMA PaperBuyerStep ==
  ASSUME TypeOK, Durable, PaperInv, BuyerStep
  PROVE  PaperInv'
<1>1. ASSUME (\E p \in Pids : StartBuy(p)) \/ BuyOpensNothing
      PROVE  PaperInv'
  <2>1. /\ calls'["SELL"] = calls["SELL"]
        /\ calls'["BUY"].st # "none" => calls'["BUY"].qty = Qty[calls'["BUY"].pid]
        /\ UNCHANGED <<book, local, redis, placed, ordered>>
        /\ UNCHANGED <<pc, resume, snap, tracked, pqty, file, kept>>
    BY <1>1 DEF StartBuy, Ask, BuyOpensNothing, Return, NoCall, Actions, TypeOK,
                GatewayTypeOK, gatewayRest, monitorVars
  <2> QED  BY <2>1, PaperQuiet DEF Dropped
<1>2. CASE AddPosition
  <2>1. PICK b : b = calls["BUY"].pid
    OBVIOUS
  <2>2. /\ pc # "down"
        /\ calls'["SELL"] = calls["SELL"]
        /\ calls'["BUY"].st = "none"
        /\ tracked' = tracked \cup {b} /\ pqty' = pqty
        /\ Persist({})
        /\ UNCHANGED <<pc, resume, snap>>
        /\ UNCHANGED <<book, local, redis, placed, ordered>>
    BY <1>2, <2>1, PositionAdded DEF NoCall
  <2>3. /\ file' = file \/ (file'.pids = tracked' /\ file'.sold = pqty')
        /\ kept' = kept \cup file'.pids
    BY <2>2 DEF Persist, Memory
  <2>4. Dropped' \subseteq Dropped
    BY <2>2, <2>3 DEF Dropped, Durable, FileInv
  <2>5. \A p \in Pids : file'.sold[p] \in {pqty[p], file.sold[p]}
    BY <2>2, <2>3
  <2> QED  BY <2>2, <2>4, <2>5, PaperQuiet
<1> QED  BY <1>1, <1>2 DEF BuyerStep

\* A crash forgets, and a restart reads back what the file notes.
LEMMA PaperWorld ==
  ASSUME TypeOK, Durable, PaperInv, World
  PROVE  PaperInv'
<1>1. ASSUME \/ \E ch \in Channels : SellMessage(ch)
             \/ \E r \in Requests : RequestClose(r)
             \/ \E a \in Analysts : TogglePause(a)
      PROVE  PaperInv'
  <2>1. /\ UNCHANGED <<book, local, redis, calls, placed, ordered>>
        /\ UNCHANGED <<pc, resume, snap, tracked, pqty, file, kept>>
    BY <1>1 DEF SellMessage, RequestClose, TogglePause, gatewayVars, monitorVars
  <2> QED  BY <2>1, PaperQuiet DEF PaperInv, BuyIsWhole, Dropped
<1>2. CASE Die
  <2>1. /\ \A a \in Actions : calls'[a] = NoCall
        /\ local' = {} /\ UNCHANGED <<redis, placed, ordered, file>>
        /\ \A p \in Pids : book'[p] = 0 /\ snap'[p] = 0 /\ pqty'[p] = 0
        /\ Dropped' \subseteq Dropped
    BY <1>2 DEF Die, Crash, Dropped
  <2>2. calls'["SELL"] = NoCall /\ calls'["BUY"] = NoCall /\ NoCall.st = "none"
    BY <2>1 DEF Actions, NoCall
  <2> QED  BY <2>1, <2>2, PaperQuiet
<1>3. CASE Restart
  <2>1. /\ UNCHANGED <<book, local, redis, calls, placed, ordered>>
        /\ UNCHANGED <<resume, snap, file>>
        /\ pqty' = file.sold
        /\ pc = "down"
        /\ Dropped' = Dropped
    BY <1>3 DEF Restart, gatewayVars, Dropped
  <2>2. calls["SELL"].st = "none"
    BY <2>1 DEF Durable, DownInv, Actions
  <2> QED  BY <2>1, <2>2, PaperQuiet DEF PaperInv, BuyIsWhole
<1> QED  BY <1>1, <1>2, <1>3 DEF World

\* PaperInv is inductive in paper mode.
LEMMA NextPaper ==
  ASSUME Paper, DistinctContracts, NoHalves, TypeOK, Durable, PaperInv, [Next]_vars
  PROVE  PaperInv'
<1>1. CASE GatewayStep
  BY <1>1, PaperInternal DEF GatewayStep
<1>2. CASE UNCHANGED vars
  <2>1. /\ UNCHANGED <<book, local, redis, calls, placed, ordered>>
        /\ UNCHANGED <<pc, resume, snap, tracked, pqty, file, kept>>
    BY <1>2 DEF vars, gatewayVars, monitorVars
  <2> QED  BY <2>1, PaperQuiet DEF PaperInv, BuyIsWhole, Dropped
<1> QED
  BY <1>1, <1>2, PaperMonitorStep, PaperBuyerStep, PaperWorld DEF Next

\* In paper mode no position leaves open_positions.json with contracts left, as
\* long as positions differ in contract and no first partial sale is of exactly
\* one half (then both halves have one idempotency key, and the second is taken
\* for the first): an answer from the cache, before or after a restart, always
\* stands for a sale that was made.
THEOREM PaperSellsWhatItDrops ==
  ASSUME Paper, DistinctContracts, NoHalves
  PROVE  Spec => []DroppedIsSold
<1>1. Init => PaperInv
  BY PaperInit
<1>2. TypeOK /\ Durable /\ PaperInv /\ [Next]_vars => PaperInv'
  BY NextPaper
<1> QED  BY <1>1, <1>2, PaperIsEnough, TypeCorrect, DurableHolds, PTL DEF Spec
=============================================================================
