------------------------------ MODULE Terminal ------------------------------
(* The parts of the trading terminal: one process, and the execution worker next
   to it. Orders and signals meet in the cash: the gate approves a purchase
   against the configured cash of the paper account, orders spend what the paper
   broker has left of it. The agents, the tools of the Robinhood account and the
   execution worker share no state with them. *)
EXTENDS Orders, Signals, Agents, RobinhoodTools, Worker

CONSTANT Loads   \* which parts are busy: subsets of the names of the steps below

ASSUME TerminalAssumption == PaperCash = InitialCash

VARIABLE busy

terminalVars == <<ordersVars, signalsVars, agentsVars, toolsVars, workerVars, busy>>

\* The account of an idle part is live, without a session.
TerminalInit ==
    /\ OrdersInit /\ SignalsInit /\ AgentsInit /\ ToolsInit /\ WorkerInit
    /\ busy \in Loads
    /\ "tools" \notin busy => account = NewServer(FALSE)
    /\ "worker" \notin busy => server = NewServer(FALSE) /\ faults = 0

OrdersStep ==
    /\ "orders" \in busy /\ OrdersNext
    /\ UNCHANGED <<signalsVars, agentsVars, toolsVars, workerVars, busy>>
IntakeStep ==
    /\ "intake" \in busy /\ IntakeNext
    /\ UNCHANGED <<ordersVars, agentsVars, toolsVars, workerVars, busy>>
ListsStep ==
    /\ "lists" \in busy /\ ListsNext
    /\ UNCHANGED <<ordersVars, agentsVars, toolsVars, workerVars, busy>>
AgentsStep ==
    /\ "agents" \in busy /\ AgentsNext
    /\ UNCHANGED <<ordersVars, signalsVars, toolsVars, workerVars, busy>>
ToolsStep ==
    /\ "tools" \in busy /\ ToolsNext
    /\ UNCHANGED <<ordersVars, signalsVars, agentsVars, workerVars, busy>>
WorkerStep ==
    /\ "worker" \in busy /\ WorkerNext
    /\ UNCHANGED <<ordersVars, signalsVars, agentsVars, toolsVars, busy>>

TerminalNext ==
    OrdersStep \/ IntakeStep \/ ListsStep \/ AgentsStep \/ ToolsStep \/ WorkerStep

\* Of the liveness only the worker's is checked.
TerminalSpec == TerminalInit /\ [][TerminalNext]_terminalVars /\ WorkerFairness

-----------------------------------------------------------------------------
\* A purchase is approved only if the account can pay for it at that moment
\* (RiskService.evaluate_signal: "Sufficient cash for buy orders").
ApprovedIsAffordable ==
    [][decision' # decision /\ decision'.verdict = "approved" /\ decision'.direction = "buy"
          => decision'.quantity * decision'.entry <= broker.cash * Precision]_terminalVars
=============================================================================
