-------------------------- MODULE RobinhoodServer ---------------------------
(* The tools of mcp_servers/robinhood_mcp.py, as the line protocol serves them:
   each takes the state of the subprocess and of the account behind it to the
   outcomes it can have. A handler that raises answers {"error": ...} in band.
   One share, or one contract, of one symbol stands for a quantity; what the
   read-only tools answer is left out. *)
EXTENDS Naturals, SequencesExt

CONSTANT Tickers

Zero == [t \in Tickers |-> 0]

\* login: robin_stocks' session; late: an answer that nobody read is in the pipe.
\* The rest is the account, which in paper mode is the memory of the subprocess;
\* stops are pending stop orders. strays: history, the lines that the last call read
\* and that were no answer.
NewServer(paper) ==
    [paper |-> paper, login |-> FALSE, late |-> FALSE, strays |-> 0,
     shares |-> Zero, contracts |-> Zero, stops |-> Zero]

\* A restart that logs in again by itself.
RestartedLoggedIn(s) == IF s.paper THEN NewServer(TRUE) ELSE [s EXCEPT !.late = FALSE]

\* A new subprocess: the paper account is gone, the live session and the pipe too.
Restarted(s) == IF s.paper THEN NewServer(TRUE) ELSE [s EXCEPT !.login = FALSE, !.late = FALSE]

Answer(s, result) == [server |-> s, result |-> result]
Refused(s) == Answer(s, "error")
Served(s) == s.paper \/ s.login

\* What an order at the broker can end in: carried out, refused with an answer
\* that has no id and no price, not sent, or carried out although the call raised.
Ordered(s, after) ==
    IF s.paper THEN {Answer(after, "ok")}
    ELSE IF s.login THEN {Answer(after, "ok"), Answer(s, "no_id"), Refused(s), Refused(after)}
    ELSE {Refused(s)}

Login(s) == IF s.paper THEN {Answer(s, "ok")}
                       ELSE {Answer([s EXCEPT !.login = TRUE], "ok"), Refused(s)}

\* A paper purchase replaces what the symbol had.
BuyStock(s, t) ==
    Ordered(s, [s EXCEPT !.shares[t] = IF s.paper THEN 1 ELSE @ + 1])

\* In paper mode an option is an entry of the orders, never of the positions.
BuyOption(s, t) == Ordered(s, IF s.paper THEN s ELSE [s EXCEPT !.contracts[t] = @ + 1])

\* Stocks only, and in paper mode all of the symbol at once.
ClosePosition(s, t) ==
    IF s.shares[t] = 0
    THEN {Answer(s, "no_position")} \cup (IF Served(s) THEN {} ELSE {Refused(s)})
    ELSE Ordered(s, [s EXCEPT !.shares[t] = IF s.paper THEN 0 ELSE @ - 1])

-----------------------------------------------------------------------------
(* RobinhoodMCPClient.call: three attempts, the next one after whatever exception,
   in a new subprocess only if the old one is dead. *)

\* The answer that is read is an earlier call's once one is late: with what the
\* caller looks for, or without.
Labels == {"ok", "error"}
Read(s, outcomes) == IF s.late THEN {Answer(o.server, l) : o \in outcomes, l \in Labels} ELSE outcomes

\* robin_stocks prints to the same pipe, in live mode alone: the tool was carried
\* out, the line is no JSON, and the answer stays behind it.
Stray(s) == [s EXCEPT !.late = TRUE, !.strays = @ + 1]

\* An attempt that raises: the subprocess died, before or after it carried the tool
\* out, or it lives.
Failed(s, outcomes) ==
    {Restarted(s)} \cup {Restarted(o.server) : o \in outcomes}
    \cup (IF s.paper THEN {} ELSE {Stray(o.server) : o \in outcomes})

WithRetries(s, Tool(_)) ==
    LET once == Failed(s, Tool(s))
        twice == UNION {Failed(d, Tool(d)) : d \in once}
        thrice == UNION {Failed(d, Tool(d)) : d \in twice}
    IN  {Answer(d, "raised") : d \in thrice} \cup UNION {Read(d, Tool(d)) : d \in once \cup twice}
=============================================================================
