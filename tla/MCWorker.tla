------------------------------ MODULE MCWorker ------------------------------
(* An instance of Worker for TLC: a stock and an option trade of one ticker, and
   a trade below the confidence gate. *)
EXTENDS Worker

CONSTANTS stock, option, weak, spy

MCTrades == {stock, option, weak}
MCOption == {option}
MCStock == {stock}
MCTickers == {spy}
MCTicker == [p \in Trades |-> spy]
=============================================================================
