--------------------------- MODULE PositionLedger ---------------------------
(***************************************************************************)
(* What the monitor promises of the positions it is given, whatever the    *)
(* exit strategy, the answers of the gateway, the restarts of the process   *)
(* and the writes that fail: a position is opened once, its contracts are  *)
(* written off in one partial sale at most and one close, and a closed     *)
(* position stays closed.                                                  *)
(***************************************************************************)
EXTENDS Naturals

CONSTANTS
  Pids,  \* position ids that may come to exist
  Qty    \* contracts bought for a position

VARIABLES
  status,  \* "new", "open" or "closed"
  sold     \* contracts written off

Init ==
  /\ status = [p \in Pids |-> "new"]
  /\ sold = [p \in Pids |-> 0]

Stays(p) == status'[p] = status[p] /\ sold'[p] = sold[p]

\* What was sold before the position was first written down is written with it.
Opens(p) ==
  /\ status[p] = "new" /\ status'[p] = "open"
  /\ sold'[p] \in 0..(Qty[p] - 1)

SellsPart(p) ==
  /\ status[p] = "open" /\ status'[p] = "open"
  /\ sold[p] = 0
  /\ sold'[p] \in 1..(Qty[p] - 1)

Closes(p) ==
  /\ status[p] = "open" /\ status'[p] = "closed"
  /\ sold'[p] = Qty[p]

\* One write, which makes up for those that failed before it: each position is
\* opened, sold in part or closed, or left alone.
Next ==
  /\ status' \in [Pids -> {"new", "open", "closed"}]
  /\ sold' \in [Pids -> Nat]
  /\ \A p \in Pids : Stays(p) \/ Opens(p) \/ SellsPart(p) \/ Closes(p)

Spec == Init /\ [][Next]_<<status, sold>>
=============================================================================
