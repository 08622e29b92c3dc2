----------------------------- MODULE MCMonitor -----------------------------
(* Instances of Monitor for TLC. *)
EXTENDS Monitor

CONSTANTS p1, p2, spx, ndx, chan, ana

MCContracts == {spx, ndx}
MCChannels == {chan}
MCAnalysts == {ana}

Two(x, y) == [p \in {p1, p2} |-> IF p = p1 THEN x ELSE y]
One(x) == [p \in {p1} |-> x]

Pair == {p1, p2}
PairPct == Two(70, 70)
PairTarget == Two(150, 150)
PairChannel == Two(chan, chan)
PairAnalyst == Two(ana, ana)
PairRequests == {Pair}

\* Paper: p1 sells two of its three contracts at the first message; p2 waits
\* for the owner to fall silent.
PaperContract == Two(spx, ndx)
PaperQty == Two(3, 1)
PaperStrategy == Two("PARTIAL_SELL_PCT", "OWNER_LAST_SELL")

\* Live: two positions in the same contract, whose orders may share a key.
LiveContract == Two(spx, spx)
LiveQty == Two(3, 1)
LiveTarget == Two(150, 100)
LiveStrategy == Two("PARTIAL_SELL_PCT", "PRICE_TARGET")

\* With fairness.
FairQty == Two(1, 1)
FairStrategy == Two("FIRST_SELL", "TA_RULES")

\* One position, with a manual exit or a half sold at the first message.
OnePid == {p1}
OneContract == One(spx)
OneQty == One(2)
OneManual == One("MANUAL")
OnePartial == One("PARTIAL_SELL_PCT")
HalfPct == One(50)
OneTarget == One(150)
OneChannel == One(chan)
OneAnalyst == One(ana)
OneRequests == {OnePid}
=============================================================================
