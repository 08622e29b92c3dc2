SPECIFICATION Spec
CONSTANTS
  p1 = p1
  p2 = p2
  spx = spx
  ndx = ndx
  chan = chan
  ana = ana
  Contracts <- MCContracts
  Channels <- MCChannels
  Analysts <- MCAnalysts
  QuoteIsPrice = TRUE
  MaxSells = 1
  MaxRequests = 1
  Pids <- Pair
  PctSold <- PairPct
  Target <- LiveTarget
  Channel <- PairChannel
  Analyst <- PairAnalyst
  Requests <- PairRequests
  Contract <- LiveContract
  Qty <- LiveQty
  MaxQty = 3
  Paper = FALSE
  HasRedis = FALSE
  Levels = {100}
  MaxFaults = 1
  Strategy <- LiveStrategy
INVARIANT SoldWithinHoldings
INVARIANT OneOrderPerKey
