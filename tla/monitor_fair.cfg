SPECIFICATION FairSpec
CONSTANTS
  p1 = p1
  p2 = p2
  spx = spx
  ndx = ndx
  chan = chan
  ana = ana
  Contracts <- MCContracts
  Channels <- MCChannels
  Analysts <- MCAnalysts
  QuoteIsPrice = TRUE
  MaxSells = 1
  MaxRequests = 1
  Pids <- Pair
  PctSold <- PairPct
  Target <- PairTarget
  Channel <- PairChannel
  Analyst <- PairAnalyst
  Requests <- PairRequests
  Contract <- PaperContract
  Qty <- FairQty
  MaxQty = 1
  Paper = TRUE
  HasRedis = FALSE
  Levels = {40, 100}
  MaxFaults = 0
  Strategy <- FairStrategy
PROPERTY RequestCloses
PROPERTY SweepCloses
