SPECIFICATION Spec
CONSTANTS
  p1 = p1
  p2 = p2
  spx = spx
  ndx = ndx
  chan = chan
  ana = ana
  Contracts <- MCContracts
  Channels <- MCChannels
  Analysts <- MCAnalysts
  QuoteIsPrice = TRUE
  MaxSells = 1
  MaxRequests = 1
  Pids <- Pair
  PctSold <- PairPct
  Target <- PairTarget
  Channel <- PairChannel
  Analyst <- PairAnalyst
  Requests <- OneRequests
  Contract <- PaperContract
  Qty <- PaperQty
  MaxQty = 3
  Paper = TRUE
  HasRedis = TRUE
  Levels = {100}
  MaxFaults = 1
  Strategy <- PaperStrategy
INVARIANT TypeOK
INVARIANT TrackedHasRemainder
INVARIANT FileIsMemory
INVARIANT DroppedIsSold
PROPERTY LedgerSpec
