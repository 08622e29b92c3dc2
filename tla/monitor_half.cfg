SPECIFICATION Spec
CONSTANTS
  p1 = p1
  p2 = p2
  spx = spx
  ndx = ndx
  chan = chan
  ana = ana
  Contracts <- MCContracts
  Channels <- MCChannels
  Analysts <- MCAnalysts
  QuoteIsPrice = TRUE
  MaxSells = 1
  MaxRequests = 1
  Pids <- OnePid
  Contract <- OneContract
  Qty <- OneQty
  MaxQty = 2
  Paper = TRUE
  HasRedis = FALSE
  Levels = {40, 100}
  MaxFaults = 0
  PctSold <- HalfPct
  Target <- OneTarget
  Channel <- OneChannel
  Analyst <- OneAnalyst
  Requests <- OneRequests
  Strategy <- OnePartial
INVARIANT DroppedIsSold
