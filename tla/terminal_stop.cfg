SPECIFICATION TerminalSpec
CONSTANTS
  big = big
  out = out
  low = low
  high = high
  spx = spx
  Orders <- MCOrdersSet
  Symbols <- MCSymbols
  Symbol <- MCSymbol
  Side <- MCSide
  Limit <- MCLimit
  Quantity <- MCQuantity
  Prices = {2, 3}
  InitialCash = 9
  MaxCancels = 1
  MaxRestarts = 1
  r1 = r1
  r2 = r2
  k1 = k1
  a1 = a1
  w1 = w1
  Requests <- MCRequests
  Key <- MCKey
  Keys = {k1}
  Texts <- MCTexts
  Proposals <- MCProposals
  PositionTables <- MCPositionTables
  PaperCash = 9
  Precision = 100
  MaxSize = 5
  MaxExposure = 80
  MaxPositions = 3
  MinConfidence = 40
  MinReward = 150
  HasHaltTable = FALSE
  Approvals = {a1}
  Watched = {w1}
  MaxToggles = 2
  spy = spy
  Tickers <- MCTickers
  Feed <- MCFeed
  Slice <- MCSlice
  SeenLimit = 2
  SeenKept = 1
  MinPrints = 2
  MinPremium = 4
  MaxScans = 3
  MaxCrashes = 1
  MaxOrders = 2
  stock = stock
  option = option
  Trades <- MCTrades
  Ticker <- MCTicker
  Options = {option}
  Confident = {stock, option}
  CloseOf = {spy}
  Modes = {TRUE, FALSE}
  MaxHold = 2
  MaxFaults = 1
  MaxReboots = 1
  Loads = {{"lists"}}
INVARIANT StopIsShown
CHECK_DEADLOCK FALSE
