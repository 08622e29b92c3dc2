SPECIFICATION WorkerSpec
CONSTANTS
  stock = stock
  option = option
  weak = weak
  spy = spy
  Tickers <- MCTickers
  Trades <- MCOption
  Ticker <- MCTicker
  Options = {option}
  Confident = {option}
  CloseOf = {spy}
  Modes = {FALSE}
  MaxHold = 2
  MaxFaults = 0
  MaxReboots = 0
PROPERTY ClosedIsSold
CHECK_DEADLOCK FALSE
