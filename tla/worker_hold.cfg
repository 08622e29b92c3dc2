SPECIFICATION WorkerSpec
CONSTANTS
  stock = stock
  option = option
  weak = weak
  spy = spy
  Tickers <- MCTickers
  Trades <- MCStock
  Ticker <- MCTicker
  Options = {}
  Confident = {stock}
  CloseOf = {spy}
  Modes = {FALSE}
  MaxHold = 2
  MaxFaults = 1
  MaxReboots = 0
PROPERTY WatchedCloses
CHECK_DEADLOCK FALSE
