SPECIFICATION WorkerSpec
CONSTANTS
  stock = stock
  option = option
  weak = weak
  spy = spy
  Tickers <- MCTickers
  Trades <- MCStock
  Ticker <- MCTicker
  Options = {}
  Confident = {stock}
  CloseOf = {spy}
  Modes = {TRUE, FALSE}
  MaxHold = 2
  MaxFaults = 0
  MaxReboots = 0
PROPERTY CloseRequestCloses
CHECK_DEADLOCK FALSE
