SPECIFICATION DeskSpec
CONSTANTS
  Staff = {"albert", "adi"}
  MaxCommands = 3
  MaxCrashes = 1
  Messages <- MCMessages
  Channel <- MCChannel
  MaxPremium <- MCMaxPremium
  ShortDelay = 1
  LongDelay = 2
  ReplayWindow = 1
  HistoryLimit = 1
  MaxPosts = 2
  MaxTime = 2
  MaxOutages = 1
  MaxKills = 1
  Learners <- MCLearners
  Patterns = {"SPX_CALL"}
  Profits <- MCProfits
  FirstParameters <- MCFirstParameters
  MinTradesForEval = 1
  MaxChangesPerEval = 2
  RejectMinTrades = 2
  MaxCloses = 2
  MaxEvaluations = 1
  MaxStops = 1
  Traders = {"zabes"}
  HoldTimes = {0, 1, 7, 900}
  MinSamplesRequired = 2
  MaxExits = 4
  AccountIds = {"primary", "secondary"}
  SignalIds = {"s1"}
  MaxFanOuts = 3
  MaxRaised = 1
  Watchlist <- MCWatchlist
  CompanyData <- MCCompanyData
  FlowSnapshots <- MCFlow
  BarSnapshots <- MCBars
  Screens <- MCScreens
  NearestFriday <- MCFriday
  ConfidenceThreshold <- MCThreshold
  WakeInterval <- MCInterval
  MarketDedupDelay = 1
  MarketMaxTime = 3
  Tickers = {"GME"}
  Counts = {1, 9}
  BaselineDays = 2
  MinHistory = 2
  SocialThreshold = 60
  MaxScans = 4
  MaxDays = 3
  MaxFaults = 1
  Callers = {"c1", "c2"}
  Endpoints = {"flow"}
  TokenTime = 2
  Capacity = 2
  CacheTtl = 1
  UwMaxTime = 6
  MaxRequests = 4
INVARIANT KillStands
INVARIANT NoCommandLostByCrash
INVARIANT PausesAreKept
INVARIANT SilencedWasEmitted
INVARIANT EmissionsAreSpaced
INVARIANT TablesAgree
INVARIANT ReportedIsSaved
INVARIANT RuleIsOrdered
INVARIANT NoOrderHidden
INVARIANT MarketSignalsAreSpaced
INVARIANT VerdictsAgree
INVARIANT RateIsKept
INVARIANT ServedIsFresh
CHECK_DEADLOCK FALSE
