SPECIFICATION KgSpec
CONSTANTS
  i1 = i1
  i2 = i2
  i3 = i3
  boston = boston
  office = office
  tower = tower
  Insights <- MCInsights
  Seeded <- MCSeeded
  Topics <- MCTopics
  Properties <- MCProperties
  About <- MCAbout
  Limit = 1
  MaxFaults = 2
  Sources <- MCSources
  TableOf <- MCTableOf
  Contents <- MCContents
  FirstRows <- MCFirstRows
  Alias <- MCAlias
  FirmOfEmail <- MCFirmOfEmail
  MaxEdits = 1
  MaxMishaps = 1
  Workers <- MCWorkers
  Kinds <- MCKinds
  Pairs <- MCPairs
  HasProcedures = TRUE
  TopK = 1
  MaxRuns = 2
  MaxUpsets = 1
  MaxLinkings = 1
INVARIANT NoDuplicateBrokers
