SPECIFICATION Spec
CONSTANTS
  s1 = s1
  s2 = s2
  s3 = s3
  s4 = s4
  ana = ana
  ben = ben
  spx = spx
  k1 = k1
  Signals <- MCSignals
  Analysts <- MCAnalysts
  Symbols <- MCSymbols
  By <- MCBy
  Symbol <- MCSymbol
  Direction <- MCDirection
  Contract <- MCContract
  Confidence <- MCConfidence
  HighRisk <- MCHighRisk
  Thresholds <- MCThresholds
  Pausable <- MCPausable
  Regimes <- MCRegimes
  DedupWindow = 1
  ConsensusWindow = 3
  ConflictWindow = 1
  MaxTime = 4
INVARIANT NoOppositeApprovals
INVARIANT NoRepeatedApproval
INVARIANT ConsensusBacked
SYMMETRY MCSymmetry
