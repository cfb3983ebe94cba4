SPECIFICATION Spec
CONSTANTS
  NaN = NaN
  Inf = Inf
  None = None
  One = 12
  Periods <- MCPeriods
  Params <- MCParams
  Exits <- MCExits
  Bars <- MCBars
  Studies <- MCStudies
  MaxBars = 5
  InitialCapital = 1000
  HeldCap = 10
  RiskWindow = 2
  LimitTimeoutBars = 2
  ReportedCommission = 5
  MakerCommission = 2
  TakerCommission = 5
  FeeUnit = 1000
  Grid <- MCGrid
  n_jobs = 2
  EventBars <- MCEventBars
  Pipelines <- MCPipelines
  Scores <- MCScores
  Undefined = Undefined
  IcThreshold = 3
  MinScored = 4
CHECK_DEADLOCK FALSE
INVARIANTS
  StreamMatchesFrame
  StreamSkipsGaps
  LiveDecisionMatchesFrame
  TripleBarrierLoopAgrees
  EveryEventAccounted
  PeakOfWindow
  RiskWithinBudget
  ReportMatchesLedger
  DatasetIsConsistent
  ScoredOutOfSample
  FoldsPurged
  SavedPairMatches
  SweepIsComplete
  BestRowFirst
PROPERTIES
  EventsAreFinal
  SettledLabelsAreFinal
  SweepEnds
