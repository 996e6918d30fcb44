SPECIFICATION Spec
CONSTANTS
  r1 = r1
  r2 = r2
  r3 = r3
  qNames = qNames
  qNAMES = qNAMES
  qTotals = qTotals
  qEmpty = qEmpty
  qLong = qLong
  fNames = fNames
  fTotals = fTotals
  fEmpty = fEmpty
  fLong = fLong
  names = names
  nameslc = nameslc
  totals = totals
  salaries = salaries
  drop = drop
  broken = broken
  N = N
  T = T
  S = S
  D = D
  none = none
  s1 = s1
  s2 = s2
  Requests <- ThreeRequests
  Questions <- OneQuestion
  Blank = {}
  TooLong = {}
  Fold <- OneFold
  Schemas = {s1, s2}
  InitialSchema = s1
  Drafts <- OneDrafts
  Canonical <- OneCanonical
  Unparseable = none
  NoDraft = broken
  Unit = 2
  NaN = nan
  ReadOnly <- OneReadOnly
  LimitRead <- OneLimit
  LimitValue <- OneLimit
  NoLimit = none
  Permitted <- OnePermitted
  WellFormed <- OneWellFormed
  Plans <- OnePlans
  MaxPlanCost = 5
  MaxPlanRows = 5
  Matching <- OneMatching
  MaxRows = 3
  MaxResultRows = 2
  NumSamples = 1
  JudgeMode = "off"
  JudgeThreshold = 2
  JudgeScores = {0, 1}
  MinConfidence = 500
  CacheEnabled = TRUE
  TTL = 1
  MaxClock = 1
  None = none
SYMMETRY OneSymmetry
PROPERTIES
  ReplaysAreYoung
  KeepsPromise
CHECK_DEADLOCK FALSE
