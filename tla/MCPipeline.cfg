SPECIFICATION Spec
CONSTANTS
  r1 = r1
  r2 = r2
  r3 = r3
  qNames = qNames
  qNAMES = qNAMES
  qTotals = qTotals
  qEmpty = qEmpty
  qLong = qLong
  fNames = fNames
  fTotals = fTotals
  fEmpty = fEmpty
  fLong = fLong
  names = names
  nameslc = nameslc
  totals = totals
  salaries = salaries
  drop = drop
  broken = broken
  N = N
  T = T
  S = S
  D = D
  none = none
  s1 = s1
  s2 = s2
  Requests <- TwoRequests
  Questions <- AllQuestions
  Blank <- JustEmpty
  TooLong <- JustLong
  Fold <- AllFold
  Schemas = {s1, s2}
  InitialSchema = s1
  Drafts <- AllDrafts
  Canonical <- AllCanonical
  Unparseable = none
  NoDraft = broken
  Unit = 2
  NaN = nan
  ReadOnly <- AllReadOnly
  LimitRead <- AllLimitRead
  LimitValue <- AllLimitValue
  NoLimit = none
  Permitted <- AllPermitted
  WellFormed <- AllWellFormed
  Plans <- AllPlans
  MaxPlanCost = 5
  MaxPlanRows = 5
  Matching <- AllMatching
  MaxRows = 3
  MaxResultRows = 2
  NumSamples = 2
  JudgeMode = "conditional"
  JudgeThreshold = 2
  JudgeScores <- AllJudgeScores
  MinConfidence = 500
  CacheEnabled = TRUE
  TTL = 1
  MaxClock = 1
  None = none
SYMMETRY AllSymmetry
INVARIANTS
  TypeOK
  RunsOnlyVetted
  DeliveredVetted
  CacheVetted
  RowsGoverned
  ReportedInOrder
  CountersBalance
  AuditTrail
  TruncationTold
CHECK_DEADLOCK FALSE
