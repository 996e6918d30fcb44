SPECIFICATION Spec
CONSTANTS
  names = names
  namesLower = namesLower
  totals = totals
  tally = tally
  broken = broken
  empty = empty
  N = N
  T = T
  C = C
  none = none
  Drafts <- MCDrafts
  Canonical <- MCCanonical
  Unparseable = none
  NoDraft = empty
  Unit = 12
  NaN = nan
  MaxSamples = 4
INVARIANTS
  TypeOK
  VoteIsPlurality
  MajorityWins
  FullAgreementIsUnanimous
CHECK_DEADLOCK FALSE
