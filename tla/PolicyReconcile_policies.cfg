SPECIFICATION FairSpec
CONSTANTS
  p = p
  q = q
  Policies = {p, q}
  OwnInterval <- MCOwnInterval
  Setups <- MCSetups
  MaxEdits = 2
INVARIANTS TypeOK OnlyOvertakenLeak
PROPERTIES LiveLimiterKept EvaluatedForEver StatusCatchesUp CleanedUp
CHECK_DEADLOCK FALSE
