SPECIFICATION FairSpec
CONSTANTS
  Second = 10
  DefaultMaxPerSecond = 3
  Rates = {0, 1, 2}
  Duration = 1
  Cap = 300
  Steps = 5
  MaxDue = 2
  MaxFresh = 1
INVARIANTS TypeOK DeletionsBounded RequestsBounded
PROPERTIES RunEnds
