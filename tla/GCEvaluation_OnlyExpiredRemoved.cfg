SPECIFICATION Spec
CONSTANTS
  Names = {a}
  BatchSize = 1
  Steps = 2
  EvalCheck = 2
  DeleteCheck = 2
  TTL = 0
  MaxEdits = 3
  MaxFaults = 1
  MaxNow = 1
INVARIANT OnlyExpiredRemoved
CHECK_DEADLOCK FALSE
