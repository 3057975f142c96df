SPECIFICATION Spec
CONSTANTS
  Names = {a, b, c}
  BatchSize = 2
  Steps = 1
  EvalCheck = 2
  DeleteCheck = 2
  TTL = 0
  MaxEdits = 3
  MaxFaults = 1
  MaxNow = 1
SYMMETRY Symmetry
INVARIANT CountsConserved
PROPERTIES DeletesAuthorised StatusIsComplete
CHECK_DEADLOCK FALSE
