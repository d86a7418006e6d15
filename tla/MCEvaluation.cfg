SPECIFICATION MCSpec
CONSTANTS
  Evaluations = {x1}
  MaxCount = 2
  MaxEvalRetries = 0
INVARIANT
  PassMeansTestsPassed
CHECK_DEADLOCK FALSE
