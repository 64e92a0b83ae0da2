CONSTANTS
  Askers = {a, b}
  MaxQuestions = 2
  MaxProcs = 3
  MAX_STALE_RETRIES = 2
  MaxRestarts = 1
  Owner = Owner
  Fresh = Fresh
  None = None
SPECIFICATION Spec
SYMMETRY SameAskers
INVARIANT
  AnswersItsQuestion
CHECK_DEADLOCK FALSE
