CONSTANTS
  Askers = {a, b}
  MaxQuestions = 2
  MaxProcs = 3
  MAX_STALE_RETRIES = 2
  MaxRestarts = 1
  Owner = Owner
  Fresh = Fresh
  None = None
  Tasks = {t1, t2}
  Requests = {q1, q2}
  Conflicting = {t2}
  Discardable = {t1}
  MaxCommits = 1
SPECIFICATION RequestsSpec
SYMMETRY Alike
INVARIANTS
  RunningIsPending
  OneQuestionAtATime
  NoStrayProcess
  ForkWasConfirmed
  DeletedKeepsNoFork
  QuietWhenClosed
  MergesAlone
  MergedIsSafe
  NothingLeftBehind
CHECK_DEADLOCK FALSE
