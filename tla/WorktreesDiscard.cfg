CONSTANTS
  Tasks = {t1}
  Requests = {q1}
  Conflicting = {}
  Discardable = {t1}
  MaxCommits = 1
  MaxRestarts = 0
  None = None
SPECIFICATION Spec
INVARIANT WorktreeOutlivesRun
CHECK_DEADLOCK FALSE
