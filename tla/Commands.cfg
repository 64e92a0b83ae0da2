CONSTANTS
  Tasks = {t1, t2}
  Requests = {q1}
  Conflicting = {t2}
  Discardable = {t2}
  MaxCommits = 1
  MaxRestarts = 1
  MaxProcs = 2
  MaxGenerations = 3
  MaxLives = 2
  MaxContinues = 1
  MaxFaults = 2
  Sessions = {s1}
  Silent = {0}
  Window = 1
  MaxWindows = 2
  EveryStop = FALSE
  MaxDays = 2
  MaxFailures = 1
  MaxTurns <- FourTurns
  None = None
SPECIFICATION CommandsSpec
INVARIANTS PublicOnlyAsAsked OneImplementation TurnsOnce NoTurnSkipped
PROPERTIES NeverWedged StartSettles RequestSettles EndIsSummarised
CHECK_DEADLOCK FALSE
