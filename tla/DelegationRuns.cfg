CONSTANTS
  Tasks = {t1, t2}
  Runs = {r1, r2}
  Repos = {a, b}
  GitRepos = {a}
  Dates = {d}
  Asked = {None, "worktree"}
  Runners = {"claude"}
  Blocks = {1, 2}
  Archivable = {}
  ListLimit = 2
  StoreMayFail = TRUE
  None = None
SPECIFICATION Spec
SYMMETRY Ids
INVARIANTS
  TypeOK
  OneRunInFlight
  TaskFollowsLastRun
  NoLostAgent
  RunningIsCancellable
  AbortIsFinal
  LaunchedPortsDistinct
  LaunchedApart
  OneDailyGeneration
PROPERTIES
  VerdictsStand
  KeepsLedger
CHECK_DEADLOCK FALSE
