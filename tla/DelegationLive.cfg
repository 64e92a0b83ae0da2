CONSTANTS
  Tasks = {t1, t2}
  Runs = {r1, r2}
  Repos = {}
  GitRepos = {}
  Dates = {}
  Asked = {None}
  Runners = {"claude", "codex"}
  Blocks = {1, 2}
  Archivable = {t1, t2}
  ListLimit = 2
  StoreMayFail = FALSE
  None = None
SPECIFICATION FairSpec
INVARIANT RemembersSession
PROPERTIES
  EveryRunEnds
  AbortTakesEffect
CHECK_DEADLOCK FALSE
