CONSTANTS
  Tasks = {t1}
  Runs = {r1, r2, r3}
  Repos = {}
  GitRepos = {}
  Dates = {}
  Asked = {None}
  Runners = {"claude"}
  Blocks = {1, 2}
  Archivable = {}
  ListLimit = 2
  StoreMayFail = FALSE
  None = None
SPECIFICATION Spec
SYMMETRY Ids
PROPERTY ContinueResumes
CHECK_DEADLOCK FALSE
