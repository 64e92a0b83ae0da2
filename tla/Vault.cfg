CONSTANTS
  win1 = win1
  win2 = win2
  proj1 = proj1
  proj2 = proj2
  daily = daily
  item1 = item1
  item2 = item2
  remark = remark
  item3 = item3
  None = None
  Editors = {win1, win2}
  MaxTexts = 3
  MaxWrites = 3
  MaxNet = 1
  MaxFaults = 1
  Projects = {proj1, proj2}
  Items = {daily, item1, item2, remark, item3}
  Remarks = {remark}
  Recurring = {daily}
  Statuses = {"todo", "done"}
  Start <- Trees
  MaxDepth = 2
  MaxLines = 6
  MaxOps = 2
  Files = {item1}
  Logs <- Transcripts
  Periods = {7}
  DEFAULT_DAYS = 7
  MaxAsks = 3
  MaxRestarts = 1
SPECIFICATION VaultSpec
SYMMETRY Windows
INVARIANTS BlindOnlyOverWindows NothingLost CountsOnce
PROPERTIES BoxesMeant FamiliesKept OccurrencesKept
CHECK_DEADLOCK FALSE
