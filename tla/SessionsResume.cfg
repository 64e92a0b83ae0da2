CONSTANTS
  Sessions = {s1, s2}
  Procs = {p1, p2}
  HubProcs = {}
  WithSubagent = {}
  Claims = {c}
  None = None
  MaxInFlight = 2
SPECIFICATION FairSpec
PROPERTY LiveOnesLeftAlone
CHECK_DEADLOCK FALSE
