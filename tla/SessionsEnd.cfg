CONSTANTS
  Sessions = {s1}
  Procs = {p1, p2}
  HubProcs = {p2}
  WithSubagent = {s1}
  Claims = {c}
  None = None
  MaxInFlight = 3
SPECIFICATION FairSpec
PROPERTIES EndStopsAgents EndReleasesClaims CountsStayHonest
CHECK_DEADLOCK FALSE
