\* One crash between the memory swap and the manifest
CONSTANTS
  debug = debug  docs = docs  p1 = p1  p2 = p2  n1 = n1  n2 = n2
  base_md = base_md  mcp_json = mcp_json  user_md = user_md
  Profiles = {debug, docs}
  NoProfile = NoProfile
  NoProc = NoProc
  Procs = {p1}
  Notes = {n1, n2}
  Files = {}
  Marked = {}
  Merged = {}
  Outside = {}
  Output <- NoOutput
  MaxCrashes = 1
  MaxFailures = 0
  MaxDeploys = 4
  MaxAborts = 0
  MaxKills = 0
SPECIFICATION DeploySpec
PROPERTY MemoryIsolated
CHECK_DEADLOCK FALSE
