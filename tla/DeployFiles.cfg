\* Files and recovery through four deploys, with one abort, one crash and failing calls
CONSTANTS
  debug = debug  docs = docs  p1 = p1  p2 = p2  n1 = n1  n2 = n2
  base_md = base_md  mcp_json = mcp_json  user_md = user_md
  Profiles = {debug, docs}
  NoProfile = NoProfile
  NoProc = NoProc
  Procs = {p1}
  Notes = {}
  Files = {base_md, mcp_json, user_md}
  Marked = {base_md, user_md}
  Merged = {mcp_json}
  Outside = {user_md}
  Output <- MCOutput
  MaxCrashes = 1
  MaxFailures = 1
  MaxDeploys = 4
  MaxAborts = 1
  MaxKills = 1
SPECIFICATION DeploySpec
INVARIANTS DeployTypeOK GeneratedIsTracked
PROPERTIES RecoveryRestores
CHECK_DEADLOCK FALSE
