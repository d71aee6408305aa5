\* Two processes swap, one fault, Claude Code writing
CONSTANTS
  debug = debug  docs = docs  p1 = p1  p2 = p2  n1 = n1  n2 = n2
  Profiles = {debug, docs}
  NoProfile = NoProfile
  NoProc = NoProc
  Procs = {p1, p2}
  Notes = {n1, n2}
  MaxCrashes = 1
  MaxFailures = 0
SPECIFICATION MemorySpec
SYMMETRY Symmetry
INVARIANTS TypeOK MemoryKept OneSwapper
