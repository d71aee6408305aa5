\* One flush thread, its connection open, a file that fails twice or for ever
CONSTANTS
  e1 = e1  e2 = e2  e3 = e3  e4 = e4  q1 = q1  q2 = q2  q3 = q3  p1 = p1  p2 = p2  p3 = p3  t1 = t1
  Rows = {e1, e2, e3, q3}
  TableOf <- MCTableOf
  KeyOf <- MCKeyOf
  LevelOf <- MCLevelOf
  SessionOf <- MCSessionOf
  Calls <- MCCalls
  Sessions = {"s1"}
  Superseded = {q3}
  Oversized = {}
  Unbindable = {}
  Loop = Loop
  Closer = Closer
  Shared = Shared
  Nothing = Nothing
  Connected = {Loop}
  Closes = FALSE
  Cap = 2
  Patience = 2
  MaxOutages = 2
SPECIFICATION WriteBehindFairSpec
PROPERTIES NoSilentLoss DropsOldest CommitsOwnBatch NoneWaitsForever
