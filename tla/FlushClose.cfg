\* close overtakes the flush thread; connections that cannot be opened, rows that cannot be written
CONSTANTS
  e1 = e1  e2 = e2  e3 = e3  e4 = e4  q1 = q1  q2 = q2  q3 = q3  p1 = p1  p2 = p2  p3 = p3  t1 = t1
  Rows = {e1, e2, e3, p1}
  TableOf <- MCTableOf
  KeyOf <- MCKeyOf
  LevelOf <- MCLevelOf
  SessionOf <- MCSessionOf
  Calls <- MCCalls
  Sessions = {}
  Superseded = {}
  Oversized = {e3}
  Unbindable = {}
  Loop = Loop
  Closer = Closer
  Shared = Shared
  Nothing = Nothing
  Connected = {}
  Closes = TRUE
  Cap = 2
  Patience = 2
  MaxOutages = 2
SPECIFICATION WriteBehindSpec
INVARIANTS TypeOK RetriesOnce
CHECK_DEADLOCK FALSE
