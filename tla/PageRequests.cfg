CONSTANTS
  f1 = f1 f2 = f2 t1 = t1
  Filters = {f1, f2}
  Times = {t1}
  Whole = Whole Nothing = Nothing Asked = Asked NotModified = NotModified Failed = Failed
  MaxVersion = 1
  MaxTroubles = 1
  j1 = j1 j2 = j2
  Projects = {j1, j2}
  NoAudit = NoAudit
  MaxScans = 2
  MaxDisk = 1
  MaxMishaps = 1
  a1 = a1 g1 = g1 g2 = g2 n1 = n1 u1 = u1 hid = hid q1 = q1 q2 = q2 m1 = m1
  Things <- ThingsMC
  Agents = {a1}
  BoardQueries = {q1, q2}
  Menus = {m1}
  Empty = Empty
  MaxDepth = 2
  MaxTurns = 3
  MaxData = 1
  MaxLosses = 1
  NoRows = NoRows
  MaxKnown = 1
  MaxSteps = 2
  MaxBroken = 1
  MaxAsks = 3
SPECIFICATION Spec
INVARIANTS RequestsTypeOK
PROPERTIES ChartsFollow FeedCatchesUp PartsFollow
CHECK_DEADLOCK FALSE
