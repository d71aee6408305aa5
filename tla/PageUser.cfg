CONSTANTS
  Absent = Absent ta = ta tb = tb r24h = r24h r30d = r30d liveNow = liveNow
  pr = pr tx = tx sp = sp tabx = tabx hidden = hidden
  Tools = {ta, tb}
  BoardRanges = {r24h, r30d}
  DefaultRange = r24h
  DetailRanges = {liveNow, r24h}
  LiveRange = liveNow
  Narrows = {pr}
  Texts = {tx}
  Spans = {sp}
  Tabs = {tabx}
  HiddenTab = hidden
  MaxEntries = 3
  MaxMoves = 3
  pa = pa pb = pb pc = pc px = px sx = sx sy = sy sz = sz
  AutoHeight = AutoHeight NoUi = NoUi
  DefaultLayout <- DefaultLayoutMC
  OlderUis <- OlderUisMC
  OtherIds = {px, sz}
  DefaultHiddenCols = {pa}
  Widths = {3}
  Pulls = {9}
  MinHeight = 1
  MaxHeight = 2
  MaxEdits = 2
  a1 = a1 a2 = a2 a3 = a3 ga = ga gb = gb
  Missing = Missing Unlisted = Unlisted
  Limit = 2
  MaxChange = 1
  Agent <- AgentMC
  CostOf <- CostOfMC
  GroupOf <- GroupOfMC
  Charts <- ChartsMC
  Buckets = 3
  OverSeries = 1
  NoData = NoData
  MaxRolls = 1
  s1 = s1 s2 = s2 s3 = s3
  NoSession = NoSession
  Session <- SessionMC
  ToolOf <- ToolOfMC
  ToolNames <- ToolNamesMC
  MaxEvents = 5
  cc = cc cv = cv cp = cp c3 = c3 cu = cu ai = ai vs = vs
  Verified = {cc, cv, cp, c3}
  UnlistedTools = {cu, AnyTool}
  NonTool = {ai, vs}
  NoTool = NoTool All = All AnyTool = AnyTool NoMatch = NoMatch
  Aictl = ai
  CardOwners <- CardOwnersMC
  CloudHosted = {c3}
  LabelOrder <- LabelOrderMC
  Snapshots <- SnapshotsMC
  MaxScopeMoves = 2
  ScopeOrder = {"project", "global"}
  Policies = {"yes", "no", "on-demand"}
  TopItems = 1
  TopTools = 1
  IssueRows = 2
  FamilyOf <- FamilyMC
  MemLimit = 4
  Reports <- ReportsMC
  i1 = i1 i2 = i2 i3 = i3 u1 = u1 rt = rt ru = ru
  RowIds = {i1, i2, i3, u1}
  Uuids = {u1}
  RowTools = {rt, ru}
  Live = Live NoRow = NoRow
  StartWindow = 2
  DurationWindow = 1
  RowAnswers <- RowAnswersMC
  MaxRowMoves = 3
  n1 = n1 n2 = n2
  Flows <- FlowsMC
  AgentNames = {n1, n2}
  NoEvent = NoEvent
  MaxFlowMoves = 2
  g1 = g1 g2 = g2 g3 = g3 ca = ca cb = cb
  DataSets <- DataSetsMC
  DataColumns = {ca, cb}
  QueryHits = {{g1}, {}}
  NoQuery = NoQuery NoColumn = NoColumn
  FilterMinRows = 3
  ColumnWidth = 4
  MinColumnWidth = 3
  Drags <- DragsMC
  MaxTableMoves = 4
  hm = hm tx1 = tx1 tx2 = tx2 t1 = t1 v1 = v1
  TabRing <- TabRingMC
  HomeTab = hm
  PresetIds <- PresetIdsMC
  ShellTools <- ShellToolsMC
  ViewIds = {v1}
  NoView = NoView
  ThemeCycle <- ThemeCycleMC
  Editorial = "editorial"
  Densities <- DensitiesMC
  Queries <- QueriesMC
  NoQueryTyped <- NoneTyped
  Unfiltered = Unfiltered
  LruMax = 2
  ToastMax = 1
  NoToast = 0
  Depths = {0, 2}
  Retries = 2
  MaxShellMoves = 4
SPECIFICATION Spec
INVARIANTS UserTypeOK UrlTellsBoard LayoutKept PickerHolds TablesTell
PROPERTIES ChartsTell ScreensTell RowsTell FlowTells GridTells ShellTells
CHECK_DEADLOCK FALSE
