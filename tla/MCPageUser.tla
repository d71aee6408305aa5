----------------------------- MODULE MCPageUser -----------------------------
(***************************************************************************)
(* Values for PageUser that are small and have the cases that matter.      *)
(***************************************************************************)
EXTENDS PageUser

CONSTANTS ta, tb, r24h, r30d, liveNow, pr, tx, sp, tabx, hidden,     \* PageUrl
          pa, pb, pc, px, sx, sy, sz,                                \* BoardLayout
          a1, a2, a3, ga, gb,                                        \* BoardTables
          s1, s2, s3,                                                \* SessionPicker
          cc, cv, cp, c3, cu, ai, vs,                                \* ScopedScreens
          i1, i2, i3, u1, rt, ru,                                    \* SessionRows
          n1, n2,                                                    \* SessionFlow
          g1, g2, g3, ca, cb,                                        \* DataTable
          hm, tx1, tx2, t1, v1                                       \* PageShell

\* Two sections of two panels and one; layouts that older versions stored: with a panel that is no
\* more, an unknown section, panels missing or in another section.
DefaultLayoutMC == <<[id |-> sx, panels |-> <<[id |-> pa, span |-> 8], [id |-> pb, span |-> 4]>>],
                     [id |-> sy, panels |-> <<[id |-> pc, span |-> 12]>>]>>
Pan(id, w) == [id |-> id, span |-> w, open |-> TRUE, h |-> AutoHeight]
Sec(id, ps) == [id |-> id, open |-> FALSE, panels |-> ps]
Older(l, hid) == [layout |-> l, hidden |-> hid, hiddenCols |-> {}, density |-> "comfortable", railMini |-> TRUE]
OlderUisMC == {Older(<<Sec(sy, <<Pan(px, 6), Pan(pb, 12)>>)>>, <<px, pb>>),
               Older(<<Sec(sz, <<Pan(pa, 4)>>), Sec(sx, <<Pan(pc, 3)>>)>>, <<>>)}

AgentMC == <<a1, a2, a3>>
CostOfMC == (a1 :> 1 @@ a2 :> 2 @@ a3 :> 1)
GroupOfMC == (a1 :> ga @@ a2 :> gb @@ a3 :> ga)

Shapes == {<<NoData, 1, 2>>, <<3, NoData, NoData>>, <<NoData, NoData, 0>>}
ChartsMC == {<<<<NoData, 1, 2>>, v, w>> : v \in Shapes, w \in Shapes}

SessionMC == <<s1, s2, s3>>
ToolOfMC == (s1 :> ta @@ s2 :> tb @@ s3 :> ta)
ToolNamesMC == <<tb, ta>>

\* Tools with and without sessions, processes, files and settings; cards for two tools and for none;
\* rows of tools that nobody can tick.
File(k, sc, pol, tok, prj, it) == [kind |-> k, scope |-> sc, policy |-> pol, tokens |-> tok, project |-> prj, item |-> it]
Proc(id, up, ty, m) == [pid |-> id, ppid |-> up, type |-> ty, mem |-> m, orphan |-> FALSE, anomalies |-> 3]
Idle(t) == [tool |-> t, sessions |-> 0, pids |-> 0, liveTokens |-> 0, procs |-> {}, liveProcs |-> {}, live |-> FALSE,
            files |-> {}, meta |-> FALSE, vendor |-> "v", hosts |-> {"any"}]
CC == [Idle(cc) EXCEPT !.sessions = 1, !.pids = 1, !.procs = {Proc(1, 9, "agent", 3), Proc(2, 1, "subagent", 2)}, !.live = TRUE,
                       !.hosts = {"ide", "cli"},
                       !.files = {File("memory", "project", "yes", 3, "x", 1), File("memory", "global", "odd", 2, "y", 2),
                                  File("skill", "project", "on-demand", 1, "x", 1), File("memory", "project", "yes", 1, "x", 2)}]
CV == [Idle(cv) EXCEPT !.vendor = "w", !.procs = {Proc(4, 2, "browser", 1)}, !.liveProcs = {Proc(4, 2, "browser", 1), Proc(5, 4, "mcp-server", 1)}]
CP == [Idle(cp) EXCEPT !.files = {File("skill", "session", "no", 2, "x", 1)}]
Self == [Idle(ai) EXCEPT !.meta = TRUE, !.procs = {Proc(7, 9, "agent", 1)}, !.files = {File("memory", "global", "no", 5, "y", 1)}]
ConfigRow(t, l, c) == [tool |-> t, local |-> l, content |-> c]
RowAt(t, i) == [tool |-> t, id |-> i]
Busy == [tools |-> {CC, CV, CP, Self, Idle(cu)}, sessions |-> {RowAt(cc, 1), RowAt(cu, 2), RowAt(NoTool, 3)},
         telemetry |-> {RowAt(cc, 1), RowAt(AnyTool, 2)}, mcp |-> {RowAt(cc, 1), RowAt(cu, 2)}, events |-> {RowAt(cv, 1), RowAt(vs, 2)},
         configs |-> {ConfigRow(cc, "some", TRUE), ConfigRow(cp, "none", TRUE), ConfigRow(vs, "unknown", TRUE), ConfigRow(cu, "unknown", FALSE)},
         memory |-> {[owners |-> {cc, cv}], [owners |-> {}]}, hiddenUnlisted |-> 0,
         calls |-> (cc :> 4 @@ cu :> 2 @@ NoTool :> 1 @@ AnyTool :> 1)]
CloudOnes == [Busy EXCEPT !.tools = {Idle(c3), CP, Self}, !.sessions = {RowAt(cu, 2)}, !.configs = {ConfigRow(cp, "none", FALSE)},
                          !.calls = (c3 :> 1)]
Moved == [Busy EXCEPT !.tools = {[CV EXCEPT !.sessions = 2, !.live = TRUE], [CC EXCEPT !.sessions = 0, !.pids = 0, !.procs = {}]},
                      !.sessions = {RowAt(cv, 1), RowAt(cv, 2)}]
CardOwnersMC == (cp :> {cp, cv})
LabelOrderMC == (cc :> 1 @@ cv :> 2 @@ cp :> 3 @@ c3 :> 4 @@ cu :> 5 @@ AnyTool :> 6 @@ ai :> 7 @@ vs :> 8)
FamilyMC == (cc :> "c" @@ cv :> "v" @@ cp :> "v" @@ c3 :> "c" @@ cu :> "u" @@ AnyTool :> "any" @@ NoTool :> "none")
SnapshotsMC == {Busy, CloudOnes, Moved}
Well == [hidden |-> "none", storage |-> "ok", connected |-> TRUE, stale |-> FALSE, silent |-> FALSE, quality |-> "ok", otel |-> TRUE,
         hooks |-> (cc :> "missing" @@ cv :> "disabled")]
ReportsMC == {Well, [Well EXCEPT !.connected = FALSE, !.quality = "error", !.hidden = "some", !.silent = TRUE,
                                 !.hooks = (cv :> "misconfigured" @@ cp :> "missing"), !.otel = FALSE]}

\* One session under three ids, one of them its own, and a live row that another id continues.
R(id, t, st, d, tok, e) == [id |-> id, tool |-> t, started |-> st, duration |-> d, tokens |-> tok, files |-> 3 - tok, seen |-> st + tok, errors |-> e]
RowAnswersMC == {<<R(i2, ru, 11, 5, 0, 1), R(i1, rt, 10, Live, 2, 0), R(u1, rt, 12, Live, 1, 0)>>,
                 <<R(u1, rt, 12, Live, 1, 0), R(i1, rt, 30, 4, 3, 0), R(u1, rt, 12, 9, 2, 2)>>,
                 <<R(i2, ru, 11, 5, 0, 1), R(i1, rt, 10, Live, 2, 0), R(u1, rt, 14, Live, 1, 0), R(i3, rt, 16, Live, 0, 0)>>}

\* The flow by hooks and by telemetry, each as it was and as it grew, and one that fails at once.
Ev(t, in, out, to, n) == [type |-> t, input |-> in, output |-> out, to |-> to, tools |-> n]
Plain(t) == Ev(t, 0, 0, n1, 0)
Hooked == <<Plain("session_start"), Ev("user_message", 3, 2, n1, 2), Plain("compaction"), Plain("user_message"), Plain("session_end")>>
Otel == <<Ev("api_response", 0, 2, n1, 0), Plain("hook"), Ev("api_call", 2, 1, n1, 0), Plain("user_message"), Ev("subagent", 0, 0, n2, 0),
          Ev("api_call", 1, 1, n1, 0), Ev("api_response", 0, 1, n1, 0), Plain("tool_use"), Plain("user_message"), Ev("api_call", 4, 0, n1, 0)>>
Failing == <<Plain("user_message"), Plain("error"), Ev("tool_use", 0, 0, n2, 0)>>
FlowsMC == {Hooked, SubSeq(Hooked, 1, 3), Otel, SubSeq(Otel, 1, 7), Failing, <<>>}

RowOf(id, x, y) == [id |-> id, value |-> (ca :> x @@ cb :> y)]
DataSetsMC == {<<RowOf(g1, 1, 2), RowOf(g2, 1, 1), RowOf(g3, 0, 3)>>, <<RowOf(g3, 2, 3), RowOf(g1, 1, 2)>>, <<>>}
DragsMC == {-2, 1}

TabRingMC == <<hm, tx1, tx2>>
PresetIdsMC == <<"1h">>
ShellToolsMC == <<t1>>
ThemeCycleMC == <<"auto", "dark">>
DensitiesMC == <<"normal">>
Scores(x, y, z) == [k \in {"tab", "range", "filter", "view", "theme", "density"} |->
                      CASE k = "tab" -> x [] k = "theme" -> y [] k = "density" -> z [] OTHER -> 0]
NoneTyped == Scores(0, 0, 0)
QueriesMC == {NoneTyped, Scores(2, 3, 1), Scores(2, 2, 2)}
=============================================================================
