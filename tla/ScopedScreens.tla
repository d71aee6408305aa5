---------------------------- MODULE ScopedScreens ----------------------------
(***************************************************************************)
(* What the detail screens make of the filtered snapshot (ToolScope): the  *)
(* figures of the overview, the map of the context files, the processes as *)
(* lists and trees, the cards of the tools and of their settings, the      *)
(* report about an agent's calls, and the list of what needs attention.    *)
(* Each screen works its figures out of the rows by itself.                *)
(***************************************************************************)
EXTENDS ToolScope

CONSTANTS
    ScopeOrder,     \* SCOPE_ORDER: the scopes that "By Scope" lists
    Policies,       \* the ways a file reaches a model; "no" is one of them
    TopItems,       \* how many items of a category are named
    TopTools,       \* how many tools "By Tool" lists
    IssueRows,      \* how many issues are listed
    FamilyOf,       \* toolFamily
    MemLimit,       \* the memory of subagents that raises an alert
    Reports         \* what the health panel may be told
ASSUME ScreenBounds ==
    /\ "no" \in Policies /\ IsFiniteSet(Policies) /\ {TopItems, TopTools, IssueRows, MemLimit} \subseteq Nat \ {0}
    /\ Verified \cup UnlistedTools \cup {NoTool} \subseteq DOMAIN FamilyOf
\* the files, the hosts and the processes of a tool; of any processes one was started by none of them
ASSUME ToolRows == \A s \in Snapshots : \A t \in s.tools :
    /\ IsFiniteSet(t.files) /\ \A f \in t.files : f.tokens \in Nat /\ f.item \in Nat
    /\ t.hosts # {} /\ IsFiniteSet(t.liveProcs)
    /\ \A ps \in (SUBSET t.procs) \cup (SUBSET t.liveProcs) :
          ps # {} => \E p \in ps : \A q \in ps : q.pid # p.ppid
ASSUME HealthReports == \A h \in Reports :
    IsFiniteSet(DOMAIN h.hooks) /\ DOMAIN h.hooks \subseteq DOMAIN LabelOrder /\ h.quality \in {"ok", "error", "warn"}

VARIABLES
    project,        \* of ContextMap: the project that is opened
    groupBy,        \* of TabOverview
    health          \* what the server and the connection report to the health panel
screenVars == <<scopeVars, project, groupBy, health>>
NoProject == "none"
GroupModes == {"product", "vendor", "host"}

-----------------------------------------------------------------------------
(* ContextMap                                                              *)
MapTools == {t \in FilteredSnap.tools : t.tool \notin {Aictl, AnyTool}}
MapFiles == UNION {{[file |-> f, tool |-> t.tool] : f \in t.files} : t \in MapTools}
TokensOf(rows) == SumFunction([r \in rows |-> r.file.tokens])
Kinds(rows) == {r.file.kind : r \in rows}
Projects == {r.file.project : r \in MapFiles}
OfKind(rows, k) == {r \in rows : r.file.kind = k}
OfProject(rows, p) == {r \in rows : r.file.project = p}
\* defect: a policy that is not known counts nowhere
PolicyAsRead(f) == f.policy
PolicyOf(f) == IF f.policy \in Policies THEN f.policy ELSE "no"
ByPolicy == [p \in Policies |-> TokensOf({r \in MapFiles : PolicyOf(r.file) = p})]
ByScope == [s \in ScopeOrder \cap {r.file.scope : r \in MapFiles} |-> TokensOf({r \in MapFiles : r.file.scope = s})]
\* the items of a category of the opened project: the largest, and the rest as one
ItemTokens(rows) ==
    LET items == {r.file.item : r \in rows}
        tokens == [i \in items |-> TokensOf({r \in rows : r.file.item = i})]
        order == Descending(tokens, [i \in items |-> i])
        top == [n \in 1..Min({TopItems, Len(order)}) |-> tokens[order[n]]]
        rest == SumFunctionOnSet(tokens, {order[n] : n \in (TopItems + 1)..Len(order)})
    IN  IF rest > 0 THEN Append(top, rest) ELSE top
DrillDown == IF project \in Projects THEN OfProject(MapFiles, project) ELSE {}
ToolTokens(t) == SumFunction([f \in t.files |-> f.tokens])
PerTool ==
    LET some == {t \in MapTools : ToolTokens(t) > 0}
        order == Descending([t \in some |-> ToolTokens(t)], [t \in some |-> LabelOrder[t.tool]])
    IN  SubSeq(order, 1, Min({TopTools, Len(order)}))
ContextMapEmpty == TokensOf(MapFiles) = 0

-----------------------------------------------------------------------------
(* The overview                                                            *)
\* scopeTotals: the figures of the server are for all tools, under a filter they are worked out here
ScopeTotals ==
    LET tools == {t \in FilteredSnap.tools : t.tool # Aictl}
    IN  [files |-> SumFunction([t \in tools |-> Cardinality(t.files)]), tokens |-> SumFunction([t \in tools |-> ToolTokens(t)]),
         processes |-> SumFunction([t \in tools |-> Max({Cardinality(t.procs), t.pids})]),
         sessions |-> SumFunction([t \in tools |-> t.sessions]), mcp |-> Cardinality(FilteredSnap.mcp)]
OverviewEmpty == IsFiltered(ticked) /\ FilteredSnap.tools \subseteq {t \in snap.tools : t.tool = Aictl}

\* CDashboardTab: the figures of all sessions together
StatsData ==
    LET tools == FilteredSnap.tools
    IN  [sessions |-> SumFunction([t \in tools |-> t.sessions]),
         processes |-> SumFunction([t \in tools |-> IF t.pids > 0 THEN t.pids ELSE Cardinality(t.procs)]),
         tools |-> Cardinality({t \in tools : t.pids > 0})]

\* TabOverview: cards of the tools that have something, by their vendor or their hosts
CardTools == {t \in FilteredSnap.tools : ~t.meta /\ (t.files # {} \/ t.procs # {} \/ t.live)}
GroupsOf(t) == CASE groupBy = "product" -> {"all"} [] groupBy = "vendor" -> {t.vendor} [] OTHER -> t.hosts
CardGroups == [g \in UNION {GroupsOf(t) : t \in CardTools} |-> {t \in CardTools : g \in GroupsOf(t)}]

\* TabLive
LiveRows == {t \in FilteredSnap.tools : t.live}

-----------------------------------------------------------------------------
(* TabProcesses                                                            *)
Procs(t) == IF t.liveProcs # {} THEN t.liveProcs ELSE t.procs
ProcTools == {t \in FilteredSnap.tools : Procs(t) # {}}
\* ProcToolGroup: by type
ProcsByType(t) == [y \in {p.type : p \in t.procs} |-> {p \in t.procs : p.type = y}]
\* ProcTreeGroup: a process is drawn under its parent when that is one of the tool's
\* defect: when that is a process of any tool
AnyPids(t) == {p.pid : p \in UNION {Procs(u) : u \in ProcTools}}
OwnPids(t) == {p.pid : p \in Procs(t)}
Roots(t) == {p \in Procs(t) : p.ppid \notin OwnPids(t)}
ProcessTree(t) ==
    LET drawn[n \in 0..Cardinality(Procs(t))] ==
            IF n = 0 THEN Roots(t)
            ELSE drawn[n-1] \cup {p \in Procs(t) : p.ppid \in OwnPids(t) /\ \E q \in drawn[n-1] : q.pid = p.ppid}
    IN  drawn[Cardinality(Procs(t))]

-----------------------------------------------------------------------------
(* The agent and its settings                                              *)
\* ActivityReport: the calls of the agent, and of all the ticked tools
AgentCalls(t) == IF t \in DOMAIN snap.calls THEN snap.calls[t] ELSE 0
ActivityReport == SumByTool(snap.calls, ticked)

\* AgentDetail: the profile, with the settings that toolConfigMap has for it
AgentDetail(t) ==
    [cloud |-> CloudOnly(t, FilteredSnap), on |-> IsActive(t), sessions |-> t.sessions, calls |-> AgentCalls(t.tool),
     config |-> {c \in FilteredSnap.configs : c.tool = t.tool}]

\* TabToolConfig: the card of VS Code and the cards of tools with some content
ConfigCards == {c \in FilteredSnap.configs : c.content}
-----------------------------------------------------------------------------
(* computeAlerts, deriveIssues and the health panel                        *)
When(c, id, level) == IF c THEN <<[id |-> id, level |-> level]>> ELSE <<>>
Alerts ==
    LET procs == UNION {t.procs : t \in FilteredSnap.tools}
        agents == {p \in procs : p.type \in {"subagent", "agent"}}
    IN  When(SumFunction([p \in agents |-> p.mem]) > MemLimit, <<"memory">>, "error")
        \o When(\E p \in procs : p.type = "mcp-server" /\ p.orphan, <<"orphans">>, "warn")
        \o When(\E p \in procs : p.type = "browser", <<"headless">>, "warn")
        \o When(SumFunction([p \in procs |-> p.anomalies]) > 5, <<"anomalies">>, "warn")
\* hookIssues: of the ticked tools; missing hooks count while a tool of the family runs
HookIssues ==
    LET running == {FamilyOf[s.tool] : s \in FilteredSnap.sessions}
        tools == {t \in DOMAIN health.hooks : IsSelected(t, ticked)}
        listed == Arranged(tools, {x \in tools \X tools : LabelOrder[x[1]] < LabelOrder[x[2]]})
        Of(t) == When(health.hooks[t] = "missing" /\ FamilyOf[t] \in running, <<"hooks", t>>, "warn")
                 \o When(health.hooks[t] = "disabled", <<"hooks", t>>, "warn")
                 \o When(health.hooks[t] = "misconfigured", <<"hooks", t>>, "error")
        found == FlattenSeq([i \in DOMAIN listed |-> Of(listed[i])])
    IN  found \o When(ticked = All /\ health.silent /\ found = <<>>, <<"hooks:silent">>, "warn")
QualityIssues == When(health.quality # "ok", <<"quality">>, health.quality)
Issues ==
    When(health.hidden = "some", <<"hidden-context">>, "warn") \o When(health.hidden = "unchecked", <<"hidden-context">>, "info")
    \o When(health.storage = "degraded", <<"storage">>, "error") \o When(health.storage = "full", <<"storage">>, "warn")
    \o When(~health.connected, <<"sse">>, "error") \o When(health.connected /\ health.stale, <<"stale">>, "warn")
    \o Alerts \o HookIssues \o QualityIssues \o When(~health.otel, <<"otel">>, "info")
\* defect: listed as they come
AsFound(issues) == issues
ByLevel(issues) ==
    LET level(l) == Picked(issues, {n \in DOMAIN issues : issues[n].level = l})
    IN  level("error") \o level("warn") \o level("info")
ListedIssues == LET all == ByLevel(Issues) IN SubSeq(all, 1, Min({IssueRows, Len(all)}))
HealthFigure == Cardinality({n \in DOMAIN Issues : Issues[n].level \in {"error", "warn"}})

-----------------------------------------------------------------------------
\* A click on a project opens it, a second one closes it.
OpenProject(p) ==
    /\ ScopeMove /\ p \in Projects
    /\ project' = IF project = p THEN NoProject ELSE p
    /\ UNCHANGED <<snap, ticked, search, pickedAgent, tabTool, groupBy, health>>
SetGroupBy(m) ==
    /\ ScopeMove /\ m # groupBy /\ groupBy' = m
    /\ UNCHANGED <<snap, ticked, search, pickedAgent, tabTool, project, health>>
\* The polled answers and the stream report something else.
Report(h) ==
    /\ ScopeMove /\ h # health /\ health' = h
    /\ UNCHANGED <<snap, ticked, search, pickedAgent, tabTool, project, groupBy>>

ScreenInit == ScopeInit /\ project = NoProject /\ groupBy = "product" /\ health \in Reports
ScreenNext ==
    \/ ScopeNext /\ UNCHANGED <<project, groupBy, health>>
    \/ \E p \in Projects : OpenProject(p)
    \/ \E m \in GroupModes : SetGroupBy(m)
    \/ \E h \in Reports : Report(h)
ScreenSpec == ScreenInit /\ [][ScreenNext]_screenVars

-----------------------------------------------------------------------------
ScreenTypeOK ==
    /\ ScopeTypeOK /\ groupBy \in GroupModes /\ health \in Reports
    /\ project \in {NoProject} \cup {f.project : f \in UNION {UNION {t.files : t \in s.tools} : s \in Snapshots}}

\* The map of the context counts every token once in each of its divisions, and as many as the
\* overview; only a scope that it does not list is left out.
MapAddsUp ==
    LET total == TokensOf(MapFiles)
    IN  /\ SumFunction(ByPolicy) = total /\ SumFunction([k \in Kinds(MapFiles) |-> TokensOf(OfKind(MapFiles, k))]) = total
        /\ SumFunction([p \in Projects |-> TokensOf(OfProject(MapFiles, p))]) = total
        /\ SumFunction(ByScope) + TokensOf({r \in MapFiles : r.file.scope \notin ScopeOrder}) = total
        /\ \A k \in Kinds(DrillDown) : LET rows == OfKind(DrillDown, k) IN SumFunction(ItemTokens(rows)) = TokensOf(rows)
        /\ ScopeTotals.tokens = total
        /\ \A t \in MapTools : ToolTokens(t) > 0 => t \in Range(PerTool) \/ Len(PerTool) = TopTools
\* The screens tell of the same tools: one that says that the filter leaves it nothing is right.
ScreensAgree ==
    /\ OverviewEmpty => /\ ContextMapEmpty /\ ShownAgent = NoTool
                        /\ \A t \in LiveRows \cup ProcTools \cup CardTools : t.tool = Aictl
    /\ \A t \in CardTools : groupBy # "host" => Cardinality({g \in DOMAIN CardGroups : t \in CardGroups[g]}) = 1
    /\ \A t \in CardTools : \E g \in DOMAIN CardGroups : t \in CardGroups[g]
    /\ ScopeTotals.processes >= SumFunction([t \in {t \in ProcTools : t.tool # Aictl} |-> Cardinality(t.procs)])
    /\ StatsData.sessions >= ScopeTotals.sessions
    /\ \A c \in snap.configs : c.tool \in NonTool /\ c.content => c \in ConfigCards
\* Every process of a tool is drawn, under whatever parent.
AllDrawn == \A t \in ProcTools : ProcessTree(t) = Procs(t) /\ UNION {ProcsByType(t)[y] : y \in DOMAIN ProcsByType(t)} = t.procs
\* The profile is of the agent shown: its settings are there if the machine has them, a session of
\* its is not hidden behind "runs in the cloud", and its calls are among those of the ticked tools.
ReportCounts ==
    /\ \A t \in FilteredSnap.tools : t.tool = ShownAgent =>
         LET profile == AgentDetail(t)
         IN  /\ profile.cloud => profile.sessions = 0 /\ ~\E s \in snap.sessions : s.tool = ShownAgent
             /\ profile.config = {c \in snap.configs : c.tool = ShownAgent}
             /\ profile.calls <= ActivityReport.total
             /\ profile.on = (ShownAgent \in Range(AgentList(TRUE)))
    /\ ActivityReport.total + ActivityReport.hidden <= SumByTool(snap.calls, All).total
\* What needs attention most is never behind "more", and is not of a tool that is not ticked.
WorstFirst ==
    /\ \A i \in Range(Issues) : i.level = "error" =>
         i \in Range(ListedIssues) \/ \A j \in Range(ListedIssues) : j.level = "error"
    /\ Len(ListedIssues) < IssueRows => HealthFigure <= Len(ListedIssues)
    /\ \A t \in DOMAIN health.hooks : ~IsSelected(t, ticked) => \A i \in Range(Issues) : i.id # <<"hooks", t>>
ScreensHold == MapAddsUp /\ ScreensAgree /\ AllDrawn /\ ReportCounts /\ WorstFirst
=============================================================================
