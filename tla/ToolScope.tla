------------------------------ MODULE ToolScope ------------------------------
(***************************************************************************)
(* The tool filter of the detail screens.  The user ticks tools in the     *)
(* header while snapshots come in that list other tools than before, or    *)
(* list them in another order.  filterSnap gives every screen the rows of  *)
(* the tools that are ticked, and counts the rows that it hides although   *)
(* nobody can tick their tool.  Two screens remember a tool that the user  *)
(* picked (the agents, the tabs of the tools) and must not show one that   *)
(* is no longer on offer.                                                  *)
(***************************************************************************)
EXTENDS Integers, SequencesExt, Places

CONSTANTS
    Verified,       \* VERIFIED_TOOLS: the tools that the filter offers
    UnlistedTools,  \* tools that it does not offer
    NonTool,        \* ids of cards that are no tool
    NoTool,         \* the tool of a row that has none
    All,            \* no filter
    Aictl, AnyTool, \* the collector itself, a member of NonTool; the rows with no known tool, unlisted
    CardOwners,     \* CONFIG_CARD_OWNERS: of a card that holds more than one tool's settings, these tools
    CloudHosted,    \* CLOUD_HOSTED_TOOLS
    LabelOrder,     \* of every tool: its place in the order of the labels
    Snapshots,      \* the snapshots that may come; a tool with rows of sessions counts them
    NoMatch,        \* nothing is searched for
    MaxScopeMoves   \* bound: how often a snapshot comes or the user does something
ASSUME ScopeTools ==
    /\ {Verified, UnlistedTools, NonTool} \subseteq SUBSET DOMAIN LabelOrder
    /\ Verified \cap UnlistedTools = {} /\ NonTool \cap (Verified \cup UnlistedTools) = {}
    /\ NoTool \notin Verified \cup UnlistedTools \cup NonTool /\ Aictl \in NonTool /\ AnyTool \in UnlistedTools
    /\ DOMAIN CardOwners \subseteq Verified /\ \A card \in DOMAIN CardOwners : card \in CardOwners[card]
    /\ CloudHosted \subseteq Verified /\ IsFiniteSet(Verified) /\ \A ts \in SUBSET Verified : ts # All
    /\ LabelOrder \in [DOMAIN LabelOrder -> Nat] /\ IsInjective(LabelOrder) /\ MaxScopeMoves \in Nat
ASSUME SnapshotFields == \A s \in Snapshots :
    /\ s = [field \in DOMAIN s |-> s[field]]
    /\ {"tools", "sessions", "telemetry", "configs", "mcp", "events", "memory", "hiddenUnlisted"} \subseteq DOMAIN s
\* a snapshot has one row of a tool, which counts the tool's rows of sessions
ASSUME SnapshotRows == \A s \in Snapshots :
    /\ IsFiniteSet(s.tools) /\ IsFiniteSet(s.sessions)
    /\ \A t \in s.tools : /\ t.tool \in Verified \cup UnlistedTools \cup NonTool
                           /\ {t.sessions, t.liveTokens, t.pids} \subseteq Nat /\ IsFiniteSet(t.procs)
    /\ \A t, u \in s.tools : t.tool = u.tool => t = u
    /\ \A r \in s.sessions : r.tool \in Verified \cup UnlistedTools \cup {NoTool}
    /\ \A r \in s.sessions : r.tool \in Verified => \E t \in s.tools : t.tool = r.tool /\ t.sessions > 0
    /\ IsFiniteSet(DOMAIN s.calls) /\ \A id \in DOMAIN s.calls : s.calls[id] \in Nat

VARIABLES
    snap,           \* the snapshot
    ticked,         \* selectedTools: All, or the tools that are ticked
    search,         \* the tools that the search matches, or NoMatch
    pickedAgent,    \* of CAgentsTab: `selected`
    tabTool,        \* of ToolTabs' parent: the tool whose tab is shown
    scopeMoves
scopeVars == <<snap, ticked, search, pickedAgent, tabTool, scopeMoves>>

-----------------------------------------------------------------------------
(* toolScope.js                                                            *)
IsFiltered(ts) == ts # All
IsSelected(id, ts) == ts = All \/ id \in NonTool \cup {NoTool} \/ id \in ts
IsConfigSelected(id, ts) ==
    IF ts # All /\ id \in DOMAIN CardOwners THEN CardOwners[id] \cap ts # {} ELSE IsSelected(id, ts)
IsMemorySelected(owners, ts) == ts = All \/ owners = {} \/ owners \cap ts # {}
FilterByTool(rows, ts) == {r \in rows : IsSelected(r.tool, ts)}
IsUnlisted(id) == id \notin Verified \cup NonTool \cup {NoTool}
CountUnlisted(rows) == Cardinality({r \in rows : IsUnlisted(r.tool)})
ResolveActiveTool(offered, current) ==
    IF current \in Range(offered) THEN current ELSE IF offered = <<>> THEN NoTool ELSE Head(offered)

\* sumByTool: the counts of the selected tools, and those that belong to no tool anybody can name
SumByTool(counts, ts) ==
    LET sum(ids) == SumFunctionOnSet(counts, ids)
        Unattributed == {NoTool, AnyTool}
    IN  [total |-> IF ts = All THEN sum(DOMAIN counts)
                   ELSE sum({id \in DOMAIN counts \ Unattributed : IsSelected(id, ts)}),
         hidden |-> IF ts = All THEN 0 ELSE sum(DOMAIN counts \cap Unattributed)]

-----------------------------------------------------------------------------
(* tools.js                                                                *)
\* orderToolsByActivity: sessions, then processes, then tokens, then the label
RankOf(x) == <<x.sessions, Cardinality(x.procs), x.liveTokens, 0 - LabelOrder[x.tool]>>
MoreActive(t, u) == \E i \in 1..4 : RankOf(t)[i] > RankOf(u)[i] /\ \A j \in 1..(i-1) : RankOf(t)[j] = RankOf(u)[j]
OrderByActivity(tools) == Arranged(tools, {x \in tools \X tools : MoreActive(x[1], x[2])})

\* cloudOnly; a configuration declares local data, that there is none, or nothing
CloudOnly(t, s) ==
    LET declared == {c.local : c \in {c \in s.configs : c.tool = t.tool}} \ {"unknown"}
    IN  /\ t.sessions = 0
        /\ IF declared # {} THEN declared = {"none"}
           ELSE t.tool \in CloudHosted /\ t.files = {} /\ t.procs = {}
ScopeIsCloudOnly(s, ts) ==
    /\ IsFiltered(ts) /\ ts # {}
    /\ \A id \in ts : LET rows == {t \in s.tools : t.tool = id}
                      IN  IF rows = {} THEN id \in CloudHosted ELSE \A t \in rows : CloudOnly(t, s)

-----------------------------------------------------------------------------
(* filterSnap                                                              *)
\* defect: the card of one id is taken for the tool of that id
FilterSnapByCard(s, ts, q) ==
    [s EXCEPT !.tools = {t \in @ : t.tool \in Verified \cup {Aictl} /\ IsSelected(t.tool, ts) /\ (q = NoMatch \/ t.tool \in q)},
              !.sessions = FilterByTool(@, ts), !.telemetry = FilterByTool(@, ts), !.configs = FilterByTool(@, ts),
              !.mcp = FilterByTool(@, ts), !.events = FilterByTool(@, ts),
              !.memory = {m \in @ : IsMemorySelected(m.owners, ts)},
              !.hiddenUnlisted = 0]
FilterSnap(s, ts, q) ==
    [s EXCEPT
        !.tools = {t \in @ : t.tool \in Verified \cup {Aictl} /\ IsSelected(t.tool, ts) /\ (q = NoMatch \/ t.tool \in q)},
        !.sessions = FilterByTool(@, ts), !.telemetry = FilterByTool(@, ts),
        !.configs = {c \in @ : IsConfigSelected(c.tool, ts)},
        !.mcp = FilterByTool(@, ts), !.events = FilterByTool(@, ts),
        !.memory = {m \in @ : IsMemorySelected(m.owners, ts)},
        !.hiddenUnlisted = IF ~IsFiltered(ts) THEN 0
                           ELSE CountUnlisted(s.sessions) + CountUnlisted(s.telemetry) + CountUnlisted(s.configs)
                                + CountUnlisted(s.mcp) + CountUnlisted(s.events)]
FilteredSnap == FilterSnap(snap, ticked, search)

\* verifiedTools: what the header offers, in the order of the snapshot
VerifiedTools == {t.tool : t \in snap.tools} \cap Verified

\* CAgentsTab: the agents that run, then the others; the one picked counts while it is on offer
IsActive(t) == t.pids > 0 \/ t.sessions > 0 \/ t.procs # {}
AgentList(active) ==
    LET rows == OrderByActivity({t \in FilteredSnap.tools : t.tool # Aictl /\ IsActive(t) = active})
    IN  [i \in DOMAIN rows |-> rows[i].tool]
\* defect: the agent stays although the filter no longer offers it
ShownAgentSticky == IF pickedAgent # NoTool THEN pickedAgent ELSE ResolveActiveTool(AgentList(TRUE) \o AgentList(FALSE), NoTool)
ShownAgent ==
    LET all == AgentList(TRUE) \o AgentList(FALSE)
        first == IF AgentList(TRUE) # <<>> THEN AgentList(TRUE) ELSE all
    IN  IF pickedAgent \in Range(all) THEN pickedAgent ELSE ResolveActiveTool(first, NoTool)

\* ToolTabs: the tools with sessions, most of them first, that the filter selects
TabTools == {t \in {s.tool : s \in snap.sessions} \ {NoTool} : IsSelected(t, ticked)}
RowsOf(t) == Cardinality({s \in snap.sessions : s.tool = t})
MoreRows(t, u) == RowsOf(t) > RowsOf(u) \/ (RowsOf(t) = RowsOf(u) /\ LabelOrder[t] < LabelOrder[u])
OfferedTabs == Arranged(TabTools, {x \in TabTools \X TabTools : MoreRows(x[1], x[2])})
TabIsOffered == OfferedTabs = <<>> \/ tabTool \in Range(OfferedTabs)

-----------------------------------------------------------------------------
\* The effect of ToolTabs comes before anything else can happen.
ScopeMove == TabIsOffered /\ scopeMoves < MaxScopeMoves /\ scopeMoves' = scopeMoves + 1

TabEffect ==
    /\ ~TabIsOffered /\ tabTool' = ResolveActiveTool(OfferedTabs, tabTool)
    /\ UNCHANGED <<snap, ticked, search, pickedAgent, scopeMoves>>
NewSnapshot(s) ==
    /\ ScopeMove /\ s # snap /\ snap' = s
    /\ UNCHANGED <<ticked, search, pickedAgent, tabTool>>
\* defect: all are ticked when all are offered but one
ToggleScopeToolEarly(t) ==
    /\ ScopeMove /\ t \in VerifiedTools
    /\ ticked' = IF ticked = All THEN VerifiedTools \ {t}
                  ELSE IF t \in ticked THEN ticked \ {t}
                  ELSE IF Cardinality(ticked) + 1 >= Cardinality(VerifiedTools) - 1 THEN All ELSE ticked \cup {t}
    /\ UNCHANGED <<snap, search, pickedAgent, tabTool>>
ToggleScopeTool(t) ==
    /\ ScopeMove /\ t \in VerifiedTools
    /\ ticked' = IF ticked = All THEN VerifiedTools \ {t}
                  ELSE IF t \in ticked THEN ticked \ {t}
                  ELSE IF Cardinality(ticked) + 1 >= Cardinality(VerifiedTools) THEN All ELSE ticked \cup {t}
    /\ UNCHANGED <<snap, search, pickedAgent, tabTool>>
\* setTools, from All and None
SetAllTools(ts) ==
    /\ ScopeMove /\ ts # ticked /\ ticked' = ts
    /\ UNCHANGED <<snap, search, pickedAgent, tabTool>>
SetSearch(q) ==
    /\ ScopeMove /\ q # search /\ search' = q
    /\ UNCHANGED <<snap, ticked, pickedAgent, tabTool>>
PickAgent(t) ==
    /\ ScopeMove /\ t \in Range(AgentList(TRUE) \o AgentList(FALSE)) /\ t # ShownAgent
    /\ pickedAgent' = t
    /\ UNCHANGED <<snap, ticked, search, tabTool>>
PickTab(t) ==
    /\ ScopeMove /\ Len(OfferedTabs) > 1 /\ t \in Range(OfferedTabs) /\ t # tabTool
    /\ tabTool' = t
    /\ UNCHANGED <<snap, ticked, search, pickedAgent>>

ScopeInit ==
    /\ snap \in Snapshots /\ ticked \in {All} \cup SUBSET Verified /\ search = NoMatch
    /\ pickedAgent = NoTool /\ tabTool = NoTool /\ scopeMoves = 0
ScopeNext ==
    \/ TabEffect
    \/ \E s \in Snapshots : NewSnapshot(s)
    \/ \E t \in Verified : ToggleScopeTool(t) \/ PickAgent(t)
    \/ \E t \in Verified \cup UnlistedTools : PickTab(t)
    \/ SetAllTools(All) \/ SetAllTools({})
    \/ \E q \in {NoMatch} \cup {{t} : t \in Verified} : SetSearch(q)
ScopeSpec == ScopeInit /\ [][ScopeNext]_scopeVars

-----------------------------------------------------------------------------
ScopeTypeOK ==
    /\ snap \in Snapshots /\ ticked \in {All} \cup SUBSET Verified /\ search \in {NoMatch} \cup SUBSET Verified
    /\ pickedAgent \in Verified \cup {NoTool} /\ tabTool \in Verified \cup UnlistedTools \cup {NoTool}
    /\ scopeMoves \in 0..MaxScopeMoves

\* Under a filter a row of a list is shown, or its tool is one that the user did not tick, or the
\* note counts it: none goes without a word.
NothingVanishes ==
    LET kept == FilteredSnap
        gone(all, rest) == {r \in all \ rest : r.tool \notin Verified}
    IN  Cardinality(gone(snap.sessions, kept.sessions)) + Cardinality(gone(snap.telemetry, kept.telemetry))
        + Cardinality(gone(snap.configs, kept.configs)) + Cardinality(gone(snap.mcp, kept.mcp))
        + Cardinality(gone(snap.events, kept.events)) = kept.hiddenUnlisted
\* A tool that is ticked keeps its settings on the screen, whichever card they are on.
CardsOfTicked ==
    \A c \in snap.configs : \A t \in {c.tool} \cup (IF c.tool \in DOMAIN CardOwners THEN CardOwners[c.tool] ELSE {}) :
        t \in Verified /\ (ticked = All \/ t \in ticked) => c \in FilteredSnap.configs
\* What the user picked is shown while it is on offer, and what is shown is always on offer.
PicksOnOffer ==
    /\ ShownAgent # NoTool => ShownAgent \in {t.tool : t \in FilteredSnap.tools} \ {Aictl}
    /\ ShownAgent = NoTool => FilteredSnap.tools \subseteq {t \in snap.tools : t.tool = Aictl}
    /\ TabIsOffered /\ OfferedTabs # <<>> => \E s \in snap.sessions : s.tool = tabTool /\ IsSelected(s.tool, ticked)
\* "Runs in the vendor's cloud" never covers a session of a tool that is ticked.
CloudHidesNothing ==
    ScopeIsCloudOnly(snap, ticked) => ~\E s \in snap.sessions : s.tool \in ticked
\* A click on a tool of the filter changes that tool and no other of those on offer, as long as
\* every ticked tool is on offer.
ToggleChangesOne ==
    \A t \in Verified :
         (ToggleScopeTool(t) /\ (ticked = All \/ ticked \subseteq VerifiedTools)) =>
            \A u \in VerifiedTools : (IsSelected(u, ticked) = IsSelected(u, ticked')) <=> u # t
ScopeHolds == NothingVanishes /\ CardsOfTicked /\ PicksOnOffer /\ CloudHidesNothing
=============================================================================
