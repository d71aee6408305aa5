----------------------------- MODULE SessionRows -----------------------------
(***************************************************************************)
(* The lists of sessions.  Several collectors report one session, each     *)
(* under an id of its own and with what it knows; dedupeSessions makes one *)
(* row of them that is found by every id (selectors.js).  Two screens list *)
(* the rows: one picks a session and shows its flow (CDashboardTab), one   *)
(* filters, sorts and shows a summary (CSessionsTab).  New answers come at *)
(* any time, with other rows and other ids for the same session.           *)
(***************************************************************************)
EXTENDS Integers, SequencesExt, Places

CONSTANTS
    RowIds,         \* the ids of rows
    Uuids,          \* those that are the session's own id in its tool
    RowTools,       \* the tools
    Live,           \* the duration of a session that has not ended
    StartWindow, DurationWindow,    \* within these two rows of a tool are one session
    RowAnswers,     \* the answers: sequences of rows
    NoRow,          \* no session, every tool, every agent, no text
    MaxRowMoves     \* bound: answers and steps of the user
RawRows == [id : RowIds, tool : RowTools, started : Nat, duration : Nat \cup {Live},
            tokens : Nat, files : Nat, seen : Nat, errors : Nat]
ASSUME RowData ==
    /\ Uuids \subseteq RowIds /\ {StartWindow, DurationWindow, MaxRowMoves} \subseteq Nat
    /\ NoRow \notin RowIds \cup RowTools /\ \A some \in (SUBSET RowIds) \cup (SUBSET RowTools) : some # NoRow
    /\ RowAnswers \subseteq Seq(RawRows)

VARIABLES
    reported,                       \* the rows of the newest answer
    dashTools, dashFind, dashPick,  \* of CDashboardTab: the agents, the ids that the text matches, the session picked
    status, agent, order,           \* of CSessionsTab: its filters
    headerTools,                    \* the filter of the header
    chosen,                         \* of CSessionsTab: `selectedId`
    rowMoves
rowVars == <<reported, dashTools, dashFind, dashPick, status, agent, order, headerTools, chosen, rowMoves>>

-----------------------------------------------------------------------------
(* dedupeSessions.  ids: the id of the row first, then the alternate ones  *)
Raw(r) == [ids |-> <<r.id>>, tool |-> r.tool, started |-> r.started, duration |-> r.duration,
           tokens |-> r.tokens, files |-> r.files, seen |-> r.seen, errors |-> r.errors]
FindRow(rows, id) == {i \in DOMAIN rows : id \in Range(rows[i].ids)}
\* defect: the row is known by the id of the newer one only
MergeKeepsOne(a, b) ==
    LET keep == IF b.seen > a.seen THEN b ELSE a
        other == IF b.seen > a.seen THEN a ELSE b
    IN  [keep EXCEPT !.tokens = Max({@, other.tokens}), !.files = Max({@, other.files})]
\* mergeSessionRows: the newer one, with the larger counts and what it lacks from the other; an id of
\* the tool's own goes first
AllIds(keep, other) == keep.ids \o Picked(other.ids, {i \in DOMAIN other.ids : other.ids[i] \notin Range(keep.ids)})
FirstId(ids) ==
    LET own == {i \in DOMAIN ids : ids[i] \in Uuids}
    IN  ids[IF own # {} THEN Min(own) ELSE 1]
OwnFirst(ids) == <<FirstId(ids)>> \o Picked(ids, {i \in DOMAIN ids : ids[i] # FirstId(ids)})
MergeSessionRows(a, b) ==
    LET keep == IF b.seen > a.seen THEN b ELSE a
        other == IF b.seen > a.seen THEN a ELSE b
    IN  [keep EXCEPT !.tokens = Max({@, other.tokens}), !.files = Max({@, other.files}),
                     !.duration = IF @ = Live THEN other.duration ELSE @,
                     !.ids = OwnFirst(AllIds(keep, other))]
Apart(x, y) == IF x > y THEN x - y ELSE y - x
IsNearDuplicate(a, b) ==
    /\ a.tool = b.tool /\ Apart(a.started, b.started) <= StartWindow
    /\ \/ a.duration = Live /\ b.duration = Live
       \/ a.duration # Live /\ b.duration # Live /\ Apart(a.duration, b.duration) <= DurationWindow
\* the rows under the id that each came with first
AddById(rows, r) ==
    LET same == {i \in DOMAIN rows : rows[i].key = r.id}
    IN  IF same = {} THEN Append(rows, [key |-> r.id, row |-> Raw(r)])
        ELSE [rows EXCEPT ![Min(same)].row = MergeSessionRows(@, Raw(r))]
ById(raw) ==
    LET rows[n \in 0..Len(raw)] == IF n = 0 THEN <<>> ELSE AddById(rows[n-1], raw[n])
    IN  rows[Len(raw)]
\* then those that are near each other
AddNear(rows, r) ==
    LET near == {i \in DOMAIN rows : IsNearDuplicate(rows[i], r)}
    IN  IF near = {} THEN Append(rows, r)
        ELSE [rows EXCEPT ![Min(near)] = MergeSessionRows(@, r)]
DedupeSessions(raw) ==
    LET byId == ById(raw)
        rows[n \in 0..Len(byId)] == IF n = 0 THEN <<>> ELSE AddNear(rows[n-1], byId[n].row)
    IN  rows[Len(byId)]
AllSessions == DedupeSessions(reported)
ASSUME NoRowIsNone == \A answer \in RowAnswers : NoRow \notin Range(DedupeSessions(answer))

-----------------------------------------------------------------------------
(* CDashboardTab                                                           *)
SessionTools == {r.tool : r \in Range(reported)}
DashRows ==
    LET all == AllSessions
    IN  Picked(all, {i \in DOMAIN all : /\ dashTools = NoRow \/ all[i].tool \in dashTools
                                        /\ dashFind = NoRow \/ all[i].ids[1] \in dashFind})
\* defect: the pick is found by the first id only
DashSelectedFirst ==
    LET own == {i \in DOMAIN DashRows : DashRows[i].ids[1] = dashPick}
    IN  IF DashRows = <<>> THEN NoRow ELSE IF own # {} THEN DashRows[Min(own)] ELSE DashRows[1]
\* selectedObj: the session picked while the list shows it, otherwise the first
DashSelected ==
    LET picked == FindRow(DashRows, dashPick)
    IN  IF DashRows = <<>> THEN NoRow ELSE IF picked # {} THEN DashRows[Min(picked)] ELSE DashRows[1]

\* CSessionsTab
Ticked(t) == headerTools = NoRow \/ t \in headerTools
StatusOf(r) == IF r.duration = Live THEN "active" ELSE "ended"
Later(r, s) == CASE order = "time-asc" -> r.started < s.started
                 [] order = "tokens-desc" -> r.tokens > s.tokens
                 [] order = "files-desc" -> r.files > s.files
                 [] OTHER -> r.started > s.started
Listing(rows) ==
    {x \in (DOMAIN rows) \X (DOMAIN rows) :
        Later(rows[x[1]], rows[x[2]]) \/ (~Later(rows[x[2]], rows[x[1]]) /\ x[1] < x[2])}
StableSort(rows) == Ordered(rows, Listing(rows))
Agents == {AllSessions[i].tool : i \in {i \in DOMAIN AllSessions : Ticked(AllSessions[i].tool)}}
Statuses ==
    LET own == {r \in Range(AllSessions) : Ticked(r.tool)}
    IN  {StatusOf(r) : r \in own} \cup (IF \E r \in own : r.errors > 0 THEN {"error"} ELSE {})
HasStatus(r) == status = "all" \/ (status = "error" /\ r.errors > 0) \/ StatusOf(r) = status
\* defect: an agent picked before the header left it out still counts
MatchesSticky(r) == Ticked(r.tool) /\ HasStatus(r) /\ (agent = NoRow \/ r.tool = agent)
Matches(r) == Ticked(r.tool) /\ HasStatus(r) /\ (agent = NoRow \/ ~Ticked(agent) \/ r.tool = agent)
FilteredRows ==
    LET all == AllSessions
        rows == Picked(all, {i \in DOMAIN all : Matches(all[i])}) \o <<>>     \* the same sequence; TLC works it out once
    IN  StableSort(rows)
ChosenRow == LET rows == FilteredRows IN Picked(rows, {i \in DOMAIN rows : rows[i].ids[1] = chosen})
ChooseEffect == chosen # NoRow \/ FilteredRows = <<>>

-----------------------------------------------------------------------------
\* The effect that selects the first row comes before anything else.
RowMove == ChooseEffect /\ rowMoves < MaxRowMoves /\ rowMoves' = rowMoves + 1
SelectFirst ==
    /\ ~ChooseEffect /\ chosen' = FilteredRows[1].ids[1]
    /\ UNCHANGED <<reported, dashTools, dashFind, dashPick, status, agent, order, headerTools, rowMoves>>
Reported(answer) ==
    /\ RowMove /\ answer # reported /\ reported' = answer
    /\ UNCHANGED <<dashTools, dashFind, dashPick, status, agent, order, headerTools, chosen>>
\* defect: from all agents the first click leaves only the one clicked
ToggleAgentFromNone(t) ==
    /\ RowMove /\ t \in SessionTools
    /\ LET now == IF dashTools = NoRow THEN {} ELSE dashTools
           next == IF t \in now THEN now \ {t} ELSE now \cup {t}
       IN  dashTools' = IF Cardinality(next) = Cardinality(SessionTools) THEN NoRow ELSE next
    /\ UNCHANGED <<reported, dashFind, dashPick, status, agent, order, headerTools, chosen>>
\* toggleTool of CDashboardTab
ToggleAgent(t) ==
    /\ RowMove /\ t \in SessionTools
    /\ LET now == IF dashTools = NoRow THEN SessionTools ELSE dashTools
           next == IF t \in now THEN now \ {t} ELSE now \cup {t}
       IN  dashTools' = IF Cardinality(next) = Cardinality(SessionTools) THEN NoRow ELSE next
    /\ UNCHANGED <<reported, dashFind, dashPick, status, agent, order, headerTools, chosen>>
FindSessions(ids) ==
    /\ RowMove /\ ids # dashFind /\ dashFind' = ids
    /\ UNCHANGED <<reported, dashTools, dashPick, status, agent, order, headerTools, chosen>>
PickRow(i) ==
    /\ RowMove /\ i \in DOMAIN DashRows /\ dashPick' = DashRows[i].ids[1] /\ dashPick' # dashPick
    /\ UNCHANGED <<reported, dashTools, dashFind, status, agent, order, headerTools, chosen>>
SetStatus(s) ==
    /\ RowMove /\ s # status /\ s \in Statuses \cup {"all"} /\ status' = s
    /\ UNCHANGED <<reported, dashTools, dashFind, dashPick, agent, order, headerTools, chosen>>
SetAgent(a) ==
    /\ RowMove /\ a # agent /\ a \in Agents \cup {NoRow} /\ agent' = a
    /\ UNCHANGED <<reported, dashTools, dashFind, dashPick, status, order, headerTools, chosen>>
SetOrder(o) ==
    /\ RowMove /\ o # order /\ order' = o
    /\ UNCHANGED <<reported, dashTools, dashFind, dashPick, status, agent, headerTools, chosen>>
SetHeader(ts) ==
    /\ RowMove /\ ts # headerTools /\ headerTools' = ts
    /\ UNCHANGED <<reported, dashTools, dashFind, dashPick, status, agent, order, chosen>>
ChooseRow(i) ==
    /\ RowMove /\ i \in DOMAIN FilteredRows /\ chosen' = FilteredRows[i].ids[1] /\ chosen' # chosen
    /\ UNCHANGED <<reported, dashTools, dashFind, dashPick, status, agent, order, headerTools>>

Orders == {"time-desc", "time-asc", "tokens-desc", "files-desc"}
RowsInit ==
    /\ reported \in RowAnswers /\ dashTools = NoRow /\ dashFind = NoRow /\ dashPick = NoRow
    /\ status = "all" /\ agent = NoRow /\ order = "time-desc" /\ headerTools = NoRow /\ chosen = NoRow /\ rowMoves = 0
RowsNext ==
    \/ SelectFirst
    \/ \E answer \in RowAnswers : Reported(answer)
    \/ \E t \in RowTools : ToggleAgent(t)
    \/ \E ids \in {NoRow} \cup {{id} : id \in RowIds} : FindSessions(ids)
    \/ \E i \in 1..Cardinality(RowIds) : PickRow(i) \/ ChooseRow(i)
    \/ \E s \in {"all", "active", "ended", "error"} : SetStatus(s)
    \/ \E a \in RowTools \cup {NoRow} : SetAgent(a)
    \/ \E o \in Orders : SetOrder(o)
    \/ \E ts \in {NoRow} \cup SUBSET RowTools : SetHeader(ts)
RowsSpec == RowsInit /\ [][RowsNext]_rowVars

-----------------------------------------------------------------------------
RowsTypeOK ==
    /\ reported \in RowAnswers /\ dashTools \in {NoRow} \cup SUBSET RowTools /\ dashFind \in {NoRow} \cup SUBSET RowIds
    /\ {dashPick, chosen} \subseteq RowIds \cup {NoRow} /\ agent \in RowTools \cup {NoRow}
    /\ status \in {"all", "active", "ended", "error"} /\ order \in Orders
    /\ headerTools \in {NoRow} \cup SUBSET RowTools /\ rowMoves \in 0..MaxRowMoves

\* A session that several collectors report is one row: every id that was reported finds exactly
\* one, with at least the tokens and files that came with it.
EveryIdFinds ==
    \A r \in Range(reported) :
        LET found == FindRow(AllSessions, r.id)
        IN  /\ Cardinality(found) = 1
            /\ \A i \in found : AllSessions[i].tokens >= r.tokens /\ AllSessions[i].files >= r.files
\* The session whose flow is shown is the one picked as long as any collector reports it under the
\* id it was picked by and the list shows it.
PickStays ==
    /\ dashPick # NoRow /\ FindRow(DashRows, dashPick) # {} => dashPick \in Range(DashSelected.ids)
    /\ DashSelected = NoRow <=> DashRows = <<>>
\* An agent that is picked and no longer on offer takes nothing from the list.
AgentOnOffer ==
    agent # NoRow /\ ~Ticked(agent) /\ status = "all" => {r \in Range(AllSessions) : Ticked(r.tool)} = Range(FilteredRows)
\* The rows are in the order chosen, each once.
ListInOrder ==
    /\ \A i, j \in DOMAIN FilteredRows : i < j => ~Later(FilteredRows[j], FilteredRows[i])
    /\ IsInjective(FilteredRows) /\ Len(ChosenRow) <= 1
RowsHold == EveryIdFinds /\ PickStays /\ AgentOnOffer /\ ListInOrder
\* A click on an agent changes what is listed of that agent only, while every agent that is on is
\* on offer.
AgentAlone ==
    \A t \in RowTools :
         (ToggleAgent(t) /\ (dashTools = NoRow \/ dashTools \subseteq SessionTools)) =>
            \A u \in SessionTools : ((dashTools = NoRow \/ u \in dashTools) = (dashTools' = NoRow \/ u \in dashTools')) <=> u # t
=============================================================================
