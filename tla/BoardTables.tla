---------------------------- MODULE BoardTables ----------------------------
(***************************************************************************)
(* The tables of the board.  A builder turns the board's data into rows,   *)
(* those of the agents and of the models into a tree of two levels; the    *)
(* table sorts them, cuts them at a limit and groups what is left.  The    *)
(* user sorts by a column, folds, groups, shows all; the board's data      *)
(* comes again at any time and keeps what the user chose.                  *)
(*                                                                         *)
(* A row has two values to sort by, a text and a number that may be        *)
(* missing; what else its cells show, the widths and the hidden columns    *)
(* are left out.  A list of another panel has one row for each entry: the  *)
(* panels differ in the column, the direction and the limit they start     *)
(* with.                                                                   *)
(***************************************************************************)
EXTENDS Integers, SequencesExt, Places

CONSTANTS
    Agent,          \* a sequence: the agents the server may know, in the order of their names
    GroupOf,        \* of each agent: the tool, project or model it is grouped under
    Missing,        \* no value, no parent, no choice of the user's
    Unlisted,       \* an agent that the board's data leaves out
    CostOf,         \* of each agent: its number, when that is known
    Limit,          \* how many rows a table with a limit shows
    MaxChange       \* bound: entries that come or go from one answer to the next
ASSUME BoardAgents ==
    /\ Agent \in Seq(Range(Agent)) /\ IsInjective(Agent) /\ DOMAIN GroupOf = Range(Agent) /\ CostOf \in [Range(Agent) -> Nat]
    /\ {Missing, Unlisted} \cap Range(Agent) = {} /\ Missing # Unlisted /\ Missing \notin Nat
    /\ Limit \in Nat \ {0} /\ MaxChange \in Nat \ {0}

Ranked(a) == CHOOSE i \in DOMAIN Agent : Agent[i] = a
Groups == Range(GroupOf)

\* The answers: any of the agents; some are the agents' of the first one or of one that is left out.
AnswerOf(listed, up, known) ==
    Picked([i \in DOMAIN Agent |-> [id |-> Agent[i], parent |-> up[i], cost |-> IF Agent[i] \in known THEN CostOf[Agent[i]] ELSE Missing]],
           {i \in DOMAIN Agent : Agent[i] \in listed})
Parents == {up \in [DOMAIN Agent -> {Missing, Unlisted, Agent[1]}] : up[1] = Missing}
Answers == {AnswerOf(listed, up, known) : listed \in SUBSET Range(Agent), up \in Parents, known \in SUBSET Range(Agent)}

VARIABLES
    panel,                         \* which of the tables
    agents,                        \* of the board's data
    sort, showAll, folded, mode    \* what the user chose: column and direction, all rows, folds, groups
tableVars == <<panel, agents, sort, showAll, folded, mode>>

-----------------------------------------------------------------------------
(* The panels                                                              *)
Columns == {"name", "cost"}
Numeric(c) == c = "cost"
Table(kind, col, dir, limit) == [kind |-> kind, sort |-> [col |-> col, dir |-> dir], limit |-> limit]
ListPanel(col, dir, limit) == Table("list", col, dir, limit)

AgentsPanel == Table("agents", "cost", "asc", Limit)       \* status is a number that rises
ByModelPanel == Table("models", "cost", "desc", 0)
panelByRole == ListPanel("cost", "desc", 0)
panelProjects == ListPanel("cost", "desc", 0)
panelPrompts == ListPanel("cost", "desc", Limit)
panelProjectPrompts == ListPanel("cost", "desc", 0)
panelSkills == ListPanel("cost", "desc", 0)
panelToolCalls == ListPanel("cost", "desc", 0)
panelConfirms == ListPanel("cost", "desc", 0)
panelErrors == ListPanel("cost", "desc", 0)
panelLoops == ListPanel("cost", "desc", 0)
panelChanges == ListPanel("cost", "desc", Limit)
panelTests == ListPanel("cost", "desc", 0)
panelMemFiles == ListPanel("cost", "desc", 0)
panelProcs == ListPanel("cost", "desc", 0)
panelSelf == ListPanel("cost", "desc", 0)
chartTable == ListPanel("name", "desc", 0)

Panels == {AgentsPanel, ByModelPanel, panelByRole, panelProjects, panelPrompts, panelProjectPrompts,
           panelSkills, panelToolCalls, panelConfirms, panelErrors, panelLoops, panelChanges, panelTests,
           panelMemFiles, panelProcs, panelSelf, chartTable}

-----------------------------------------------------------------------------
(* The rows of a panel                                                     *)
Row(kind, id, parent, level, group, cost) ==
    [id |-> <<kind, id>>, parent |-> <<kind, parent>>, level |-> level, group |-> group,
     name |-> IF kind = "agent" THEN Ranked(id) ELSE 0, cost |-> cost, count |-> 0]
AgentRow(a, level) == Row("agent", a.id, a.parent, level, GroupOf[a.id], a.cost)

\* panelAgents: the agents with no parent, each with its own agents unless it is folded
AgentsUnder(id) == Picked(agents, {i \in DOMAIN agents : agents[i].parent = id})
AgentBlock(a) ==
    LET kids == AgentsUnder(a.id)
    IN  <<AgentRow(a, 0)>> \o IF <<"agent", a.id>> \in folded THEN <<>> ELSE [i \in DOMAIN kids |-> AgentRow(kids[i], 1)]
panelAgents ==
    LET roots == AgentsUnder(Missing)
    IN  FlattenSeq([i \in DOMAIN roots |-> AgentBlock(roots[i])])

\* panelByModel: the models, each with the listed agents that used it once it is unfolded
UsersOf(g) == Picked(agents, {i \in DOMAIN agents : GroupOf[agents[i].id] = g})
UserRow(a, g) == [AgentRow(a, 1) EXCEPT !.parent = <<"model", g>>]
ModelBlock(g, n) ==
    LET users == UsersOf(g)
    IN  <<[Row("model", g, Missing, 0, g, Len(users)) EXCEPT !.name = n]>>
        \o IF <<"model", g>> \notin folded THEN <<>> ELSE [i \in DOMAIN users |-> UserRow(users[i], g)]
panelByModel ==
    LET new == Picked([i \in DOMAIN Agent |-> i],
                      {i \in DOMAIN Agent : \A j \in 1..(i-1) : GroupOf[Agent[j]] # GroupOf[Agent[i]]})
    IN  FlattenSeq([n \in DOMAIN new |-> ModelBlock(GroupOf[Agent[new[n]]], n)])

Rows == CASE panel.kind = "agents" -> panelAgents
          [] panel.kind = "models" -> panelByModel
          [] OTHER -> [i \in DOMAIN agents |-> AgentRow([agents[i] EXCEPT !.parent = Missing], 0)]
Tree == panel.kind # "list"

-----------------------------------------------------------------------------
(* tableModel                                                              *)
\* compare: a missing value is last in either direction
Before(r, s, by) ==
    LET x == IF by.col = "cost" THEN r.cost ELSE r.name
        y == IF by.col = "cost" THEN s.cost ELSE s.name
    IN  IF x = Missing \/ y = Missing THEN x # Missing /\ y = Missing
        ELSE IF by.dir = "asc" THEN x < y ELSE x > y
\* Array.sort keeps the order of equal rows.
BeforePlace(rows, by) ==
    {x \in (DOMAIN rows) \X (DOMAIN rows) :
        Before(rows[x[1]], rows[x[2]], by) \/ (~Before(rows[x[2]], rows[x[1]], by) /\ x[1] < x[2])}
Stable(rows, by) == Ordered(rows, BeforePlace(rows, by))
\* sortRows: in a tree the roots are sorted, and the others stay under theirs
RowsUnder(rows, r) == Picked(rows, {i \in DOMAIN rows : rows[i].level = 1 /\ rows[i].parent = r.id})
SortRows(rows, by, tree) ==
    IF ~tree THEN Stable(rows, by)
    ELSE LET roots == Stable(Picked(rows, {i \in DOMAIN rows : rows[i].level = 0}), by)
         IN  FlattenSeq([i \in DOMAIN roots |-> <<roots[i]>> \o RowsUnder(rows, roots[i])])

Sorted == IF sort = Missing THEN panel.sort ELSE sort
Total == Len(Rows)
Limited == panel.limit # 0 /\ ~showAll /\ Total > panel.limit
List == LET whole == SortRows(Rows, Sorted, Tree)
        IN  IF Limited THEN SubSeq(whole, 1, Min({panel.limit, Len(whole)})) ELSE whole

\* defect: the agents under another one are counted beside it
GroupRowAll(g, members) ==
    [Row("group", g, Missing, 0, g, FoldSeq(LAMBDA r, s : s + IF r.cost = Missing THEN 0 ELSE r.cost, 0, members))
       EXCEPT !.count = Len(members)]
\* groupRow: its figures are sums over the agents listed in it that have no parent
GroupRow(g, members) ==
    LET top == {i \in DOMAIN members : members[i].level = 0}
    IN  [Row("group", g, Missing, 0, g, FoldSeq(LAMBDA r, s : s + IF r.level = 1 \/ r.cost = Missing THEN 0 ELSE r.cost,
                                                0, members))
           EXCEPT !.count = Cardinality(top)]
GroupBlock(list, g) ==
    LET members == Picked(list, {i \in DOMAIN list : list[i].group = g})
    IN  <<GroupRow(g, members)>> \o IF <<"group", g>> \in folded THEN <<>> ELSE members
Grouped ==
    LET list == List
        new == Picked([i \in DOMAIN list |-> i], {i \in DOMAIN list : \A j \in 1..(i-1) : list[j].group # list[i].group})
    IN  FlattenSeq([n \in DOMAIN new |-> GroupBlock(list, list[new[n]].group)])
ShownRows == IF panel.kind = "agents" /\ mode = "group" THEN Grouped ELSE List

-----------------------------------------------------------------------------
\* nextSort: numbers start with the highest, text with the lowest
NextSort(col, current) ==
    LET start == IF Numeric(col) THEN "desc" ELSE "asc"
        other == IF Numeric(col) THEN "asc" ELSE "desc"
    IN  [col |-> col, dir |-> IF current.col = col /\ current.dir = start THEN other ELSE start]

SortBy(col) ==
    /\ sort' = NextSort(col, Sorted)
    /\ UNCHANGED <<panel, agents, showAll, folded, mode>>
ShowMore ==
    /\ \/ Limited /\ showAll' = TRUE
       \/ showAll /\ panel.limit # 0 /\ Total > panel.limit /\ showAll' = FALSE
    /\ UNCHANGED <<panel, agents, sort, folded, mode>>
\* setFold, from the arrow of a row: an agent with agents of its own, a model, a group
SetFold(r) ==
    /\ \/ r.id[1] \in {"group", "model"}
       \/ panel.kind = "agents" /\ r.level = 0 /\ \E k \in Range(agents) : <<"agent", k.parent>> = r.id
    /\ folded' = IF r.id \in folded THEN folded \ {r.id} ELSE folded \cup {r.id}
    /\ UNCHANGED <<panel, agents, sort, showAll, mode>>
SetMode ==
    /\ panel.kind = "agents"
    /\ mode' = IF mode = "group" THEN "none" ELSE "group"
    /\ UNCHANGED <<panel, agents, sort, showAll, folded>>
NewData(answer) ==
    /\ Cardinality(Range(answer) \ Range(agents)) + Cardinality(Range(agents) \ Range(answer)) <= MaxChange
    /\ agents' = answer
    /\ UNCHANGED <<panel, sort, showAll, folded, mode>>

TableInit ==
    /\ panel \in Panels /\ agents \in Answers
    /\ sort = Missing /\ showAll = FALSE /\ folded = {} /\ mode = "none"
TableNext ==
    \/ \E col \in Columns : SortBy(col)
    \/ \E r \in Range(ShownRows) : SetFold(r)
    \/ \E answer \in Answers : NewData(answer)
    \/ ShowMore \/ SetMode
TableSpec == TableInit /\ [][TableNext]_tableVars

-----------------------------------------------------------------------------
TableTypeOK ==
    /\ panel \in Panels /\ agents \in Answers
    /\ sort \in [col : Columns, dir : {"asc", "desc"}] \cup {Missing}
    /\ showAll \in BOOLEAN /\ mode \in {"none", "group"}
    /\ folded \subseteq {"agent", "model", "group"} \X (Range(Agent) \cup Groups)

\* No row is there twice, and none of a lower level away from the row it belongs to.
KidsUnderRoots(shown) ==
    /\ \A i, j \in DOMAIN shown : i # j => shown[i].id # shown[j].id \/ shown[i].parent # shown[j].parent
    /\ mode = "none" =>
         \A i \in DOMAIN shown : shown[i].level = 1 =>
            \E j \in 1..(i-1) : /\ shown[j].id = shown[i].parent /\ shown[j].level = 0
                                /\ \A k \in (j+1)..i : shown[k].level = 1
\* The rows are in the order of the column chosen, a missing value last in both directions.
RootsInOrder(shown) ==
    mode = "none" =>
        \A i, j \in DOMAIN shown :
            i < j /\ shown[i].level = 0 /\ shown[j].level = 0 => ~Before(shown[j], shown[i], Sorted)
\* Every row that the panel builds is there, or its group is folded, or the table says that it is
\* cut and offers the rest.
NothingLost(shown) ==
    Limited \/ \A r \in Range(Rows) :
        \/ \E s \in Range(shown) : s.id = r.id
        \/ mode = "group" /\ <<"group", r.group>> \in folded
\* The counts of the groups add up to the agents listed.
GroupsAddUp(shown) ==
    mode = "group" /\ panel.kind = "agents" =>
        LET list == List
            counts == [i \in DOMAIN shown |-> shown[i].count]
        IN  SumFunctionOnSet(counts, DOMAIN shown) = Cardinality({i \in DOMAIN list : list[i].level = 0})
TablesHold ==
    LET shown == ShownRows
    IN  KidsUnderRoots(shown) /\ RootsInOrder(shown) /\ NothingLost(shown) /\ GroupsAddUp(shown)
=============================================================================
