------------------------------ MODULE PageUser ------------------------------
(***************************************************************************)
(* What the user does to the page without asking the server, each part     *)
(* alone: they share no state, so one of them is chosen and the others     *)
(* stand still.                                                            *)
(***************************************************************************)
EXTENDS PageUrl, BoardLayout, BoardTables, BoardChart, SessionPicker,
        ScopedScreens, SessionRows, SessionFlow, DataTable, PageShell

VARIABLE part
boardPart == <<urlVars, layoutVars, tableVars, chartVars, pickerVars>>
detailPart == <<screenVars, rowVars, flowVars, gridVars, shellVars>>
allVars == <<part, boardPart, detailPart>>

UrlStill ==
    /\ UrlInit
    /\ storedTools = CHOOSE ts \in ToolChoices \ {{}, Tools} : TRUE
    /\ entries[1].url = [tab |-> Absent, range |-> Absent, tools |-> storedTools,
                         narrow |-> Absent, sel |-> Absent, find |-> Absent]
LayoutStill == LayoutInit /\ keptUi = NoUi
TableStill == TableInit /\ panel = panelByRole /\ agents = <<>>
ChartStill == ChartInit /\ series = CHOOSE c \in Charts : TRUE
PickerStill == PickerInit /\ live = {} /\ pending = NoSession
ScreenStill == ScreenInit /\ snap = (CHOOSE s \in Snapshots : TRUE) /\ ticked = All /\ health = CHOOSE h \in Reports : TRUE
RowsStill == RowsInit /\ reported = CHOOSE answer \in RowAnswers : TRUE
FlowStill == FlowInit /\ flow = <<>>
GridStill == GridInit /\ allRows = <<>> /\ sorting = NoColumn

Init ==
    /\ part \in {"url", "layout", "tables", "chart", "picker", "screens", "rows", "flow", "grid", "shell"}
    /\ IF part = "url" THEN UrlInit ELSE UrlStill
    /\ IF part = "layout" THEN LayoutInit ELSE LayoutStill
    /\ IF part = "tables" THEN TableInit ELSE TableStill
    /\ IF part = "chart" THEN ChartInit ELSE ChartStill
    /\ IF part = "picker" THEN PickerInit ELSE PickerStill
    /\ IF part = "screens" THEN ScreenInit ELSE ScreenStill
    /\ IF part = "rows" THEN RowsInit ELSE RowsStill
    /\ IF part = "flow" THEN FlowInit ELSE FlowStill
    /\ IF part = "grid" THEN GridInit ELSE GridStill
    /\ ShellInit
Next ==
    /\ UNCHANGED part
    /\ \/ part = "url" /\ UrlNext /\ UNCHANGED <<layoutVars, tableVars, chartVars, pickerVars, detailPart>>
       \/ part = "layout" /\ LayoutNext /\ UNCHANGED <<urlVars, tableVars, chartVars, pickerVars, detailPart>>
       \/ part = "tables" /\ TableNext /\ UNCHANGED <<urlVars, layoutVars, chartVars, pickerVars, detailPart>>
       \/ part = "chart" /\ ChartNext /\ UNCHANGED <<urlVars, layoutVars, tableVars, pickerVars, detailPart>>
       \/ part = "picker" /\ PickerNext /\ UNCHANGED <<urlVars, layoutVars, tableVars, chartVars, detailPart>>
       \/ part = "screens" /\ ScreenNext /\ UNCHANGED <<boardPart, rowVars, flowVars, gridVars, shellVars>>
       \/ part = "rows" /\ RowsNext /\ UNCHANGED <<boardPart, screenVars, flowVars, gridVars, shellVars>>
       \/ part = "flow" /\ FlowNext /\ UNCHANGED <<boardPart, screenVars, rowVars, gridVars, shellVars>>
       \/ part = "grid" /\ GridNext /\ UNCHANGED <<boardPart, screenVars, rowVars, flowVars, shellVars>>
       \/ part = "shell" /\ ShellNext /\ UNCHANGED <<boardPart, screenVars, rowVars, flowVars, gridVars>>
Spec == Init /\ [][Next]_allVars

-----------------------------------------------------------------------------
\* The state of the part that moves has its type.
UserTypeOK ==
    CASE part = "url" -> UrlTypeOK
      [] part = "layout" -> LayoutTypeOK
      [] part = "tables" -> TableTypeOK
      [] part = "chart" -> ChartTypeOK
      [] part = "picker" -> PickerTypeOK
      [] part = "screens" -> ScreenTypeOK
      [] part = "rows" -> RowsTypeOK
      [] part = "flow" -> FlowTypeOK
      [] part = "grid" -> GridTypeOK
      [] part = "shell" -> ShellTypeOK

\* panels.js and Table.js: the tables of the board lose no row and no cost, and show the rows in the
\* order that they name.
TablesTell == part = "tables" => TablesHold

\* Chart.js: the bands add up to the data of each time, and what the pointer marks is the time that
\* it selects, also when the series rolls on beneath it.
ChartsTell ==
    /\ [](part = "chart" => ChartsHold)
    /\ [][part = "chart" => MarkedIsSelected]_allVars

\* app.js and the cards: the filter by tool hides nothing without a word, every card shows what the
\* filtered snapshot has and agrees with the others about it, and a tool that is ticked changes no
\* other.
ScreensTell ==
    /\ [](part = "screens" => ScopeHolds /\ ScreensHold)
    /\ [][part = "screens" => ToggleChangesOne]_allVars

\* selectors.js, CSessionsTab and CDashboardTab: a session that two sources report is listed once
\* and none is lost, the one picked is the one shown, and an agent that is switched changes no
\* other.
RowsTell ==
    /\ [](part = "rows" => RowsHold)
    /\ [][part = "rows" => AgentAlone]_allVars

\* normalize.js and the transcript: no event of a session is lost or shown out of its turn, and the
\* turns unfold all or none.
FlowTells ==
    /\ [](part = "flow" => FlowHolds)
    /\ [][part = "flow" => AllOrNone]_allVars

\* DataTable: the rows are those that the filter leaves, in the order of the column chosen, which a
\* reload keeps, and a row folds where it is though the data moves it.
GridTells ==
    /\ [](part = "grid" => RowsInOrder)
    /\ [][part = "grid" => FoldsByRow]_allVars

\* App: the key runs the command that is marked, a tab is where it was left, a view that is applied
\* is what the page shows, and a notice that goes left no timer and did not run while it was held,
\* unless the pointer or the focus left it to the other.
ShellTells ==
    /\ [](part = "shell" => ShellHolds)
    /\ [][part = "shell" => ViewsMatch /\ HeldPauses]_allVars
=============================================================================
