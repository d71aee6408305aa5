------------------------------ MODULE DataTable ------------------------------
(***************************************************************************)
(* The table of the detail screens (components/ui/DataTable.js): a filter  *)
(* box once there are many rows, an order that is kept in localStorage     *)
(* with the widths of the columns, rows that unfold, and moving through    *)
(* the rows by key, while the data under it change.  The order of the rows *)
(* is the work of table-core.                                              *)
(***************************************************************************)
EXTENDS Integers, SequencesExt, FiniteSetsExt, Places

CONSTANTS
    DataSets,       \* what the table may be given: sequences of rows, each with the key `id` and a value per column
    DataColumns,    \* the columns
    QueryHits,      \* what may be typed: each tableQuery is the set of the rows that contain it
    NoQuery,        \* nothing is typed
    FilterMinRows,  \* FILTER_MIN_ROWS
    ColumnWidth, MinColumnWidth,    \* of a column before anybody drags it; the least
    Drags,          \* how far the pointer may be moved
    NoColumn,       \* no order, no drag
    MaxTableMoves   \* bound: new data and steps of the user
ASSUME TableData ==
    /\ {FilterMinRows, ColumnWidth, MinColumnWidth, MaxTableMoves} \subseteq Nat /\ Drags \subseteq Int
    /\ \A d \in DataSets : d \in Seq(ToSet(d)) /\ \A i \in DOMAIN d : d[i].value \in [DataColumns -> Nat]

VARIABLES
    allRows, tableQuery,
    sorting,        \*  [column, desc] or NoColumn
    expanded,       \* the keys of the rows that are unfolded
    sizing,         \* the widths that the user gave, of some columns
    focusIdx,       \* the row that has the focus, or 0
    drag,           \* resizeRef: the column being dragged and its width before
    persisted,      \* localStorage: order and widths
    gridMoves
gridVars == <<allRows, tableQuery, sorting, expanded, sizing, focusIdx, drag, persisted, gridMoves>>

-----------------------------------------------------------------------------
FilterRows(data, q) == IF q = NoQuery THEN data ELSE Picked(data, {i \in DOMAIN data : data[i].id \in q})
ShowFilter == Len(allRows) >= FilterMinRows
\* getSortedRowModel: by the column, rows that are equal in the order of the data
SortsBefore(data, s, i, j) ==
    LET x == data[i].value[s.column]
        y == data[j].value[s.column]
    IN  IF x = y THEN i < j ELSE IF s.desc THEN x > y ELSE x < y
RowOrder(data, s) == {x \in (DOMAIN data) \X (DOMAIN data) : SortsBefore(data, s, x[1], x[2])}
SortedRows(data, s) == IF s = NoColumn THEN data ELSE Ordered(data, RowOrder(data, s))
TableRows == SortedRows(FilterRows(allRows, tableQuery), sorting)
WidthOf(c) == IF c \in DOMAIN sizing THEN sizing[c] ELSE ColumnWidth
\* what the reader sees: the rows, which of them are unfolded, or that nothing matches
\* defect: a row is known by its place
RowKeyByPlace(row, i) == i
RowKey(row, i) == row.id
IsExpanded(i) == RowKey(TableRows[i], i) \in expanded
UnfoldedRows == {TableRows[i].id : i \in {i \in DOMAIN TableRows : IsExpanded(i)}}

-----------------------------------------------------------------------------
GridMove == gridMoves < MaxTableMoves /\ gridMoves' = gridMoves + 1

NewRows(d) ==
    /\ GridMove /\ d # allRows /\ allRows' = d
    /\ UNCHANGED <<tableQuery, sorting, expanded, sizing, focusIdx, drag, persisted>>
\* The box is there for many rows, and not above a table that is empty without it.
TypeQuery(q) ==
    /\ GridMove /\ ShowFilter /\ (TableRows # <<>> \/ tableQuery # NoQuery)
    /\ q # tableQuery /\ tableQuery' = q
    /\ UNCHANGED <<allRows, sorting, expanded, sizing, focusIdx, drag, persisted>>
\* defect: the effect that keeps the order depends on the widths only
ToggleSortingUnsaved(c) ==
    /\ GridMove /\ TableRows # <<>>
    /\ sorting' = IF sorting = NoColumn \/ sorting.column # c THEN [column |-> c, desc |-> FALSE]
                  ELSE IF ~sorting.desc THEN [column |-> c, desc |-> TRUE] ELSE NoColumn
    /\ UNCHANGED <<allRows, tableQuery, expanded, sizing, focusIdx, drag, persisted>>
\* ascending, descending, none; the effect keeps it
ToggleSorting(c) ==
    /\ GridMove /\ TableRows # <<>>
    /\ sorting' = IF sorting = NoColumn \/ sorting.column # c THEN [column |-> c, desc |-> FALSE]
                  ELSE IF ~sorting.desc THEN [column |-> c, desc |-> TRUE] ELSE NoColumn
    /\ persisted' = [sorting |-> sorting', sizing |-> sizing]
    /\ UNCHANGED <<allRows, tableQuery, expanded, sizing, focusIdx, drag>>
\* a click on the arrow, or the space bar in the row
ToggleExpanded(i) ==
    /\ GridMove /\ i \in DOMAIN TableRows
    /\ LET k == RowKey(TableRows[i], i)
       IN  expanded' = IF k \in expanded THEN expanded \ {k} ELSE expanded \cup {k}
    /\ UNCHANGED <<allRows, tableQuery, sorting, sizing, focusIdx, drag, persisted>>
FocusRow(i) ==
    /\ GridMove /\ i \in DOMAIN TableRows /\ i # focusIdx /\ focusIdx' = i
    /\ UNCHANGED <<allRows, tableQuery, sorting, expanded, sizing, drag, persisted>>
\* onKeyDown of the row that has the focus
PressRowKey(step) ==
    /\ GridMove /\ focusIdx \in DOMAIN TableRows
    /\ focusIdx' = Max({1, Min({Len(TableRows), focusIdx + step})})
    /\ UNCHANGED <<allRows, tableQuery, sorting, expanded, sizing, drag, persisted>>
StartResize(c) ==
    /\ GridMove /\ drag = NoColumn /\ TableRows # <<>> /\ drag' = [column |-> c, width |-> WidthOf(c)]
    /\ UNCHANGED <<allRows, tableQuery, sorting, expanded, sizing, focusIdx, persisted>>
\* every movement of the pointer is kept
DragColumn(by) ==
    /\ GridMove /\ drag # NoColumn
    /\ sizing' = [c \in DOMAIN sizing \cup {drag.column} |->
                    IF c = drag.column THEN Max({MinColumnWidth, drag.width + by}) ELSE sizing[c]]
    /\ persisted' = [sorting |-> sorting, sizing |-> sizing']
    /\ UNCHANGED <<allRows, tableQuery, sorting, expanded, focusIdx, drag>>
EndResize ==
    /\ GridMove /\ drag # NoColumn /\ drag' = NoColumn
    /\ UNCHANGED <<allRows, tableQuery, sorting, expanded, sizing, focusIdx, persisted>>
\* The tab is left and opened again.  An order that was taken away stays away.
Reopen ==
    /\ GridMove
    /\ tableQuery' = NoQuery /\ sorting' = persisted.sorting /\ sizing' = persisted.sizing
    /\ expanded' = {} /\ focusIdx' = 0 /\ drag' = NoColumn
    /\ UNCHANGED <<allRows, persisted>>

Orderings == {NoColumn} \cup [column : DataColumns, desc : BOOLEAN]
GridInit ==
    /\ allRows \in DataSets /\ tableQuery = NoQuery /\ expanded = {} /\ sizing = <<>> /\ focusIdx = 0 /\ drag = NoColumn
    /\ sorting \in {NoColumn} \cup [column : DataColumns, desc : {TRUE}]
    /\ persisted = [sorting |-> sorting, sizing |-> sizing] /\ gridMoves = 0
GridNext ==
    \/ \E d \in DataSets : NewRows(d)
    \/ \E q \in QueryHits \cup {NoQuery} : TypeQuery(q)
    \/ \E c \in DataColumns : ToggleSorting(c) \/ StartResize(c)
    \/ \E i \in 1..Max({Len(d) : d \in DataSets}) : ToggleExpanded(i) \/ FocusRow(i)
    \/ PressRowKey(1) \/ PressRowKey(-1)
    \/ \E by \in Drags : DragColumn(by)
    \/ EndResize \/ Reopen
GridSpec == GridInit /\ [][GridNext]_gridVars

-----------------------------------------------------------------------------
GridTypeOK ==
    /\ allRows \in DataSets /\ tableQuery \in QueryHits \cup {NoQuery} /\ sorting \in Orderings
    /\ DOMAIN sizing \subseteq DataColumns /\ \A c \in DOMAIN sizing : sizing[c] >= MinColumnWidth
    /\ focusIdx \in Nat /\ gridMoves \in 0..MaxTableMoves
    /\ drag = NoColumn \/ (drag.column \in DataColumns /\ drag.width \in Nat)

\* The rows that are listed are those that the text is found in, each once and in the order chosen,
\* and a reload shows the order and the widths that are on the screen.
RowsInOrder ==
    /\ ToSet(TableRows) = {r \in ToSet(allRows) : tableQuery = NoQuery \/ r.id \in tableQuery}
    /\ IsInjective(allRows) => IsInjective(TableRows)
    /\ sorting # NoColumn => \A i, j \in DOMAIN TableRows : i < j =>
         IF sorting.desc THEN TableRows[i].value[sorting.column] >= TableRows[j].value[sorting.column]
         ELSE TableRows[i].value[sorting.column] <= TableRows[j].value[sorting.column]
    /\ persisted = [sorting |-> sorting, sizing |-> sizing]
\* A row stays unfolded, or folded, whatever is typed, sorted or comes in; only the reader folds it.
FoldsByRow ==
    \A i \in DOMAIN TableRows :
         LET id == TableRows[i].id
         IN  id \in {r.id : r \in ToSet(TableRows')} /\ ~ToggleExpanded(i) /\ ~Reopen
               => (id \in UnfoldedRows <=> id \in UnfoldedRows')
=============================================================================
