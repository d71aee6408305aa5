----------------------------- MODULE BoardChart -----------------------------
(***************************************************************************)
(* A chart of the board: a stack of series over buckets of time, of which  *)
(* the largest keep their color and the others are one.  Dragging, or      *)
(* Shift with the arrows, marks buckets; releasing, or Enter, makes their  *)
(* time the time of the whole board.  The data come again meanwhile, and   *)
(* the first bucket moves on with the clock.                               *)
(*                                                                         *)
(* A bucket is one unit of time.  What the mouse shows at its place, the   *)
(* axes, and the places and sizes of bars and lines are left out.          *)
(***************************************************************************)
EXTENDS Integers, SequencesExt, Places

CONSTANTS
    Charts,         \* what a chart may show: its series, each with a value for each bucket
    Buckets,        \* how many
    OverSeries,     \* how many series keep a color
    NoData,         \* of a value that is missing, and of what is not marked or selected
    MaxRolls        \* bound: how far the first bucket moves
ASSUME ChartShape ==
    /\ Buckets \in Nat \ {0} /\ OverSeries \in Nat \ {0} /\ MaxRolls \in Nat
    /\ NoData \notin Nat /\ Charts \subseteq Seq([1..Buckets -> Nat \cup {NoData}])

VARIABLES
    series,         \* the data
    first,          \* the start of the first bucket
    sel,            \* the time selected: [since, until]
    brush,          \* the buckets being marked: [a, b], in the order they were
    pressed,        \* the mouse button is down: the render it went down in, [first, sel]
    keyAt           \* the bucket that the arrows are at
chartVars == <<series, first, sel, brush, pressed, keyAt>>

-----------------------------------------------------------------------------
(* Values, some of them missing                                            *)
Given(vals) == {i \in DOMAIN vals : vals[i] # NoData}
Amount(vals) == SumFunctionOnSet(vals, Given(vals))
Sum(vals) == IF Given(vals) = {} THEN NoData ELSE Amount(vals)

\* splitSeries: those with a total, the largest first; the rest join in one
Counted(map) == {id \in DOMAIN map : Amount(map[id]) > 0}
LargestFirst(map) ==
    LET ids == Counted(map)
    IN  Descending([id \in ids |-> Amount(map[id])], [id \in ids |-> id])
Top(map, keep) == [n \in 1..Min({OverSeries, Len(keep)}) |-> map[keep[n]]]
\* defect: the rest are left out
TopOnly(map) == Top(map, LargestFirst(map))
SplitSeries(map) ==
    LET keep == LargestFirst(map)
        rest == {keep[n] : n \in (OverSeries + 1)..Len(keep)}
    IN  IF rest = {} THEN Top(map, keep)
        ELSE Append(Top(map, keep), [i \in 1..Buckets |-> Sum([id \in rest |-> map[id][i]])])

\* bucketTotals, of a stack
BucketTotals(list) == [i \in 1..Buckets |-> Sum([j \in DOMAIN list |-> list[j][i]])]

\* selToIndex: the buckets that a time touches
Band(time, start) ==
    LET touched == {i \in 1..Buckets : start + i > time.since /\ start + i - 1 < time.until}
    IN  IF touched = {} THEN NoData
        ELSE [lo |-> CHOOSE i \in touched : \A j \in touched : i <= j,
              hi |-> CHOOSE i \in touched : \A j \in touched : i >= j]
SelIdx(time, start) == IF time = NoData THEN NoData ELSE Band(time, start)
Low(b) == IF b.a < b.b THEN b.a ELSE b.b
High(b) == IF b.a < b.b THEN b.b ELSE b.a
\* indexToSel
\* defect: the time ends where the last bucket starts
TimeToStart(b, start) == [since |-> start + Low(b) - 1, until |-> start + High(b) - 1]
TimeOf(b, start) == [since |-> start + Low(b) - 1, until |-> start + High(b)]

\* The band drawn over the chart; the legend has each series' sum over it.
Drawn == IF brush # NoData THEN [lo |-> Low(brush), hi |-> High(brush)] ELSE SelIdx(sel, first)
On(i) == Drawn = NoData \/ (Drawn.lo <= i /\ i <= Drawn.hi)
Legend(list) ==
    LET on == [i \in 1..Buckets |-> On(i)]
    IN  [j \in DOMAIN list |-> Sum([i \in 1..Buckets |-> IF on[i] THEN list[j][i] ELSE NoData])]

-----------------------------------------------------------------------------
\* commit: marking what is selected already clears the selection
Commit(b, start, time) ==
    sel' = IF SelIdx(time, start) = [lo |-> Low(b), hi |-> High(b)] THEN NoData ELSE TimeOf(b, start)

OnDown(i) ==
    /\ pressed = NoData
    /\ brush' = [a |-> i, b |-> i] /\ pressed' = [first |-> first, sel |-> sel]
    /\ UNCHANGED <<series, first, sel, keyAt>>
\* Any move over the chart, with the button down or while the arrows mark
OnMove(i) ==
    /\ brush # NoData /\ brush' = [brush EXCEPT !.b = i]
    /\ UNCHANGED <<series, first, sel, pressed, keyAt>>
\* The listener was made by the render in which the button went down.
Up ==
    /\ pressed # NoData /\ pressed' = NoData
    /\ brush' = NoData
    /\ IF brush = NoData THEN UNCHANGED sel ELSE Commit(brush, pressed.first, pressed.sel)
    /\ UNCHANGED <<series, first, keyAt>>
Arrow(step, shift) ==
    /\ LET here == IF keyAt # NoData THEN keyAt
                   ELSE IF SelIdx(sel, first) # NoData THEN SelIdx(sel, first).hi ELSE Buckets
           to == IF here + step \in 1..Buckets THEN here + step ELSE here
       IN  /\ keyAt' = to
           /\ brush' = IF ~shift THEN brush
                       ELSE [a |-> IF brush # NoData THEN brush.a ELSE here, b |-> to]
    /\ UNCHANGED <<series, first, sel, pressed>>
Enter ==
    /\ brush # NoData /\ brush' = NoData
    /\ Commit(brush, first, sel)
    /\ UNCHANGED <<series, first, pressed, keyAt>>
EscapeKey ==
    /\ IF brush # NoData THEN brush' = NoData /\ UNCHANGED sel
       ELSE sel # NoData /\ sel' = NoData /\ UNCHANGED brush
    /\ UNCHANGED <<series, first, pressed, keyAt>>
\* The board's data come again.
Roll ==
    /\ first < MaxRolls /\ first' = first + 1
    /\ UNCHANGED <<series, sel, brush, pressed, keyAt>>

ChartInit ==
    /\ series \in Charts /\ first = 0
    /\ sel = NoData /\ brush = NoData /\ pressed = NoData /\ keyAt = NoData
ChartNext ==
    \/ \E i \in 1..Buckets : OnDown(i) \/ OnMove(i)
    \/ \E step \in {-1, 1}, shift \in BOOLEAN : Arrow(step, shift)
    \/ Up \/ Enter \/ EscapeKey \/ Roll
ChartSpec == ChartInit /\ [][ChartNext]_chartVars

-----------------------------------------------------------------------------
Times == [since : 0..(MaxRolls + Buckets), until : 0..(MaxRolls + Buckets)]
ChartTypeOK ==
    /\ series \in Charts /\ first \in 0..MaxRolls
    /\ sel \in Times \cup {NoData}
    /\ brush \in [a : 1..Buckets, b : 1..Buckets] \cup {NoData}
    /\ pressed \in [first : 0..MaxRolls, sel : Times \cup {NoData}] \cup {NoData}
    /\ keyAt \in 1..Buckets \cup {NoData}

\* Joining the small series loses nothing: in each bucket the colored ones and the rest add up to
\* what all series have there, and a bucket with no data is not one with 0.
SplitKeeps(list) ==
    LET totals == BucketTotals(list)
        ids == Counted(series)
    IN  \A i \in 1..Buckets : totals[i] = Sum([id \in ids |-> series[id][i]])
\* The figures of the legend add up to the totals of the buckets in the band.
LegendAddsUp(list) ==
    LET totals == BucketTotals(list)
    IN  Amount(Legend(list)) = Amount([i \in 1..Buckets |-> IF On(i) THEN totals[i] ELSE NoData])
ChartsHold == LET list == SplitSeries(series) IN SplitKeeps(list) /\ LegendAddsUp(list)

\* The time that a mark selects is drawn as the band that was marked, unless the data came again
\* while the button was down.
MarkedIsSelected ==
    brush # NoData /\ brush' = NoData /\ sel' \notin {sel, NoData}
          /\ (pressed = NoData \/ pressed.first = first)
       => SelIdx(sel', first') = [lo |-> Low(brush), hi |-> High(brush)]
=============================================================================
