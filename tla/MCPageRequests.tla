--------------------------- MODULE MCPageRequests ---------------------------
(***************************************************************************)
(* The four ways the page asks the server, each alone: they share no       *)
(* state, so one of them is chosen and the others stand still.             *)
(***************************************************************************)
EXTENDS BoardFeed, FindingsScan, BoardDrawer, DetailScreens

CONSTANTS f1, f2, t1, j1, j2, a1, g1, g2, n1, u1, hid, q1, q2, m1
ThingsMC ==
    {[view |-> "agent", id |-> a1], [view |-> "file", id |-> g1], [view |-> "file", id |-> g2],
     [view |-> "hidden", id |-> hid], [view |-> "prompt", id |-> u1], [view |-> "named", id |-> n1]}

VARIABLE part
allVars == <<part, feedVars, scanVars, drawerVars, screenVars>>

FeedStill == FeedInit /\ chosen = CHOOSE c \in Selections : TRUE
ScanStill == ScanInit /\ project = CHOOSE p \in Projects : TRUE
DrawerStill == DrawerInit /\ stack = <<>> /\ query = CHOOSE q \in BoardQueries : TRUE
ScreenStill == ScreenInit /\ screen = HealthPanel

Init ==
    /\ part \in {"feed", "scan", "drawer", "screen"}
    /\ IF part = "feed" THEN FeedInit ELSE FeedStill
    /\ IF part = "scan" THEN ScanInit ELSE ScanStill
    /\ IF part = "drawer" THEN DrawerInit ELSE DrawerStill
    /\ IF part = "screen" THEN ScreenInit ELSE ScreenStill
Next ==
    /\ UNCHANGED part
    /\ \/ part = "feed" /\ FeedNext /\ UNCHANGED <<scanVars, drawerVars, screenVars>>
       \/ part = "scan" /\ ScanNext /\ UNCHANGED <<feedVars, drawerVars, screenVars>>
       \/ part = "drawer" /\ DrawerNext /\ UNCHANGED <<feedVars, scanVars, screenVars>>
       \/ part = "screen" /\ ScreenNext /\ UNCHANGED <<feedVars, scanVars, drawerVars>>

\* The fairness of FeedFairSpec, while the feed is the part that moves.
Fed(A) == part = "feed" /\ A
Fairness ==
    /\ WF_feedVars(Fed(Tick)) /\ WF_feedVars(Fed(Retry))
    /\ WF_feedVars(Fed(Opens)) /\ WF_feedVars(Fed(Messages))
    /\ \A l \in Loaders : WF_feedVars(Fed(Replies(l))) /\ SF_feedVars(Fed(Callbacks(l)))
Spec == Init /\ [][Next]_allVars /\ Fairness

-----------------------------------------------------------------------------
\* Every part's state has its type.
RequestsTypeOK == FeedTypeOK /\ ScanTypeOK /\ DrawerTypeOK /\ ScreenTypeOK

\* Once the user leaves the filters alone, the board shows the server's data for them.
FeedCatchesUp == part = "feed" => BoardCatchesUp

\* The findings, the drawer and the screens show only what their newest question brought: the
\* promise of LatestAnswer for each, and that a file's lines, and what a screen shows once all is
\* answered, are of what is picked.
PartsFollow ==
    /\ FindingsFollow /\ DrawerFollows /\ ScreenFollows
    /\ [](ExcerptOfTop /\ OwnAnswer /\ InOrderSettles)
=============================================================================
