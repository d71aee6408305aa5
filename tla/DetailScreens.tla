--------------------------- MODULE DetailScreens ---------------------------
(***************************************************************************)
(* The parts of the detail screens that ask the server.  Each has inputs   *)
(* (the session picked, the range, the filter of tools, ...) and asks      *)
(* again when one changes; what makes them differ is a record:             *)
(*   reads    the inputs that its question names                           *)
(*   needs    those without which it asks nothing                          *)
(*   guarded  the answer to an earlier request is dropped                  *)
(*   clears   when it forgets what it has: on "ask"ing, with "none" of     *)
(*            what it needs, when a request "fail"s                        *)
(*   polls    when it asks the same again                                  *)
(*   shows    when it shows what it has                                    *)
(* Most parts are one of the two hooks useAsyncResource and                *)
(* usePolledResource with some inputs, the others ask in an effect of      *)
(* their own.  A request and an answer are abstracted to the inputs they   *)
(* are of, an answer also to the version of the server's data; what is     *)
(* drawn from an answer is left out, as is the one frame between a render  *)
(* and its effect.                                                         *)
(***************************************************************************)
EXTENDS Naturals, SequencesExt

CONSTANTS
    NoRows,                                      \* nothing to show
    MaxKnown, MaxSteps, MaxBroken, MaxAsks       \* bounds: changes of the server's data, steps of the user
                                                 \* and timers, failures, requests on their way
ASSUME ScreenBounds == MaxKnown \in Nat /\ MaxSteps \in Nat /\ MaxBroken \in Nat /\ MaxAsks \in Nat \ {0}

-----------------------------------------------------------------------------
(* The two hooks                                                           *)
Async(reads, needs) ==
    [reads |-> reads, needs |-> needs, guarded |-> TRUE, clears |-> {"none", "fail"},
     polls |-> "never", shows |-> "settled"]
\* reload bumps the generation that an answer must be of
UsePolled(reads, polls) ==
    [reads |-> reads, needs |-> {}, guarded |-> TRUE, clears |-> {}, polls |-> polls, shows |-> "always"]
Unguarded(screen) == [screen EXCEPT !.guarded = FALSE]
Always(screen) == [screen EXCEPT !.shows = "always"]

(* The parts of a session's detail                                         *)
ProcessTreePanel == Async({"session"}, {"session"})
McpUsagePanel == Async({"session"}, {"session"})
ConversationPanel == Async({"session"}, {"session"})
CostByModelPanel == Async({"session"}, {"session"})
SubprocessBreakdown == Async({"session"}, {"session"})
ToolCallsPanel == Async({"session"}, {"session"})
ActionsPanel == Async({"session"}, {"session"})
MemoryDiffSection == Async({"session"}, {"session"})
SessionArtifactsPanel == Async({"session"}, {"session"})
ArtifactBody == Async({"session", "file"}, {"session", "file"})
ApiCallsPanel == Async({"session"}, {})
EventsPanel == Async({"session", "range"}, {"session"})
ProjectCostPanel == Async({"project"}, {"project"})
RunHistoryPanel == Async({"project", "tool"}, {"project", "tool"})
\* its two resources: the other runs of the tool, and the session's own figures
AverageRuns == Always(Async({"tool"}, {"tool"}))
SessionStats == Always(Async({"session"}, {"session"}))
RunTrendStrip == Always(Async({"project", "tool"}, {"project", "tool"}))
SessionSparklines == [Always(Async({"session"}, {"session"})) EXCEPT !.clears = {"ask", "fail"}]

(* The other screens                                                       *)
HiddenContextPanel == [Always(Async({}, {})) EXCEPT !.polls = "pressed"]
PromptDetail == [Always(Async({"file"}, {"file"})) EXCEPT !.clears = {"ask", "none"}]
DashboardFlow == [Always(Async({"session"}, {"session"})) EXCEPT !.clears = {"ask", "none"}]
SessionPicker == UsePolled({"range"}, "never")
TabAnalytics == [UsePolled({"range", "tools"}, "pressed") EXCEPT !.needs = {"tools"}, !.shows = "own"]
TabBudget == [UsePolled({"tools"}, "visible") EXCEPT !.needs = {"tools"}, !.shows = "own"]
HealthPanel == UsePolled({}, "visible")
HiddenSummary == UsePolled({"tools"}, "visible")
CostPanel == UsePolled({}, "visible")
SelfStatus == UsePolled({}, "visible")
StatusOnce == UsePolled({}, "never")

(* Those that take whichever answer comes                                  *)
CollectorHealth == Unguarded(UsePolled({}, "always"))
HooksStatus == [Unguarded(UsePolled({}, "always")) EXCEPT !.clears = {"fail"}]
OtelStatus == HooksStatus
MemoryGrowthChart == Unguarded(UsePolled({}, "never"))
CSessionsTab == Unguarded(UsePolled({"range"}, "never"))
RangeBoundData == [CSessionsTab EXCEPT !.needs = {"range"}, !.clears = {"none"}]
TabEventsStats == [Unguarded(Always(Async({"tool", "range"}, {"tool", "range"}))) EXCEPT !.clears = {"fail"}]
LoadSeries == [Unguarded(Always(Async({"metric"}, {"metric"}))) EXCEPT !.clears = {"ask", "fail"}]
FileViewer == [Unguarded(Always(Async({"file"}, {"file"}))) EXCEPT !.clears = {"ask"}]
TabSessionFlow == Unguarded(Async({"session"}, {"session"}))
TabTimelineChart == TabSessionFlow
TabTranscript == [TabSessionFlow EXCEPT !.polls = "shown"]

Screens ==
    {ProcessTreePanel, McpUsagePanel, ConversationPanel, CostByModelPanel, SubprocessBreakdown,
     ToolCallsPanel, ActionsPanel, MemoryDiffSection, SessionArtifactsPanel, ArtifactBody, ApiCallsPanel,
     EventsPanel, ProjectCostPanel, RunHistoryPanel, AverageRuns, SessionStats, RunTrendStrip,
     SessionSparklines, HiddenContextPanel, PromptDetail, DashboardFlow, SessionPicker, TabAnalytics,
     TabBudget, HealthPanel, HiddenSummary, CostPanel, SelfStatus, StatusOnce, CollectorHealth,
     HooksStatus, OtelStatus, MemoryGrowthChart, CSessionsTab, RangeBoundData, TabEventsStats,
     LoadSeries, FileViewer, TabSessionFlow, TabTimelineChart, TabTranscript}
Polls == {"never", "pressed", "visible", "always", "shown"}
Inputs == {"session", "file", "project", "tool", "range", "tools", "metric"}

-----------------------------------------------------------------------------
VARIABLES
    screen,          \* which of them
    inputs,          \* its inputs; 0: none picked
    hiddenPage,      \* document.hidden
    asks,            \* its requests, in the order they were sent: [to, at]
    rows,            \* what it has: [to, at]
    waiting,         \* loading
    inOrder,         \* of the requests since it last had none: every one answered, in order
    known,           \* the version of the server's data
    steps, broken
screenVars == <<screen, inputs, hiddenPage, asks, rows, waiting, inOrder, known, steps, broken>>

Unread == MaxKnown + 1      \* of a request that the server has not read yet
Ready(of) == \A i \in screen.needs : of[i] # 0

\* The effect runs, or the timer or a button calls it again: the cleanup of a guarded one makes
\* the requests before it void.
\* defect: there is no cleanup
SendBeside(of) == Append(asks, [to |-> of, at |-> Unread])
Send(of) == IF screen.guarded THEN <<[to |-> of, at |-> Unread]>>
            ELSE Append(asks, [to |-> of, at |-> Unread])
Fetch(of) ==
    /\ asks' = Send(of)
    /\ waiting' = TRUE
    /\ rows' = IF "ask" \in screen.clears THEN NoRows ELSE rows
    /\ inOrder' = (inOrder \/ asks = <<>>)
Stop ==
    /\ asks' = IF screen.guarded THEN <<>> ELSE asks
    /\ waiting' = FALSE
    /\ rows' = IF "none" \in screen.clears THEN NoRows ELSE rows
    /\ UNCHANGED inOrder

\* Another session, range, ... is picked.
Pick(of) ==
    /\ steps < MaxSteps /\ steps' = steps + 1
    /\ of # inputs /\ inputs' = of
    /\ IF Ready(of) THEN Len(asks) < MaxAsks /\ Fetch(of) ELSE Stop
    /\ UNCHANGED <<screen, hiddenPage, known, broken>>
Again ==
    /\ steps < MaxSteps /\ steps' = steps + 1
    /\ Len(asks) < MaxAsks /\ Ready(inputs)
    /\ screen.polls # "never"
    /\ screen.polls = "visible" => ~hiddenPage
    /\ screen.polls = "shown" => rows # NoRows
    /\ Fetch(inputs)
    /\ UNCHANGED <<screen, inputs, hiddenPage, known, broken>>
Hide ==
    /\ steps < MaxSteps /\ steps' = steps + 1
    /\ hiddenPage' = ~hiddenPage
    /\ UNCHANGED <<screen, inputs, asks, rows, waiting, inOrder, known, broken>>

Reads(k) ==
    /\ asks[k].at = Unread
    /\ asks' = [asks EXCEPT ![k].at = known]
    /\ UNCHANGED <<screen, inputs, hiddenPage, rows, waiting, inOrder, known, steps, broken>>
Arrive(k) ==
    /\ asks[k].at # Unread
    /\ rows' = asks[k]
    /\ asks' = RemoveAt(asks, k) /\ waiting' = FALSE
    /\ inOrder' = (inOrder /\ k = 1)
    /\ UNCHANGED <<screen, inputs, hiddenPage, known, steps, broken>>
\* It fails, or takes longer than the part waits.
Breaks(k) ==
    /\ broken < MaxBroken /\ broken' = broken + 1
    /\ rows' = IF "fail" \in screen.clears THEN NoRows ELSE rows
    /\ asks' = RemoveAt(asks, k) /\ waiting' = FALSE
    /\ inOrder' = FALSE
    /\ UNCHANGED <<screen, inputs, hiddenPage, known, steps>>
Learns ==
    /\ known < MaxKnown /\ known' = known + 1
    /\ UNCHANGED <<screen, inputs, hiddenPage, asks, rows, waiting, inOrder, steps, broken>>

ScreenInit ==
    /\ screen \in Screens
    /\ inputs \in [screen.reads -> 0..1]
    /\ hiddenPage = FALSE /\ rows = NoRows /\ inOrder = TRUE
    /\ asks = IF Ready(inputs) THEN <<[to |-> inputs, at |-> Unread]>> ELSE <<>>
    /\ waiting = (asks # <<>>)
    /\ known = 0 /\ steps = 0 /\ broken = 0
ScreenNext ==
    \/ \E of \in [screen.reads -> 0..2] : Pick(of)
    \/ Again \/ Hide \/ Learns
    \/ \E k \in DOMAIN asks : Reads(k) \/ Arrive(k) \/ Breaks(k)
ScreenSpec == ScreenInit /\ [][ScreenNext]_screenVars

-----------------------------------------------------------------------------
Shown ==
    IF \/ ~Ready(inputs)
       \/ screen.shows = "settled" /\ waiting
       \/ screen.shows = "own" /\ rows # NoRows /\ rows.to # inputs
    THEN NoRows ELSE rows

Questions == UNION {[i -> 0..2] : i \in SUBSET Inputs}

ScreenTypeOK ==
    /\ screen \in [reads : SUBSET Inputs, needs : SUBSET Inputs, guarded : BOOLEAN,
                   clears : SUBSET {"ask", "none", "fail"}, polls : Polls, shows : {"settled", "own", "always"}]
    /\ inputs \in [screen.reads -> 0..2]
    /\ asks \in UNION {[1..n -> [to : [screen.reads -> 0..2], at : 0..Unread]] : n \in 0..MaxAsks}
    /\ rows \in [to : [screen.reads -> 0..2], at : 0..MaxKnown] \cup {NoRows}
    /\ {hiddenPage, waiting, inOrder} \subseteq BOOLEAN
    /\ known \in 0..MaxKnown /\ steps \in 0..MaxSteps /\ broken \in 0..MaxBroken
    /\ screen.guarded => Len(asks) <= 1

\* A part that guards its requests takes only the answer to the newest one: it never goes back to
\* an earlier question, nor to an older answer.
ScreenView == INSTANCE LatestAnswer
    WITH Nothing <- NoRows, version <- known, question <- inputs,
         shown <- IF screen.guarded THEN rows ELSE NoRows
ScreenFollows == ScreenView!Spec

\* A guarded part that hides what it has while it asks, forgets it, or compares it with its
\* question, never shows the figures of another session, range or filter.
OwnAnswer ==
    screen.guarded /\ (screen.shows # "always" \/ "ask" \in screen.clears)
        => Shown = NoRows \/ Shown.to = inputs

\* Without a guard that needs the server to answer in order: then the last word is the newest.
InOrderSettles ==
    inOrder /\ asks = <<>> /\ Ready(inputs) => rows = NoRows \/ rows.to = inputs
=============================================================================
