----------------------------- MODULE SessionFlow -----------------------------
(***************************************************************************)
(* One session told in three ways.  The server sends the flow of a session *)
(* as a list of events.  The transcript groups them into turns             *)
(* (normalize.js), the dashboard makes the rows of a timeline of them      *)
(* (turnsToEvents), and the flow tab draws arrows between the participants *)
(* with running sums of tokens (TabSessionFlow).  The reader folds turns,  *)
(* picks events and searches while longer answers come in.                 *)
(***************************************************************************)
EXTENDS Integers, SequencesExt, Places

CONSTANTS
    Flows,          \* the flows that may be fetched: sequences of events
    AgentNames,     \* who a tool call or a subagent is sent to
    NoEvent,        \* no event picked, no search
    MaxFlowMoves    \* bound: answers and steps of the reader
EventTypes == {"session_start", "session_end", "user_message", "api_call", "api_response",
               "tool_use", "subagent", "hook", "error", "compaction"}
Events == [type : EventTypes, input : Nat, output : Nat, to : AgentNames, tools : Nat]
ASSUME FlowData == MaxFlowMoves \in Nat /\ Flows \subseteq Seq(Events) /\ IsFiniteSet(Flows)

VARIABLES
    flow,           \* the events that were fetched
    flowMode,       \* of TabSessionFlow: timeline or swim-lane
    pickedIdx,      \* its `selectedIdx`
    hovered,        \* its `hoveredIdx`
    find,           \* of CDashboardTab: the types that the text matches, or NoEvent
    pickedEv,       \* its `selectedEvent`
    unfolded, allUnfolded,      \* of TabTranscript: expandedTurns and expandAll
    flowMoves
flowVars == <<flow, flowMode, pickedIdx, hovered, find, pickedEv, unfolded, allUnfolded, flowMoves>>

-----------------------------------------------------------------------------
(* normalizeFlowToTranscript: the last turn is the one that is being       *)
(* filled.  An action is the place of its event in the flow.               *)
ActionKinds == {"api_call", "api_response", "tool_use", "subagent", "error", "hook"}
NewTurn(e) == [prompted |-> e.type = "user_message", actions |-> <<>>, uses |-> e.tools, responses |-> <<>>,
               input |-> e.input, output |-> e.output, calls |-> 0]
EmptyTurn == [prompted |-> FALSE, actions |-> <<>>, uses |-> 0, responses |-> <<>>, input |-> 0, output |-> 0, calls |-> 0]
Record(t, e, i) ==
    LET called == [t EXCEPT !.input = @ + e.input, !.output = @ + e.output, !.calls = @ + 1]
    IN  [(IF e.type = "api_call" THEN called ELSE t) EXCEPT
            !.actions = Append(@, i),
            !.uses = IF e.type \in {"tool_use", "hook"} THEN @ + 1 ELSE @,
            !.responses = IF e.type = "api_response" THEN Append(@, i) ELSE @]
\* defect: nothing is taken before the first prompt
TakePrompted(turns, f, i) ==
    CASE f[i].type = "user_message" -> Append(turns, NewTurn(f[i]))
      [] f[i].type \in ActionKinds /\ turns # <<>> -> [turns EXCEPT ![Len(turns)] = Record(@, f[i], i)]
      [] OTHER -> turns
\* what comes before the first prompt makes a turn of its own, unless it is a response
Take(turns, f, i) ==
    CASE f[i].type = "user_message" -> Append(turns, NewTurn(f[i]))
      [] f[i].type \in ActionKinds /\ turns # <<>> -> [turns EXCEPT ![Len(turns)] = Record(@, f[i], i)]
      [] f[i].type \in ActionKinds \ {"api_response"} /\ turns = <<>> -> <<Record(EmptyTurn, f[i], i)>>
      [] OTHER -> turns
Normalize(f) ==
    LET turns[n \in 0..Len(f)] == IF n = 0 THEN <<>> ELSE Take(turns[n-1], f, n)
    IN  turns[Len(f)]
\* TabTranscript lists the turns that hold something
Turns ==
    LET turns == Normalize(flow)
    IN  Picked(turns, {n \in DOMAIN turns : turns[n].prompted \/ turns[n].actions # <<>> \/ turns[n].uses > 0})

-----------------------------------------------------------------------------
(* turnsToEvents of CDashboardTab                                          *)
RowTypes == {"session_start", "session_end", "user_message", "api_call", "tool_use", "compaction"}
RowCost(e) == IF e.type \in {"user_message", "api_call"} THEN e.output ELSE 0
TurnsToEvents(f) ==
    LET cum[n \in 0..Len(f)] == IF n = 0 THEN 0 ELSE cum[n-1] + RowCost(f[n])
    IN  Picked([i \in 1..Len(f) |-> [id |-> i, type |-> f[i].type, cum |-> cum[i]]], {i \in DOMAIN f : f[i].type \in RowTypes})
FilteredEvents ==
    LET rows == TurnsToEvents(flow)
    IN  Picked(rows, {i \in DOMAIN rows : find = NoEvent \/ rows[i].type \in find})
\* the inspector: of the event picked while the search shows it
Inspected == LET own == {i \in DOMAIN FilteredEvents : FilteredEvents[i].id = pickedEv}
             IN  IF own = {} THEN NoEvent ELSE FilteredEvents[CHOOSE i \in own : TRUE].id

-----------------------------------------------------------------------------
(* TabSessionFlow                                                          *)
\* the two ends of the arrow of an event; markers have none.  A call of the API is sent by the tool
\* under its id, which is no participant.
ByToolId == <<"sender">>
Ends(e) ==
    CASE e.type = "user_message" -> <<<<"user">>, <<"tool">>>>
      [] e.type = "api_call" -> <<ByToolId, <<"api">>>>
      [] e.type \in {"api_response", "error"} -> <<<<"api">>, <<"tool">>>>
      [] e.type = "tool_use" -> <<<<"tool">>, <<"skill", e.to>>>>
      [] e.type = "subagent" -> <<<<"tool">>, <<"subagent", e.to>>>>
      [] e.type = "hook" -> <<<<"tool">>, <<"hook">>>>
      [] OTHER -> <<>>
\* defect: an error alone does not bring the API in
ParticipantsOfCalls(f) ==
    {<<"user">>, <<"tool">>}
    \cup UNION {CASE f[i].type \in {"api_call", "api_response"} -> {<<"api">>}
                  [] f[i].type = "tool_use" -> {<<"skill", f[i].to>>}
                  [] f[i].type = "subagent" -> {<<"subagent", f[i].to>>}
                  [] f[i].type = "hook" -> {<<"hook">>}
                  [] OTHER -> {} : i \in DOMAIN f}
DiscoverParticipants(f) ==
    {<<"user">>, <<"tool">>}
    \cup UNION {CASE f[i].type \in {"api_call", "api_response", "error"} -> {<<"api">>}
                  [] f[i].type = "tool_use" -> {<<"skill", f[i].to>>}
                  [] f[i].type = "subagent" -> {<<"subagent", f[i].to>>}
                  [] f[i].type = "hook" -> {<<"hook">>}
                  [] OTHER -> {} : i \in DOMAIN f}
ArrowDrawn(e) == Ends(e) # <<>> /\ Range(Ends(e)) \subseteq DiscoverParticipants(flow)
Spent(e) == IF e.type = "api_call" THEN e.input + e.output ELSE 0
\* defect: the sum of the round trip is not reset
ProcessedNoReset(f) ==
    LET cum[n \in 0..Len(f)] == IF n = 0 THEN 0 ELSE cum[n-1] + Spent(f[n])
    IN  [i \in 1..Len(f) |-> [cum |-> cum[i], rt |-> cum[i]]]
Processed(f) ==
    LET cum[n \in 0..Len(f)] == IF n = 0 THEN 0 ELSE cum[n-1] + Spent(f[n])
        trip[n \in 0..Len(f)] == IF n = 0 THEN 0 ELSE (IF f[n].type = "user_message" THEN 0 ELSE trip[n-1]) + Spent(f[n])
    IN  [i \in 1..Len(f) |-> [cum |-> cum[i], rt |-> trip[i]]]

-----------------------------------------------------------------------------
FlowStep == flowMoves < MaxFlowMoves /\ flowMoves' = flowMoves + 1

\* A later answer about the session, with more events at its end: the transcript is fetched again,
\* the flow tab when the list of sessions grows.
FlowGrew(f) ==
    /\ FlowStep /\ f # flow /\ IsPrefix(flow, f)
    /\ flow' = f
    /\ UNCHANGED <<flowMode, pickedIdx, hovered, find, pickedEv, unfolded, allUnfolded>>
\* Another session is picked and its flow has come; what was unfolded stays so by its number.
OtherSession(f) ==
    /\ FlowStep /\ f # flow /\ ~IsPrefix(flow, f)
    /\ flow' = f /\ pickedIdx' = 0 /\ pickedEv' = NoEvent /\ hovered' = 0
    /\ UNCHANGED <<flowMode, find, unfolded, allUnfolded>>
SetFlowMode ==
    /\ FlowStep /\ flowMode' = (IF flowMode = "timeline" THEN "swimlane" ELSE "timeline") /\ pickedIdx' = 0 /\ hovered' = 0
    /\ UNCHANGED <<flow, find, pickedEv, unfolded, allUnfolded>>
PickIdx(i) ==
    /\ FlowStep /\ flowMode = "timeline" /\ i \in DOMAIN flow \cup {0} /\ i # pickedIdx /\ pickedIdx' = i
    /\ UNCHANGED <<flow, flowMode, hovered, find, pickedEv, unfolded, allUnfolded>>
Hover(i) ==
    /\ FlowStep /\ flowMode = "swimlane" /\ i # hovered
    /\ i = 0 \/ (i \in DOMAIN flow /\ ArrowDrawn(flow[i]))
    /\ hovered' = i
    /\ UNCHANGED <<flow, flowMode, pickedIdx, find, pickedEv, unfolded, allUnfolded>>
FindEvents(types) ==
    /\ FlowStep /\ types # find /\ find' = types
    /\ UNCHANGED <<flow, flowMode, pickedIdx, hovered, pickedEv, unfolded, allUnfolded>>
PickEvent(i) ==
    /\ FlowStep /\ i \in DOMAIN FilteredEvents /\ pickedEv' = FilteredEvents[i].id /\ pickedEv' # pickedEv
    /\ UNCHANGED <<flow, flowMode, pickedIdx, hovered, find, unfolded, allUnfolded>>
ToggleTurn(i) ==
    /\ FlowStep /\ i \in DOMAIN Turns
    /\ unfolded' = IF i \in unfolded THEN unfolded \ {i} ELSE unfolded \cup {i}
    /\ UNCHANGED <<flow, flowMode, pickedIdx, hovered, find, pickedEv, allUnfolded>>
\* defect: of the turns that are listed the last stays folded
ToggleAllButLast ==
    /\ FlowStep /\ Turns # <<>>
    /\ unfolded' = IF allUnfolded THEN {} ELSE 1..(Len(Normalize(flow)) - 1)
    /\ allUnfolded' = ~allUnfolded
    /\ UNCHANGED <<flow, flowMode, pickedIdx, hovered, find, pickedEv>>
ToggleAll ==
    /\ FlowStep /\ Turns # <<>>
    /\ unfolded' = IF allUnfolded THEN {} ELSE DOMAIN Normalize(flow)
    /\ allUnfolded' = ~allUnfolded
    /\ UNCHANGED <<flow, flowMode, pickedIdx, hovered, find, pickedEv>>

Longest == Max({Len(f) : f \in Flows})
FlowInit ==
    /\ flow \in Flows /\ flowMode = "timeline" /\ pickedIdx = 0 /\ hovered = 0 /\ find = NoEvent /\ pickedEv = NoEvent
    /\ unfolded = {} /\ allUnfolded = FALSE /\ flowMoves = 0
FlowNext ==
    \/ \E f \in Flows : FlowGrew(f) \/ OtherSession(f)
    \/ SetFlowMode \/ ToggleAll
    \/ \E i \in 0..Longest : PickIdx(i) \/ Hover(i) \/ PickEvent(i) \/ ToggleTurn(i)
    \/ \E types \in {NoEvent} \cup {{t} : t \in RowTypes} : FindEvents(types)
FlowSpec == FlowInit /\ [][FlowNext]_flowVars

-----------------------------------------------------------------------------
FlowTypeOK ==
    /\ flow \in Flows /\ flowMode \in {"timeline", "swimlane"} /\ {pickedIdx, hovered} \subseteq 0..Longest
    /\ find \in {NoEvent} \cup SUBSET RowTypes /\ pickedEv \in {NoEvent} \cup 1..Longest
    /\ unfolded \subseteq 1..Longest /\ allUnfolded \in BOOLEAN /\ flowMoves \in 0..MaxFlowMoves

\* The transcript tells every event that is something done, in the order of the flow and once; only
\* responses that come before everything else are left out.  A turn starts where a prompt does.
TurnsTellAll ==
    LET turns == Normalize(flow)
        started == {i \in DOMAIN flow : flow[i].type \in (ActionKinds \ {"api_response"}) \cup {"user_message"}}
        done == {i \in DOMAIN flow : flow[i].type \in ActionKinds /\ \E j \in started : j <= i}
    IN  /\ FlattenSeq([n \in DOMAIN turns |-> turns[n].actions]) = Picked([i \in DOMAIN flow |-> i], done)
        /\ \A n \in DOMAIN turns : \A i \in Range(turns[n].actions) :
             Cardinality({j \in 1..i : flow[j].type = "user_message"})
               = Cardinality({m \in 1..n : turns[m].prompted})
\* The running sums: the first never falls and ends with all that the calls used, the second is what
\* was used since the last prompt; on the dashboard no row shows less than the row before.
SumsRun ==
    LET shown == Processed(flow)
        spent == [i \in DOMAIN flow |-> flow[i].input + flow[i].output]
        used(S) == SumFunctionOnSet(spent, {i \in S : flow[i].type = "api_call"})
        rows == TurnsToEvents(flow)
    IN  /\ \A i \in DOMAIN flow :
             /\ shown[i].cum = used(1..i)
             /\ shown[i].rt = used({j \in 1..i : \A k \in j..i : flow[k].type # "user_message"})
        /\ \A i, j \in DOMAIN rows : i < j => rows[i].cum <= rows[j].cum /\ rows[i].id < rows[j].id
\* Every event that goes between two participants has an arrow, but for the calls of the API.
ArrowsFindEnds ==
    \A i \in DOMAIN flow : flow[i].type # "api_call" => (ArrowDrawn(flow[i]) <=> Ends(flow[i]) # <<>>)
\* What an inspector shows is an event of the flow on the screen, and one that the search leaves in.
InspectsShown ==
    /\ pickedIdx # 0 => pickedIdx \in DOMAIN flow /\ flowMode = "timeline"
    /\ hovered # 0 => hovered \in DOMAIN flow /\ flowMode = "swimlane"
    /\ Inspected # NoEvent => Inspected \in DOMAIN flow /\ (find = NoEvent \/ flow[Inspected].type \in find)
FlowHolds == TurnsTellAll /\ SumsRun /\ ArrowsFindEnds /\ InspectsShown
\* "Expand all" and "Collapse all" leave no turn of the list out.
AllOrNone == ToggleAll => DOMAIN Turns \subseteq unfolded' \/ unfolded' = {}
=============================================================================
