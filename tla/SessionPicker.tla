--------------------------- MODULE SessionPicker ---------------------------
(***************************************************************************)
(* The explorer and the session it shows.  Another screen asks for a       *)
(* session by an event, often before the explorer is there (sessionBus);   *)
(* the explorer takes the request, lists the sessions of the range         *)
(* together with those that run, leaves out the tools that the filter      *)
(* excludes, picks a tool and a session of it, and lets a request win over *)
(* what it picked (useSessionPicker).  It picks in effects, each of which  *)
(* runs after a render in which one of its dependencies changed, with the  *)
(* values of that render.  Preact runs them before the next render, so     *)
(* nothing else happens in between.                                        *)
(*                                                                         *)
(* The sessions of the lists are rows that are one after the merging of    *)
(* the rows of several sources.                                            *)
(***************************************************************************)
EXTENDS Naturals, SequencesExt, FiniteSetsExt

CONSTANTS
    Session,        \* a sequence: the sessions, the newest first
    ToolOf,         \* the tool of each
    ToolNames,      \* a sequence: the tools, by name
    NoSession,      \* no session, no tool, no request
    MaxEvents       \* bound: steps of the user and the server
ASSUME PickerSessions ==
    /\ Session \in Seq(Range(Session)) \ {<<>>} /\ IsInjective(Session)
    /\ ToolNames \in Seq(Range(ToolOf)) /\ IsInjective(ToolNames) /\ Range(ToolNames) = Range(ToolOf)
    /\ ToolOf \in [Range(Session) -> Range(ToolOf)]
    /\ NoSession \notin Range(Session) \cup Range(ToolOf) /\ MaxEvents \in Nat

Known == Range(Session)
PickTools == Range(ToolOf)
EveryTool == PickTools

VARIABLES
    mounted,                     \* the explorer is there
    pending, remembered,         \* of the bus: the request to take, the session last shown
    timeline, live, enabled,     \* rows of the range; sessions that run; the filter
    requested,                   \* of the explorer: the request it took and has not applied
    activeTool, activeSession,
    deps,                        \* of its effects: the dependencies when they last ran, <<>> if they did not
    sessionInUrl,                \* ?session=
    wanted,                      \* the session that the user asked for last and did not leave since
    events
pickerVars == <<mounted, pending, remembered, timeline, live, enabled, requested, activeTool, activeSession,
                deps, sessionInUrl, wanted, events>>
shownVars == <<requested, activeTool, activeSession, deps>>

-----------------------------------------------------------------------------
\* mergeLiveSessions: a session that runs is listed even when the range has no row of it.
Sessions == timeline \cup live
\* isToolSelected
Filtered == {s \in Sessions : ToolOf[s] \in enabled}
Listed == {ToolOf[s] : s \in Filtered}
OfTool(t) == {s \in Filtered : ToolOf[s] = t}
PlaceIn(seq, x) == CHOOSE i \in DOMAIN seq : seq[i] = x
\* the first of a list of sessions
Newest(ss) == CHOOSE s \in ss : \A u \in ss : PlaceIn(Session, s) <= PlaceIn(Session, u)
\* orderIdsBySessionCount: the tool with most sessions first, then by name
Precedes(t, u) == \/ Cardinality(OfTool(t)) > Cardinality(OfTool(u))
                \/ /\ Cardinality(OfTool(t)) = Cardinality(OfTool(u))
                   /\ PlaceIn(ToolNames, t) < PlaceIn(ToolNames, u)
\* the tools listed, each with the number of those before it
ToolOrder == [t \in Listed |-> Cardinality({u \in Listed : Precedes(u, t)})]
FirstTool == CHOOSE t \in Listed : ToolOrder[t] = 0

\* the dependencies of the three effects; a request and the lists are one by identity
Deps == [tools |-> ToolOrder, tool |-> activeTool, session |-> activeSession, count |-> Cardinality(OfTool(activeTool)),
         request |-> requested, sessions |-> Sessions]
Settled == ~mounted \/ deps = <<Deps>>

\* What each effect of the hook sets: <<tool, session>>, or nothing
PickTool ==
    IF deps # <<>> /\ deps[1].tools = ToolOrder THEN <<>>
    ELSE IF Listed = {} THEN <<NoSession, NoSession>>
    ELSE IF activeTool \notin Listed THEN <<FirstTool, activeSession>>
    ELSE <<>>
PickSession ==
    LET own == OfTool(activeTool) IN
    IF deps # <<>> /\ deps[1].tool = activeTool /\ deps[1].count = Cardinality(own) THEN <<>>
    ELSE IF own # {} /\ activeSession \notin own THEN <<Newest(own)>> ELSE <<>>
Applies ==
    /\ requested # NoSession /\ requested \in Sessions
    /\ deps = <<>> \/ deps[1].request # requested \/ deps[1].sessions # Sessions

\* A flush of the effects: the last one that sets a value wins.
\* defect: the request is applied first
EffectsRequestFirst ==
    LET apply == Applies /\ ToolOf[requested] \in enabled
        tool == IF apply THEN ToolOf[requested] ELSE activeTool
        session == IF apply THEN requested ELSE activeSession
    IN  /\ ~Settled
        /\ activeTool' = IF PickTool # <<>> THEN PickTool[1] ELSE tool
        /\ activeSession' = IF PickSession # <<>> THEN PickSession[1]
                            ELSE IF PickTool # <<>> THEN PickTool[2] ELSE session
        /\ requested' = IF Applies THEN NoSession ELSE requested
        /\ deps' = <<Deps>>
        /\ remembered' = IF activeSession = NoSession THEN remembered ELSE activeSession
        /\ sessionInUrl' = IF activeSession = NoSession THEN sessionInUrl ELSE activeSession
        /\ UNCHANGED <<mounted, pending, timeline, live, enabled, wanted, events>>
Effects ==
    LET apply == Applies /\ ToolOf[requested] \in enabled
        tool == IF PickTool # <<>> THEN PickTool[1] ELSE activeTool
        session == IF PickSession # <<>> THEN PickSession[1]
                   ELSE IF PickTool # <<>> THEN PickTool[2] ELSE activeSession
    IN  /\ ~Settled
        /\ activeTool' = IF apply THEN ToolOf[requested] ELSE tool
        /\ activeSession' = IF apply THEN requested ELSE session
        /\ requested' = IF Applies THEN NoSession ELSE requested
        /\ deps' = <<Deps>>
        \* the explorer's own effect keeps what is shown in the bus and in the URL
        /\ remembered' = IF activeSession = NoSession THEN remembered ELSE activeSession
        /\ sessionInUrl' = IF activeSession = NoSession THEN sessionInUrl ELSE activeSession
        /\ UNCHANGED <<mounted, pending, timeline, live, enabled, wanted, events>>

-----------------------------------------------------------------------------
Event == Settled /\ events < MaxEvents /\ events' = events + 1

\* aictl:select-session.  The listener of the bus is first; the explorer takes the request from it.
SelectSession(s) ==
    /\ Event
    /\ wanted' = s
    /\ IF mounted THEN requested' = s /\ pending' = NoSession
       ELSE pending' = s /\ UNCHANGED requested
    /\ UNCHANGED <<mounted, remembered, timeline, live, enabled, activeTool, activeSession, deps, sessionInUrl>>
\* takePendingSelect
Mount ==
    /\ Event /\ ~mounted /\ mounted' = TRUE
    /\ requested' = IF pending # NoSession THEN pending ELSE remembered
    /\ pending' = NoSession
    /\ timeline' = {} /\ activeTool' = NoSession /\ activeSession' = NoSession /\ deps' = <<>>
    /\ UNCHANGED <<remembered, live, enabled, sessionInUrl, wanted>>
\* A request that waits for its session is given up with the explorer.
Unmount ==
    /\ Event /\ mounted /\ mounted' = FALSE
    /\ sessionInUrl' = NoSession
    /\ requested' = NoSession /\ activeTool' = NoSession /\ activeSession' = NoSession /\ deps' = <<>>
    /\ timeline' = {} /\ wanted' = activeSession
    /\ UNCHANGED <<pending, remembered, live, enabled>>
\* The answer to the newest fetch
RowsArrive(rows) ==
    /\ Event /\ mounted
    /\ timeline' = rows
    /\ wanted' = IF activeSession # NoSession /\ wanted = activeSession /\ wanted \notin rows \cup live THEN NoSession ELSE wanted
    /\ UNCHANGED <<mounted, pending, remembered, live, enabled, shownVars, sessionInUrl>>
LiveChanges(s) ==
    /\ Event
    /\ live' = IF s \in live THEN live \ {s} ELSE live \cup {s}
    /\ wanted' = IF wanted = s /\ activeSession = s /\ s \notin timeline THEN NoSession ELSE wanted
    /\ UNCHANGED <<mounted, pending, remembered, timeline, enabled, shownVars, sessionInUrl>>
\* With another filter a request or a session of an excluded tool is no longer shown.
ChooseTools(tools) ==
    /\ Event /\ tools # enabled /\ enabled' = tools
    /\ wanted' = IF wanted # NoSession /\ ToolOf[wanted] \in tools /\ wanted \in {activeSession, pending, requested}
                 THEN wanted ELSE NoSession
    /\ UNCHANGED <<mounted, pending, remembered, timeline, live, shownVars, sessionInUrl>>
PickFromTabs(t) ==
    /\ Event /\ mounted /\ t \in Listed /\ t # activeTool
    /\ activeTool' = t /\ wanted' = NoSession
    /\ UNCHANGED <<mounted, pending, remembered, timeline, live, enabled, requested, activeSession, deps, sessionInUrl>>
PickFromList(s) ==
    /\ Event /\ mounted /\ s \in OfTool(activeTool) /\ s # activeSession
    /\ activeSession' = s /\ wanted' = IF requested = NoSession THEN s ELSE NoSession
    /\ UNCHANGED <<mounted, pending, remembered, timeline, live, enabled, requested, activeTool, deps, sessionInUrl>>

PickerInit ==
    /\ mounted = FALSE /\ timeline = {} /\ live \in SUBSET {Session[1]} /\ enabled = EveryTool
    /\ pending \in Known \cup {NoSession}       \* from ?session=
    /\ wanted = pending /\ sessionInUrl = pending
    /\ remembered = NoSession /\ requested = NoSession
    /\ activeTool = NoSession /\ activeSession = NoSession /\ deps = <<>> /\ events = 0
PickerNext ==
    \/ Effects \/ Mount \/ Unmount
    \/ \E s \in Known : SelectSession(s) \/ LiveChanges(s) \/ PickFromList(s)
    \/ \E rows \in SUBSET Known : RowsArrive(rows)
    \/ \E tools \in SUBSET PickTools : ChooseTools(tools)
    \/ \E t \in PickTools : PickFromTabs(t)
PickerSpec == PickerInit /\ [][PickerNext]_pickerVars

-----------------------------------------------------------------------------
PickerTypeOK ==
    /\ mounted \in BOOLEAN /\ timeline \subseteq Known /\ live \subseteq Known /\ enabled \subseteq PickTools
    /\ {pending, remembered, requested, activeSession, sessionInUrl, wanted} \subseteq Known \cup {NoSession}
    /\ activeTool \in PickTools \cup {NoSession} /\ events \in 0..MaxEvents

\* The session that was asked for is shown once it is listed, whatever the effects picked before,
\* and coming back to the explorer shows the session it showed.
RequestWins ==
    Settled /\ mounted /\ wanted # NoSession /\ wanted \in Filtered => activeSession = wanted
\* A session of a tool that the filter excludes is never shown.
NoneExcluded ==
    Settled /\ mounted /\ activeSession # NoSession => ToolOf[activeSession] \in enabled
\* The session shown is of the tool shown.
SessionOfTool ==
    Settled /\ mounted /\ activeSession # NoSession => ToolOf[activeSession] = activeTool
PickerHolds == RequestWins /\ NoneExcluded /\ SessionOfTool
=============================================================================
