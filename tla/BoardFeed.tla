----------------------------- MODULE BoardFeed -----------------------------
(***************************************************************************)
(* How the board gets its data: useBoardData with its two loaders, the     *)
(* stream of useSse that tells it when to fetch again, and getBoard, which *)
(* sends the ETag of the last answer to the same query.  One fetch feeds   *)
(* the whole range; with a time selected, a second one feeds everything    *)
(* but the charts.                                                         *)
(*                                                                         *)
(* An answer of /api/board is abstracted to the query and the version of   *)
(* the server's data it was made from, which also stand for its ETag.      *)
(***************************************************************************)
EXTENDS Naturals, SequencesExt

CONSTANTS
    Filters,        \* what the user may choose: range, project, model, status, text, tools
    Times,          \* times that can be selected in a chart
    Whole,          \* no time selected
    Nothing,        \* no data, no ETag
    Asked, NotModified, Failed,    \* replies to a fetch: none yet, 304, an error
    MaxVersion,     \* bound: changes of the server's data
    MaxTroubles     \* bound: broken streams and failed fetches

Queries == [filter : Filters, time : Times \cup {Whole}]
Answers == [to : Queries, at : 0..MaxVersion]
Loaders == {"main", "sel"}
Selections == [filter : Filters, sel : Times \cup {Whole}]
Fetches == [query : Queries, etag : Answers \cup {Nothing},
            reply : Answers \cup {Asked, NotModified, Failed}]

ASSUME BoardBounds == MaxVersion \in Nat /\ MaxTroubles \in Nat
ASSUME BoardValues ==
    /\ Whole \notin Times
    /\ {Nothing, Asked, NotModified, Failed} \cap Answers = {}
    /\ NotModified # Asked /\ Failed # Asked /\ Failed # NotModified

VARIABLES
    version,            \* of the server's data
    chosen,             \* stateRef: the filters and the selected time
    live, away,         \* the Live switch; the page hidden, or a panel being dragged
    main, selected,     \* the answers in the state of the hook
    last, fetches,      \* per loader: last, and the fetches whose callbacks may run
    busy, error,
    sources, tracked,   \* EventSources not closed; whether esRef is the last of them
    timers, closed,     \* retries that wait; closedRef
    connected, dirty,
    troubles

dataVars == <<main, selected, last, fetches, busy, error>>
streamVars == <<sources, tracked, timers, closed, connected>>
feedVars == <<version, chosen, live, away, dataVars, streamVars, dirty, troubles>>

MainQuery(c) == [filter |-> c.filter, time |-> Whole]
SelQuery(c) == [filter |-> c.filter, time |-> c.sel]
Current(q) == [to |-> q, at |-> version]

-----------------------------------------------------------------------------
\* createLoader.load: the fetch before it is aborted and its callback ignored
\* defect: it is neither
LoadBeside(l, q) ==
    fetches[l] \cup {[query |-> q, reply |-> Asked,
                      etag |-> IF last[l] # Nothing /\ last[l].to = q THEN last[l] ELSE Nothing]}
Load(l, q) ==
    {[query |-> q, reply |-> Asked,
      etag |-> IF last[l] # Nothing /\ last[l].to = q THEN last[l] ELSE Nothing]}

\* fetchNow, for what is chosen
FetchNow(c) ==
    /\ busy' = TRUE
    /\ fetches' = [l \in Loaders |-> IF l = "main" THEN Load(l, MainQuery(c))
                                     ELSE IF c.sel = Whole THEN {} ELSE Load(l, SelQuery(c))]
    /\ selected' = IF c.sel = Whole THEN Nothing ELSE selected
    /\ UNCHANGED <<main, last, error>>

\* A choice renders the hook again, and the effect on its filters fetches at once.
Choose ==
    /\ chosen' \in Selections \ {chosen}
    /\ FetchNow(chosen')
    /\ UNCHANGED <<version, live, away, streamVars, dirty, troubles>>

\* The interval.  Without a stream it fetches also when nothing says that it must, every 30 seconds.
Tick ==
    /\ live /\ ~away
    /\ dirty \/ ~connected
    /\ dirty' = FALSE
    /\ FetchNow(chosen)
    /\ UNCHANGED <<version, chosen, live, away, streamVars, troubles>>

\* /api/board: 304 when the answer still is the one the ETag names
AnswerTo(f) == IF f.etag = Current(f.query) THEN NotModified ELSE Current(f.query)
Replied(l, f, reply) == fetches' = [fetches EXCEPT ![l] = (@ \ {f}) \cup {[f EXCEPT !.reply = reply]}]
Reply(l, f) ==
    /\ f.reply = Asked
    /\ Replied(l, f, AnswerTo(f))
    /\ UNCHANGED <<version, chosen, live, away, main, selected, last, busy, error, streamVars, dirty, troubles>>
FetchFails(l, f) ==
    /\ f.reply = Asked /\ troubles < MaxTroubles
    /\ Replied(l, f, Failed)
    /\ troubles' = troubles + 1
    /\ UNCHANGED <<version, chosen, live, away, main, selected, last, busy, error, streamVars, dirty>>

\* The callback of a fetch, and what the hook gives the loaders as onData and onError
Callback(l, f) ==
    LET answered == f.reply \in Answers
    IN  /\ f.reply # Asked
        /\ fetches' = [fetches EXCEPT ![l] = @ \ {f}]
        /\ last' = IF answered THEN [last EXCEPT ![l] = f.reply] ELSE last
        /\ main' = IF answered /\ l = "main" THEN f.reply ELSE main
        /\ selected' = IF answered /\ l = "sel" THEN f.reply ELSE selected
        /\ busy' = (busy /\ l = "sel")
        /\ error' = (f.reply = Failed)
        /\ UNCHANGED <<version, chosen, live, away, streamVars, dirty, troubles>>

DataChanges ==
    /\ version < MaxVersion
    /\ version' = version + 1
    /\ UNCHANGED <<chosen, live, away, dataVars, streamVars, dirty, troubles>>

\* The tab goes to the background and comes back, or a panel is dragged and dropped.
Away ==
    /\ away' = ~away
    /\ UNCHANGED <<version, chosen, live, dataVars, streamVars, dirty, troubles>>

-----------------------------------------------------------------------------
(* useSse                                                                  *)
Connect == /\ sources' = Append(sources, "connecting") /\ tracked' = TRUE

\* The switch on: the effect runs again.  A retry that still waits is not cancelled.
SwitchOn ==
    /\ ~live /\ live' = TRUE
    /\ closed' = FALSE
    /\ Connect
    /\ UNCHANGED <<version, chosen, away, dataVars, timers, connected, dirty, troubles>>
\* The switch off: the cleanup closes the EventSource that esRef names.
SwitchOff ==
    /\ live /\ live' = FALSE
    /\ closed' = TRUE /\ connected' = FALSE
    /\ sources' = IF tracked THEN Front(sources) ELSE sources
    /\ tracked' = FALSE
    /\ UNCHANGED <<version, chosen, away, dataVars, timers, dirty, troubles>>

Open(i) ==
    /\ sources[i] = "connecting"
    /\ sources' = [sources EXCEPT ![i] = "open"] /\ connected' = TRUE
    /\ UNCHANGED <<version, chosen, live, away, dataVars, tracked, timers, closed, dirty, troubles>>
\* onmessage.  The server sends when its snapshot changes, and every 30 seconds when it does not.
Message(i) ==
    /\ sources[i] = "open"
    /\ dirty' = TRUE
    /\ UNCHANGED <<version, chosen, live, away, dataVars, streamVars, troubles>>
\* onerror: closed, and opened again after a while
\* defect: the hook still counts as connected, and opens no other
BrokenUnnoticed(i) ==
    /\ sources' = RemoveAt(sources, i) /\ UNCHANGED <<connected, timers>>
    /\ tracked' = (tracked /\ i < Len(sources))
Broken(i) ==
    /\ sources' = RemoveAt(sources, i) /\ connected' = FALSE
    /\ tracked' = (tracked /\ i < Len(sources))
    /\ timers' = IF closed THEN timers ELSE timers + 1
Break(i) ==
    /\ troubles < MaxTroubles /\ troubles' = troubles + 1
    /\ Broken(i)
    /\ UNCHANGED <<version, chosen, live, away, dataVars, closed, dirty>>
Retry ==
    /\ timers > 0 /\ timers' = timers - 1
    /\ IF closed THEN UNCHANGED <<sources, tracked>> ELSE Connect
    /\ UNCHANGED <<version, chosen, live, away, dataVars, closed, connected, dirty, troubles>>

-----------------------------------------------------------------------------
\* The effects of the first render have run.
FeedInit ==
    /\ version = 0 /\ chosen \in Selections
    /\ live = TRUE /\ away = FALSE
    /\ main = Nothing /\ selected = Nothing /\ error = FALSE
    /\ last = [l \in Loaders |-> Nothing]
    /\ busy = TRUE
    /\ fetches = [l \in Loaders |->
          IF l = "main" THEN {[query |-> MainQuery(chosen), reply |-> Asked, etag |-> Nothing]}
          ELSE IF chosen.sel = Whole THEN {}
          ELSE {[query |-> SelQuery(chosen), reply |-> Asked, etag |-> Nothing]}]
    /\ sources = <<"connecting">> /\ tracked = TRUE
    /\ timers = 0 /\ closed = FALSE /\ connected = FALSE /\ dirty = FALSE
    /\ troubles = 0

FeedNext ==
    \/ Choose \/ Tick \/ DataChanges \/ Away
    \/ \E l \in Loaders : \E f \in fetches[l] : Reply(l, f) \/ FetchFails(l, f) \/ Callback(l, f)
    \/ SwitchOn \/ SwitchOff \/ Retry
    \/ \E i \in 1..Len(sources) : Open(i) \/ Message(i) \/ Break(i)

FeedSpec == FeedInit /\ [][FeedNext]_feedVars

Replies(l) == \E f \in fetches[l] : Reply(l, f)
Callbacks(l) == \E f \in fetches[l] : Callback(l, f)
Opens == \E i \in 1..Len(sources) : Open(i)
Messages == \E i \in 1..Len(sources) : Message(i)

\* Timers go off, the server answers and sends; an answer comes in between two ticks now and then.
FeedFairSpec ==
    /\ FeedSpec
    /\ WF_feedVars(Tick) /\ WF_feedVars(Retry) /\ WF_feedVars(Opens) /\ WF_feedVars(Messages)
    /\ \A l \in Loaders : WF_feedVars(Replies(l)) /\ SF_feedVars(Callbacks(l))
-----------------------------------------------------------------------------
\* The state of the hook has its type; no fetch of a loader runs beside another.
FeedTypeOK ==
    /\ version \in 0..MaxVersion /\ chosen \in Selections
    /\ live \in BOOLEAN /\ away \in BOOLEAN /\ busy \in BOOLEAN /\ error \in BOOLEAN
    /\ main \in Answers \cup {Nothing} /\ selected \in Answers \cup {Nothing}
    /\ last \in [Loaders -> Answers \cup {Nothing}]
    /\ DOMAIN fetches = Loaders
    /\ \A l \in Loaders : fetches[l] \subseteq Fetches /\ \A f, g \in fetches[l] : f = g
    /\ \A i \in 1..Len(sources) : sources[i] \in {"connecting", "open"}
    /\ tracked => sources # <<>>
    /\ closed = ~live /\ timers \in 0..MaxTroubles
    /\ connected \in BOOLEAN /\ dirty \in BOOLEAN /\ troubles \in 0..MaxTroubles

\* What the charts show changes only to an answer to what is chosen now, and never to an older one.
ChartsView == INSTANCE LatestAnswer WITH Questions <- Queries, question <- MainQuery(chosen), shown <- main
ChartsFollow == ChartsView!Spec

\* Once the user leaves the filters alone, the board comes to show the server's data for them,
\* whatever broke before.
BoardCatchesUp ==
    <>[](live /\ ~away) /\ <>[][UNCHANGED chosen]_feedVars => <>[](main = Current(MainQuery(chosen)))
=============================================================================
