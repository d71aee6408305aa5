--------------------------- MODULE LiveDashboard ---------------------------
(***************************************************************************)
(* How the dashboard page follows the daemon: SnapshotState and _serve_sse *)
(* on the server, useSse and useDashboard in the page.  The page fetches   *)
(* the whole snapshot and merges what the stream sends over it.  A message *)
(* leaves out what did not change since the message before it on the same  *)
(* connection, so a page that misses one, or replaces what it has merged   *)
(* by an older snapshot, does not hear of that change again.               *)
(*                                                                         *)
(* A snapshot is abstracted to four parts, which the code sends in four    *)
(* ways: "memory" stands for the keys sent when they change, "live" for    *)
(* the live block of a tool, which the page fills in itself, "lists" for   *)
(* the files and processes of a tool, of which the stream sends only the   *)
(* revision, and "row" for a session row, sent as a change of rows.  The   *)
(* value of a part is the version in which it last changed.                *)
(***************************************************************************)
EXTENDS Naturals, SequencesExt

CONSTANTS
    Same,          \* a part that a message leaves out
    Nothing,       \* no snapshot, no fetch, nothing sent
    Asked,         \* a fetch that the server has not answered
    MaxClients,    \* _MAX_SSE_CLIENTS
    MaxQueued,     \* maxQueued
    MaxVersion,    \* bound: snapshots published
    MaxWire,       \* bound: messages on their way
    MaxTroubles    \* bound: how often a connection breaks, a fetch fails, the page is hidden

ASSUME BoundsAreNumbers ==
    /\ MaxClients \in Nat \ {0} /\ MaxQueued \in Nat \ {0} /\ MaxWire \in Nat \ {0}
    /\ MaxVersion \in Nat \ {0} /\ MaxTroubles \in Nat
Versions == 0..MaxVersion
ASSUME NoValues == Same \notin Versions

Parts == {"memory", "live", "lists", "row"}
Contents == [value : [Parts -> Versions], listed : BOOLEAN]
Changes == {"all", "upsert", "patch", "remove", "same"}
Messages == [memory : Versions \cup {Same}, live : Versions \cup {Same}, lists : Versions,
             rows : Changes, row : Versions, listed : BOOLEAN, at : Versions]
ASSUME NothingApart == {Nothing, Asked} \cap Contents = {} /\ Nothing # Asked

VARIABLES
    version, snap,      \* SnapshotState: its version and snapshot
    handler, known,     \* _serve_sse: where the thread of the page's stream is, its version,
    sent,               \* and _sse_sent: the snapshot that the messages so far add up to
    leftover,           \* threads of streams that the page no longer reads
    slots,              \* _sse_client_count
    wire,               \* messages on their way
    stream,             \* useSse: "retry", "connecting" or "open"
    held,               \* the snapshot that the page shows; Nothing before the first
    rev,                \* snapRevRef
    fetch,              \* the fetch under way: Nothing, Asked or what it will bring
    queue, dropped,     \* queueRef and droppedRef
    lastLive,           \* liveRef
    hidden,             \* document.hidden
    applyTimer, refetchTimer, everConnected,
    merged, gone,       \* ghosts: see Merge and Answer
    troubles

serverVars == <<version, snap>>
threadVars == <<handler, known, sent, leftover, slots>>
linkVars == <<wire, stream>>
queueVars == <<queue, dropped, lastLive>>
viewVars == <<held, rev, merged, gone>>
vars == <<serverVars, threadVars, linkVars, queueVars, viewVars, troubles, fetch, hidden,
          applyTimer, refetchTimer, everConnected>>

FirstSnapshots == [value : {[p \in Parts |-> 1]}, listed : BOOLEAN]

\* The first effects of the page have run: the snapshot is asked for, the stream is opened.
LiveInit ==
    /\ version = 1 /\ snap \in FirstSnapshots
    /\ handler = "none" /\ known = 0 /\ sent = Nothing /\ leftover = 0 /\ slots = 0
    /\ wire = <<>> /\ stream = "connecting"
    /\ held = Nothing /\ rev = 0 /\ fetch = Asked
    /\ queue = <<>> /\ dropped = FALSE /\ lastLive = Same
    /\ hidden = FALSE /\ applyTimer = FALSE /\ refetchTimer = FALSE /\ everConnected = FALSE
    /\ merged = 0 /\ gone = 0 /\ troubles = 0

-----------------------------------------------------------------------------
\* SnapshotState.update: the refresh loop publishes a snapshot in which one part differs
Publish ==
    /\ version < MaxVersion
    /\ version' = version + 1
    /\ \E p \in Parts, listed \in BOOLEAN :
          /\ IF p = "row" THEN snap.listed \/ listed ELSE listed = snap.listed
          /\ snap' = [value |-> [snap.value EXCEPT ![p] = version + 1], listed |-> listed]
    /\ UNCHANGED <<threadVars, linkVars, queueVars, viewVars, troubles, fetch, hidden,
                   applyTimer, refetchTimer, everConnected>>

\* _sessions_delta: what happened to the row since the last message
RowChange(before) ==
    CASE before = Nothing -> "all"
      [] before # Nothing /\ before.value["row"] = snap.value["row"] -> "same"
      [] before # Nothing /\ before.value["row"] # snap.value["row"] ->
           CASE snap.listed /\ before.listed -> "patch"
             [] snap.listed /\ ~before.listed -> "upsert"
             [] ~snap.listed /\ before.listed -> "remove"
             [] OTHER -> "same"

\* _omit_unchanged_sse_keys and _omit_unchanged_tool_live
Omit(before, p) == IF before # Nothing /\ before.value[p] = snap.value[p] THEN Same ELSE snap.value[p]

Summary(before) ==
    [memory |-> Omit(before, "memory"), live |-> Omit(before, "live"), lists |-> snap.value["lists"],
     rows |-> RowChange(before), row |-> snap.value["row"], listed |-> snap.listed, at |-> version]

\* _write_sse: whatever snapshot is current when the bytes are asked for
Write == /\ wire' = Append(wire, Summary(sent)) /\ sent' = snap

\* The first message, and the version read after it
WriteFirst ==
    /\ handler = "first" /\ Len(wire) < MaxWire
    /\ Write
    /\ handler' = "version"
    /\ UNCHANGED <<known, leftover, slots>>
ReadVersion ==
    /\ handler = "version"
    /\ known' = version /\ handler' = "wait"
    /\ UNCHANGED <<sent, leftover, slots, wire>>

\* wait_for_update: a newer version, or the one known once more after 30 seconds
WakeUp ==
    /\ handler = "wait" /\ version > known
    /\ known' = version /\ handler' = "write"
    /\ UNCHANGED <<sent, leftover, slots, wire>>

\* defect: after 30 seconds only a comment is sent, to keep the connection open
TimeOutKeepsAlive ==
    /\ handler = "wait" /\ version <= known
    /\ UNCHANGED <<handler, known, sent, leftover, slots, wire>>
TimeOut ==
    /\ handler = "wait" /\ version <= known
    /\ handler' = "write"
    /\ UNCHANGED <<known, sent, leftover, slots, wire>>
WriteNext ==
    /\ handler = "write" /\ Len(wire) < MaxWire
    /\ Write
    /\ handler' = "wait"
    /\ UNCHANGED <<known, leftover, slots>>

\* defect: a thread that a broken pipe ends does not give its slot back
EndLeftoverKeeps ==
    /\ leftover > 0 /\ leftover' = leftover - 1 /\ slots' = slots
    /\ UNCHANGED <<handler, known, sent, wire>>

\* The next write to a stream that nobody reads fails
EndLeftover ==
    /\ leftover > 0 /\ leftover' = leftover - 1 /\ slots' = slots - 1
    /\ UNCHANGED <<handler, known, sent, wire>>

ThreadStep ==
    /\ WriteFirst \/ ReadVersion \/ WakeUp \/ TimeOut \/ WriteNext
    /\ UNCHANGED <<serverVars, stream, queueVars, viewVars, troubles, fetch, hidden,
                   applyTimer, refetchTimer, everConnected>>
LeftoverStep ==
    /\ EndLeftover
    /\ UNCHANGED <<serverVars, stream, queueVars, viewVars, troubles, fetch, hidden,
                   applyTimer, refetchTimer, everConnected>>

-----------------------------------------------------------------------------
\* refresh: one fetch at a time
Refresh == fetch' = IF fetch = Nothing THEN Asked ELSE fetch

Trouble == troubles < MaxTroubles /\ troubles' = troubles + 1

\* The server accepts the stream; a stream that was open before may have missed changes
Connect ==
    /\ stream = "connecting" /\ slots < MaxClients
    /\ slots' = slots + 1 /\ handler' = "first" /\ known' = 0 /\ sent' = Nothing
    /\ stream' = "open" /\ everConnected' = TRUE
    /\ IF everConnected THEN Refresh ELSE UNCHANGED fetch
    /\ UNCHANGED <<serverVars, leftover, wire, queueVars, viewVars, troubles, hidden,
                   applyTimer, refetchTimer>>

\* Too many streams: an error for the page, which tries again
Reject ==
    /\ stream = "connecting" /\ slots >= MaxClients
    /\ stream' = "retry"
    /\ UNCHANGED <<serverVars, threadVars, wire, queueVars, viewVars, troubles, fetch, hidden,
                   applyTimer, refetchTimer, everConnected>>
Retry ==
    /\ stream = "retry"
    /\ stream' = "connecting"
    /\ UNCHANGED <<serverVars, threadVars, wire, queueVars, viewVars, troubles, fetch, hidden,
                   applyTimer, refetchTimer, everConnected>>

\* The connection breaks; the page hears of it, or only sees that nothing comes
Break(heard) ==
    /\ stream = "open" /\ handler # "none"
    /\ Trouble
    /\ handler' = "none" /\ leftover' = leftover + 1
    /\ stream' = (IF heard THEN "retry" ELSE "open")
    /\ wire' = <<>>
    /\ UNCHANGED <<serverVars, known, sent, slots, queueVars, viewVars, fetch,
                   hidden, applyTimer, refetchTimer, everConnected>>

-----------------------------------------------------------------------------
\* fillToolLive: the live block that a message leaves out is the last one heard
Fill(m) == [m EXCEPT !.live = IF @ = Same THEN lastLive ELSE @]

\* applySessionsDelta; a patch of a row that the page does not have is ignored
MergeRow(s, m) ==
    IF m.rows = "same" \/ (m.rows = "patch" /\ ~s.listed) THEN s
    ELSE [value |-> [s.value EXCEPT !["row"] = m.row], listed |-> m.listed]

\* mergeSseSummary: the lists stay those of the snapshot fetched
MergeSseSummary(s, m) ==
    LET value == [s.value EXCEPT !["memory"] = IF m.memory = Same THEN @ ELSE m.memory,
                                 !["live"] = IF m.live = Same THEN @ ELSE m.live]
    IN  MergeRow([s EXCEPT !.value = value], m)

\* defect: of the messages that wait, only the newest is merged
MergeNewest(s, batch) == IF batch = <<>> THEN s ELSE MergeSseSummary(s, Last(batch))

MergeBatch(s, batch) == FoldLeft(MergeSseSummary, s, batch)

BringsAll(batch) == \E i \in DOMAIN batch : batch[i].rows = "all"
\* What the page does not hear of its row: a patch when it does not have the row, nothing when it
\* fetched a row that came and went since the message before.
Misses(s, m) ==
    \/ m.rows = "patch" /\ ~s.listed
    \/ m.rows = "same" /\ s.listed /\ ~m.listed /\ s.value["row"] < m.row
Before(s, batch, i) == MergeBatch(s, SubSeq(batch, 1, i - 1))
MissesRow(s, batch) == \E i \in DOMAIN batch : Misses(Before(s, batch, i), batch[i])

\* flush, with the snapshot that the updates are merged into.  Ghosts: merged is the version
\* of the last message merged, gone the version of a message that the page shows nothing of,
\* 0 if there is none; the first message of a connection brings everything.
Flush(s, batch, missing) ==
    /\ applyTimer' = FALSE
    /\ IF s = Nothing \/ batch = <<>>
       THEN /\ held' = s /\ queue' = batch /\ gone' = missing /\ UNCHANGED merged
       ELSE /\ held' = MergeBatch(s, batch) /\ queue' = <<>>
            /\ merged' = Last(batch).at
            /\ gone' = IF MissesRow(s, batch) THEN Last(batch).at
                       ELSE IF BringsAll(batch) THEN 0 ELSE missing

\* defect: the revision of the snapshot is not kept, so that none differs from it
RefreshSoonNever(m) == UNCHANGED refetchTimer

\* refreshSoon: the lists of the page are not those of the message
RefreshSoon(m) ==
    refetchTimer' = (refetchTimer \/ (rev # 0 /\ m.lists # rev /\ fetch = Nothing))

Later(a, b) == IF a > b THEN a ELSE b

\* defect: one more than the queue has room for
FullLate(batch) == Len(batch) > MaxQueued + 1
Full(batch) == Len(batch) > MaxQueued

\* handleMessage; of messages that come fast some wait for the timer.  The queue is longer than
\* what comes before a timer or the first snapshot: it only overflows while the page is hidden.
Receive ==
    /\ stream = "open" /\ wire # <<>>
    /\ hidden \/ Len(queue) < MaxQueued
    /\ LET m == Fill(Head(wire))
           full == Full(Append(queue, m))
           batch == IF full THEN Tail(Append(queue, m)) ELSE Append(queue, m)
           missing == IF full THEN Later(gone, Head(Append(queue, m)).at) ELSE gone
       IN  /\ lastLive' = m.live
           /\ dropped' = (dropped \/ full)
           /\ \/ /\ hidden
                 /\ queue' = batch /\ gone' = missing
                 /\ UNCHANGED <<held, merged, applyTimer, refetchTimer>>
              \/ /\ ~hidden
                 /\ RefreshSoon(m)
                 /\ \/ Flush(held, batch, missing)
                    \/ /\ queue' = batch /\ gone' = missing /\ applyTimer' = TRUE
                       /\ UNCHANGED <<held, merged>>
    /\ wire' = Tail(wire)
    /\ UNCHANGED <<serverVars, threadVars, stream, rev, troubles, fetch, hidden, everConnected>>

ApplyTimer ==
    /\ applyTimer
    /\ Flush(held, queue, gone)
    /\ UNCHANGED <<serverVars, threadVars, linkVars, dropped, lastLive, rev, troubles, fetch,
                   hidden, refetchTimer, everConnected>>

-----------------------------------------------------------------------------
\* The server builds the answer from the snapshot that is current
Serve ==
    /\ fetch = Asked
    /\ fetch' = snap
    /\ UNCHANGED <<serverVars, threadVars, linkVars, queueVars, viewVars, troubles, hidden,
                   applyTimer, refetchTimer, everConnected>>

VersionOf(s) == CHOOSE v \in {s.value[p] : p \in Parts} : \A p \in Parts : s.value[p] <= v

\* The answer replaces what the page shows, then the updates that wait are merged into it.
\* A message merged before and later than the answer is lost.
Answer ==
    /\ fetch \notin {Nothing, Asked}
    /\ rev' = fetch.value["lists"]
    /\ Flush(fetch, queue, IF merged > VersionOf(fetch) THEN merged
                           ELSE IF gone > VersionOf(fetch) THEN gone ELSE 0)
    /\ fetch' = Nothing
    /\ UNCHANGED <<serverVars, threadVars, linkVars, dropped, lastLive, troubles, hidden,
                   refetchTimer, everConnected>>

FetchFails ==
    /\ fetch # Nothing
    /\ Trouble
    /\ fetch' = Nothing
    /\ UNCHANGED <<serverVars, threadVars, linkVars, queueVars, viewVars, hidden,
                   applyTimer, refetchTimer, everConnected>>

RefetchTimer ==
    /\ refetchTimer
    /\ refetchTimer' = FALSE
    /\ Refresh
    /\ UNCHANGED <<serverVars, threadVars, linkVars, queueVars, viewVars, troubles, hidden,
                   applyTimer, everConnected>>

\* The safety net: nothing loaded, no stream, or a stream on which nothing comes
Stalled == held = Nothing \/ stream # "open" \/ handler = "none"
StallTimer ==
    /\ ~hidden /\ Stalled /\ fetch = Nothing
    /\ Refresh
    /\ UNCHANGED <<serverVars, threadVars, linkVars, queueVars, viewVars, troubles, hidden,
                   applyTimer, refetchTimer, everConnected>>

Hide ==
    /\ ~hidden
    /\ Trouble
    /\ hidden' = TRUE
    /\ UNCHANGED <<serverVars, threadVars, linkVars, queueVars, viewVars, fetch,
                   applyTimer, refetchTimer, everConnected>>

\* onVisible
Show ==
    /\ hidden
    /\ hidden' = FALSE
    /\ IF dropped THEN Refresh ELSE UNCHANGED fetch
    /\ dropped' = FALSE
    /\ Flush(held, queue, gone)
    /\ UNCHANGED <<serverVars, threadVars, linkVars, lastLive, rev, troubles, refetchTimer,
                   everConnected>>

LinkStep == Connect \/ Reject \/ Retry
FetchStep == Serve \/ Answer
LiveNext ==
    \/ Publish \/ ThreadStep \/ LeftoverStep
    \/ LinkStep \/ Break(TRUE) \/ Break(FALSE)
    \/ Receive \/ ApplyTimer
    \/ FetchStep \/ FetchFails \/ RefetchTimer \/ StallTimer
    \/ Hide \/ Show

LiveSpec == LiveInit /\ [][LiveNext]_vars

\* The thread of a stream runs and is woken, a thread without a reader fails in the end, the
\* page's timers fire and its handlers run, a fetch is answered or fails.
LiveFairSpec ==
    /\ LiveSpec
    /\ WF_vars(ThreadStep) /\ WF_vars(LeftoverStep)
    /\ WF_vars(LinkStep) /\ WF_vars(Receive) /\ WF_vars(ApplyTimer)
    /\ WF_vars(FetchStep) /\ WF_vars(RefetchTimer) /\ WF_vars(StallTimer)

-----------------------------------------------------------------------------
TypeOK ==
    /\ version \in Versions \ {0} /\ snap \in Contents
    /\ handler \in {"none", "first", "version", "wait", "write"} /\ known \in Versions
    /\ sent \in Contents \cup {Nothing}
    /\ leftover \in Nat /\ slots \in 0..MaxClients
    /\ wire \in Seq(Messages) /\ Len(wire) <= MaxWire
    /\ stream \in {"retry", "connecting", "open"}
    /\ held \in Contents \cup {Nothing} /\ rev \in Versions
    /\ fetch \in {Nothing, Asked} \cup Contents
    /\ queue \in Seq(Messages) /\ Len(queue) <= MaxQueued
    /\ lastLive \in Versions \cup {Same}
    /\ {dropped, hidden, applyTimer, refetchTimer, everConnected} \subseteq BOOLEAN
    /\ merged \in Versions /\ gone \in Versions
    /\ troubles \in 0..MaxTroubles

(***************************************************************************)
(* "Clients merge each message over the previous state, so a missing key   *)
(* keeps its last value" (web_server.py:476).  What the page shows, with   *)
(* the messages that wait in it and those under way merged in order, has   *)
(* every change that the server takes for sent, whatever breaks,           *)
(* reconnects, waits or is fetched in between; unless the page lost one.   *)
(***************************************************************************)
NoOlderRow(s, t) == s.value["row"] >= t.value["row"] \/ (~s.listed /\ ~t.listed)
NoOlderBlocks(s, t) == \A p \in {"memory", "live"} : s.value[p] >= t.value[p]
NoOlder(s, t) == NoOlderBlocks(s, t) /\ NoOlderRow(s, t)
Told(i) == {j \in 1..i : wire[j].live # Same}
Filled(i) == [wire[i] EXCEPT !.live = IF Told(i) = {} THEN lastLive ELSE wire[Max(Told(i))].live]
Coming == queue \o [i \in DOMAIN wire |-> Filled(i)]
StreamCompletes ==
    handler # "none" /\ sent # Nothing /\ held # Nothing /\ gone = 0 =>
        /\ NoOlderBlocks(MergeBatch(held, Coming), sent)
        /\ MissesRow(held, Coming) \/ NoOlderRow(MergeBatch(held, Coming), sent)

(***************************************************************************)
(* "Drop what this client already holds: unchanged large keys, unchanged   *)
(* session rows" (web_server.py:533).  When a message says nothing of the  *)
(* row, a page that lost no message holds the row that the server has.     *)
(***************************************************************************)
DropsWhatIsHeld ==
    held # Nothing /\ gone = 0 =>
        \A i \in DOMAIN Coming : Coming[i].rows = "same" => ~Misses(Before(held, Coming, i), Coming[i])

\* _sse_client_count counts the threads that serve a stream, however the streams end
SlotsCounted == slots = leftover + (IF handler = "none" THEN 0 ELSE 1)

(***************************************************************************)
(* Once the daemon publishes nothing new, a page that is visible shows the *)
(* newest snapshot in the end, with or without a stream, unless it lost a  *)
(* message; the lists follow in any case, because every message carries    *)
(* their revision.                                                         *)
(***************************************************************************)
Newest == held # Nothing /\ NoOlder(held, snap)
EndsCurrent == []<>(hidden \/ gone # 0 \/ Newest)
ListsFollow == []<>(hidden \/ (held # Nothing /\ held.value["lists"] = snap.value["lists"]))

(***************************************************************************)
(* "A lost message can hold the only copy of a change, so the state must   *)
(* be fetched again" (useDashboard.js:89): a visible page shows the       *)
(* newest snapshot in the end whatever it lost.                            *)
(***************************************************************************)
AlwaysEndsCurrent == []<>(hidden \/ Newest)

\* A page whose stream is down gets a slot and a stream in the end, also right after its own
\* streams broke: the threads that served them end.
Reconnects == (stream # "open") ~> (stream = "open")
=============================================================================
