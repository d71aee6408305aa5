------------------------- MODULE PageRequestsProofs -------------------------
(***************************************************************************)
(* Theorems about everything on the page that asks the server, for any     *)
(* filters, times, projects, scans, views, questions, steps of the user,   *)
(* failures and changes of the data: the types, that the charts, the       *)
(* findings, the drawer and the 41 screens implement LatestAnswer, and     *)
(* that a file's lines and a screen's figures are of what is picked.       *)
(*                                                                         *)
(* The types of the feed need that a source is a sequence and that no more *)
(* retries wait than streams broke.  Its refinement needs, of the one      *)
(* fetch whose callback may feed the charts, that it asks for what is      *)
(* chosen now, and that its answer is no older than what the charts show.  *)
(* ScanInv is the strengthening that the refinement of the findings needs: *)
(* a scan of the newest generation asks for the project that was asked for *)
(* last, and what is shown is no newer than what the server keeps, which   *)
(* itself is never newer than the disk.                                    *)
(*                                                                         *)
(* ScreenInv says of a screen that guards its requests that the one on its *)
(* way is for what is picked and that its answer will be no older than     *)
(* what is there; of any screen that the last request is for what is       *)
(* picked, as long as the answers come in order.  DrawerInv says the same  *)
(* of the view on top of the drawer, and that every timer of the toast and *)
(* every command on its way goes back to a step of the user.               *)
(***************************************************************************)
EXTENDS MCPageRequests, SequenceTheorems, FiniteSetTheorems, TLAPS

(* The feed and the findings ---------------------------------------------- *)

States == {"connecting", "open"}
StreamInv ==
    /\ sources \in Seq(States) /\ tracked \in BOOLEAN /\ (tracked => sources # <<>>)
    /\ live \in BOOLEAN /\ closed \in BOOLEAN /\ (closed <=> ~live) /\ connected \in BOOLEAN
    /\ timers \in Nat /\ troubles \in 0..MaxTroubles /\ timers <= troubles
DataInv ==
    /\ version \in 0..MaxVersion /\ chosen \in Selections
    /\ main \in Answers \cup {Nothing} /\ selected \in Answers \cup {Nothing}
    /\ last \in [Loaders -> Answers \cup {Nothing}]
    /\ DOMAIN fetches = Loaders
    /\ \A l \in Loaders : fetches[l] \subseteq Fetches /\ \A f, g \in fetches[l] : f = g
FlagInv == away \in BOOLEAN /\ busy \in BOOLEAN /\ error \in BOOLEAN /\ dirty \in BOOLEAN

LEMMA InvTyped == StreamInv /\ DataInv /\ FlagInv => FeedTypeOK
<1> SUFFICES ASSUME StreamInv, DataInv, FlagInv PROVE FeedTypeOK
  OBVIOUS
<1>1. timers \in 0..MaxTroubles /\ troubles \in 0..MaxTroubles
  BY BoardBounds DEF StreamInv
<1>2. \A i \in 1..Len(sources) : sources[i] \in {"connecting", "open"}
  BY DEF StreamInv, States
<1>3. closed = ~live /\ live \in BOOLEAN /\ connected \in BOOLEAN /\ (tracked => sources # <<>>)
  BY DEF StreamInv
<1> QED BY <1>1, <1>2, <1>3 DEF DataInv, FlagInv, FeedTypeOK

(* The streams of useSse -------------------------------------------------- *)

\* RemoveAt takes one element out and keeps the order of the others.
LEMMA Removing ==
    ASSUME NEW S, NEW s \in Seq(S), NEW i \in 1..Len(s)
    PROVE  /\ RemoveAt(s, i) \in Seq(S) /\ Len(RemoveAt(s, i)) = Len(s) - 1
           /\ \A k \in 1..(Len(s) - 1) : RemoveAt(s, i)[k] = IF k < i THEN s[k] ELSE s[k + 1]
<1> DEFINE front == SubSeq(s, 1, i - 1)
           back == SubSeq(s, i + 1, Len(s))
<1>1. /\ Len(s) \in Nat /\ i \in 1..Len(s)
      /\ \A k \in 1..(i - 1) : s[k] \in S
      /\ \A k \in (i + 1)..Len(s) : s[k] \in S
  OBVIOUS
<1>2. front \in Seq(S) /\ Len(front) = i - 1 /\ \A k \in 1..(i - 1) : front[k] = s[k]
  <2>1. 1 \in Int /\ i - 1 \in Int
    OBVIOUS
  <2>2. /\ front \in Seq(S)
        /\ Len(front) = IF 1 <= i - 1 THEN (i - 1) - 1 + 1 ELSE 0
        /\ \A k \in 1..((i - 1) - 1 + 1) : front[k] = s[1 + k - 1]
    BY <1>1, <2>1, SubSeqProperties
  <2> HIDE DEF front
  <2> QED BY <1>1, <2>2
<1>3. back \in Seq(S) /\ Len(back) = Len(s) - i /\ \A k \in 1..(Len(s) - i) : back[k] = s[i + k]
  <2>1. i + 1 \in Int /\ Len(s) \in Int
    BY <1>1
  <2>2. /\ back \in Seq(S)
        /\ Len(back) = IF i + 1 <= Len(s) THEN Len(s) - (i + 1) + 1 ELSE 0
        /\ \A k \in 1..(Len(s) - (i + 1) + 1) : back[k] = s[(i + 1) + k - 1]
    BY <1>1, <2>1, SubSeqProperties
  <2>3. \A k \in 1..(Len(s) - i) : (i + 1) + k - 1 = i + k /\ k \in 1..(Len(s) - (i + 1) + 1)
    BY <1>1
  <2>4. \A k \in 1..(Len(s) - i) : back[k] = s[i + k]
    <3> HIDE DEF back
    <3> QED BY <2>2, <2>3
  <2> HIDE DEF front, back
  <2>5. back \in Seq(S) /\ Len(back) = IF i + 1 <= Len(s) THEN Len(s) - (i + 1) + 1 ELSE 0
    BY <2>2
  <2>6. Len(back) = Len(s) - i
    BY <1>1, <2>5
  <2> QED BY <2>4, <2>5, <2>6
<1> HIDE DEF front, back
<1>4. /\ front \o back \in Seq(S) /\ Len(front \o back) = Len(front) + Len(back)
      /\ \A k \in 1..(Len(front) + Len(back)) :
           (front \o back)[k] = IF k <= Len(front) THEN front[k] ELSE back[k - Len(front)]
  BY <1>2, <1>3, ConcatProperties
<1>5. RemoveAt(s, i) = front \o back
  BY DEF RemoveAt, front, back
<1>6. Len(front) + Len(back) = Len(s) - 1
  BY <1>1, <1>2, <1>3
<1>7. ASSUME NEW k \in 1..(Len(s) - 1) PROVE (front \o back)[k] = IF k < i THEN s[k] ELSE s[k + 1]
  <2>1. CASE k < i
    BY <1>1, <1>2, <1>4, <1>6, <2>1
  <2>2. CASE ~(k < i)
    <3>1. k - (i - 1) \in 1..(Len(s) - i) /\ i + (k - (i - 1)) = k + 1 /\ k - Len(front) = k - (i - 1)
      BY <1>1, <1>2, <2>2
    <3>2. (front \o back)[k] = back[k - (i - 1)]
      BY <1>1, <1>2, <1>4, <1>6, <2>2, <3>1
    <3>3. back[k - (i - 1)] = s[k + 1]
      BY <1>3, <3>1
    <3> QED BY <2>2, <3>2, <3>3
  <2> QED BY <2>1, <2>2
<1> QED BY <1>4, <1>5, <1>6, <1>7

LEMMA Connecting ==
    ASSUME sources \in Seq(States), Connect
    PROVE  sources' \in Seq(States) /\ sources' # <<>> /\ tracked' = TRUE
BY DEF Connect, States

LEMMA StreamStep == StreamInv /\ [FeedNext]_feedVars => StreamInv'
<1> SUFFICES ASSUME StreamInv, [FeedNext]_feedVars PROVE StreamInv'
  OBVIOUS
<1> USE BoardBounds DEF StreamInv
<1>1. CASE Choose \/ Tick \/ DataChanges \/ Away
  BY <1>1 DEF Choose, Tick, DataChanges, Away, streamVars, dataVars
<1>2. ASSUME NEW l \in Loaders, NEW f \in fetches[l], Reply(l, f) \/ Callback(l, f) PROVE StreamInv'
  BY <1>2 DEF Reply, Callback, streamVars
<1>3. ASSUME NEW l \in Loaders, NEW f \in fetches[l], FetchFails(l, f) PROVE StreamInv'
  <2>1. troubles' \in 0..MaxTroubles /\ timers <= troubles'
    BY <1>3 DEF FetchFails
  <2> QED BY <1>3, <2>1 DEF FetchFails, streamVars
<1>4. CASE SwitchOn
  <2>1. sources' \in Seq(States) /\ sources' # <<>> /\ tracked' = TRUE
    BY <1>4, Connecting DEF SwitchOn
  <2> QED BY <1>4, <2>1 DEF SwitchOn
<1>5. CASE SwitchOff
  <2>1. sources' \in Seq(States)
    BY <1>5 DEF SwitchOff, Front, States
  <2> QED BY <1>5, <2>1 DEF SwitchOff
<1>6. CASE Retry
  <2>1. CASE closed
    BY <1>6, <2>1 DEF Retry
  <2>2. CASE ~closed
    <3>1. sources' \in Seq(States) /\ sources' # <<>> /\ tracked' = TRUE
      BY <1>6, <2>2, Connecting DEF Retry
    <3> QED BY <1>6, <3>1 DEF Retry
  <2> QED BY <2>1, <2>2
<1>7. ASSUME NEW i \in 1..Len(sources), Open(i) PROVE StreamInv'
  <2>1. sources' \in Seq(States) /\ Len(sources') = Len(sources)
    BY <1>7 DEF Open, States
  <2> QED BY <1>7, <2>1 DEF Open
<1>8. ASSUME NEW i \in 1..Len(sources), Message(i) PROVE StreamInv'
  BY <1>8 DEF Message, streamVars
<1>9. ASSUME NEW i \in 1..Len(sources), Break(i) PROVE StreamInv'
  <2>1. sources' \in Seq(States) /\ Len(sources') = Len(sources) - 1
    BY <1>9, Removing DEF Break, Broken
  <2>2. tracked' \in BOOLEAN /\ (tracked' => i < Len(sources)) /\ connected' = FALSE
    BY <1>9 DEF Break, Broken
  <2>3. tracked' => sources' # <<>>
    BY <2>1, <2>2
  <2>4. timers' \in Nat /\ troubles' \in 0..MaxTroubles /\ timers' <= troubles'
    BY <1>9 DEF Break, Broken
  <2> QED BY <1>9, <2>1, <2>2, <2>3, <2>4 DEF Break
<1>10. CASE UNCHANGED feedVars
  BY <1>10 DEF feedVars, streamVars
<1> QED BY <1>1, <1>2, <1>3, <1>4, <1>5, <1>6, <1>7, <1>8, <1>9, <1>10 DEF FeedNext

(* The data of the loaders ------------------------------------------------ *)

LEMMA FetchTyped ==
    ASSUME DataInv, NEW l \in Loaders, NEW q \in Queries
    PROVE  Load(l, q) \subseteq Fetches /\ \A f, g \in Load(l, q) : f = g
BY DEF DataInv, Load, Fetches, Loaders

LEMMA FetchNowTyped ==
    ASSUME DataInv, NEW c \in Selections, FetchNow(c), chosen' \in Selections, UNCHANGED version
    PROVE  DataInv' /\ busy' \in BOOLEAN /\ UNCHANGED error
<1>1. MainQuery(c) \in Queries /\ (c.sel # Whole => SelQuery(c) \in Queries)
  BY DEF Selections, Queries, MainQuery, SelQuery
<1>2. DOMAIN fetches' = Loaders
  BY DEF FetchNow
<1>3. ASSUME NEW l \in Loaders PROVE fetches'[l] \subseteq Fetches /\ \A f, g \in fetches'[l] : f = g
  <2>1. CASE l = "main"
    <3>1. fetches'["main"] = Load("main", MainQuery(c))
      BY <2>1 DEF FetchNow, Loaders
    <3> QED BY <1>1, <2>1, <3>1, FetchTyped
  <2>2. CASE l = "sel" /\ c.sel = Whole
    BY <2>2 DEF FetchNow, Loaders
  <2>3. CASE l = "sel" /\ c.sel # Whole
    <3>1. fetches'["sel"] = Load("sel", SelQuery(c))
      BY <2>3 DEF FetchNow, Loaders
    <3> QED BY <1>1, <2>3, <3>1, FetchTyped
  <2> QED BY <2>1, <2>2, <2>3 DEF Loaders
<1>4. selected' \in Answers \cup {Nothing} /\ UNCHANGED <<main, last, error>> /\ busy' \in BOOLEAN
  BY DEF FetchNow, DataInv
<1> QED BY <1>2, <1>3, <1>4 DEF DataInv

LEMMA RepliedTyped ==
    ASSUME DataInv, NEW l \in Loaders, NEW f \in fetches[l],
           NEW reply \in Answers \cup {Asked, NotModified, Failed}, Replied(l, f, reply),
           UNCHANGED <<version, chosen, main, selected, last>>
    PROVE  DataInv'
<1>1. f \in Fetches /\ fetches[l] = {f}
  BY DEF DataInv
<1>2. [f EXCEPT !.reply = reply] \in Fetches
  BY <1>1 DEF Fetches
<1>3. fetches' = [fetches EXCEPT ![l] = {[f EXCEPT !.reply = reply]}]
  BY <1>1 DEF Replied
<1> QED BY <1>2, <1>3 DEF DataInv

LEMMA DataStep == DataInv /\ StreamInv /\ FlagInv /\ [FeedNext]_feedVars => DataInv' /\ FlagInv'
<1> SUFFICES ASSUME DataInv, StreamInv, FlagInv, [FeedNext]_feedVars PROVE DataInv' /\ FlagInv'
  OBVIOUS
<1>1. CASE Choose
  <2>1. chosen' \in Selections /\ FetchNow(chosen') /\ UNCHANGED <<version, away, dirty>>
    BY <1>1 DEF Choose
  <2> QED BY <2>1, FetchNowTyped DEF FlagInv
<1>2. CASE Tick
  <2>1. chosen \in Selections /\ chosen' = chosen /\ FetchNow(chosen) /\ UNCHANGED <<version, away>> /\ dirty' = FALSE
    BY <1>2 DEF Tick, DataInv
  <2> QED BY <2>1, FetchNowTyped DEF FlagInv
<1>3. CASE DataChanges
  <2>1. version' \in 0..MaxVersion
    BY <1>3, BoardBounds DEF DataChanges, DataInv
  <2> QED BY <1>3, <2>1 DEF DataChanges, DataInv, FlagInv, dataVars
<1>4. CASE Away
  BY <1>4 DEF Away, DataInv, FlagInv, dataVars
<1>5. ASSUME NEW l \in Loaders, NEW f \in fetches[l], Reply(l, f) PROVE DataInv' /\ FlagInv'
  <2>1. f.query \in Queries
    BY DEF DataInv, Fetches
  <2>2. AnswerTo(f) \in Answers \cup {Asked, NotModified, Failed}
    BY <2>1 DEF AnswerTo, Current, Answers, DataInv
  <2>3. DataInv'
    BY <1>5, <2>2, RepliedTyped DEF Reply
  <2> QED BY <1>5, <2>3 DEF Reply, FlagInv
<1>6. ASSUME NEW l \in Loaders, NEW f \in fetches[l], FetchFails(l, f) PROVE DataInv' /\ FlagInv'
  <2>1. DataInv'
    BY <1>6, RepliedTyped DEF FetchFails
  <2> QED BY <1>6, <2>1 DEF FetchFails, FlagInv
<1>7. ASSUME NEW l \in Loaders, NEW f \in fetches[l], Callback(l, f) PROVE DataInv' /\ FlagInv'
  <2>1. busy' \in BOOLEAN /\ error' \in BOOLEAN /\ UNCHANGED <<away, dirty, version, chosen>>
    BY <1>7 DEF Callback, FlagInv
  <2>2. fetches' = [fetches EXCEPT ![l] = @ \ {f}]
    BY <1>7 DEF Callback
  <2>3. main' \in Answers \cup {Nothing} /\ selected' \in Answers \cup {Nothing} /\ last' \in [Loaders -> Answers \cup {Nothing}]
    BY <1>7 DEF Callback, DataInv
  <2> QED BY <2>1, <2>2, <2>3 DEF DataInv, FlagInv
<1>8. CASE SwitchOn \/ SwitchOff \/ Retry \/ \E i \in 1..Len(sources) : Open(i) \/ Message(i) \/ Break(i)
  <2>1. dirty' \in BOOLEAN /\ UNCHANGED <<version, chosen, away, dataVars>>
    BY <1>8 DEF SwitchOn, SwitchOff, Retry, Open, Message, Break, FlagInv
  <2> QED BY <2>1 DEF DataInv, FlagInv, dataVars
<1>9. CASE UNCHANGED feedVars
  BY <1>9 DEF DataInv, FlagInv, feedVars, dataVars
<1> QED BY <1>1, <1>2, <1>3, <1>4, <1>5, <1>6, <1>7, <1>8, <1>9 DEF FeedNext

LEMMA FeedInitOK == FeedInit => StreamInv /\ DataInv /\ FlagInv
<1> SUFFICES ASSUME FeedInit PROVE StreamInv /\ DataInv /\ FlagInv
  OBVIOUS
<1>1. StreamInv
  <2>1. sources \in Seq(States) /\ sources # <<>>
    BY DEF FeedInit, States
  <2>2. timers \in Nat /\ troubles \in 0..MaxTroubles /\ timers <= troubles
    BY BoardBounds DEF FeedInit
  <2>3. live \in BOOLEAN /\ closed \in BOOLEAN /\ (closed <=> ~live) /\ connected \in BOOLEAN /\ tracked \in BOOLEAN
    BY DEF FeedInit
  <2> QED BY <2>1, <2>2, <2>3 DEF StreamInv
<1>2. MainQuery(chosen) \in Queries /\ (chosen.sel # Whole => SelQuery(chosen) \in Queries)
  BY DEF FeedInit, Selections, Queries, MainQuery, SelQuery
<1>3. ASSUME NEW l \in Loaders PROVE fetches[l] \subseteq Fetches /\ \A f, g \in fetches[l] : f = g
  BY <1>2 DEF FeedInit, Fetches
<1>4. DataInv
  BY <1>3, BoardBounds DEF FeedInit, DataInv
<1>5. FlagInv
  BY DEF FeedInit, FlagInv
<1> QED BY <1>1, <1>4, <1>5

(* The state of useBoardData and useSse has its type whatever is chosen,   *)
(* switched or broken, and no fetch of a loader runs beside another one    *)
(* (createLoader of useBoardData.js 42-65).                                *)
THEOREM FeedTyped == FeedSpec => []FeedTypeOK
BY FeedInitOK, StreamStep, DataStep, InvTyped, PTL DEF FeedSpec

(* The refinement --------------------------------------------------------- *)

\* The one fetch of the charts is for what is chosen, and brings nothing older than they show.
ChartsFetch ==
    \A f \in fetches["main"] :
       /\ f.query = MainQuery(chosen)
       /\ f.reply \in Answers =>
             /\ f.reply.to = f.query /\ f.reply.at <= version
             /\ main # Nothing /\ main.to = f.query => main.at <= f.reply.at
ShownIsKnown == main # Nothing => main.at <= version

LEMMA FetchNowAsks ==
    ASSUME NEW c \in Selections, FetchNow(c), chosen' = c, UNCHANGED version, ShownIsKnown
    PROVE  ChartsFetch' /\ ShownIsKnown'
<1>1. fetches'["main"] = Load("main", MainQuery(c))
  BY DEF FetchNow, Loaders
<1>2. Asked \notin Answers
  BY BoardValues
<1>3. ChartsFetch'
  BY <1>1, <1>2 DEF ChartsFetch, Load
<1> QED BY <1>3 DEF ShownIsKnown, FetchNow

LEMMA ChartsStep ==
    ASSUME DataInv, ChartsFetch, ShownIsKnown, [FeedNext]_feedVars
    PROVE  ChartsFetch' /\ ShownIsKnown'
<1>1. CASE Choose
  <2>1. chosen' \in Selections /\ FetchNow(chosen') /\ UNCHANGED version
    BY <1>1 DEF Choose
  <2> QED BY <2>1, FetchNowAsks
<1>2. CASE Tick
  <2>1. chosen \in Selections /\ chosen' = chosen /\ FetchNow(chosen) /\ UNCHANGED version
    BY <1>2 DEF Tick, DataInv
  <2> QED BY <2>1, FetchNowAsks
<1>3. CASE DataChanges
  <2>1. version \in Nat /\ version' = version + 1 /\ UNCHANGED <<chosen, main, fetches>>
    BY <1>3, BoardBounds DEF DataChanges, DataInv, dataVars
  <2>2. (main # Nothing => main.at \in Nat) /\ \A f \in fetches["main"] : f.reply \in Answers => f.reply.at \in Nat
    BY BoardBounds DEF DataInv, Answers
  <2>3. ShownIsKnown'
    BY <2>1, <2>2 DEF ShownIsKnown
  <2>4. ChartsFetch'
    BY <2>1, <2>2 DEF ChartsFetch
  <2> QED BY <2>3, <2>4
<1>4. CASE Away
  BY <1>4 DEF Away, ChartsFetch, ShownIsKnown, dataVars
<1>5. ASSUME NEW l \in Loaders, NEW f \in fetches[l], NEW reply \in Answers \cup {NotModified, Failed},
             reply \in Answers => reply = Current(f.query),
             Replied(l, f, reply), UNCHANGED <<version, chosen, main>>
      PROVE  ChartsFetch' /\ ShownIsKnown'
  <2>1. CASE l = "sel"
    BY <1>5, <2>1 DEF Replied, ChartsFetch, ShownIsKnown, DataInv
  <2>2. CASE l = "main"
    <3>1. f \in Fetches /\ fetches["main"] = {f}
      BY <2>2 DEF DataInv
    <3>2. fetches'["main"] = {[f EXCEPT !.reply = reply]}
      BY <1>5, <2>2, <3>1 DEF Replied, DataInv, Loaders
    <3>3. [f EXCEPT !.reply = reply].query = f.query /\ [f EXCEPT !.reply = reply].reply = reply
      BY <3>1 DEF Fetches
    <3>4. f.query = MainQuery(chosen)
      BY <2>2 DEF ChartsFetch
    <3>5. reply \in Answers => reply.to = f.query /\ reply.at = version
      BY <1>5 DEF Current
    <3>6. version \in Nat
      BY BoardBounds DEF DataInv
    <3> QED BY <1>5, <3>2, <3>3, <3>4, <3>5, <3>6 DEF ChartsFetch, ShownIsKnown
  <2> QED BY <2>1, <2>2 DEF Loaders
<1>6. ASSUME NEW l \in Loaders, NEW f \in fetches[l], Reply(l, f)
      PROVE  ChartsFetch' /\ ShownIsKnown'
  <2>1. f.query \in Queries
    BY DEF DataInv, Fetches
  <2>2. AnswerTo(f) \in Answers \cup {NotModified, Failed} /\ (AnswerTo(f) \in Answers => AnswerTo(f) = Current(f.query))
    BY <2>1, BoardValues DEF AnswerTo, Current, Answers, DataInv
  <2> QED BY <1>5, <1>6, <2>2 DEF Reply
<1>7. ASSUME NEW l \in Loaders, NEW f \in fetches[l], FetchFails(l, f)
      PROVE  ChartsFetch' /\ ShownIsKnown'
  <2>1. Failed \notin Answers
    BY BoardValues
  <2> QED BY <1>5, <1>7, <2>1 DEF FetchFails
<1>8. ASSUME NEW l \in Loaders, NEW f \in fetches[l], Callback(l, f)
      PROVE  ChartsFetch' /\ ShownIsKnown'
  <2>1. CASE l = "sel"
    BY <1>8, <2>1 DEF Callback, ChartsFetch, ShownIsKnown, DataInv
  <2>2. CASE l = "main"
    <3>1. fetches["main"] = {f} /\ fetches'["main"] = {}
      BY <1>8, <2>2 DEF Callback, DataInv, Loaders
    <3>2. ShownIsKnown'
      BY <1>8, <2>2 DEF Callback, ChartsFetch, ShownIsKnown
    <3> QED BY <3>1, <3>2 DEF ChartsFetch
  <2> QED BY <2>1, <2>2 DEF Loaders
<1>9. CASE SwitchOn \/ SwitchOff \/ Retry \/ \E i \in 1..Len(sources) : Open(i) \/ Message(i) \/ Break(i)
  BY <1>9 DEF SwitchOn, SwitchOff, Retry, Open, Message, Break, ChartsFetch, ShownIsKnown, dataVars
<1>10. CASE UNCHANGED feedVars
  BY <1>10 DEF feedVars, dataVars, ChartsFetch, ShownIsKnown
<1> QED BY <1>1, <1>2, <1>3, <1>4, <1>6, <1>7, <1>8, <1>9, <1>10 DEF FeedNext

LEMMA ChartsInit == FeedInit => ChartsFetch /\ ShownIsKnown /\ ChartsView!Init
<1> SUFFICES ASSUME FeedInit PROVE ChartsFetch /\ ShownIsKnown /\ ChartsView!Init
  OBVIOUS
<1>1. fetches["main"] = {[query |-> MainQuery(chosen), reply |-> Asked, etag |-> Nothing]} /\ Asked \notin Answers
  BY BoardValues DEF FeedInit, Loaders
<1>2. ChartsFetch /\ ShownIsKnown
  BY <1>1 DEF ChartsFetch, ShownIsKnown, FeedInit
<1>3. MainQuery(chosen) \in Queries
  BY DEF FeedInit, Selections, Queries, MainQuery
<1> QED BY <1>2, <1>3 DEF FeedInit, ChartsView!Init

LEMMA ViewStep ==
    ASSUME DataInv, ChartsFetch, [FeedNext]_feedVars
    PROVE  [ChartsView!Next]_<<version, MainQuery(chosen), main>>
<1>1. CASE Choose
  <2>1. MainQuery(chosen') \in Queries /\ UNCHANGED <<version, main>>
    BY <1>1 DEF Choose, FetchNow, Selections, Queries, MainQuery
  <2>2. ChartsView!Ask
    BY <2>1 DEF ChartsView!Ask
  <2> QED BY <2>2 DEF ChartsView!Next
<1>2. CASE DataChanges
  <2>1. ChartsView!Learn
    BY <1>2 DEF DataChanges, dataVars, ChartsView!Learn
  <2> QED BY <2>1 DEF ChartsView!Next
<1>3. ASSUME NEW l \in Loaders, NEW f \in fetches[l], Callback(l, f)
      PROVE  [ChartsView!Next]_<<version, MainQuery(chosen), main>>
  <2>1. CASE l = "sel" \/ f.reply \notin Answers
    BY <1>3, <2>1 DEF Callback
  <2>2. CASE l = "main" /\ f.reply \in Answers
    <3>1. /\ main' = f.reply /\ UNCHANGED <<version, chosen>>
          /\ f.reply.to = MainQuery(chosen) /\ f.reply.at <= version
          /\ main # Nothing /\ main.to = MainQuery(chosen) => main.at <= f.reply.at
      BY <1>3, <2>2 DEF Callback, ChartsFetch
    <3>2. f.reply.at \in 0..version
      BY <2>2, <3>1, BoardBounds DEF Answers, DataInv
    <3>3. main' = [to |-> MainQuery(chosen), at |-> f.reply.at]
      BY <2>2, <3>1 DEF Answers
    <3>4. ChartsView!Show
      BY <3>1, <3>2, <3>3 DEF ChartsView!Show
    <3> QED BY <3>4 DEF ChartsView!Next
  <2> QED BY <2>1, <2>2 DEF Loaders
<1>4. CASE \/ Tick \/ Away \/ SwitchOn \/ SwitchOff \/ Retry
           \/ \E l \in Loaders : \E f \in fetches[l] : Reply(l, f) \/ FetchFails(l, f)
           \/ \E i \in 1..Len(sources) : Open(i) \/ Message(i) \/ Break(i)
  <2>1. UNCHANGED <<version, chosen, main>>
    BY <1>4 DEF Tick, FetchNow, Away, SwitchOn, SwitchOff, Retry, Reply, FetchFails, Open, Message, Break, dataVars
  <2> QED BY <2>1
<1>5. CASE UNCHANGED feedVars
  BY <1>5 DEF feedVars, dataVars
<1> QED BY <1>1, <1>2, <1>3, <1>4, <1>5 DEF FeedNext

(* The charts of the board implement LatestAnswer: whatever is chosen      *)
(* while answers are on their way, they come to show only an answer to     *)
(* what is chosen now, and none that is older than the one they show       *)
(* (createLoader of useBoardData.js 42-65, getBoard of api.js 426-438).    *)
THEOREM ChartsImplement == FeedSpec => ChartsFollow
BY FeedInitOK, ChartsInit, StreamStep, DataStep, ChartsStep, ViewStep, PTL
   DEF FeedSpec, ChartsFollow, ChartsView!Spec

-----------------------------------------------------------------------------
(* The findings ----------------------------------------------------------- *)

AsksForNewest == \A s \in scans : s.gen <= generation /\ (s.gen = generation => s.of = asked)
\* What a scan under way finds is no older than what is kept of its project.
KeptIsOlder ==
    \A p \in Projects :
        /\ audited[p] # NoAudit => audited[p] <= disk
        /\ jobs[p] # NoAudit => jobs[p] <= disk
        /\ audited[p] # NoAudit /\ jobs[p] # NoAudit => audited[p] <= jobs[p]
ShownIsOlder ==
    audit # NoAudit =>
        /\ audit.at <= disk
        /\ audited[audit.to] # NoAudit => audit.at <= audited[audit.to]
        /\ jobs[audit.to] # NoAudit => audit.at <= jobs[audit.to]
ScanInv == ScanTypeOK /\ AsksForNewest /\ KeptIsOlder /\ ShownIsOlder

(* Types ------------------------------------------------------------------ *)

LEMMA LoadTyped ==
    ASSUME ScanTypeOK, NEW p \in Projects, NEW fresh \in BOOLEAN, LoadFindings(p, fresh),
           scheduled' \in BOOLEAN
    PROVE  ScanTypeOK'
<1> USE ScanBounds
<1>1. generation + 1 \in 1..MaxScans /\ generation' = generation + 1
  BY DEF ScanTypeOK, LoadFindings
<1>2. scans' \subseteq [gen : 1..MaxScans, of : Projects, refresh : BOOLEAN]
  <2>1. [gen |-> generation + 1, of |-> p, refresh |-> fresh] \in [gen : 1..MaxScans, of : Projects, refresh : BOOLEAN]
    BY <1>1
  <2> QED BY <2>1 DEF ScanTypeOK, LoadFindings
<1>3. statusCalls' \subseteq [call : 1..MaxScans, at : 0..MaxDisk]
  <2>1. [call |-> generation + 1, at |-> disk] \in [call : 1..MaxScans, at : 0..MaxDisk]
    BY <1>1 DEF ScanTypeOK
  <2> QED BY <2>1 DEF ScanTypeOK, LoadFindings
<1>4. loading' \in BOOLEAN /\ scanError' \in BOOLEAN
  BY DEF LoadFindings
<1> QED BY <1>1, <1>2, <1>3, <1>4 DEF ScanTypeOK, LoadFindings, serverVars

LEMMA ScanTypeStep == ScanTypeOK /\ [ScanNext]_scanVars => ScanTypeOK'
<1> SUFFICES ASSUME ScanTypeOK, [ScanNext]_scanVars PROVE ScanTypeOK'
  OBVIOUS
<1> USE ScanBounds
<1>1. CASE ChooseProject
  BY <1>1 DEF ScanTypeOK, ChooseProject, shownVars, statusVars, serverVars
<1>2. CASE ScanTimer
  <2>1. scheduled' \in BOOLEAN /\ project \in Projects /\ LoadFindings(project, FALSE)
    BY <1>2 DEF ScanTypeOK, ScanTimer
  <2> QED BY <2>1, LoadTyped
<1>3. CASE Rescan
  <2>1. scheduled' \in BOOLEAN /\ firstProject \in Projects /\ LoadFindings(firstProject, TRUE)
    BY <1>3 DEF ScanTypeOK, Rescan
  <2> QED BY <2>1, LoadTyped
<1>4. CASE DiskChanges
  BY <1>4 DEF ScanTypeOK, DiskChanges, pageVars, shownVars, statusVars, serverVars
<1>5. ASSUME NEW c \in statusCalls, StatusArrives(c) PROVE ScanTypeOK'
  BY <1>5 DEF ScanTypeOK, StatusArrives, pageVars, shownVars, serverVars
<1>6. ASSUME NEW s \in scans, Scanning(s) PROVE ScanTypeOK'
  <2>1. s \in [gen : 1..MaxScans, of : Projects, refresh : BOOLEAN]
    BY DEF ScanTypeOK
  <2>2. [s EXCEPT !.refresh = FALSE] \in [gen : 1..MaxScans, of : Projects, refresh : BOOLEAN]
    BY <2>1
  <2>3. scans' \subseteq [gen : 1..MaxScans, of : Projects, refresh : BOOLEAN]
    BY <1>6, <2>2 DEF ScanTypeOK, Scanning
  <2>4. progress' \in Projects \cup {NoAudit}
    BY <1>6, <2>1 DEF ScanTypeOK, Scanning
  <2>5. jobs' \in [Projects -> 0..MaxDisk \cup {NoAudit}] /\ failed' \subseteq Projects
    BY <1>6 DEF ScanTypeOK, Scanning
  <2> QED BY <1>6, <2>3, <2>4, <2>5 DEF ScanTypeOK, Scanning, pageVars, statusVars
<1>7. ASSUME NEW s \in scans, Returns(s) PROVE ScanTypeOK'
  <2>1. s.of \in Projects /\ audited[s.of] \in 0..MaxDisk
    BY <1>7 DEF ScanTypeOK, Returns
  <2>2. loading' \in BOOLEAN
    BY <1>7 DEF ScanTypeOK, Returns
  <2>3. audit' \in [to : Projects, at : 0..MaxDisk] \cup {NoAudit} /\ progress' \in Projects \cup {NoAudit}
    BY <1>7, <2>1 DEF ScanTypeOK, Returns
  <2> QED BY <1>7, <2>2, <2>3 DEF ScanTypeOK, Returns, pageVars, statusVars, serverVars
<1>8. ASSUME NEW s \in scans, ScanFails(s) \/ ErrorTold(s) PROVE ScanTypeOK'
  <2>1. loading' \in BOOLEAN /\ scanError' \in BOOLEAN
    BY <1>8 DEF ScanTypeOK, ScanFails, ErrorTold, ShowsError, shownVars
  <2>2. mishaps' \in 0..MaxMishaps /\ failed' \subseteq Projects /\ UNCHANGED <<audited, jobs>>
    BY <1>8 DEF ScanTypeOK, ScanFails, ErrorTold, serverVars
  <2>3. audit' \in [to : Projects, at : 0..MaxDisk] \cup {NoAudit} /\ progress' \in Projects \cup {NoAudit}
    BY <1>8 DEF ScanTypeOK, ScanFails, ErrorTold, ShowsError, shownVars
  <2>4. scans' \subseteq scans /\ UNCHANGED <<pageVars, statusVars, disk>>
    BY <1>8 DEF ScanFails, ErrorTold, ShowsError
  <2> QED BY <2>1, <2>2, <2>3, <2>4 DEF ScanTypeOK, pageVars, statusVars
<1>9. ASSUME NEW p \in Projects, Scanned(p) PROVE ScanTypeOK'
  <2>1. disk \in 0..MaxDisk /\ jobs[p] \in 0..MaxDisk
    BY <1>9 DEF ScanTypeOK, Scanned
  <2>2. audited' \in [Projects -> 0..MaxDisk \cup {NoAudit}]
    BY <1>9, <2>1 DEF ScanTypeOK, Scanned
  <2>3. jobs' \in [Projects -> 0..MaxDisk \cup {NoAudit}]
    BY <1>9 DEF ScanTypeOK, Scanned
  <2> QED BY <1>9, <2>2, <2>3 DEF ScanTypeOK, Scanned, pageVars, shownVars, statusVars
<1>10. ASSUME NEW p \in Projects, ScanRaises(p) \/ Expires(p) PROVE ScanTypeOK'
  <2>1. /\ audited' \in [Projects -> 0..MaxDisk \cup {NoAudit}]
        /\ jobs' \in [Projects -> 0..MaxDisk \cup {NoAudit}]
    BY <1>10 DEF ScanTypeOK, ScanRaises, Expires
  <2>2. failed' \subseteq Projects /\ mishaps' \in 0..MaxMishaps
    BY <1>10 DEF ScanTypeOK, ScanRaises, Expires
  <2> QED BY <1>10, <2>1, <2>2 DEF ScanTypeOK, ScanRaises, Expires, pageVars, shownVars, statusVars
<1>11. CASE UNCHANGED scanVars
  BY <1>11 DEF ScanTypeOK, scanVars, pageVars, shownVars, statusVars, serverVars
<1> QED BY <1>1, <1>2, <1>3, <1>4, <1>5, <1>6, <1>7, <1>8, <1>9, <1>10, <1>11 DEF ScanNext

LEMMA ScanInitTyped == ScanInit => ScanTypeOK
<1> SUFFICES ASSUME ScanInit PROVE ScanTypeOK
  OBVIOUS
<1>1. scheduled \in BOOLEAN /\ loading \in BOOLEAN /\ scanError \in BOOLEAN
  BY DEF ScanInit
<1>2. generation \in 0..MaxScans /\ disk \in 0..MaxDisk /\ mishaps \in 0..MaxMishaps
  BY ScanBounds DEF ScanInit
<1>3. audited \in [Projects -> 0..MaxDisk \cup {NoAudit}] /\ jobs \in [Projects -> 0..MaxDisk \cup {NoAudit}]
  BY DEF ScanInit
<1> QED BY <1>1, <1>2, <1>3 DEF ScanInit, ScanTypeOK

(* The variables of the findings and the server's scans have their types,  *)
(* however the user, the server and the disk move (BoardScreen.js 253-286, *)
(* getContextAudit in api.js).                                             *)
THEOREM ScanTyped == ScanSpec => []ScanTypeOK
BY ScanInitTyped, ScanTypeStep, PTL DEF ScanSpec

(* The strengthened invariant --------------------------------------------- *)

\* A scan that begins has the newest generation, and asks for what was asked for last.
LEMMA LoadKeeps ==
    ASSUME ScanTypeOK, AsksForNewest, KeptIsOlder, ShownIsOlder,
           NEW p \in Projects, NEW fresh \in BOOLEAN, LoadFindings(p, fresh)
    PROVE  AsksForNewest' /\ KeptIsOlder' /\ ShownIsOlder'
<1>1. AsksForNewest'
  <2>1. generation \in Nat /\ \A s \in scans : s.gen \in Nat
    BY ScanBounds DEF ScanTypeOK
  <2> QED BY <2>1 DEF AsksForNewest, LoadFindings
<1>2. KeptIsOlder' /\ ShownIsOlder'
  BY DEF KeptIsOlder, ShownIsOlder, LoadFindings, serverVars
<1> QED BY <1>1, <1>2

LEMMA ScanInvStep == ScanInv /\ [ScanNext]_scanVars => ScanInv'
<1> SUFFICES ASSUME ScanTypeOK, AsksForNewest, KeptIsOlder, ShownIsOlder, [ScanNext]_scanVars
             PROVE  AsksForNewest' /\ KeptIsOlder' /\ ShownIsOlder'
  BY ScanTypeStep DEF ScanInv
<1> USE DEF AsksForNewest, KeptIsOlder, ShownIsOlder
<1>1. CASE ChooseProject
  BY <1>1 DEF ChooseProject, shownVars, statusVars, serverVars
<1>2. CASE ScanTimer
  <2>1. project \in Projects /\ LoadFindings(project, FALSE)
    BY <1>2 DEF ScanTypeOK, ScanTimer
  <2> QED BY <2>1, LoadKeeps
<1>3. CASE Rescan
  <2>1. firstProject \in Projects /\ LoadFindings(firstProject, TRUE)
    BY <1>3 DEF ScanTypeOK, Rescan
  <2> QED BY <2>1, LoadKeeps
<1>4. CASE DiskChanges
  <2>1. /\ disk \in Nat /\ (audit # NoAudit => audit.at \in Nat)
        /\ \A p \in Projects : (audited[p] # NoAudit => audited[p] \in Nat) /\ (jobs[p] # NoAudit => jobs[p] \in Nat)
    BY ScanBounds DEF ScanTypeOK
  <2> QED BY <1>4, <2>1 DEF DiskChanges, pageVars, shownVars, serverVars
<1>5. ASSUME NEW c \in statusCalls, StatusArrives(c)
      PROVE  AsksForNewest' /\ KeptIsOlder' /\ ShownIsOlder'
  BY <1>5 DEF StatusArrives, pageVars, shownVars, serverVars
<1>6. ASSUME NEW s \in scans, Scanning(s)
      PROVE  AsksForNewest' /\ KeptIsOlder' /\ ShownIsOlder'
  <2>1. [s EXCEPT !.refresh = FALSE].gen = s.gen /\ [s EXCEPT !.refresh = FALSE].of = s.of
    BY DEF ScanTypeOK
  <2>2. AsksForNewest'
    BY <1>6, <2>1 DEF Scanning, pageVars
  <2>3. UNCHANGED <<disk, audited, audit>>
    BY <1>6 DEF Scanning
  <2>4. CASE UNCHANGED jobs
    BY <2>2, <2>3, <2>4
  <2>5. CASE jobs' = [jobs EXCEPT ![s.of] = disk]
    <3>1. disk \in Nat /\ jobs \in [Projects -> 0..MaxDisk \cup {NoAudit}]
      BY ScanBounds DEF ScanTypeOK
    <3>2. \A p \in Projects : jobs'[p] = IF p = s.of THEN disk ELSE jobs[p]
      BY <2>5, <3>1
    <3>3. audit # NoAudit => audit.to \in Projects
      BY DEF ScanTypeOK
    <3>4. KeptIsOlder'
      BY <2>3, <3>1, <3>2
    <3>5. ShownIsOlder'
      BY <2>3, <3>2, <3>3
    <3> QED BY <2>2, <3>4, <3>5
  <2> QED BY <1>6, <2>4, <2>5 DEF Scanning
<1>7. ASSUME NEW s \in scans, Returns(s)
      PROVE  AsksForNewest' /\ KeptIsOlder' /\ ShownIsOlder'
  <2>1. s.of \in Projects /\ audited[s.of] \in Nat /\ audited[s.of] <= disk
    BY <1>7, ScanBounds DEF ScanTypeOK, Returns
  <2>2. AsksForNewest' /\ KeptIsOlder'
    BY <1>7 DEF Returns, pageVars, serverVars
  <2>3. ShownIsOlder'
    BY <1>7, <2>1 DEF Returns, serverVars
  <2> QED BY <2>2, <2>3
<1>8. ASSUME NEW s \in scans, ScanFails(s) \/ ErrorTold(s)
      PROVE  AsksForNewest' /\ KeptIsOlder' /\ ShownIsOlder'
  <2>1. scans' \subseteq scans /\ audit' \in {audit, NoAudit} /\ UNCHANGED <<pageVars, disk, audited, jobs>>
    BY <1>8 DEF ScanFails, ErrorTold, ShowsError, shownVars, serverVars
  <2> QED BY <2>1 DEF pageVars
<1>9. ASSUME NEW p \in Projects, Scanned(p)
      PROVE  AsksForNewest' /\ KeptIsOlder' /\ ShownIsOlder'
  <2>1. /\ disk \in Nat /\ jobs[p] \in Nat /\ jobs[p] <= disk
        /\ audited \in [Projects -> 0..MaxDisk \cup {NoAudit}] /\ jobs \in [Projects -> 0..MaxDisk \cup {NoAudit}]
    BY <1>9, ScanBounds DEF ScanTypeOK, Scanned
  <2>2. PICK v \in jobs[p]..disk : audited' = [audited EXCEPT ![p] = v]
    BY <1>9 DEF Scanned
  <2>3. /\ jobs' = [jobs EXCEPT ![p] = NoAudit]
        /\ UNCHANGED <<scans, generation, asked, audit, disk>>
    BY <1>9 DEF Scanned, pageVars, shownVars
  <2>4. KeptIsOlder' /\ AsksForNewest'
    BY <2>1, <2>2, <2>3
  <2>5. ShownIsOlder'
    <3>1. audit # NoAudit => audit.to \in Projects /\ audit.at \in Nat
      BY ScanBounds DEF ScanTypeOK
    <3>2. CASE audit # NoAudit /\ audit.to = p
      <4>1. audit.at <= v
        BY <1>9, <2>1, <2>2, <3>1, <3>2 DEF Scanned
      <4> QED BY <2>1, <2>2, <2>3, <3>1, <3>2, <4>1
    <3>3. CASE audit # NoAudit /\ audit.to # p
      BY <2>1, <2>2, <2>3, <3>1, <3>3
    <3> QED BY <2>3, <3>2, <3>3
  <2> QED BY <2>4, <2>5
<1>10. ASSUME NEW p \in Projects, ScanRaises(p) \/ Expires(p)
      PROVE  AsksForNewest' /\ KeptIsOlder' /\ ShownIsOlder'
  <2>1. UNCHANGED <<scans, generation, asked, audit, disk>>
    BY <1>10 DEF ScanRaises, Expires, pageVars, shownVars
  <2>2. audited \in [Projects -> 0..MaxDisk \cup {NoAudit}] /\ jobs \in [Projects -> 0..MaxDisk \cup {NoAudit}]
    BY DEF ScanTypeOK
  <2>3. \A q \in Projects : audited'[q] \in {audited[q], NoAudit} /\ jobs'[q] \in {jobs[q], NoAudit}
    BY <1>10, <2>2 DEF ScanRaises, Expires
  <2>4. audit # NoAudit => audit.to \in Projects
    BY DEF ScanTypeOK
  <2>5. AsksForNewest' /\ KeptIsOlder'
    BY <2>1, <2>3
  <2>6. ShownIsOlder'
    BY <2>1, <2>3, <2>4
  <2> QED BY <2>5, <2>6
<1>11. CASE UNCHANGED scanVars
  BY <1>11 DEF scanVars, pageVars, shownVars, statusVars, serverVars
<1> QED BY <1>1, <1>2, <1>3, <1>4, <1>5, <1>6, <1>7, <1>8, <1>9, <1>10, <1>11 DEF ScanNext

LEMMA ScanInvInit == ScanInit => ScanInv
BY ScanInitTyped DEF ScanInv, AsksForNewest, KeptIsOlder, ShownIsOlder, ScanInit

(* What loadFindings shows is no newer than the audit that the server      *)
(* keeps of that project or the scan it runs of it, and those are no newer *)
(* than the disk, also when the audit kept expires before the next one.    *)
THEOREM ScanKeepsOrder == ScanSpec => []ScanInv
BY ScanInvInit, ScanInvStep, PTL DEF ScanSpec

(* The refinement --------------------------------------------------------- *)

LEMMA FindingsInit == ScanInit => FindingsView!Init
BY DEF ScanInit, FindingsView!Init

LEMMA LoadRefines ==
    ASSUME ScanTypeOK, NEW p \in Projects, NEW fresh \in BOOLEAN, LoadFindings(p, fresh)
    PROVE  FindingsView!Ask
BY DEF LoadFindings, FindingsView!Ask

LEMMA FindingsStep ==
    ScanInv /\ [ScanNext]_scanVars => [FindingsView!Next]_<<disk, asked, audit>>
<1> SUFFICES ASSUME ScanInv, [ScanNext]_scanVars
             PROVE  [FindingsView!Next]_<<disk, asked, audit>>
  OBVIOUS
<1> USE DEF ScanInv
<1>1. CASE ChooseProject
  BY <1>1 DEF ChooseProject, shownVars
<1>2. CASE ScanTimer
  <2>1. project \in Projects /\ LoadFindings(project, FALSE)
    BY <1>2 DEF ScanTypeOK, ScanTimer
  <2> QED BY <2>1, LoadRefines DEF FindingsView!Next
<1>3. CASE Rescan
  <2>1. firstProject \in Projects /\ LoadFindings(firstProject, TRUE)
    BY <1>3 DEF ScanTypeOK, Rescan
  <2> QED BY <2>1, LoadRefines DEF FindingsView!Next
<1>4. CASE DiskChanges
  <2>1. FindingsView!Learn
    BY <1>4 DEF DiskChanges, pageVars, shownVars, FindingsView!Learn
  <2> QED BY <2>1 DEF FindingsView!Next
<1>5. ASSUME NEW c \in statusCalls, StatusArrives(c)
      PROVE  [FindingsView!Next]_<<disk, asked, audit>>
  BY <1>5 DEF StatusArrives, pageVars, shownVars
<1>6. ASSUME NEW s \in scans, Scanning(s)
      PROVE  [FindingsView!Next]_<<disk, asked, audit>>
  BY <1>6 DEF Scanning, pageVars
<1>7. ASSUME NEW s \in scans, Returns(s)
      PROVE  [FindingsView!Next]_<<disk, asked, audit>>
  <2>1. CASE ~Newest(s)
    BY <1>7, <2>1 DEF Returns, pageVars
  <2>2. CASE Newest(s)
    <3>1. s.of = asked /\ s.of \in Projects
      BY <2>2 DEF Newest, AsksForNewest, ScanTypeOK
    <3>2. audited[s.of] # NoAudit /\ audited[s.of] \in Nat /\ audited[s.of] <= disk
      BY <1>7, <3>1, ScanBounds DEF Returns, ScanTypeOK, KeptIsOlder
    <3>3. disk \in Nat /\ audited[s.of] \in 0..disk
      BY <3>2, ScanBounds DEF ScanTypeOK
    <3>4. audit # NoAudit /\ audit.to = asked => audit.at <= audited[s.of]
      BY <3>1, <3>2 DEF ShownIsOlder
    <3>5. audit' = [to |-> asked, at |-> audited[s.of]] /\ UNCHANGED <<disk, asked>>
      BY <1>7, <2>2, <3>1 DEF Returns, pageVars
    <3>6. FindingsView!Show
      BY <3>3, <3>4, <3>5 DEF FindingsView!Show
    <3> QED BY <3>6 DEF FindingsView!Next
  <2> QED BY <2>1, <2>2
<1>8. ASSUME NEW s \in scans, ScanFails(s) \/ ErrorTold(s)
      PROVE  [FindingsView!Next]_<<disk, asked, audit>>
  BY <1>8 DEF ScanFails, ErrorTold, ShowsError, pageVars, shownVars, FindingsView!Next, FindingsView!Forget
<1>9. ASSUME NEW p \in Projects, Scanned(p) \/ ScanRaises(p) \/ Expires(p)
      PROVE  [FindingsView!Next]_<<disk, asked, audit>>
  BY <1>9 DEF Scanned, ScanRaises, Expires, pageVars, shownVars
<1>10. CASE UNCHANGED scanVars
  BY <1>10 DEF scanVars, pageVars, shownVars
<1> QED BY <1>1, <1>2, <1>3, <1>4, <1>5, <1>6, <1>7, <1>8, <1>9, <1>10 DEF ScanNext

(* The findings of the board implement LatestAnswer: what loadFindings     *)
(* shows changes only to the answer of the newest scan, never to an older  *)
(* audit of the same project, or to nothing, however many scans are on     *)
(* their way, in whatever order they return (BoardScreen.js 253-281).      *)
THEOREM FindingsImplement == ScanSpec => FindingsFollow
BY ScanInvInit, ScanInvStep, FindingsInit, FindingsStep, PTL DEF ScanSpec, FindingsFollow, FindingsView!Spec

-----------------------------------------------------------------------------
(* The kinds of screens --------------------------------------------------- *)

Kinds == [reads : SUBSET Inputs, needs : SUBSET Inputs, guarded : BOOLEAN,
          clears : SUBSET {"ask", "none", "fail"}, polls : Polls, shows : {"settled", "own", "always"}]

\* What the hooks give a screen: a part that hides its rows until they are settled forgets them when a
\* request fails.
Sound(kind) == kind \in Kinds /\ (kind.shows = "settled" /\ kind.guarded => "fail" \in kind.clears)

LEMMA HooksSound ==
    /\ \A reads, needs \in SUBSET Inputs : Sound(Async(reads, needs))
    /\ \A reads \in SUBSET Inputs, polls \in Polls : Sound(UsePolled(reads, polls))
BY DEF Sound, Kinds, Async, UsePolled, Polls

LEMMA AsyncSound ==
    \A kind \in {ProcessTreePanel, McpUsagePanel, ConversationPanel, CostByModelPanel, SubprocessBreakdown,
                 ToolCallsPanel, ActionsPanel, MemoryDiffSection, SessionArtifactsPanel, ArtifactBody,
                 ApiCallsPanel, EventsPanel, ProjectCostPanel, RunHistoryPanel} : Sound(kind)
BY HooksSound DEF ProcessTreePanel, McpUsagePanel, ConversationPanel, CostByModelPanel, SubprocessBreakdown,
                 ToolCallsPanel, ActionsPanel, MemoryDiffSection, SessionArtifactsPanel, ArtifactBody,
                 ApiCallsPanel, EventsPanel, ProjectCostPanel, RunHistoryPanel, Inputs

LEMMA PolledSound ==
    \A kind \in {SessionPicker, HealthPanel, HiddenSummary, CostPanel, SelfStatus, StatusOnce} : Sound(kind)
BY HooksSound DEF SessionPicker, HealthPanel, HiddenSummary, CostPanel, SelfStatus, StatusOnce, Inputs, Polls

\* What a screen changes of what its hook gives it.
LEMMA ChangesSound ==
    ASSUME NEW kind, Sound(kind)
    PROVE  /\ Sound(Always(kind))
           /\ Sound(Unguarded(kind))
           /\ \A c \in SUBSET {"ask", "none", "fail"} : kind.shows # "settled" => Sound([kind EXCEPT !.clears = c])
           /\ \A p \in Polls : Sound([kind EXCEPT !.polls = p])
           /\ \A n \in SUBSET Inputs : Sound([kind EXCEPT !.needs = n])
BY DEF Sound, Kinds, Always, Unguarded

LEMMA AlwaysSound ==
    \A kind \in {AverageRuns, SessionStats, RunTrendStrip, SessionSparklines, HiddenContextPanel, PromptDetail,
                 DashboardFlow} : Sound(kind)
<1>1. \A reads, needs \in SUBSET Inputs :
          Sound(Always(Async(reads, needs))) /\ Always(Async(reads, needs)).shows = "always"
  BY HooksSound, ChangesSound DEF Always, Async
<1>2. Sound(AverageRuns) /\ Sound(SessionStats) /\ Sound(RunTrendStrip)
  BY <1>1 DEF AverageRuns, SessionStats, RunTrendStrip, Inputs
<1>3. Sound(SessionSparklines) /\ Sound(PromptDetail) /\ Sound(DashboardFlow)
  BY <1>1, ChangesSound DEF SessionSparklines, PromptDetail, DashboardFlow, Inputs
<1>4. Sound(HiddenContextPanel)
  BY <1>1, ChangesSound DEF HiddenContextPanel, Polls
<1> QED BY <1>2, <1>3, <1>4

LEMMA OwnSound == \A kind \in {TabAnalytics, TabBudget} : Sound(kind)
BY DEF TabAnalytics, TabBudget, UsePolled, Sound, Kinds, Inputs, Polls

LEMMA UnguardedSound ==
    \A kind \in {CollectorHealth, HooksStatus, OtelStatus, MemoryGrowthChart, CSessionsTab, RangeBoundData,
                 TabEventsStats, LoadSeries, FileViewer, TabSessionFlow, TabTimelineChart, TabTranscript} :
        Sound(kind)
<1>1. \A reads \in SUBSET Inputs, polls \in Polls :
          /\ Sound(Unguarded(UsePolled(reads, polls)))
          /\ Unguarded(UsePolled(reads, polls)).shows = "always"
  BY HooksSound, ChangesSound DEF Unguarded, UsePolled
<1>2. \A reads, needs \in SUBSET Inputs :
          /\ Sound(Unguarded(Always(Async(reads, needs)))) /\ Sound(Unguarded(Async(reads, needs)))
          /\ Unguarded(Always(Async(reads, needs))).shows = "always"
  BY HooksSound, ChangesSound DEF Unguarded, Always, Async
<1>3. Sound(CollectorHealth) /\ Sound(MemoryGrowthChart) /\ Sound(CSessionsTab) /\ CSessionsTab.shows = "always"
  BY <1>1 DEF CollectorHealth, MemoryGrowthChart, CSessionsTab, Inputs, Polls
<1>4. Sound(HooksStatus) /\ Sound(OtelStatus)
  BY <1>1, ChangesSound DEF HooksStatus, OtelStatus, Polls
<1>5. Sound(RangeBoundData)
  <2>1. Sound([CSessionsTab EXCEPT !.needs = {"range"}]) /\ [CSessionsTab EXCEPT !.needs = {"range"}].shows = "always"
    BY <1>3, ChangesSound DEF Inputs, Sound, Kinds
  <2>2. Sound([[CSessionsTab EXCEPT !.needs = {"range"}] EXCEPT !.clears = {"none"}])
    BY <2>1, ChangesSound
  <2> QED BY <2>2 DEF RangeBoundData
<1>6. Sound(TabEventsStats) /\ Sound(LoadSeries) /\ Sound(FileViewer)
  BY <1>2, ChangesSound DEF TabEventsStats, LoadSeries, FileViewer, Inputs
<1>7. Sound(TabSessionFlow) /\ Sound(TabTimelineChart)
  BY <1>2 DEF TabSessionFlow, TabTimelineChart, Inputs
<1>8. Sound(TabTranscript)
  BY <1>7, ChangesSound DEF TabTranscript, Polls
<1> QED BY <1>3, <1>4, <1>5, <1>6, <1>7, <1>8

LEMMA ScreensSound == \A kind \in Screens : Sound(kind)
BY AsyncSound, PolledSound, AlwaysSound, OwnSound, UnguardedSound DEF Screens

(* What the screens keep --------------------------------------------------- *)

Asks == [to : [screen.reads -> 0..2], at : 0..Unread]
Typed ==
    /\ screen \in Screens /\ inputs \in [screen.reads -> 0..2]
    /\ asks \in Seq(Asks) /\ Len(asks) <= MaxAsks
    /\ rows \in [to : [screen.reads -> 0..2], at : 0..MaxKnown] \cup {NoRows}
    /\ hiddenPage \in BOOLEAN /\ waiting \in BOOLEAN /\ inOrder \in BOOLEAN
    /\ known \in 0..MaxKnown /\ steps \in 0..MaxSteps /\ broken \in 0..MaxBroken

\* What is there was read before now, and of a part that guards its requests there is one, to what is
\* picked, whose answer will be no older than what is there.
RowsKnown == rows # NoRows => rows.at <= known
AskedOfPicked ==
    /\ \A k \in 1..Len(asks) : asks[k].at # Unread => asks[k].at <= known
    /\ screen.guarded =>
         /\ Len(asks) <= 1
         /\ \A k \in 1..Len(asks) :
              asks[k].to = inputs /\ (asks[k].at # Unread /\ rows # NoRows => rows.at <= asks[k].at)

\* A part that forgets what it has when it asks, or hides it until then, has rows of what is picked.
OwnRows == rows = NoRows \/ rows.to = inputs
Settled ==
    screen.guarded /\ Ready(inputs) /\ ("ask" \in screen.clears \/ (screen.shows = "settled" /\ ~waiting)) => OwnRows

\* As long as the answers come in order, the last request is to what is picked.
LastIsPicked ==
    inOrder /\ Ready(inputs) => IF asks = <<>> THEN OwnRows ELSE asks[Len(asks)].to = inputs

ScreenInv == Typed /\ RowsKnown /\ AskedOfPicked /\ Settled /\ LastIsPicked

LEMMA InvIsTyped == ScreenInv => ScreenTypeOK
<1> SUFFICES ASSUME ScreenInv PROVE ScreenTypeOK
  OBVIOUS
<1>1. /\ screen \in Kinds
      /\ inputs \in [screen.reads -> 0..2]
      /\ rows \in [to : [screen.reads -> 0..2], at : 0..MaxKnown] \cup {NoRows}
      /\ known \in 0..MaxKnown /\ steps \in 0..MaxSteps /\ broken \in 0..MaxBroken
      /\ screen.guarded => Len(asks) <= 1
  BY ScreensSound DEF ScreenInv, Typed, AskedOfPicked, Sound
<1>2. {hiddenPage, waiting, inOrder} \subseteq BOOLEAN
  <2>1. hiddenPage \in BOOLEAN /\ waiting \in BOOLEAN /\ inOrder \in BOOLEAN
    BY DEF ScreenInv, Typed
  <2> QED BY <2>1, Zenon
<1>3. asks \in UNION {[1..n -> Asks] : n \in 0..MaxAsks}
  <2>1. asks \in Seq(Asks) /\ Len(asks) <= MaxAsks
    BY DEF ScreenInv, Typed
  <2>2. asks \in [1..Len(asks) -> Asks] /\ Len(asks) \in 0..MaxAsks
    BY <2>1, ScreenBounds, LenProperties
  <2> QED BY <2>2
<1> QED BY <1>1, <1>2, <1>3 DEF ScreenTypeOK, Kinds, Asks

LEMMA ScreenInitOK == ScreenInit => ScreenInv
<1> SUFFICES ASSUME ScreenInit PROVE ScreenInv
  OBVIOUS
<1> USE ScreenBounds
<1>1. asks = <<>> \/ asks = <<[to |-> inputs, at |-> Unread]>>
  BY DEF ScreenInit
<1>2. inputs \in [screen.reads -> 0..2] /\ screen \in Screens
  BY DEF ScreenInit
<1>3. [to |-> inputs, at |-> Unread] \in Asks
  BY <1>2 DEF Asks, Unread
<1>4. asks \in Seq(Asks) /\ Len(asks) <= 1 /\ \A k \in 1..Len(asks) : asks[k] = [to |-> inputs, at |-> Unread]
  <2> DEFINE new == [to |-> inputs, at |-> Unread]
  <2>1. new \in Asks /\ asks \in {<<>>, <<new>>}
    BY <1>1, <1>3
  <2> HIDE DEF new
  <2>2. asks \in Seq(Asks) /\ Len(asks) <= 1 /\ \A k \in 1..Len(asks) : asks[k] = new
    <3>1. CASE asks = <<>>
      BY <3>1, EmptySeq
    <3>2. CASE asks = <<new>>
      BY <2>1, <3>2
    <3> QED BY <2>1, <3>1, <3>2
  <2> QED BY <2>2 DEF new
<1>5. waiting \in BOOLEAN /\ hiddenPage \in BOOLEAN /\ inOrder \in BOOLEAN
  BY DEF ScreenInit
<1>6. Typed
  BY <1>2, <1>4, <1>5 DEF ScreenInit, Typed
<1>7. RowsKnown /\ AskedOfPicked /\ Settled
  BY <1>4 DEF ScreenInit, RowsKnown, AskedOfPicked, Settled, OwnRows
<1>8. LastIsPicked
  BY <1>1, <1>4 DEF ScreenInit, LastIsPicked, OwnRows
<1> QED BY <1>6, <1>7, <1>8 DEF ScreenInv

\* What a new request leaves: it is the last one, and of a guarded part the only one.
LEMMA Sending ==
    ASSUME ScreenInv, NEW of \in [screen.reads -> 0..2], Len(asks) < MaxAsks
    PROVE  /\ Send(of) \in Seq(Asks) /\ Len(Send(of)) <= MaxAsks /\ Send(of) # <<>>
           /\ Send(of)[Len(Send(of))].to = of
           /\ \A k \in 1..Len(Send(of)) : Send(of)[k].at # Unread => ~screen.guarded /\ k \in 1..Len(asks) /\ Send(of)[k] = asks[k]
           /\ screen.guarded => Len(Send(of)) = 1 /\ Send(of)[1].to = of
<1> USE ScreenBounds
<1> DEFINE new == [to |-> of, at |-> Unread]
<1>1. new \in Asks
  BY DEF Asks, Unread
<1>2. asks \in Seq(Asks) /\ Len(asks) \in Nat
  BY LenProperties DEF ScreenInv, Typed
<1>3. /\ Append(asks, new) \in Seq(Asks) /\ Len(Append(asks, new)) = Len(asks) + 1
      /\ \A k \in 1..Len(asks) : Append(asks, new)[k] = asks[k]
      /\ Append(asks, new)[Len(asks) + 1] = new
  BY <1>1, <1>2, AppendProperties
<1>4. CASE screen.guarded
  BY <1>1, <1>4 DEF Send
<1>5. CASE ~screen.guarded
  <2> DEFINE more == Append(asks, new)
  <2>1. Send(of) = more
    BY <1>5 DEF Send
  <2>2. more # <<>>
    BY <1>2, <1>3
  <2>3. \A k \in 1..Len(more) : more[k].at # Unread => k \in 1..Len(asks) /\ more[k] = asks[k]
    BY <1>2, <1>3
  <2>4. more[Len(more)].to = of
    BY <1>3
  <2> HIDE DEF more
  <2> QED BY <1>2, <1>3, <1>5, <2>1, <2>2, <2>3, <2>4 DEF more
<1> QED BY <1>4, <1>5

\* A request on its way, of what is picked from now on.
LEMMA FetchKeeps ==
    ASSUME ScreenInv, NEW of \in [screen.reads -> 0..2], Len(asks) < MaxAsks, Fetch(of), inputs' = of,
           UNCHANGED <<screen, hiddenPage, known, broken>>, steps' \in 0..MaxSteps
    PROVE  ScreenInv'
<1>1. /\ asks' \in Seq(Asks) /\ Len(asks') <= MaxAsks /\ asks' # <<>> /\ asks'[Len(asks')].to = of
      /\ \A k \in 1..Len(asks') :
           asks'[k].at # Unread => ~screen.guarded /\ k \in 1..Len(asks) /\ asks'[k] = asks[k]
      /\ screen.guarded => Len(asks') = 1 /\ asks'[1].to = of
  BY Sending DEF Fetch
<1>2. Asks' = Asks /\ waiting' = TRUE /\ inOrder' \in BOOLEAN
  BY DEF Fetch, Asks, Unread
<1>3. rows' = NoRows \/ rows' = rows
  BY DEF Fetch
<1>4. Typed'
  BY <1>1, <1>2, <1>3 DEF ScreenInv, Typed
<1>5. RowsKnown'
  BY <1>3 DEF ScreenInv, RowsKnown
<1>6. AskedOfPicked'
  BY <1>1 DEF ScreenInv, AskedOfPicked, Unread
<1>7. Settled'
  BY <1>2 DEF Settled, OwnRows, Fetch
<1>8. LastIsPicked'
  BY <1>1 DEF LastIsPicked
<1> QED BY <1>4, <1>5, <1>6, <1>7, <1>8 DEF ScreenInv

\* What it needs is not picked: there is no request, of a guarded part.
LEMMA StopKeeps ==
    ASSUME ScreenInv, NEW of \in [screen.reads -> 0..2], ~Ready(of), Stop, inputs' = of,
           UNCHANGED <<screen, hiddenPage, known, broken>>, steps' \in 0..MaxSteps
    PROVE  ScreenInv'
<1>1. asks' = (IF screen.guarded THEN <<>> ELSE asks) /\ Asks' = Asks /\ inOrder' = inOrder
  BY DEF Stop, Asks, Unread
<1>2. rows' = NoRows \/ rows' = rows
  BY DEF Stop
<1>3. Typed'
  <2>1. asks' \in Seq(Asks) /\ Len(asks') <= MaxAsks
    BY <1>1, EmptySeq, ScreenBounds DEF ScreenInv, Typed
  <2>2. waiting' \in BOOLEAN
    BY DEF Stop
  <2> QED BY <1>1, <1>2, <2>1, <2>2 DEF ScreenInv, Typed
<1>4. RowsKnown'
  BY <1>2 DEF ScreenInv, RowsKnown
<1>5. AskedOfPicked'
  BY <1>1, EmptySeq DEF ScreenInv, AskedOfPicked, Unread
<1>6. ~Ready(inputs)'
  BY DEF Ready
<1> QED BY <1>3, <1>4, <1>5, <1>6 DEF ScreenInv, Settled, LastIsPicked

LEMMA ReadsKeeps == ASSUME ScreenInv, NEW k \in DOMAIN asks, Reads(k) PROVE ScreenInv'
<1> USE ScreenBounds
<1>1. /\ asks \in Seq(Asks) /\ Len(asks) \in Nat /\ k \in 1..Len(asks) /\ asks[k] \in Asks
      /\ known \in 0..MaxKnown
  BY LenProperties, ElementOfSeq DEF ScreenInv, Typed
<1>2. [asks[k] EXCEPT !.at = known] \in Asks
  BY <1>1 DEF Asks, Unread
<1>3. /\ asks' = [asks EXCEPT ![k] = [asks[k] EXCEPT !.at = known]]
      /\ asks' \in Seq(Asks) /\ Len(asks') = Len(asks)
  BY <1>1, <1>2, ExceptSeq DEF Reads
<1>4. \A i \in 1..Len(asks) : /\ asks'[i].to = asks[i].to
                              /\ i # k => asks'[i] = asks[i]
                              /\ i = k => asks'[i].at = known
  BY <1>1, <1>3 DEF Asks
<1>5. UNCHANGED <<screen, inputs, hiddenPage, rows, waiting, inOrder, known, steps, broken>> /\ Asks' = Asks
  BY DEF Reads, Asks, Unread
<1>6. Typed'
  BY <1>3, <1>5 DEF ScreenInv, Typed
<1>7. RowsKnown' /\ Settled'
  BY <1>5 DEF ScreenInv, RowsKnown, Settled, OwnRows, Ready
<1>8. AskedOfPicked'
  BY <1>1, <1>3, <1>4, <1>5 DEF ScreenInv, AskedOfPicked, RowsKnown, Unread
<1>9. LastIsPicked'
  <2>1. asks # <<>> /\ Len(asks) \in 1..Len(asks)
    BY <1>1
  <2> QED BY <1>1, <1>3, <1>4, <1>5, <2>1 DEF ScreenInv, LastIsPicked, Ready
<1> QED BY <1>6, <1>7, <1>8, <1>9 DEF ScreenInv

\* A request leaves those on their way in their order.
LEMMA TakenOut ==
    ASSUME ScreenInv, NEW k \in DOMAIN asks, asks' = RemoveAt(asks, k), UNCHANGED screen
    PROVE  /\ k \in 1..Len(asks) /\ asks[k] \in Asks /\ asks' \in Seq(Asks) /\ Len(asks') = Len(asks) - 1
           /\ Len(asks) \in Nat /\ Asks' = Asks
           /\ \A i \in 1..Len(asks') : \E j \in 1..Len(asks) : asks'[i] = asks[j]
           /\ k = 1 => \A i \in 1..Len(asks') : asks'[i] = asks[i + 1]
           /\ screen.guarded => asks' = <<>>
<1>1. asks \in Seq(Asks) /\ Len(asks) \in Nat /\ k \in 1..Len(asks) /\ asks[k] \in Asks
  BY LenProperties, ElementOfSeq DEF ScreenInv, Typed
<1>2. /\ asks' \in Seq(Asks) /\ Len(asks') = Len(asks) - 1
      /\ \A i \in 1..(Len(asks) - 1) : asks'[i] = IF i < k THEN asks[i] ELSE asks[i + 1]
  BY <1>1, Removing
<1>3. Asks' = Asks
  BY DEF Asks, Unread
<1>4. \A i \in 1..Len(asks') : i \in 1..Len(asks) /\ i + 1 \in 1..Len(asks)
  BY <1>1, <1>2
<1>5. screen.guarded => asks' = <<>>
  <2>1. screen.guarded => Len(asks') = 0
    BY <1>1, <1>2 DEF ScreenInv, AskedOfPicked
  <2> QED BY <1>2, <2>1, EmptySeq
<1> QED BY <1>1, <1>2, <1>3, <1>4, <1>5

LEMMA ArriveKeeps == ASSUME ScreenInv, NEW k \in DOMAIN asks, Arrive(k) PROVE ScreenInv'
<1> USE ScreenBounds
<1>1. /\ asks[k].at # Unread /\ rows' = asks[k] /\ asks' = RemoveAt(asks, k) /\ waiting' = FALSE
      /\ inOrder' = (inOrder /\ k = 1)
      /\ UNCHANGED <<screen, inputs, hiddenPage, known, steps, broken>>
  BY DEF Arrive
<1>2. /\ k \in 1..Len(asks) /\ asks[k] \in Asks /\ asks' \in Seq(Asks) /\ Len(asks') = Len(asks) - 1
      /\ Len(asks) \in Nat /\ Asks' = Asks
      /\ \A i \in 1..Len(asks') : \E j \in 1..Len(asks) : asks'[i] = asks[j]
      /\ k = 1 => \A i \in 1..Len(asks') : asks'[i] = asks[i + 1]
      /\ screen.guarded => asks' = <<>>
  BY <1>1, TakenOut
<1>3. asks[k].at <= known /\ (screen.guarded => asks[k].to = inputs)
  BY <1>1, <1>2 DEF ScreenInv, AskedOfPicked
<1>4. asks[k].to \in [screen.reads -> 0..2] /\ asks[k].at \in 0..MaxKnown
  BY <1>1, <1>2, <1>3 DEF Asks, Unread
<1>5. Typed'
  <2>1. rows' \in [to : [screen.reads -> 0..2], at : 0..MaxKnown]
    BY <1>1, <1>2, <1>4 DEF Asks
  <2>2. inOrder' \in BOOLEAN
    BY <1>1
  <2>3. Len(asks') <= MaxAsks
    BY <1>2 DEF ScreenInv, Typed
  <2> QED BY <1>1, <1>2, <2>1, <2>2, <2>3 DEF ScreenInv, Typed
<1>6. RowsKnown'
  BY <1>1, <1>3 DEF RowsKnown
<1>7. AskedOfPicked'
  <2>1. \A i \in 1..Len(asks') : asks'[i].at # Unread => asks'[i].at <= known
    BY <1>2 DEF ScreenInv, AskedOfPicked
  <2>2. screen.guarded => Len(asks') = 0
    BY <1>2, EmptySeq
  <2> QED BY <1>1, <2>1, <2>2 DEF AskedOfPicked, Unread
<1>8. Settled'
  BY <1>1, <1>3 DEF Settled, OwnRows
<1>9. LastIsPicked'
  <2> SUFFICES ASSUME inOrder, k = 1, Ready(inputs)
               PROVE  IF asks' = <<>> THEN rows' = NoRows \/ rows'.to = inputs ELSE asks'[Len(asks')].to = inputs
    BY <1>1 DEF LastIsPicked, OwnRows, Ready
  <2>1. asks # <<>> /\ asks[Len(asks)].to = inputs
    BY <1>2 DEF ScreenInv, LastIsPicked
  <2>2. CASE asks' = <<>>
    <3>1. Len(asks) = 1
      BY <1>2, <2>2, EmptySeq
    <3> QED BY <1>1, <2>1, <2>2, <3>1
  <2>3. CASE asks' # <<>>
    <3>1. Len(asks') # 0
      BY <1>2, <2>3, EmptySeq
    <3>2. asks'[Len(asks')] = asks[Len(asks)]
      BY <1>2, <3>1
    <3> QED BY <2>1, <2>3, <3>2
  <2> QED BY <2>2, <2>3
<1> QED BY <1>5, <1>6, <1>7, <1>8, <1>9 DEF ScreenInv

LEMMA BreaksKeeps == ASSUME ScreenInv, NEW k \in DOMAIN asks, Breaks(k) PROVE ScreenInv'
<1> USE ScreenBounds
<1>1. /\ asks' = RemoveAt(asks, k) /\ waiting' = FALSE /\ inOrder' = FALSE
      /\ rows' = (IF "fail" \in screen.clears THEN NoRows ELSE rows)
      /\ UNCHANGED <<screen, inputs, hiddenPage, known, steps>>
  BY DEF Breaks
<1>2. /\ asks' \in Seq(Asks) /\ Len(asks') = Len(asks) - 1 /\ Len(asks) \in Nat /\ Asks' = Asks
      /\ \A i \in 1..Len(asks') : \E j \in 1..Len(asks) : asks'[i] = asks[j]
      /\ screen.guarded => asks' = <<>>
  BY <1>1, TakenOut
<1>3. Typed'
  <2>1. broken' \in 0..MaxBroken
    BY DEF ScreenInv, Typed, Breaks
  <2>2. Len(asks') <= MaxAsks
    BY <1>2 DEF ScreenInv, Typed
  <2>3. waiting' \in BOOLEAN /\ inOrder' \in BOOLEAN /\ hiddenPage' \in BOOLEAN
    BY <1>1 DEF ScreenInv, Typed
  <2>4. rows' \in [to : [screen.reads -> 0..2], at : 0..MaxKnown] \cup {NoRows}
    BY <1>1 DEF ScreenInv, Typed
  <2> QED BY <1>1, <1>2, <2>1, <2>2, <2>3, <2>4 DEF ScreenInv, Typed
<1>4. RowsKnown'
  BY <1>1 DEF ScreenInv, RowsKnown
<1>5. AskedOfPicked'
  <2>1. \A i \in 1..Len(asks') : asks'[i].at # Unread => asks'[i].at <= known
    BY <1>2 DEF ScreenInv, AskedOfPicked
  <2>2. screen.guarded => Len(asks') = 0
    BY <1>2, EmptySeq
  <2> QED BY <1>1, <2>1, <2>2 DEF AskedOfPicked, Unread
<1>6. Settled'
  <2>1. screen.guarded /\ screen.shows = "settled" => "fail" \in screen.clears
    BY ScreensSound DEF ScreenInv, Typed, Sound
  <2> QED BY <1>1, <2>1 DEF ScreenInv, Settled, OwnRows, Ready
<1>7. LastIsPicked'
  BY <1>1 DEF LastIsPicked
<1> QED BY <1>3, <1>4, <1>5, <1>6, <1>7 DEF ScreenInv

LEMMA ScreenStep == ScreenInv /\ [ScreenNext]_screenVars => ScreenInv'
<1> SUFFICES ASSUME ScreenInv, [ScreenNext]_screenVars PROVE ScreenInv'
  OBVIOUS
<1> USE ScreenBounds
<1>1. ASSUME NEW of \in [screen.reads -> 0..2], Pick(of) PROVE ScreenInv'
  <2>1. steps' \in 0..MaxSteps /\ inputs' = of /\ UNCHANGED <<screen, hiddenPage, known, broken>>
    BY <1>1 DEF Pick, ScreenInv, Typed
  <2>2. CASE Ready(of)
    BY <1>1, <2>1, <2>2, FetchKeeps DEF Pick
  <2>3. CASE ~Ready(of)
    BY <1>1, <2>1, <2>3, StopKeeps DEF Pick
  <2> QED BY <2>2, <2>3
<1>2. CASE Again
  <2>1. /\ steps' \in 0..MaxSteps /\ inputs \in [screen.reads -> 0..2]
        /\ Len(asks) < MaxAsks /\ Fetch(inputs) /\ UNCHANGED <<screen, inputs, hiddenPage, known, broken>>
    BY <1>2 DEF Again, ScreenInv, Typed
  <2> QED BY <2>1, FetchKeeps
<1>3. CASE Hide \/ Learns \/ UNCHANGED screenVars
  <2>1. UNCHANGED <<screen, inputs, asks, rows, waiting, inOrder, broken>> /\ Asks' = Asks
    BY <1>3 DEF Hide, Learns, screenVars, Asks, Unread
  <2>2. /\ known' \in 0..MaxKnown /\ known <= known' /\ steps' \in 0..MaxSteps
    BY <1>3 DEF Hide, Learns, screenVars, ScreenInv, Typed
  <2>3. hiddenPage' \in BOOLEAN
    BY <1>3 DEF Hide, Learns, screenVars, ScreenInv, Typed
  <2>4. Typed' /\ Settled' /\ LastIsPicked'
    BY <2>1, <2>2, <2>3 DEF ScreenInv, Typed, Settled, LastIsPicked, OwnRows, Ready
  <2>5. RowsKnown'
    <3>1. rows # NoRows => rows.at \in Nat
      BY DEF ScreenInv, Typed
    <3> QED BY <2>1, <2>2, <3>1 DEF ScreenInv, Typed, RowsKnown
  <2>6. AskedOfPicked'
    <3>1. \A k \in 1..Len(asks) : asks[k].at \in Nat
      <4>1. \A k \in 1..Len(asks) : asks[k] \in Asks
        BY ElementOfSeq DEF ScreenInv, Typed
      <4> QED BY <4>1 DEF Asks, Unread
    <3>2. known \in Nat /\ known' \in Nat /\ Unread' = Unread
      BY <2>2 DEF ScreenInv, Typed, Unread
    <3>3. \A k \in 1..Len(asks) : asks[k].at # Unread => asks[k].at <= known'
      BY <2>2, <3>1, <3>2 DEF ScreenInv, AskedOfPicked
    <3> QED BY <2>1, <3>2, <3>3 DEF ScreenInv, AskedOfPicked
  <2> QED BY <2>4, <2>5, <2>6 DEF ScreenInv
<1>4. ASSUME NEW k \in DOMAIN asks, Reads(k) \/ Arrive(k) \/ Breaks(k) PROVE ScreenInv'
  BY <1>4, ReadsKeeps, ArriveKeeps, BreaksKeeps
<1> QED BY <1>1, <1>2, <1>3, <1>4 DEF ScreenNext

LEMMA InvShows == ScreenInv => OwnAnswer /\ InOrderSettles
<1> SUFFICES ASSUME ScreenInv PROVE OwnAnswer /\ InOrderSettles
  OBVIOUS
<1>1. screen.shows \in {"settled", "own", "always"}
  BY ScreensSound DEF ScreenInv, Typed, Sound, Kinds
<1>2. OwnAnswer
  <2> SUFFICES ASSUME screen.guarded, screen.shows # "always" \/ "ask" \in screen.clears, Shown # NoRows
               PROVE  Shown.to = inputs
    BY DEF OwnAnswer
  <2>1. Shown = rows /\ Ready(inputs) /\ ~(screen.shows = "settled" /\ waiting)
        /\ ~(screen.shows = "own" /\ rows # NoRows /\ rows.to # inputs)
    BY DEF Shown
  <2>2. CASE screen.shows = "own"
    BY <2>1, <2>2
  <2>3. CASE "ask" \in screen.clears \/ screen.shows = "settled"
    BY <2>1, <2>3 DEF ScreenInv, Settled, OwnRows
  <2> QED BY <1>1, <2>2, <2>3
<1>3. InOrderSettles
  BY DEF InOrderSettles, ScreenInv, LastIsPicked, OwnRows
<1> QED BY <1>2, <1>3

(* The screens implement LatestAnswer --------------------------------------- *)

LEMMA PickedIsQuestion == \A of \in [screen.reads -> 0..2] : screen \in Screens => of \in Questions
BY ScreensSound DEF Questions, Sound, Kinds

LEMMA ScreenViewInit == ScreenInit => ScreenView!Init
<1> SUFFICES ASSUME ScreenInit PROVE ScreenView!Init
  OBVIOUS
<1>1. inputs \in [screen.reads -> 0..2] /\ screen \in Screens /\ known = 0 /\ rows = NoRows
  BY DEF ScreenInit
<1> QED BY <1>1, PickedIsQuestion DEF ScreenView!Init

LEMMA ScreenViewStep ==
    ScreenInv /\ [ScreenNext]_screenVars
      => [ScreenView!Next]_<<known, inputs, IF screen.guarded THEN rows ELSE NoRows>>
<1> DEFINE shown == IF screen.guarded THEN rows ELSE NoRows
<1> SUFFICES ASSUME ScreenInv, [ScreenNext]_screenVars PROVE [ScreenView!Next]_<<known, inputs, shown>>
  OBVIOUS
<1> USE ScreenBounds
<1>1. ASSUME NEW of \in [screen.reads -> 0..2], Pick(of) PROVE ScreenView!Ask
  <2>1. inputs' \in Questions
    BY <1>1, PickedIsQuestion DEF Pick, ScreenInv, Typed
  <2>2. UNCHANGED <<known, screen>> /\ (rows' = NoRows \/ rows' = rows)
    BY <1>1 DEF Pick, Fetch, Stop
  <2>3. shown' \in {shown, NoRows}
    BY <2>2
  <2> QED BY <2>1, <2>2, <2>3 DEF ScreenView!Ask
<1>2. ASSUME Again \/ (\E k \in DOMAIN asks : Breaks(k))
      PROVE  ScreenView!Forget \/ UNCHANGED <<known, inputs, shown>>
  <2>1. UNCHANGED <<known, inputs, screen>> /\ (rows' = NoRows \/ rows' = rows)
    BY <1>2 DEF Again, Fetch, Breaks
  <2> QED BY <2>1 DEF ScreenView!Forget
<1>3. ASSUME Hide \/ (\E k \in DOMAIN asks : Reads(k)) \/ UNCHANGED screenVars
      PROVE  UNCHANGED <<known, inputs, shown>>
  BY <1>3 DEF Hide, Reads, screenVars
<1>4. CASE Learns
  BY <1>4 DEF Learns, ScreenView!Learn, ScreenView!Next
<1>5. ASSUME NEW k \in DOMAIN asks, Arrive(k) PROVE ScreenView!Show \/ UNCHANGED <<known, inputs, shown>>
  <2>1. asks[k].at # Unread /\ rows' = asks[k] /\ UNCHANGED <<screen, known, inputs>>
    BY <1>5 DEF Arrive
  <2>2. CASE ~screen.guarded
    BY <2>1, <2>2
  <2>3. CASE screen.guarded
    <3>1. /\ asks[k].to = inputs /\ asks[k].at <= known
          /\ rows # NoRows => rows.at <= asks[k].at
      BY <2>1, <2>3, LenProperties DEF ScreenInv, Typed, AskedOfPicked
    <3>2. asks[k] \in Asks /\ known \in 0..MaxKnown
      BY ElementOfSeq, LenProperties DEF ScreenInv, Typed
    <3>3. asks[k].at \in 0..known /\ asks[k] = [to |-> inputs, at |-> asks[k].at]
      BY <3>1, <3>2 DEF Asks, Unread
    <3>4. shown' = [to |-> inputs, at |-> asks[k].at] /\ shown = rows
      BY <2>1, <2>3, <3>3
    <3> QED BY <2>1, <3>1, <3>3, <3>4 DEF ScreenView!Show
  <2> QED BY <2>2, <2>3
<1> QED BY <1>1, <1>2, <1>3, <1>4, <1>5 DEF ScreenNext, ScreenView!Next

(* However often a part of the detail screens asks, is answered late or    *)
(* not at all, and whatever is picked meanwhile: one that guards its       *)
(* requests shows only what its newest question brought, and no older      *)
(* answer to it (useAsyncResource, usePolledResource and the effects of    *)
(* the 41 parts).                                                          *)
THEOREM ScreensImplement == ScreenSpec => ScreenFollows
BY ScreenInitOK, ScreenStep, ScreenViewInit, ScreenViewStep, PTL
   DEF ScreenSpec, ScreenFollows, ScreenView!Spec

(* What a guarded part shows is of the session, range or file that is      *)
(* picked, when it hides or forgets the rest; and without a guard, once    *)
(* the answers have come in the order of the requests.                     *)
THEOREM ScreensShowTheirOwn == ScreenSpec => [](ScreenTypeOK /\ OwnAnswer /\ InOrderSettles)
BY ScreenInitOK, ScreenStep, InvIsTyped, InvShows, PTL DEF ScreenSpec

(* What the drawer keeps ---------------------------------------------------- *)

Question == KeyOf(Top(stack), query, listed)

DrawerTyped ==
    /\ stack \in Seq(Things) /\ Len(stack) <= MaxDepth
    /\ query \in BoardQueries /\ listed \in BOOLEAN
    /\ detail \in [key : Keys \cup {Empty}, data : [to : Keys, at : 0..MaxData] \cup {Empty}, failed : BOOLEAN]
    /\ requests \subseteq [key : Keys, at : 0..MaxData \cup {Empty}]
    /\ data \in 0..MaxData /\ losses \in 0..MaxLosses
DialogTyped ==
    /\ menu \in Menus \cup {Empty} /\ modal \in [of : Agents \cup {Empty}] \cup {Empty}
    /\ applying \in BOOLEAN /\ (applying => modal # Empty)
    /\ running \subseteq Agents /\ stopped \subseteq Agents
    /\ commands \subseteq [of : Agents \cup {Empty}, at : 0..MaxTurns, done : BOOLEAN]
    /\ toast \in {"done", "failed", Empty} /\ turns \in 0..MaxTurns

\* Every timer of the toast is of a command that was sent, and so is every command still on its way.
ToastsSent ==
    /\ IsFiniteSet(commands) /\ toastTimers \in Nat
    /\ toastTimers + Cardinality(commands) <= turns

\* The view on top has one request on its way, for what it asks now, whose answer will be no older than
\* what it shows.
OneRequest ==
    /\ \A r, s \in requests : r = s
    /\ detail.data # Empty => detail.data.at <= data
    /\ \A r \in requests :
         /\ r.key = Question
         /\ r.at # Empty => r.at <= data /\ (detail.data # Empty => detail.data.at <= r.at)

\* The lines of the file on top are there or asked for.
LinesOfTop ==
    stack # <<>> /\ Top(stack).view = "file"
        => IF excerptOf = Empty THEN excerpt = Top(stack).id ELSE excerptOf = Top(stack).id

DrawerInv == DrawerTyped /\ DialogTyped /\ ToastsSent /\ OneRequest /\ LinesOfTop

LEMMA DrawerInvIsTyped == DrawerInv => DrawerTypeOK
<1> SUFFICES ASSUME DrawerInv PROVE DrawerTypeOK
  OBVIOUS
<1> USE DrawerBounds
<1>1. stack \in UNION {[1..n -> Things] : n \in 0..MaxDepth}
  <2>1. stack \in [1..Len(stack) -> Things] /\ Len(stack) \in 0..MaxDepth
    BY LenProperties DEF DrawerInv, DrawerTyped
  <2> QED BY <2>1
<1>2. toastTimers \in 0..MaxTurns
  <2>1. Cardinality(commands) \in Nat
    BY FS_CardinalityType DEF DrawerInv, ToastsSent
  <2> QED BY <2>1 DEF DrawerInv, ToastsSent, DialogTyped
<1> QED BY <1>1, <1>2 DEF DrawerTypeOK, DrawerInv, DrawerTyped, DialogTyped

\* What the view on top asks is one of the questions, and its kind is the view's.
LEMMA QuestionOf ==
    ASSUME NEW s \in Seq(Things), NEW q \in BoardQueries, NEW lists \in BOOLEAN
    PROVE  LET key == KeyOf(Top(s), q, lists) IN
           /\ key \in Keys \cup {Empty}
           /\ s # <<>> => Top(s) \in Things /\ Top(s).view \in Views /\ Top(s).id # Empty
           /\ s # <<>> /\ Top(s).view # "hidden" => key \in Keys /\ key # Empty /\ key.view = Top(s).view /\ key.id = Top(s).id
           /\ s = <<>> \/ Top(s).view = "hidden" => key = Empty
<1> USE DrawerThings, DrawerKeys
<1>1. CASE s = <<>>
  BY <1>1 DEF Top, KeyOf
<1>2. CASE s # <<>>
  <2> DEFINE t == Top(s)
  <2>1. t \in Things
    <3>1. Len(s) \in 1..Len(s)
      BY <1>2, LenProperties, EmptySeq
    <3> QED BY <1>2, <3>1, ElementOfSeq DEF Top, Last
  <2>2. t.view \in Views /\ t.id \in {u.id : u \in Things} /\ t # Empty /\ t.id # Empty
    BY <2>1
  <2> HIDE DEF t
  <2>3. CASE t.view = "hidden"
    <3>1. KeyOf(t, q, lists) = Empty
      BY <2>2, <2>3 DEF KeyOf
    <3> QED BY <1>2, <2>1, <2>2, <2>3, <3>1 DEF t
  <2>4. CASE t.view # "hidden"
    <3> DEFINE by == CASE t.view = "agent" -> Empty [] t.view = "prompt" -> lists [] OTHER -> q
    <3>1. by \in BoardQueries \cup BOOLEAN \cup {Empty}
      <4>1. CASE t.view = "agent"
        BY <4>1
      <4>2. CASE t.view = "prompt"
        BY <4>2
      <4>3. CASE t.view # "agent" /\ t.view # "prompt"
        BY <4>3
      <4> QED BY <4>1, <4>2, <4>3
    <3>2. KeyOf(t, q, lists) = [view |-> t.view, id |-> t.id, by |-> by]
      BY <2>2, <2>4 DEF KeyOf
    <3> HIDE DEF by
    <3>3. [view |-> t.view, id |-> t.id, by |-> by] \in Keys
      BY <2>2, <3>1 DEF Keys
    <3>4. KeyOf(t, q, lists).view = t.view /\ KeyOf(t, q, lists).id = t.id
      BY <3>2
    <3> QED BY <1>2, <2>1, <2>2, <2>4, <3>2, <3>3, <3>4 DEF t
  <2> QED BY <2>3, <2>4
<1> QED BY <1>1, <1>2

\* A render of the drawer: what is shown of an answer stays or is forgotten, and what is asked is of the
\* view that is on top now.
LEMMA RenderKeeps ==
    ASSUME DrawerInv, NEW s \in Seq(Things), Len(s) <= MaxDepth, NEW q \in BoardQueries, NEW lists \in BOOLEAN,
           NEW tick \in BOOLEAN, Render(s, q, lists, tick), UNCHANGED <<data, losses>>
    PROVE  /\ DrawerTyped' /\ OneRequest' /\ LinesOfTop'
           /\ Question' \in Keys \cup {Empty} /\ detail'.data \in {detail.data, Empty}
<1> USE DrawerThings, DrawerKeys
<1> DEFINE old == Question
           new == KeyOf(Top(s), q, lists)
           mounted == old # Empty /\ new # Empty /\ old.view = new.view
           file == IF new # Empty /\ new.view = "file" THEN new.id ELSE Empty
           again == ~mounted \/ new # old \/ (tick /\ new.view = "agent")
<1>1. /\ stack' = s /\ query' = q /\ listed' = lists
      /\ new = Empty => detail' = NoDetail /\ requests' = {}
      /\ new # Empty /\ again =>
           /\ detail' = IF mounted /\ detail.key = new THEN detail ELSE [NoDetail EXCEPT !.key = new]
           /\ requests' = Ask(new)
      /\ new # Empty /\ ~again => UNCHANGED <<detail, requests>>
      /\ excerpt' = IF mounted /\ file # Empty THEN excerpt ELSE Empty
      /\ excerptOf' = IF ~mounted \/ new.id # old.id THEN file ELSE excerptOf
  BY DEF Render, Question
<1>2. Question' = new
  BY <1>1 DEF Question, KeyOf, Top
<1>3. new \in Keys \cup {Empty}
  BY QuestionOf
<1> HIDE DEF old, new
<1>4. \/ detail' = detail /\ ((requests' = requests /\ new = old) \/ (requests' = Ask(new) /\ new \in Keys))
      \/ detail' = [NoDetail EXCEPT !.key = new] /\ requests' = Ask(new) /\ new \in Keys
      \/ detail' = NoDetail /\ requests' = {}
  BY <1>1, <1>3
<1>5. detail'.data \in {detail.data, Empty}
  BY <1>4 DEF NoDetail
<1>6. DrawerTyped'
  <2>1. requests' \subseteq [key : Keys, at : 0..MaxData \cup {Empty}]
    BY <1>4 DEF Ask, DrawerInv, DrawerTyped
  <2>2. detail' \in [key : Keys \cup {Empty}, data : [to : Keys, at : 0..MaxData] \cup {Empty}, failed : BOOLEAN]
    <3> DEFINE Details == [key : Keys \cup {Empty}, data : [to : Keys, at : 0..MaxData] \cup {Empty}, failed : BOOLEAN]
    <3>1. detail \in Details /\ NoDetail \in Details
      BY DEF DrawerInv, DrawerTyped, NoDetail
    <3>2. new \in Keys => [NoDetail EXCEPT !.key = new] \in Details
      BY DEF NoDetail
    <3> HIDE DEF Details
    <3>3. detail' \in Details
      BY <1>4, <3>1, <3>2
    <3> QED BY <3>3 DEF Details
  <2> QED BY <1>1, <2>1, <2>2 DEF DrawerInv, DrawerTyped
<1>7. OneRequest'
  <2>1. detail'.data # Empty => detail'.data = detail.data
    BY <1>5
  <2>2. CASE requests' = requests /\ new = old /\ detail' = detail
    BY <1>2, <2>2 DEF DrawerInv, OneRequest, old
  <2>3. CASE requests' = Ask(new) \/ requests' = {}
    <3>1. \A r, t \in requests' : r = t
      BY <2>3 DEF Ask
    <3>2. \A r \in requests' : r.key = new /\ r.at = Empty
      BY <2>3 DEF Ask
    <3> QED BY <1>2, <2>1, <3>1, <3>2 DEF DrawerInv, OneRequest
  <2> QED BY <1>4, <2>2, <2>3
<1>8. LinesOfTop'
  <2> SUFFICES ASSUME s # <<>>, Top(s).view = "file"
               PROVE  IF excerptOf' = Empty THEN excerpt' = Top(s).id ELSE excerptOf' = Top(s).id
    BY <1>1 DEF LinesOfTop, Top
  <2>1. new # Empty /\ new.view = "file" /\ new.id = Top(s).id /\ Top(s).id # Empty
    BY QuestionOf DEF new
  <2>2. file = Top(s).id
    BY <2>1
  <2>3. CASE ~mounted \/ new.id # old.id
    BY <1>1, <2>1, <2>2, <2>3
  <2>4. CASE mounted /\ new.id = old.id
    <3>1. old # Empty /\ old.view = "file" /\ old.id = Top(s).id
      BY <2>1, <2>4
    <3>2. stack \in Seq(Things) /\ query \in BoardQueries /\ listed \in BOOLEAN
      BY DEF DrawerInv, DrawerTyped
    <3>3. stack # <<>> /\ Top(stack).view = "file" /\ Top(stack).id = Top(s).id
      BY <3>1, <3>2, QuestionOf DEF old, Question
    <3>4. excerptOf' = excerptOf /\ excerpt' = excerpt
      BY <1>1, <2>1, <2>2, <2>4
    <3> QED BY <3>3, <3>4 DEF DrawerInv, LinesOfTop
  <2> QED BY <2>3, <2>4
<1> QED BY <1>2, <1>3, <1>5, <1>6, <1>7, <1>8

\* What a step of the user makes of the drawer: another stack or another query, or what it was.
Turned == \/ UNCHANGED <<stack, query, listed, detailState>>
          \/ \E s \in Seq(Things), q \in BoardQueries, lists, tick \in BOOLEAN :
               Len(s) <= MaxDepth /\ Render(s, q, lists, tick)

LEMMA FrontOf ==
    ASSUME NEW s \in Seq(Things), s # <<>>, Len(s) <= MaxDepth
    PROVE  Front(s) \in Seq(Things) /\ Len(Front(s)) <= MaxDepth
<1> USE DrawerBounds
<1>1. Len(s) \in Nat /\ Len(s) # 0 /\ \A k \in 1..Len(s) : s[k] \in Things
  BY LenProperties, ElementOfSeq, EmptySeq
<1>2. \A k \in 1..(Len(s) - 1) : s[k] \in Things
  BY <1>1
<1>3. /\ Front(s) \in Seq(Things)
      /\ Len(Front(s)) = IF 1 <= Len(s) - 1 THEN (Len(s) - 1) - 1 + 1 ELSE 0
  BY <1>1, <1>2, SubSeqProperties DEF Front
<1> QED BY <1>1, <1>3

LEMMA UserTurns ==
    ASSUME DrawerInv,
           \/ \E t \in Things, reset \in BOOLEAN : OpenDrawer(t, reset)
           \/ \E q \in BoardQueries : ChooseQuery(q)
           \/ \E m \in Menus : ToggleMenu(m)
           \/ \E of \in Agents \cup {Empty} : OpenModal(of)
           \/ DrawerBack \/ DrawerClose \/ ApplyModal \/ CancelModal \/ Escape \/ BoardData
    PROVE  Turned /\ UNCHANGED <<data, losses>>
<1> USE DrawerBounds DEF Turned
<1>0. stack \in Seq(Things) /\ Len(stack) <= MaxDepth /\ query \in BoardQueries /\ listed \in BOOLEAN
  BY DEF DrawerInv, DrawerTyped
<1>1. ASSUME NEW t \in Things, NEW reset \in BOOLEAN, OpenDrawer(t, reset) PROVE Turned /\ UNCHANGED <<data, losses>>
  <2> DEFINE s == IF reset THEN <<t>> ELSE Append(stack, t)
  <2>1. s \in Seq(Things) /\ Len(s) <= MaxDepth
    <3>1. CASE reset
      BY <3>1
    <3>2. CASE ~reset
      <4>1. Len(stack) < MaxDepth /\ Len(stack) \in Nat
        BY <1>0, <1>1, <3>2, LenProperties DEF OpenDrawer
      <4>2. Append(stack, t) \in Seq(Things) /\ Len(Append(stack, t)) = Len(stack) + 1
        BY <1>0, AppendProperties
      <4> QED BY <3>2, <4>1, <4>2
    <3> QED BY <3>1, <3>2
  <2>2. Render(s, query, listed, FALSE) /\ UNCHANGED <<data, losses>>
    BY <1>1 DEF OpenDrawer, Rest
  <2> HIDE DEF s
  <2> QED BY <1>0, <2>1, <2>2
<1>2. ASSUME NEW q \in BoardQueries, ChooseQuery(q) PROVE Turned /\ UNCHANGED <<data, losses>>
  <2>1. Render(stack, q, listed, FALSE) /\ UNCHANGED <<data, losses>>
    BY <1>2 DEF ChooseQuery, Rest
  <2> QED BY <1>0, <2>1
<1>3. ASSUME \/ \E m \in Menus : ToggleMenu(m)
             \/ \E of \in Agents \cup {Empty} : OpenModal(of)
             \/ ApplyModal \/ CancelModal
      PROVE  Turned /\ UNCHANGED <<data, losses>>
  BY <1>3 DEF ToggleMenu, OpenModal, ApplyModal, CancelModal, Rest
<1>4. CASE DrawerBack \/ Escape
  <2>1. \/ UNCHANGED <<stack, query, listed, detailState>>
        \/ stack # <<>> /\ Render(Front(stack), query, listed, FALSE)
    <3>1. CASE DrawerBack
      <4>1. stack # <<>>
        BY <3>1, EmptySeq DEF DrawerBack
      <4> QED BY <3>1, <4>1 DEF DrawerBack
    <3>2. CASE Escape
      BY <3>2 DEF Escape
    <3> QED BY <1>4, <3>1, <3>2
  <2>2. UNCHANGED <<data, losses>>
    BY <1>4 DEF DrawerBack, Escape, Rest
  <2> QED BY <1>0, <2>1, <2>2, FrontOf
<1>5. CASE DrawerClose
  <2>1. Render(<<>>, query, listed, FALSE) /\ UNCHANGED <<data, losses>>
    BY <1>5 DEF DrawerClose, Rest
  <2>2. <<>> \in Seq(Things) /\ Len(<<>>) <= MaxDepth
    BY EmptySeq
  <2> QED BY <1>0, <2>1, <2>2
<1>6. CASE BoardData
  <2>1. Render(stack, query, TRUE, TRUE) /\ UNCHANGED <<data, losses>>
    BY <1>6 DEF BoardData
  <2> QED BY <1>0, <2>1
<1> QED BY <1>1, <1>2, <1>3, <1>4, <1>5, <1>6

\* What happens to the dialogs, the commands and the toast.
LEMMA DialogStep ==
    ASSUME DrawerInv, [DrawerNext]_drawerVars
    PROVE  DialogTyped' /\ ToastsSent'
<1> USE DrawerBounds DEF DrawerInv
<1>0. Cardinality(commands) \in Nat /\ turns \in 0..MaxTurns /\ toastTimers \in Nat
  BY FS_CardinalityType DEF ToastsSent, DialogTyped
<1>1. ASSUME \/ \E t \in Things, reset \in BOOLEAN : OpenDrawer(t, reset)
             \/ \E q \in BoardQueries : ChooseQuery(q)
             \/ \E m \in Menus : ToggleMenu(m)
             \/ \E of \in Agents \cup {Empty} : OpenModal(of)
             \/ DrawerBack \/ DrawerClose \/ CancelModal \/ Escape
      PROVE  DialogTyped' /\ ToastsSent'
  <2>1. UNCHANGED <<commands, running, stopped, toast, toastTimers>> /\ turns' = turns + 1 /\ turns < MaxTurns
    <3>1. CASE \/ \E t \in Things, reset \in BOOLEAN : OpenDrawer(t, reset)
               \/ \E q \in BoardQueries : ChooseQuery(q)
               \/ \E m \in Menus : ToggleMenu(m)
      BY <3>1 DEF OpenDrawer, ChooseQuery, ToggleMenu, Turn, Rest
    <3>2. CASE \/ \E of \in Agents \cup {Empty} : OpenModal(of)
               \/ DrawerBack \/ DrawerClose \/ CancelModal \/ Escape
      BY <3>2 DEF OpenModal, DrawerBack, DrawerClose, CancelModal, Escape, Turn, Rest
    <3> QED BY <1>1, <3>1, <3>2
  <2>2. menu' \in Menus \cup {Empty}
    BY <1>1 DEF OpenDrawer, ChooseQuery, ToggleMenu, OpenModal, DrawerBack, DrawerClose, CancelModal, Escape,
                DialogTyped
  <2>3. modal' \in [of : Agents \cup {Empty}] \cup {Empty} /\ applying' \in BOOLEAN /\ (applying' => modal' # Empty)
    <3>1. \/ modal' = modal /\ applying' = applying
          \/ modal' = Empty /\ applying' = FALSE
          \/ \E of \in Agents \cup {Empty} : modal' = [of |-> of] /\ applying' = FALSE
      BY <1>1 DEF OpenDrawer, ChooseQuery, ToggleMenu, OpenModal, DrawerBack, DrawerClose, CancelModal, Escape
    <3>2. CASE modal' = modal /\ applying' = applying
      BY <3>2 DEF DialogTyped
    <3>3. CASE modal' = Empty /\ applying' = FALSE
      BY <3>3
    <3>4. ASSUME NEW of \in Agents \cup {Empty}, modal' = [of |-> of], applying' = FALSE
          PROVE  modal' \in [of : Agents \cup {Empty}] \cup {Empty} /\ applying' \in BOOLEAN /\ ~applying'
      BY <3>4
    <3> QED BY <3>1, <3>2, <3>3, <3>4, Zenon
  <2>4. DialogTyped'
    BY <1>0, <2>1, <2>2, <2>3 DEF DialogTyped
  <2>5. ToastsSent'
    BY <1>0, <2>1 DEF ToastsSent
  <2> QED BY <2>4, <2>5
<1>2. CASE ApplyModal
  <2> DEFINE c == [of |-> modal.of, at |-> turns, done |-> FALSE]
  <2>1. /\ modal # Empty /\ commands' = commands \cup {c} /\ turns' = turns + 1 /\ turns < MaxTurns /\ applying' = TRUE
        /\ UNCHANGED <<menu, modal, running, stopped, toast, toastTimers>>
    BY <1>2 DEF ApplyModal, Turn
  <2>2. c \in [of : Agents \cup {Empty}, at : 0..MaxTurns, done : BOOLEAN]
    BY <1>0, <2>1 DEF DialogTyped
  <2> HIDE DEF c
  <2>3. IsFiniteSet(commands') /\ Cardinality(commands') <= Cardinality(commands) + 1 /\ Cardinality(commands') \in Nat
    <3>1. IsFiniteSet(commands')
      BY <2>1, FS_AddElement DEF ToastsSent
    <3>2. Cardinality(commands') = IF c \in commands THEN Cardinality(commands) ELSE Cardinality(commands) + 1
      BY <2>1, FS_AddElement DEF ToastsSent
    <3> QED BY <1>0, <3>1, <3>2
  <2>4. DialogTyped'
    BY <1>0, <2>1, <2>2 DEF DialogTyped
  <2>5. ToastsSent'
    BY <1>0, <2>1, <2>3 DEF ToastsSent
  <2> QED BY <2>4, <2>5
<1>3. ASSUME NEW c \in commands, CommandDone(c) \/ CommandFails(c) PROVE DialogTyped' /\ ToastsSent'
  <2>1. /\ commands' = commands \ {c} /\ modal' = Empty /\ applying' = FALSE /\ toastTimers' = toastTimers + 1
        /\ toast' \in {"done", "failed"} /\ UNCHANGED <<menu, running, turns>>
        /\ stopped' \in {stopped, stopped \cup {c.of}} /\ (c.of = Empty => stopped' = stopped)
    BY <1>3 DEF CommandDone, CommandFails, Notice
  <2>2. IsFiniteSet(commands') /\ Cardinality(commands') = Cardinality(commands) - 1
    BY <2>1, FS_RemoveElement DEF ToastsSent
  <2>3. DialogTyped'
    BY <2>1 DEF DialogTyped
  <2>4. ToastsSent'
    BY <1>0, <2>1, <2>2 DEF ToastsSent
  <2> QED BY <2>3, <2>4
<1>4. ASSUME NEW c \in commands, RunCommand(c) PROVE DialogTyped' /\ ToastsSent'
  <2> DEFINE ran == [c EXCEPT !.done = TRUE]
  <2>1. /\ commands' = (commands \ {c}) \cup {ran} /\ running' = running \ {c.of}
        /\ UNCHANGED <<menu, modal, applying, stopped, toast, toastTimers, turns>>
    BY <1>4 DEF RunCommand
  <2>2. DialogTyped'
    <3>1. ran \in [of : Agents \cup {Empty}, at : 0..MaxTurns, done : BOOLEAN]
      BY DEF DialogTyped
    <3> HIDE DEF ran
    <3> QED BY <2>1, <3>1 DEF DialogTyped
  <2> HIDE DEF ran
  <2>3. /\ IsFiniteSet(commands \ {c}) /\ Cardinality(commands \ {c}) = Cardinality(commands) - 1
    BY FS_RemoveElement DEF ToastsSent
  <2>4. /\ IsFiniteSet(commands') /\ Cardinality(commands') \in {Cardinality(commands) - 1, Cardinality(commands)}
    <3>1. /\ IsFiniteSet(commands')
          /\ Cardinality(commands') = IF ran \in commands \ {c} THEN Cardinality(commands \ {c})
                                      ELSE Cardinality(commands \ {c}) + 1
      BY <2>1, <2>3, FS_AddElement
    <3> QED BY <1>0, <2>3, <3>1
  <2>5. ToastsSent'
    BY <1>0, <2>1, <2>4 DEF ToastsSent
  <2> QED BY <2>2, <2>5
<1>5. CASE ToastTimer
  <2>1. toastTimers' = toastTimers - 1 /\ toastTimers > 0 /\ toast' = Empty
        /\ UNCHANGED <<menu, modal, applying, commands, running, stopped, turns>>
    BY <1>5 DEF ToastTimer
  <2> QED BY <1>0, <2>1 DEF DialogTyped, ToastsSent
<1>6. ASSUME NEW a \in Agents, Resume(a) PROVE DialogTyped' /\ ToastsSent'
  BY <1>6 DEF Resume, DialogTyped, ToastsSent
<1>7. ASSUME \/ \E r \in requests : Serve(r) \/ DetailArrives(r) \/ DetailFails(r)
             \/ ExcerptArrives \/ BoardData \/ ServerLearns \/ UNCHANGED drawerVars
      PROVE  DialogTyped' /\ ToastsSent'
  <2>1. UNCHANGED <<dialogs, turns>>
    BY <1>7 DEF Serve, DetailArrives, DetailFails, ExcerptArrives, BoardData, ServerLearns, drawerVars
  <2> QED BY <2>1 DEF dialogs, DialogTyped, ToastsSent
<1> QED BY <1>1, <1>2, <1>3, <1>4, <1>5, <1>6, <1>7 DEF DrawerNext

\* What the server's answers make of the view on top.
LEMMA AnswerKeeps ==
    ASSUME DrawerInv, NEW r \in requests, Serve(r) \/ DetailArrives(r) \/ DetailFails(r)
    PROVE  /\ DrawerTyped' /\ OneRequest' /\ LinesOfTop'
           /\ DrawerView!Show \/ DrawerView!Forget \/ UNCHANGED <<data, Question, detail.data>>
<1> USE DrawerBounds DEF DrawerInv
<1>1. UNCHANGED <<stack, query, listed, excerpt, excerptOf, data>>
  BY DEF Serve, DetailArrives, DetailFails
<1>2. LinesOfTop' /\ Question' = Question
  BY <1>1 DEF LinesOfTop, Question, Top, KeyOf
<1>3. /\ r.key \in Keys /\ r.at \in 0..MaxData \cup {Empty} /\ r.key = Question /\ requests = {r}
      /\ r.at # Empty => r.at <= data /\ (detail.data # Empty => detail.data.at <= r.at)
  BY DEF DrawerTyped, OneRequest
<1>4. data \in 0..MaxData /\ losses' \in 0..MaxLosses
  BY DEF DrawerTyped, Serve, DetailArrives, DetailFails
<1>5. CASE Serve(r)
  <2> DEFINE served == [r EXCEPT !.at = data]
  <2>1. requests' = {served} /\ UNCHANGED detail /\ r.at = Empty
    BY <1>3, <1>5 DEF Serve
  <2>2. served \in [key : Keys, at : 0..MaxData \cup {Empty}] /\ served.key = r.key /\ served.at = data
    BY <1>4 DEF DrawerTyped
  <2> HIDE DEF served
  <2>3. DrawerTyped'
    BY <1>1, <1>4, <2>1, <2>2 DEF DrawerTyped
  <2>4. OneRequest'
    BY <1>1, <1>2, <1>3, <1>4, <2>1, <2>2 DEF OneRequest
  <2> QED BY <1>1, <1>2, <2>1, <2>3, <2>4
<1>6. CASE DetailArrives(r)
  <2>1. /\ r.at # Empty /\ requests' = {}
        /\ detail' = [key |-> r.key, data |-> [to |-> r.key, at |-> r.at], failed |-> FALSE]
    BY <1>3, <1>6 DEF DetailArrives
  <2>2. r.at \in 0..data
    BY <1>3, <1>4, <2>1
  <2>3. DrawerTyped'
    BY <1>1, <1>3, <1>4, <2>1 DEF DrawerTyped
  <2>4. OneRequest'
    BY <1>1, <1>3, <2>1 DEF OneRequest
  <2>5. DrawerView!Show
    <3>1. detail'.data = [to |-> Question, at |-> r.at]
      BY <1>3, <2>1
    <3>2. detail.data # Empty => detail.data.at <= r.at
      BY <1>3, <2>1
    <3> QED BY <1>1, <1>2, <2>2, <3>1, <3>2 DEF DrawerView!Show, Question
  <2> QED BY <1>2, <2>3, <2>4, <2>5
<1>7. CASE DetailFails(r)
  <2>1. /\ requests' = {}
        /\ detail' = detail \/ detail' = [key |-> r.key, data |-> Empty, failed |-> TRUE]
    BY <1>3, <1>7 DEF DetailFails
  <2>2. DrawerTyped'
    <3>1. detail' \in [key : Keys \cup {Empty}, data : [to : Keys, at : 0..MaxData] \cup {Empty}, failed : BOOLEAN]
      <4>1. CASE detail' = detail
        BY <4>1 DEF DrawerTyped
      <4>2. CASE detail' = [key |-> r.key, data |-> Empty, failed |-> TRUE]
        BY <1>3, <4>2
      <4> QED BY <2>1, <4>1, <4>2
    <3> QED BY <1>1, <1>4, <2>1, <3>1 DEF DrawerTyped
  <2>3. detail'.data \in {detail.data, Empty}
    BY <2>1
  <2>4. OneRequest'
    BY <1>1, <2>1, <2>3 DEF OneRequest
  <2>5. DrawerView!Forget \/ UNCHANGED <<data, Question, detail.data>>
    BY <1>1, <1>2, <2>3 DEF DrawerView!Forget, Question
  <2> QED BY <1>2, <2>2, <2>4, <2>5
<1> QED BY <1>5, <1>6, <1>7

LEMMA DrawerStep ==
    ASSUME DrawerInv, [DrawerNext]_drawerVars
    PROVE  DrawerInv' /\ [DrawerView!Next]_<<data, Question, detail.data>>
<1> USE DrawerBounds
<1>1. DialogTyped' /\ ToastsSent'
  BY DialogStep
<1>2. ASSUME Turned, UNCHANGED <<data, losses>>
      PROVE  /\ DrawerTyped' /\ OneRequest' /\ LinesOfTop'
             /\ [DrawerView!Next]_<<data, Question, detail.data>>
  <2>1. CASE UNCHANGED <<stack, query, listed, detailState>>
    <3>1. Question' = Question /\ LinesOfTop'
      BY <2>1 DEF Question, LinesOfTop, detailState, DrawerInv, Top, KeyOf
    <3>2. DrawerTyped' /\ OneRequest'
      BY <1>2, <2>1, <3>1 DEF DrawerInv, DrawerTyped, OneRequest, detailState
    <3> QED BY <1>2, <2>1, <3>1, <3>2 DEF detailState
  <2>2. ASSUME NEW s \in Seq(Things), NEW q \in BoardQueries, NEW lists \in BOOLEAN, NEW tick \in BOOLEAN,
               Len(s) <= MaxDepth, Render(s, q, lists, tick)
        PROVE  /\ DrawerTyped' /\ OneRequest' /\ LinesOfTop'
               /\ [DrawerView!Next]_<<data, Question, detail.data>>
    <3>1. /\ DrawerTyped' /\ OneRequest' /\ LinesOfTop'
          /\ Question' \in Keys \cup {Empty} /\ detail'.data \in {detail.data, Empty}
      BY <1>2, <2>2, RenderKeeps
    <3>2. DrawerView!Ask
      BY <1>2, <3>1 DEF DrawerView!Ask, Question
    <3> QED BY <3>1, <3>2 DEF DrawerView!Next
  <2> QED BY <1>2, <2>1, <2>2 DEF Turned
<1>3. CASE \/ \E t \in Things, reset \in BOOLEAN : OpenDrawer(t, reset)
           \/ \E q \in BoardQueries : ChooseQuery(q)
           \/ \E m \in Menus : ToggleMenu(m)
           \/ \E of \in Agents \cup {Empty} : OpenModal(of)
           \/ DrawerBack \/ DrawerClose \/ ApplyModal \/ CancelModal \/ Escape \/ BoardData
  BY <1>1, <1>2, <1>3, UserTurns DEF DrawerInv
<1>4. ASSUME NEW r \in requests, Serve(r) \/ DetailArrives(r) \/ DetailFails(r)
      PROVE  DrawerInv' /\ [DrawerView!Next]_<<data, Question, detail.data>>
  BY <1>1, <1>4, AnswerKeeps DEF DrawerInv, DrawerView!Next
<1>5. ASSUME \/ \E c \in commands : RunCommand(c) \/ CommandDone(c) \/ CommandFails(c)
             \/ \E a \in Agents : Resume(a)
             \/ ToastTimer \/ ExcerptArrives \/ UNCHANGED drawerVars
      PROVE  DrawerInv' /\ [DrawerView!Next]_<<data, Question, detail.data>>
  <2>1. UNCHANGED <<stack, query, listed, detail, requests, data>> /\ losses' \in 0..MaxLosses
    BY <1>5 DEF RunCommand, CommandDone, CommandFails, Resume, ToastTimer, ExcerptArrives, drawerVars, detailState,
                DrawerInv, DrawerTyped
  <2>2. Question' = Question
    BY <2>1 DEF Question, Top, KeyOf
  <2>3. DrawerTyped' /\ OneRequest'
    BY <2>1, <2>2 DEF DrawerInv, DrawerTyped, OneRequest
  <2>4. LinesOfTop'
    <3>1. UNCHANGED <<excerpt, excerptOf>> \/ (excerptOf # Empty /\ excerptOf' = Empty /\ excerpt' = excerptOf)
      BY <1>5 DEF RunCommand, CommandDone, CommandFails, Resume, ToastTimer, ExcerptArrives, drawerVars, detailState
    <3> QED BY <2>1, <3>1 DEF DrawerInv, LinesOfTop, Top
  <2> QED BY <1>1, <2>1, <2>2, <2>3, <2>4 DEF DrawerInv
<1>6. CASE ServerLearns
  <2>1. /\ data' = data + 1 /\ data' \in 0..MaxData /\ data \in 0..MaxData
        /\ UNCHANGED <<stack, query, listed, detail, requests, excerpt, excerptOf, losses>>
    BY <1>6 DEF ServerLearns, detailState, DrawerInv, DrawerTyped
  <2>2. Question' = Question /\ LinesOfTop'
    BY <2>1 DEF Question, Top, KeyOf, LinesOfTop, DrawerInv
  <2>3. DrawerTyped'
    BY <2>1 DEF DrawerInv, DrawerTyped
  <2>4. OneRequest'
    <3>1. detail.data # Empty => detail.data.at \in Nat
      BY DEF DrawerInv, DrawerTyped
    <3>2. \A r \in requests : r.at # Empty => r.at \in Nat
      BY DEF DrawerInv, DrawerTyped
    <3> QED BY <2>1, <2>2, <3>1, <3>2 DEF DrawerInv, OneRequest
  <2>5. DrawerView!Learn
    BY <2>1, <2>2 DEF DrawerView!Learn, Question
  <2> QED BY <1>1, <2>2, <2>3, <2>4, <2>5 DEF DrawerInv, DrawerView!Next
<1> QED BY <1>3, <1>4, <1>5, <1>6 DEF DrawerNext

LEMMA DrawerInitOK == DrawerInit => DrawerInv /\ DrawerView!Init
<1> SUFFICES ASSUME DrawerInit PROVE DrawerInv /\ DrawerView!Init
  OBVIOUS
<1> USE DrawerBounds, DrawerThings, DrawerKeys
<1>1. stack = <<>> \/ \E t \in Things : t.view \in {"agent", "hidden"} /\ stack = <<t>>
  BY DEF DrawerInit
<1>2. stack \in Seq(Things) /\ Len(stack) <= MaxDepth /\ (stack # <<>> => Top(stack).view # "file")
  <2>1. CASE stack = <<>>
    BY <2>1, EmptySeq
  <2>2. ASSUME NEW t \in Things, t.view \in {"agent", "hidden"}, stack = <<t>>
        PROVE  stack \in Seq(Things) /\ Len(stack) <= MaxDepth /\ Top(stack).view # "file"
    <3>1. Len(stack) = 1 /\ stack[1] = t /\ stack \in Seq(Things)
      BY <2>2
    <3>2. stack # <<>>
      <4>1. stack = <<>> => Len(stack) = 0
        BY <3>1, EmptySeq, Zenon
      <4> QED BY <3>1, <4>1
    <3>3. Top(stack) = t
      BY <3>1, <3>2 DEF Top, Last
    <3>4. 1 <= MaxDepth
      BY DrawerBounds
    <3> QED BY <2>2, <3>1, <3>3, <3>4
  <2> QED BY <1>1, <2>1, <2>2
<1>3. query \in BoardQueries /\ listed \in BOOLEAN /\ listed = FALSE /\ data = 0 /\ losses = 0 /\ turns = 0
  BY DEF DrawerInit
<1>4. /\ detail = [NoDetail EXCEPT !.key = Question]
      /\ requests = IF Question = Empty THEN {} ELSE {[key |-> Question, at |-> Empty]}
  BY <1>3 DEF DrawerInit, Question
<1>5. Question \in Keys \cup {Empty}
  BY <1>2, <1>3, QuestionOf DEF Question
<1>6. DrawerTyped
  <2>1. [NoDetail EXCEPT !.key = Question]
          \in [key : Keys \cup {Empty}, data : [to : Keys, at : 0..MaxData] \cup {Empty}, failed : BOOLEAN]
    BY <1>5 DEF NoDetail
  <2>2. requests \subseteq [key : Keys, at : 0..MaxData \cup {Empty}]
    BY <1>4, <1>5
  <2> QED BY <1>2, <1>3, <1>4, <2>1, <2>2 DEF DrawerTyped
<1>7. OneRequest /\ detail.data = Empty
  BY <1>4 DEF OneRequest, NoDetail
<1>8. DialogTyped /\ ToastsSent
  <2>1. IsFiniteSet({}) /\ Cardinality({}) = 0
    BY FS_EmptySet
  <2>2. applying \in BOOLEAN
    BY DEF DrawerInit
  <2> QED BY <2>1, <2>2 DEF DrawerInit, DialogTyped, ToastsSent
<1>9. LinesOfTop
  BY <1>2 DEF LinesOfTop
<1>10. DrawerView!Init
  BY <1>3, <1>5, <1>7 DEF DrawerView!Init, Question
<1> QED BY <1>6, <1>7, <1>8, <1>9, <1>10 DEF DrawerInv

(* The drawer implements LatestAnswer: however views are opened over one   *)
(* another and closed, and however often the board asks an agent's view    *)
(* to ask again, the view on top shows only answers to its own question,   *)
(* none older than the one it shows (useDetail, Drawer.js).                *)
THEOREM DrawerImplements == DrawerSpec => DrawerFollows
<1>1. DrawerInv /\ [DrawerNext]_drawerVars
        => DrawerInv' /\ [DrawerView!Next]_<<data, KeyOf(Top(stack), query, listed), detail.data>>
  BY DrawerStep DEF Question
<1> QED BY <1>1, DrawerInitOK, PTL DEF DrawerSpec, DrawerFollows, DrawerView!Spec

(* The state of the drawer, the dialogs, the commands and the toast keeps  *)
(* its types, and the lines that a file's view shows once they are all     *)
(* there are of that file (useExcerpt).                                    *)
THEOREM DrawerKeepsLines == DrawerSpec => [](DrawerTypeOK /\ ExcerptOfTop)
<1>1. DrawerInv /\ [DrawerNext]_drawerVars => DrawerInv'
  BY DrawerStep
<1>2. DrawerInv => DrawerTypeOK /\ ExcerptOfTop
  BY DrawerInvIsTyped DEF DrawerInv, LinesOfTop, ExcerptOfTop
<1> QED BY <1>1, <1>2, DrawerInitOK, PTL DEF DrawerSpec

(* All parts -------------------------------------------------------------- *)

LEMMA EachPart ==
    /\ Init => FeedInit /\ ScanInit /\ DrawerInit /\ ScreenInit
    /\ [Next]_allVars => /\ [FeedNext]_feedVars /\ [ScanNext]_scanVars
                         /\ [DrawerNext]_drawerVars /\ [ScreenNext]_screenVars
<1>1. Init => FeedInit /\ ScanInit /\ DrawerInit /\ ScreenInit
  BY DEF Init, FeedStill, ScanStill, DrawerStill, ScreenStill
<1>2. ASSUME [Next]_allVars
      PROVE  /\ [FeedNext]_feedVars /\ [ScanNext]_scanVars
             /\ [DrawerNext]_drawerVars /\ [ScreenNext]_screenVars
  BY <1>2 DEF Next, allVars
<1> QED BY <1>1, <1>2

\* What is asked in one way is not disturbed by the others.
THEOREM PartsRun == Spec => FeedSpec /\ ScanSpec /\ DrawerSpec /\ ScreenSpec
BY EachPart, PTL DEF Spec, FeedSpec, ScanSpec, DrawerSpec, ScreenSpec

(* The state of everything on the page that asks the server keeps its      *)
(* types, for any number of questions, failures and changes of the data.   *)
THEOREM RequestsTyped == Spec => []RequestsTypeOK
BY PartsRun, FeedTyped, ScanTyped, DrawerKeepsLines, ScreensShowTheirOwn, PTL DEF RequestsTypeOK

(* The board's findings, its drawer and the detail screens show only what  *)
(* their newest question brought, a file's lines are of that file, and a   *)
(* screen's figures are of what is picked.                                 *)
THEOREM PartsImplement == Spec => PartsFollow
BY PartsRun, FindingsImplement, DrawerImplements, ScreensImplement, DrawerKeepsLines, ScreensShowTheirOwn, PTL
   DEF PartsFollow
=============================================================================
