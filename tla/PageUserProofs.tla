--------------------------- MODULE PageUserProofs --------------------------
(***************************************************************************)
(* The board lives in its address (PageUrl), for any tools, ranges,        *)
(* filters and history: whatever the user chooses, undoes, follows or      *)
(* visits again.  The induction also needs what UrlTellsBoard says nothing *)
(* of: while text is being typed the address is still one of the board and *)
(* tells its tools.                                                        *)
(*                                                                         *)
(* The explorer shows what was asked for (SessionPicker), for any          *)
(* sessions, tools and filters.  PickerHolds speaks of the moments when    *)
(* the effects have run; PickerInv says what holds before them: which      *)
(* tool can be listed or gone, when a request still waits, and that the    *)
(* session wanted is the one shown, requested, or kept by the bus.         *)
(*                                                                         *)
(* The frame shows one view, runs the command that is marked, lists no     *)
(* command twice and keeps no toast for ever (PageShell), for any tabs,    *)
(* commands, scores and texts.  The lists of sessions (SessionRows) and    *)
(* the screens that the tool filter narrows (ToolScope, ScopedScreens)     *)
(* change in one tool or agent at a click.  Last, the page of all its      *)
(* parts (PageUser), those of PagePartsProofs included.                    *)
(***************************************************************************)
EXTENDS PageUser, PagePartsProofs,
        SequenceTheorems, FiniteSetTheorems, WellFoundedInduction, TLAPS

Entry == [url : Urls, doc : Nat]

Undos == [filters : Filters0, tools : ToolChoices] \cup {Absent}

UrlTypes ==
    /\ entries \in Seq(Entry) /\ at \in 1..Len(entries)
    /\ filters \in Filters0 /\ undo \in Undos
    /\ tools \in ToolChoices /\ storedTools \in ToolChoices
    /\ storedRange \in DetailRanges /\ screen \in {"board", "detail"}

UrlTells ==
    screen = "board" =>
        /\ RouteOf(url) = "board" /\ tools = LoadTools(url, storedTools)
        /\ ~finding => filters = ParseFilters(url) /\ applied = filters

UrlInv == UrlTypes /\ UrlTells

(* Addresses -------------------------------------------------------------- *)

\* filters written to an address are read back from it
LEMMA FiltersReadBack ==
    ASSUME NEW u \in Urls, NEW f \in Filters0
    PROVE  /\ ParseFilters(u) \in Filters0
           /\ WithFilters(u, f) \in Urls /\ ParseFilters(WithFilters(u, f)) = f
           /\ WithFilters(u, f).tab = u.tab /\ WithFilters(u, f).tools = u.tools
<1> USE UrlValues DEF Urls, Filters0, ParseFilters, WithFilters
<1>1. ParseFilters(u) \in Filters0
  OBVIOUS
<1>2. WithFilters(u, f) \in Urls /\ WithFilters(u, f).tab = u.tab /\ WithFilters(u, f).tools = u.tools
  OBVIOUS
<1>3. ParseFilters(WithFilters(u, f)) = f
  <2>1. f = [range |-> f.range, narrow |-> f.narrow, sel |-> f.sel, find |-> f.find]
    OBVIOUS
  <2>2. WithFilters(u, f).range = IF f.range = DefaultRange THEN Absent ELSE f.range
    OBVIOUS
  <2>3. (IF WithFilters(u, f).range \in BoardRanges THEN WithFilters(u, f).range ELSE DefaultRange) = f.range
    BY <2>2
  <2>4. WithFilters(u, f).narrow = f.narrow /\ WithFilters(u, f).sel = f.sel /\ WithFilters(u, f).find = f.find
    OBVIOUS
  <2> QED BY <2>1, <2>3, <2>4
<1> QED BY <1>1, <1>2, <1>3

\* the other keys leave the filters alone
LEMMA OtherKeys ==
    ASSUME NEW u \in Urls, NEW ts \in ToolChoices, NEW t \in Tabs \cup {HiddenTab, Absent}, NEW r \in DetailRanges
    PROVE  /\ [u EXCEPT !.tools = ts] \in Urls /\ [u EXCEPT !.tab = t] \in Urls /\ WithRange(u, r) \in Urls
           /\ ParseFilters([u EXCEPT !.tools = ts]) = ParseFilters(u)
           /\ ParseFilters([u EXCEPT !.tab = t]) = ParseFilters(u)
           /\ [u EXCEPT !.tools = ts].tools = ts /\ [u EXCEPT !.tools = ts].tab = u.tab
           /\ [u EXCEPT !.tab = t].tools = u.tools /\ [u EXCEPT !.tab = t].tab = t
<1> USE DEF Urls, ParseFilters, WithRange
<1>1. [u EXCEPT !.tools = ts] \in Urls /\ [u EXCEPT !.tab = t] \in Urls /\ WithRange(u, r) \in Urls
  OBVIOUS
<1> QED BY <1>1

LEMMA LoadedTypes ==
    ASSUME NEW u \in Urls, NEW kept \in ToolChoices, storedRange \in DetailRanges
    PROVE  /\ LoadTools(u, kept) \in ToolChoices /\ LoadRange(u) \in DetailRanges /\ u.tools \in ToolChoices
           /\ LoadTools([u EXCEPT !.tools = LoadTools(u, kept)], kept) = LoadTools(u, kept)
BY DEF Urls, LoadTools, LoadRange

LEMMA NextToolsTyped ==
    ASSUME tools \in ToolChoices, NEW id \in Tools
    PROVE  NextTools(id) \in ToolChoices
BY DEF NextTools, ToolChoices

(* Histories --------------------------------------------------------------- *)

LEMMA EntryIs ==
    ASSUME NEW es \in Seq(Entry), NEW i \in 1..Len(es)
    PROVE  es[i] \in Entry /\ es[i].url \in Urls /\ es[i].doc \in Nat /\ es[i].url.tools \in ToolChoices
<1>1. es[i] \in Entry
  OBVIOUS
<1>2. es[i].url \in Urls /\ es[i].doc \in Nat
  BY <1>1 DEF Entry
<1> QED BY <1>1, <1>2 DEF Urls

LEMMA EntryOf == \A u \in Urls : \A n \in Nat : [url |-> u, doc |-> n] \in Entry
BY DEF Entry

LEMMA ReplacedIs ==
    ASSUME NEW es \in Seq(Entry), NEW i \in 1..Len(es), NEW u \in Urls
    PROVE  /\ Replaced(es, i, u) \in Seq(Entry) /\ Len(Replaced(es, i, u)) = Len(es)
           /\ Replaced(es, i, u)[i].url = u
<1> DEFINE e == [es[i] EXCEPT !.url = u]
<1>1. e \in Entry /\ e.url = u
  <2>1. es[i] \in Entry
    BY EntryIs
  <2> QED BY <2>1 DEF Entry
<1>2. Replaced(es, i, u) = [es EXCEPT ![i] = e]
  BY DEF Replaced
<1> HIDE DEF e
<1> QED BY <1>1, <1>2, ExceptSeq

LEMMA CutAndAppend ==
    ASSUME NEW es \in Seq(Entry), NEW i \in 1..Len(es), NEW e \in Entry
    PROVE  LET new == Append(SubSeq(es, 1, i), e)
           IN  new \in Seq(Entry) /\ Len(new) = i + 1 /\ new[i + 1] = e
<1>1. Len(es) \in Nat /\ i \in Nat /\ 1 <= i /\ \A k \in 1..i : es[k] \in Entry
  OBVIOUS
<1> DEFINE front == SubSeq(es, 1, i)
<1>2. front \in Seq(Entry) /\ Len(front) = i
  <2>1. 1 \in Int /\ i \in Int
    BY <1>1
  <2>2. front \in Seq(Entry) /\ Len(front) = IF 1 <= i THEN i - 1 + 1 ELSE 0
    BY <1>1, <2>1, SubSeqProperties
  <2> QED BY <1>1, <2>2
<1> HIDE DEF front
<1>3. Append(front, e) \in Seq(Entry) /\ Len(Append(front, e)) = i + 1 /\ Append(front, e)[i + 1] = e
  BY <1>2, AppendProperties
<1> QED BY <1>3 DEF front

\* a page loaded from an entry shows what its address says, and completes the address
LEMMA LoadTells ==
    ASSUME NEW es \in Seq(Entry), NEW i \in 1..Len(es), storedTools' \in ToolChoices,
           storedRange \in DetailRanges, storedRange' \in DetailRanges,
           Load(es, i, storedTools')
    PROVE  UrlInv'
<1> DEFINE u == es[i].url
           kept == storedTools'
           said == IF RouteOf(u) = "board" THEN [u EXCEPT !.tools = LoadTools(u, kept)] ELSE WithRange(u, LoadRange(u))
<1>1. u \in Urls /\ RouteOf(u) \in {"board", "detail"}
  BY EntryIs DEF RouteOf
<1>2. LoadTools(u, kept) \in ToolChoices /\ LoadRange(u) \in DetailRanges
  BY <1>1, LoadedTypes
<1>3. said \in Urls
  BY <1>1, <1>2, OtherKeys
<1>4. /\ at' = i /\ screen' = RouteOf(u) /\ tools' = LoadTools(u, kept) /\ finding' = FALSE /\ undo' = Absent
      /\ entries' = Replaced(es, i, said)
      /\ RouteOf(u) = "board" => filters' = ParseFilters(u) /\ applied' = ParseFilters(u)
      /\ RouteOf(u) # "board" => filters' = NoFilters
  BY DEF Load
<1>5. /\ entries' \in Seq(Entry) /\ Len(entries') = Len(es) /\ entries'[i].url = said
  BY <1>1, <1>3, <1>4, ReplacedIs
<1>6. filters' \in Filters0
  <2>1. NoFilters \in Filters0
    BY UrlValues DEF NoFilters, Filters0
  <2>2. ParseFilters(u) \in Filters0
    BY <1>1, UrlValues DEF ParseFilters, Filters0, Urls
  <2> QED BY <1>4, <2>1, <2>2
<1>7. UrlTypes'
  BY <1>1, <1>2, <1>4, <1>5, <1>6 DEF UrlTypes, Undos
<1>8. UrlTells'
  <2> SUFFICES ASSUME RouteOf(u) = "board" PROVE UrlTells'
    BY <1>4 DEF UrlTells
  <2>1. url' = [u EXCEPT !.tools = LoadTools(u, kept)]
    BY <1>4, <1>5 DEF url
  <2>2. url'.tab = u.tab /\ ParseFilters(url') = ParseFilters(u) /\ LoadTools(url', kept) = LoadTools(u, kept)
    BY <1>1, <1>2, <2>1, OtherKeys, LoadedTypes
  <2> QED BY <1>4, <2>2 DEF UrlTells, RouteOf
<1> QED BY <1>7, <1>8 DEF UrlInv

(* Steps ------------------------------------------------------------------- *)

\* what writeUrl leaves: the entry shown has the new address
LEMMA ReplaceIs ==
    ASSUME UrlTypes, NEW u \in Urls, Replace(u)
    PROVE  entries' \in Seq(Entry) /\ at' \in 1..Len(entries') /\ url' = u
BY ReplacedIs DEF UrlTypes, Replace, url

LEMMA PushIs ==
    ASSUME UrlTypes, NEW u \in Urls, Push(u)
    PROVE  entries' \in Seq(Entry) /\ at' \in 1..Len(entries') /\ url' = u
<1>1. CASE u = url
  BY <1>1 DEF Push, UrlTypes, url
<1>2. CASE u # url
  <2> DEFINE e == [url |-> u, doc |-> entries[at].doc]
  <2>1. e \in Entry /\ e.url = u
    BY EntryIs, EntryOf DEF UrlTypes
  <2>2. at \in 1..Len(entries) /\ entries \in Seq(Entry)
    BY DEF UrlTypes
  <2>3. entries' = Append(SubSeq(entries, 1, at), e) /\ at' = at + 1
    BY <1>2 DEF Push
  <2> HIDE DEF e
  <2>4. entries' \in Seq(Entry) /\ Len(entries') = at + 1 /\ entries'[at + 1] = e
    BY <2>1, <2>2, <2>3, CutAndAppend
  <2> QED BY <2>1, <2>2, <2>3, <2>4 DEF url
<1> QED BY <1>1, <1>2

LEMMA UrlIsUrl == UrlTypes => url \in Urls /\ url.tools \in ToolChoices
BY EntryIs DEF UrlTypes, url

LEMMA UpdateTells ==
    ASSUME UrlInv, NEW f \in Filters0, NEW ts \in ToolChoices, Update(f, ts), undo' \in Undos
    PROVE  UrlInv'
<1> DEFINE u == [WithFilters(url, f) EXCEPT !.tools = IF ts = tools THEN url.tools ELSE ts]
           kept == IF ts = tools THEN url.tools ELSE ts
<1>1. url \in Urls /\ kept \in ToolChoices
  BY UrlIsUrl DEF UrlInv
<1>2. /\ WithFilters(url, f) \in Urls /\ ParseFilters(WithFilters(url, f)) = f
      /\ WithFilters(url, f).tab = url.tab /\ WithFilters(url, f).tools = url.tools
  BY <1>1, FiltersReadBack
<1>3. [WithFilters(url, f) EXCEPT !.tools = IF ts = tools THEN @ ELSE ts] = u
  BY <1>2 DEF Urls
<1>4. DetailRanges # {} /\ Absent \in Tabs \cup {HiddenTab, Absent}
  BY UrlValues
<1>5. u \in Urls /\ ParseFilters(u) = f /\ u.tab = url.tab /\ u.tools = kept
  BY <1>1, <1>2, <1>4, OtherKeys
<1>6. Push(u)
  BY <1>3 DEF Update
<1> HIDE DEF u
<1>7. entries' \in Seq(Entry) /\ at' \in 1..Len(entries') /\ url' = u
  BY <1>5, <1>6, PushIs DEF UrlInv
<1>8. /\ screen = "board" /\ screen' = screen /\ filters' = f /\ applied' = f
      /\ tools' = ts /\ storedTools' = ts /\ storedRange' = storedRange
  BY DEF Update
<1>9. RouteOf(url) = "board" /\ tools = LoadTools(url, storedTools)
  BY <1>8 DEF UrlInv, UrlTells
<1>10. RouteOf(url') = "board" /\ LoadTools(url', ts) = ts
  BY <1>5, <1>7, <1>9 DEF RouteOf, LoadTools
<1>11. UrlTypes'
  BY <1>7, <1>8 DEF UrlInv, UrlTypes
<1>12. UrlTells'
  BY <1>5, <1>7, <1>8, <1>10 DEF UrlTells
<1> QED BY <1>11, <1>12 DEF UrlInv

LEMMA ChoiceTells ==
    ASSUME UrlInv,
           \/ \E r \in BoardRanges : SetRange(r)
           \/ \E n \in Narrows \cup {Absent} : SetFilter(n)
           \/ \E s \in Spans \cup {Absent} : Select(s)
           \/ \E id \in Tools : ToggleTool(id)
           \/ ClearAll \/ Undo
    PROVE  UrlInv'
<1>1. filters \in Filters0 /\ tools \in ToolChoices /\ undo \in Undos
  BY DEF UrlInv, UrlTypes
<1>2. ASSUME NEW r \in BoardRanges, SetRange(r) PROVE UrlInv'
  <2>1. [filters EXCEPT !.range = r, !.sel = Absent] \in Filters0
    BY <1>1 DEF Filters0
  <2> QED BY <1>1, <1>2, <2>1, UpdateTells DEF SetRange
<1>3. ASSUME NEW n \in Narrows \cup {Absent}, SetFilter(n) PROVE UrlInv'
  <2>1. [filters EXCEPT !.narrow = n] \in Filters0
    BY <1>1 DEF Filters0
  <2> QED BY <1>1, <1>3, <2>1, UpdateTells DEF SetFilter
<1>4. ASSUME NEW s \in Spans \cup {Absent}, Select(s) PROVE UrlInv'
  <2>1. [filters EXCEPT !.sel = s] \in Filters0
    BY <1>1 DEF Filters0
  <2> QED BY <1>1, <1>4, <2>1, UpdateTells DEF Select
<1>5. ASSUME NEW id \in Tools, ToggleTool(id) PROVE UrlInv'
  <2>1. NextTools(id) \in ToolChoices
    BY <1>1, NextToolsTyped
  <2> QED BY <1>1, <1>5, <2>1, UpdateTells DEF ToggleTool
<1>6. CASE ClearAll
  <2>1. [NoFilters EXCEPT !.range = filters.range] \in Filters0 /\ Absent \in ToolChoices
    BY <1>1, UrlValues DEF NoFilters, Filters0, ToolChoices
  <2>2. undo' \in Undos /\ Update([NoFilters EXCEPT !.range = filters.range], Absent)
    BY <1>1, <1>6 DEF ClearAll, Undos
  <2> QED BY <2>1, <2>2, UpdateTells
<1>7. CASE Undo
  <2>1. undo.filters \in Filters0 /\ undo.tools \in ToolChoices
    BY <1>1, <1>7 DEF Undo, Undos
  <2>2. undo' \in Undos /\ Update(undo.filters, undo.tools)
    BY <1>7 DEF Undo, Undos
  <2> QED BY <2>1, <2>2, UpdateTells
<1> QED BY <1>2, <1>3, <1>4, <1>5, <1>6, <1>7

\* a step of a detail screen that only writes another address of one
LEMMA DetailTells ==
    ASSUME UrlInv, screen' = "detail", NEW u \in Urls, Replace(u) \/ Push(u),
           tools' \in ToolChoices, storedTools' \in ToolChoices, storedRange' \in DetailRanges,
           UNCHANGED boardVars
    PROVE  UrlInv'
BY ReplaceIs, PushIs DEF UrlInv, UrlTypes, UrlTells, boardVars

LEMMA DetailStepTells ==
    ASSUME UrlInv,
           \/ \E t \in Tabs \cup {HiddenTab, Absent} : SetActiveTab(t)
           \/ \E r \in DetailRanges : SetPreset(r)
           \/ \E ts \in ToolChoices : SetTools(ts)
    PROVE  UrlInv'
<1>1. url \in Urls /\ tools \in ToolChoices /\ storedTools \in ToolChoices /\ storedRange \in DetailRanges
  BY UrlIsUrl DEF UrlInv, UrlTypes
<1>2. ASSUME NEW t \in Tabs \cup {HiddenTab, Absent}, SetActiveTab(t) PROVE UrlInv'
  <2>1. [url EXCEPT !.tab = t] \in Urls
    BY <1>1, <1>2, OtherKeys
  <2>2. CASE t = Absent
    <3> DEFINE e == [url |-> [url EXCEPT !.tab = t], doc |-> entries[at].doc]
               es == Append(SubSeq(entries, 1, at), e)
    <3>1. at \in 1..Len(entries) /\ entries \in Seq(Entry) /\ e \in Entry
      BY <2>1, EntryIs, EntryOf DEF UrlInv, UrlTypes
    <3>2. Load(es, at + 1, storedTools') /\ UNCHANGED <<storedTools, storedRange>>
      BY <1>2, <2>2 DEF SetActiveTab
    <3> HIDE DEF e
    <3>3. es \in Seq(Entry) /\ Len(es) = at + 1
      BY <3>1, CutAndAppend
    <3> HIDE DEF es
    <3> QED BY <1>1, <3>1, <3>2, <3>3, LoadTells
  <2>3. CASE t # Absent
    BY <1>1, <1>2, <2>1, <2>3, DetailTells DEF SetActiveTab
  <2> QED BY <2>2, <2>3
<1>3. ASSUME NEW r \in DetailRanges, SetPreset(r) PROVE UrlInv'
  <2>1. WithRange(url, r) \in Urls
    BY <1>1, OtherKeys
  <2> QED BY <1>1, <1>3, <2>1, DetailTells DEF SetPreset
<1>4. ASSUME NEW ts \in ToolChoices, SetTools(ts) PROVE UrlInv'
  <2>1. [url EXCEPT !.tools = ts] \in Urls
    BY <1>1, OtherKeys, UrlValues
  <2> QED BY <1>1, <1>4, <2>1, DetailTells DEF SetTools
<1> QED BY <1>2, <1>3, <1>4

LEMMA VisitTells ==
    ASSUME UrlInv, NEW i \in 1..MaxEntries, Visit(i)
    PROVE  UrlInv'
<1>1. /\ entries \in Seq(Entry) /\ i \in 1..Len(entries) /\ entries[i].url \in Urls
      /\ entries[i].url.tools \in ToolChoices
      /\ storedTools \in ToolChoices /\ storedRange \in DetailRanges
  BY EntryIs DEF UrlInv, UrlTypes, Visit
<1>2. CASE entries[i].doc # entries[at].doc
  BY <1>1, <1>2, LoadTells DEF Visit, stored
<1>3. CASE entries[i].doc = entries[at].doc /\ RouteOf(entries[i].url) # screen
  BY <1>1, <1>3, LoadTells DEF Visit
<1>4. CASE entries[i].doc = entries[at].doc /\ RouteOf(entries[i].url) = screen
  <2>1. at' = i /\ UNCHANGED <<entries, screen, undo, storedRange>> /\ url' = entries[i].url
    BY <1>4 DEF Visit, url
  <2>2. CASE screen = "board"
    <3>1. OnPop(i)
      BY <1>4, <2>2 DEF Visit
    <3>2. ParseFilters(entries[i].url) \in Filters0
      BY <1>1, UrlValues DEF ParseFilters, Filters0, Urls
    <3>3. UrlTypes'
      BY <1>1, <2>1, <3>1, <3>2 DEF UrlInv, UrlTypes, OnPop
    <3>4. UrlTells'
      BY <1>4, <2>1, <2>2, <3>1 DEF UrlTells, OnPop, LoadTools
    <3> QED BY <3>3, <3>4 DEF UrlInv
  <2>3. CASE screen # "board"
    <3>1. UNCHANGED <<filters, applied, finding, tools, storedTools>>
      BY <1>4, <2>3 DEF Visit
    <3> QED BY <1>1, <2>1, <2>3, <3>1 DEF UrlInv, UrlTypes, UrlTells
  <2> QED BY <2>2, <2>3
<1> QED BY <1>2, <1>3, <1>4

LEMMA RestTells ==
    ASSUME UrlInv,
           \/ \E q \in Texts \cup {Absent} : SetFind(q)
           \/ ToastGone \/ FindTimer \/ CloseDrawer \/ Reload
           \/ \E t \in Tabs : RailLink(t)
           \/ UNCHANGED urlVars
    PROVE  UrlInv'
<1>1. /\ url \in Urls /\ filters \in Filters0 /\ entries \in Seq(Entry) /\ at \in 1..Len(entries)
      /\ storedTools \in ToolChoices /\ storedRange \in DetailRanges
  BY UrlIsUrl DEF UrlInv, UrlTypes
<1>2. ASSUME NEW q \in Texts \cup {Absent}, SetFind(q) PROVE UrlInv'
  <2>1. [filters EXCEPT !.find = q] \in Filters0
    BY <1>1 DEF Filters0
  <2> QED BY <1>2, <2>1 DEF SetFind, UrlInv, UrlTypes, UrlTells, url, stored
<1>3. CASE ToastGone
  BY <1>3 DEF ToastGone, UrlInv, UrlTypes, UrlTells, Undos, url, stored
<1>4. CASE FindTimer
  <2>1. /\ WithFilters(url, filters) \in Urls /\ ParseFilters(WithFilters(url, filters)) = filters
        /\ WithFilters(url, filters).tab = url.tab /\ WithFilters(url, filters).tools = url.tools
    BY <1>1, FiltersReadBack
  <2>2. /\ Replace(WithFilters(url, filters)) /\ applied' = filters
        /\ UNCHANGED <<screen, filters, undo, tools, storedTools, storedRange>>
    BY <1>4 DEF FindTimer, stored
  <2>3. entries' \in Seq(Entry) /\ at' \in 1..Len(entries') /\ url' = WithFilters(url, filters)
    BY <2>1, <2>2, ReplaceIs DEF UrlInv
  <2> QED BY <2>1, <2>2, <2>3 DEF UrlInv, UrlTypes, UrlTells, RouteOf, LoadTools
<1>5. CASE CloseDrawer
  <2> DEFINE u == [url EXCEPT !.tab = Absent]
  <2>1. DetailRanges # {} /\ Absent \in ToolChoices
    BY UrlValues DEF ToolChoices
  <2>2. u \in Urls /\ ParseFilters(u) = ParseFilters(url) /\ u.tools = url.tools /\ u.tab = Absent
    BY <1>1, <2>1, OtherKeys
  <2>3. Replace(u) /\ UNCHANGED <<screen, boardVars, tools, stored>>
    BY <1>5 DEF CloseDrawer
  <2> HIDE DEF u
  <2>4. entries' \in Seq(Entry) /\ at' \in 1..Len(entries') /\ url' = u
    BY <2>2, <2>3, ReplaceIs DEF UrlInv
  <2>5. RouteOf(u) = "board" /\ \A kept : LoadTools(u, kept) = LoadTools(url, kept)
    BY <2>2, UrlValues DEF RouteOf, LoadTools
  <2> QED BY <2>2, <2>3, <2>4, <2>5 DEF UrlInv, UrlTypes, UrlTells, boardVars, stored
<1>6. CASE Reload
  BY <1>1, <1>6, LoadTells DEF Reload, stored
<1>7. ASSUME NEW t \in Tabs, RailLink(t) PROVE UrlInv'
  <2> DEFINE u == [tab |-> t, range |-> Absent, tools |-> Absent, narrow |-> Absent, sel |-> Absent, find |-> Absent]
             e == [url |-> u, doc |-> entries[at].doc + 1]
             es == Append(SubSeq(entries, 1, at), e)
  <2>1. u \in Urls
    BY DEF Urls, ToolChoices
  <2>2. e \in Entry
    BY <1>1, <2>1, EntryIs, EntryOf
  <2>3. Load(es, at + 1, storedTools') /\ UNCHANGED <<storedTools, storedRange>>
    BY <1>7 DEF RailLink, OpenLink, stored
  <2> HIDE DEF e
  <2>4. es \in Seq(Entry) /\ Len(es) = at + 1
    BY <1>1, <2>2, CutAndAppend
  <2> HIDE DEF es
  <2> QED BY <1>1, <2>3, <2>4, LoadTells
<1>8. CASE UNCHANGED urlVars
  BY <1>8 DEF urlVars, boardVars, detailVars, stored, UrlInv, UrlTypes, UrlTells, url
<1> QED BY <1>2, <1>3, <1>4, <1>5, <1>6, <1>7, <1>8

LEMMA UrlInitTells == UrlInit => UrlInv
<1> SUFFICES ASSUME UrlInit PROVE UrlInv
  OBVIOUS
<1>1. PICK u \in {v \in Urls : v.tools \in {Absent, {}}}, ts \in ToolChoices \ {{}, Tools} :
        LET ts0 == IF u.tools = Absent THEN ts ELSE u.tools
            board == RouteOf(u) = "board"
            r0 == IF u.range \in DetailRanges THEN u.range ELSE LiveRange
        IN  /\ at = 1 /\ screen = RouteOf(u)
            /\ storedTools = ts /\ storedRange = LiveRange
            /\ tools = ts0 /\ undo = Absent
            /\ filters = IF board THEN ParseFilters(u) ELSE NoFilters
            /\ applied = filters
            /\ entries = <<[url |-> IF board THEN [u EXCEPT !.tools = ts0] ELSE WithRange(u, r0),
                            doc |-> 0]>>
  BY DEF UrlInit
<1> DEFINE ts0 == IF u.tools = Absent THEN ts ELSE u.tools
           r0 == IF u.range \in DetailRanges THEN u.range ELSE LiveRange
           said == IF RouteOf(u) = "board" THEN [u EXCEPT !.tools = ts0] ELSE WithRange(u, r0)
<1>2. u \in Urls /\ ts0 \in ToolChoices /\ r0 \in DetailRanges /\ LiveRange \in DetailRanges /\ ts \in ToolChoices
  BY <1>1, UrlValues DEF ToolChoices
<1>3. said \in Urls
  BY <1>2, OtherKeys
<1>4. /\ at = 1 /\ screen = RouteOf(u) /\ storedTools = ts /\ storedRange = LiveRange /\ tools = ts0
      /\ undo = Absent /\ applied = filters /\ entries = <<[url |-> said, doc |-> 0]>>
      /\ filters = IF RouteOf(u) = "board" THEN ParseFilters(u) ELSE NoFilters
  BY <1>1
<1>5. filters \in Filters0
  <2>1. NoFilters \in Filters0
    BY UrlValues DEF NoFilters, Filters0
  <2>2. ParseFilters(u) \in Filters0
    BY <1>2, UrlValues DEF ParseFilters, Filters0, Urls
  <2> QED BY <1>4, <2>1, <2>2
<1>6. entries \in Seq(Entry) /\ Len(entries) = 1 /\ url = said
  BY <1>3, <1>4 DEF Entry, url
<1>7. screen \in {"board", "detail"}
  BY <1>4 DEF RouteOf
<1>8. UrlTypes
  BY <1>2, <1>4, <1>5, <1>6, <1>7 DEF UrlTypes, Undos
<1>9. UrlTells
  <2> SUFFICES ASSUME RouteOf(u) = "board" PROVE UrlTells
    BY <1>4 DEF UrlTells
  <2>1. said.tab = u.tab /\ ParseFilters(said) = ParseFilters(u) /\ said.tools = ts0
    BY <1>2, OtherKeys
  <2>2. RouteOf(said) = "board" /\ LoadTools(said, ts) = ts0
    BY <2>1 DEF RouteOf, LoadTools
  <2> QED BY <1>4, <1>6, <2>1, <2>2 DEF UrlTells
<1> QED BY <1>8, <1>9 DEF UrlInv

\* filters.js, useBoardFilters and useTools: but for text still being typed, the
\* page loaded again from its address shows the board that the user had before
\* them, whatever they chose, undid, followed or went back to
THEOREM BoardLivesInUrl == UrlSpec => []UrlTellsBoard
<1>1. UrlInv /\ [UrlNext]_urlVars => UrlInv'
  <2> SUFFICES ASSUME UrlInv, [UrlNext]_urlVars PROVE UrlInv'
    OBVIOUS
  <2> QED BY ChoiceTells, DetailStepTells, VisitTells, RestTells DEF UrlNext
<1>2. UrlInv => UrlTellsBoard
  BY DEF UrlInv, UrlTells, UrlTellsBoard
<1> QED BY UrlInitTells, <1>1, <1>2, PTL DEF UrlSpec

\* what the theorem above does not need: the screen's other values
UrlRest ==
    /\ finding \in BOOLEAN /\ applied \in Filters0
    /\ tab \in Tabs \cup {HiddenTab, Absent} /\ storedTab \in Tabs \cup {HiddenTab, Absent}
    /\ range \in DetailRanges /\ moves \in 0..MaxMoves /\ Len(entries) <= MaxEntries

LEMMA MoveCounted == ASSUME moves \in 0..MaxMoves, Move PROVE moves' \in 0..MaxMoves
BY UrlValues DEF Move

LEMMA LoadRest ==
    ASSUME NEW es \in Seq(Entry), NEW i \in 1..Len(es), Len(es) <= MaxEntries, NEW kept \in ToolChoices,
           storedRange \in DetailRanges, storedTab' \in Tabs \cup {HiddenTab, Absent}, moves' \in 0..MaxMoves,
           Load(es, i, kept)
    PROVE  UrlRest'
<1> DEFINE u == es[i].url
           said == IF RouteOf(u) = "board" THEN [u EXCEPT !.tools = LoadTools(u, kept)] ELSE WithRange(u, LoadRange(u))
<1>1. u \in Urls /\ u.tab \in Tabs \cup {HiddenTab, Absent}
  BY EntryIs DEF Urls
<1>2. LoadTools(u, kept) \in ToolChoices /\ LoadRange(u) \in DetailRanges
  BY <1>1, LoadedTypes
<1>3. said \in Urls
  BY <1>1, <1>2, OtherKeys
<1>4. /\ finding' = FALSE /\ entries' = Replaced(es, i, said)
      /\ applied' \in {ParseFilters(u), NoFilters} /\ tab' \in {Absent, u.tab} /\ range' \in {LiveRange, LoadRange(u)}
  BY DEF Load
<1> HIDE DEF u, said
<1>5. Len(entries') = Len(es)
  BY <1>3, <1>4, ReplacedIs
<1>6. NoFilters \in Filters0 /\ ParseFilters(u) \in Filters0 /\ LiveRange \in DetailRanges
  BY <1>1, UrlValues DEF NoFilters, ParseFilters, Filters0, Urls
<1> QED BY <1>1, <1>2, <1>4, <1>5, <1>6 DEF UrlRest

LEMMA AppendedLoads ==
    ASSUME UrlInv, UrlRest, NEW v \in Urls, NEW n \in Nat, at < MaxEntries,
           NEW es, es = Append(SubSeq(entries, 1, at), [url |-> v, doc |-> n])
    PROVE  es \in Seq(Entry) /\ at + 1 \in 1..Len(es) /\ Len(es) <= MaxEntries
<1> DEFINE e == [url |-> v, doc |-> n]
<1>1. at \in 1..Len(entries) /\ entries \in Seq(Entry)
  BY DEF UrlInv, UrlTypes
<1>2. e \in Entry
  BY EntryOf
<1>3. es = Append(SubSeq(entries, 1, at), e)
  OBVIOUS
<1> HIDE DEF e
<1>4. es \in Seq(Entry) /\ Len(es) = at + 1
  BY <1>1, <1>2, <1>3, CutAndAppend
<1>5. at \in Nat /\ MaxEntries \in Nat
  BY <1>1, UrlValues
<1> QED BY <1>4, <1>5

LEMMA PushBounds ==
    ASSUME UrlInv, UrlRest, NEW u \in Urls, Push(u)
    PROVE  Len(entries') <= MaxEntries
<1>1. CASE u = url
  BY <1>1 DEF Push, UrlRest
<1>2. CASE u # url
  <2>1. entries' = Append(SubSeq(entries, 1, at), [url |-> u, doc |-> entries[at].doc]) /\ at < MaxEntries
    BY <1>2 DEF Push
  <2>2. entries[at].doc \in Nat
    BY EntryIs DEF UrlInv, UrlTypes
  <2> QED BY <2>1, <2>2, AppendedLoads
<1> QED BY <1>1, <1>2

LEMMA UpdateRest ==
    ASSUME UrlInv, UrlRest, NEW f, NEW ts, Update(f, ts), filters' \in Filters0, tools' \in ToolChoices
    PROVE  UrlRest'
<1> DEFINE u == [WithFilters(url, f) EXCEPT !.tools = IF ts = tools THEN url.tools ELSE ts]
           kept == IF ts = tools THEN url.tools ELSE ts
<1>0. f \in Filters0 /\ ts \in ToolChoices
  BY DEF Update
<1>1. url \in Urls /\ kept \in ToolChoices
  BY <1>0, UrlIsUrl DEF UrlInv
<1>2. WithFilters(url, f) \in Urls /\ WithFilters(url, f).tools = url.tools
  BY <1>0, <1>1, FiltersReadBack
<1>3. [WithFilters(url, f) EXCEPT !.tools = IF ts = tools THEN @ ELSE ts] = u
  BY <1>2 DEF Urls
<1>4. DetailRanges # {} /\ Absent \in Tabs \cup {HiddenTab, Absent}
  BY UrlValues
<1>5. u \in Urls
  BY <1>1, <1>2, <1>4, OtherKeys
<1>6. Push(u)
  BY <1>3 DEF Update
<1> HIDE DEF u
<1>7. Len(entries') <= MaxEntries
  BY <1>5, <1>6, PushBounds
<1>8. finding' = FALSE /\ applied' = f /\ UNCHANGED <<tab, range, storedTab>> /\ Move
  BY DEF Update, detailVars
<1>9. moves' \in 0..MaxMoves
  BY <1>8, MoveCounted DEF UrlRest
<1> QED BY <1>0, <1>7, <1>8, <1>9 DEF UrlRest

LEMMA ChoiceRest ==
    ASSUME UrlInv, UrlInv', UrlRest,
           \/ \E r \in BoardRanges : SetRange(r)
           \/ \E n \in Narrows \cup {Absent} : SetFilter(n)
           \/ \E s \in Spans \cup {Absent} : Select(s)
           \/ \E id \in Tools : ToggleTool(id)
           \/ ClearAll \/ Undo
    PROVE  UrlRest'
<1>1. \E f, ts : Update(f, ts)
  BY DEF SetRange, SetFilter, Select, ToggleTool, ClearAll, Undo
<1>2. filters' \in Filters0 /\ tools' \in ToolChoices
  BY DEF UrlInv, UrlTypes
<1> QED BY <1>1, <1>2, UpdateRest

LEMMA DetailRest ==
    ASSUME UrlInv, UrlInv', UrlRest,
           \/ \E t \in Tabs \cup {HiddenTab, Absent} : SetActiveTab(t)
           \/ \E r \in DetailRanges : SetPreset(r)
           \/ \E ts \in ToolChoices : SetTools(ts)
    PROVE  UrlRest'
<1>1. url \in Urls /\ entries[at].doc \in Nat /\ storedTools \in ToolChoices /\ storedRange \in DetailRanges
  BY UrlIsUrl, EntryIs DEF UrlInv, UrlTypes
<1>2. ASSUME NEW t \in Tabs \cup {HiddenTab, Absent}, SetActiveTab(t) PROVE UrlRest'
  <2>1. [url EXCEPT !.tab = t] \in Urls
    BY <1>1, <1>2, OtherKeys
  <2>2. moves' \in 0..MaxMoves /\ storedTab' \in Tabs \cup {HiddenTab, Absent}
    BY <1>2, MoveCounted DEF SetActiveTab, UrlRest
  <2>3. CASE t = Absent
    <3> DEFINE es == Append(SubSeq(entries, 1, at), [url |-> [url EXCEPT !.tab = t], doc |-> entries[at].doc])
    <3>1. Load(es, at + 1, storedTools) /\ at < MaxEntries
      BY <1>2, <2>3 DEF SetActiveTab
    <3>2. es \in Seq(Entry) /\ at + 1 \in 1..Len(es) /\ Len(es) <= MaxEntries
      BY <1>1, <2>1, <3>1, AppendedLoads
    <3> HIDE DEF es
    <3> QED BY <1>1, <2>2, <3>1, <3>2, LoadRest
  <2>4. CASE t # Absent
    <3>1. Push([url EXCEPT !.tab = t]) /\ tab' = t /\ UNCHANGED <<boardVars, range>>
      BY <1>2, <2>4 DEF SetActiveTab
    <3>2. Len(entries') <= MaxEntries
      BY <2>1, <3>1, PushBounds
    <3> QED BY <2>2, <3>1, <3>2 DEF UrlRest, boardVars
  <2> QED BY <2>3, <2>4
<1>3. ASSUME NEW r \in DetailRanges, SetPreset(r) PROVE UrlRest'
  <2>1. WithRange(url, r) \in Urls
    BY <1>1, OtherKeys
  <2>2. Replace(WithRange(url, r)) /\ range' = r /\ UNCHANGED <<boardVars, tab, storedTab>> /\ Move
    BY <1>3 DEF SetPreset
  <2>3. Len(entries') = Len(entries)
    BY <2>1, <2>2, ReplacedIs DEF Replace, UrlInv, UrlTypes
  <2>4. moves' \in 0..MaxMoves
    BY <2>2, MoveCounted DEF UrlRest
  <2> QED BY <2>2, <2>3, <2>4 DEF UrlRest, boardVars
<1>4. ASSUME NEW ts \in ToolChoices, SetTools(ts) PROVE UrlRest'
  <2>1. [url EXCEPT !.tools = ts] \in Urls
    BY <1>1, OtherKeys, UrlValues
  <2>2. Replace([url EXCEPT !.tools = ts]) /\ UNCHANGED <<boardVars, tab, range, storedTab>> /\ Move
    BY <1>4 DEF SetTools
  <2>3. Len(entries') = Len(entries)
    BY <2>1, <2>2, ReplacedIs DEF Replace, UrlInv, UrlTypes
  <2>4. moves' \in 0..MaxMoves
    BY <2>2, MoveCounted DEF UrlRest
  <2> QED BY <2>2, <2>3, <2>4 DEF UrlRest, boardVars
<1> QED BY <1>2, <1>3, <1>4

LEMMA VisitRest ==
    ASSUME UrlInv, UrlInv', UrlRest, NEW i \in 1..MaxEntries, Visit(i)
    PROVE  UrlRest'
<1>1. /\ entries \in Seq(Entry) /\ i \in 1..Len(entries) /\ Len(entries) <= MaxEntries /\ entries[i].url \in Urls
      /\ entries[i].url.tools \in ToolChoices /\ entries[i].url.tab \in Tabs \cup {HiddenTab, Absent}
      /\ storedTools \in ToolChoices /\ storedRange \in DetailRanges
  BY EntryIs DEF UrlInv, UrlTypes, UrlRest, Visit, Urls
<1>2. moves' \in 0..MaxMoves /\ storedTab' = storedTab
  BY MoveCounted DEF Visit, UrlRest, stored
<1>3. storedTab' \in Tabs \cup {HiddenTab, Absent}
  BY <1>2 DEF UrlRest
<1>4. CASE entries[i].doc # entries[at].doc
  BY <1>1, <1>2, <1>3, <1>4, LoadRest DEF Visit
<1>5. CASE entries[i].doc = entries[at].doc /\ RouteOf(entries[i].url) # screen
  <2>1. storedTools' \in ToolChoices /\ Load(entries, i, storedTools')
    BY <1>1, <1>5 DEF Visit
  <2> QED BY <1>1, <1>2, <1>3, <2>1, LoadRest
<1>6. CASE entries[i].doc = entries[at].doc /\ RouteOf(entries[i].url) = screen
  <2>1. entries' = entries /\ range' = range
    BY <1>6 DEF Visit
  <2>2. CASE screen = "board"
    <3>1. OnPop(i) /\ tab' = tab
      BY <1>6, <2>2 DEF Visit
    <3>2. ParseFilters(entries[i].url) \in Filters0
      BY <1>1, UrlValues DEF ParseFilters, Filters0, Urls
    <3> QED BY <1>2, <2>1, <3>1, <3>2 DEF UrlRest, OnPop
  <2>3. CASE screen # "board"
    <3>1. tab' = entries[i].url.tab /\ UNCHANGED <<applied, finding>>
      BY <1>6, <2>3 DEF Visit
    <3> QED BY <1>1, <1>2, <2>1, <3>1 DEF UrlRest
  <2> QED BY <2>2, <2>3
<1> QED BY <1>4, <1>5, <1>6

LEMMA OtherRest ==
    ASSUME UrlInv, UrlInv', UrlRest,
           \/ \E q \in Texts \cup {Absent} : SetFind(q)
           \/ ToastGone \/ FindTimer \/ CloseDrawer \/ Reload
           \/ \E t \in Tabs : RailLink(t)
           \/ UNCHANGED urlVars
    PROVE  UrlRest'
<1>1. /\ url \in Urls /\ filters \in Filters0 /\ entries \in Seq(Entry) /\ at \in 1..Len(entries)
      /\ entries[at].doc \in Nat /\ storedTools \in ToolChoices /\ storedRange \in DetailRanges
  BY UrlIsUrl, EntryIs DEF UrlInv, UrlTypes
<1>2. ASSUME NEW q \in Texts \cup {Absent}, SetFind(q) PROVE UrlRest'
  <2>1. moves' \in 0..MaxMoves
    BY <1>2, MoveCounted DEF SetFind, UrlRest
  <2> QED BY <1>2, <2>1 DEF SetFind, UrlRest, detailVars, stored
<1>3. CASE ToastGone
  BY <1>3 DEF ToastGone, UrlRest, detailVars, stored
<1>4. CASE FindTimer
  <2>1. WithFilters(url, filters) \in Urls
    BY <1>1, FiltersReadBack
  <2>2. /\ Replace(WithFilters(url, filters)) /\ applied' = filters /\ finding' = FALSE
        /\ UNCHANGED <<tab, range, storedTab, moves>>
    BY <1>4 DEF FindTimer, detailVars, stored
  <2>3. Len(entries') = Len(entries)
    BY <1>1, <2>1, <2>2, ReplacedIs DEF Replace
  <2> QED BY <1>1, <2>2, <2>3 DEF UrlRest
<1>5. CASE CloseDrawer
  <2>0. DetailRanges # {} /\ Absent \in ToolChoices
    BY UrlValues DEF ToolChoices
  <2>1. [url EXCEPT !.tab = Absent] \in Urls
    BY <1>1, <2>0, OtherKeys
  <2>2. Replace([url EXCEPT !.tab = Absent]) /\ UNCHANGED <<applied, finding, tab, range, storedTab>> /\ Move
    BY <1>5 DEF CloseDrawer, boardVars, detailVars, stored
  <2>3. Len(entries') = Len(entries)
    BY <1>1, <2>1, <2>2, ReplacedIs DEF Replace
  <2>4. moves' \in 0..MaxMoves
    BY <2>2, MoveCounted DEF UrlRest
  <2> QED BY <2>2, <2>3, <2>4 DEF UrlRest
<1>6. CASE Reload
  <2>1. Load(entries, at, storedTools) /\ storedTab' = storedTab /\ moves' \in 0..MaxMoves
    BY <1>6, MoveCounted DEF Reload, stored, UrlRest
  <2>2. Len(entries) <= MaxEntries /\ storedTab' \in Tabs \cup {HiddenTab, Absent}
    BY <2>1 DEF UrlRest
  <2> QED BY <1>1, <2>1, <2>2, LoadRest
<1>7. ASSUME NEW t \in Tabs, RailLink(t) PROVE UrlRest'
  <2> DEFINE u == [tab |-> t, range |-> Absent, tools |-> Absent, narrow |-> Absent, sel |-> Absent, find |-> Absent]
             n == entries[at].doc + 1
             es == Append(SubSeq(entries, 1, at), [url |-> u, doc |-> n])
  <2>1. u \in Urls /\ n \in Nat
    BY <1>1 DEF Urls, ToolChoices
  <2>2. Load(es, at + 1, storedTools) /\ at < MaxEntries /\ storedTab' = storedTab /\ Move
    BY <1>7 DEF RailLink, OpenLink, stored
  <2>3. moves' \in 0..MaxMoves /\ storedTab' \in Tabs \cup {HiddenTab, Absent}
    BY <2>2, MoveCounted DEF UrlRest
  <2> HIDE DEF u, n
  <2>4. es \in Seq(Entry) /\ at + 1 \in 1..Len(es) /\ Len(es) <= MaxEntries
    BY <2>1, <2>2, AppendedLoads
  <2> HIDE DEF es
  <2> QED BY <1>1, <2>2, <2>3, <2>4, LoadRest
<1>8. CASE UNCHANGED urlVars
  BY <1>8 DEF urlVars, boardVars, detailVars, stored, UrlRest
<1> QED BY <1>2, <1>3, <1>4, <1>5, <1>6, <1>7, <1>8

\* useBoardFilters, useTools, useTabs and useRange: the history, the address and what the controls
\* show are always of the kinds that the page knows, and the history keeps its bound.
THEOREM UrlTyped == UrlSpec => []UrlTypeOK
<1>1. UrlInit => UrlInv /\ UrlRest
  <2> SUFFICES ASSUME UrlInit PROVE UrlRest
    BY UrlInitTells
  <2>1. UrlInv
    BY UrlInitTells
  <2>2. /\ finding = FALSE /\ applied = filters /\ storedTab = Absent /\ moves = 0 /\ Len(entries) = 1
        /\ \E u \in Urls : tab \in {Absent, u.tab} /\ range \in {LiveRange, u.range} /\ (range = u.range => u.range \in DetailRanges)
    BY UrlValues DEF UrlInit
  <2>3. tab \in Tabs \cup {HiddenTab, Absent}
    BY <2>2 DEF Urls
  <2>4. range \in DetailRanges /\ MaxMoves \in Nat /\ 1 <= MaxEntries
    BY <2>2, UrlValues
  <2>5. moves \in 0..MaxMoves /\ Len(entries) <= MaxEntries
    BY <2>2, <2>4
  <2>6. finding \in BOOLEAN /\ applied \in Filters0 /\ storedTab \in Tabs \cup {HiddenTab, Absent}
    BY <2>1, <2>2 DEF UrlInv, UrlTypes
  <2> QED BY <2>3, <2>4, <2>5, <2>6 DEF UrlRest
<1>2. UrlInv /\ UrlRest /\ [UrlNext]_urlVars => UrlInv' /\ UrlRest'
  <2> SUFFICES ASSUME UrlInv, UrlRest, [UrlNext]_urlVars PROVE UrlInv' /\ UrlRest'
    OBVIOUS
  <2>1. UrlInv'
    BY ChoiceTells, DetailStepTells, VisitTells, RestTells DEF UrlNext
  <2>2. UrlRest'
    BY <2>1, ChoiceRest, DetailRest, VisitRest, OtherRest DEF UrlNext
  <2> QED BY <2>1, <2>2
<1>3. UrlInv /\ UrlRest => UrlTypeOK
  <2> SUFFICES ASSUME UrlInv, UrlRest PROVE UrlTypeOK
    OBVIOUS
  <2>1. \A i \in DOMAIN entries : entries[i].url \in Urls /\ entries[i].doc \in Nat
    BY EntryIs DEF UrlInv, UrlTypes
  <2> QED BY <2>1 DEF UrlInv, UrlTypes, UrlRest, UrlTypeOK, Undos
<1> QED BY <1>1, <1>2, <1>3, PTL DEF UrlSpec


(* The session shown ------------------------------------------------------ *)

SessionOrNone == Known \cup {NoSession}

\* what a render found when the effects last ran
Seen == deps # <<>>

PickerTypes ==
    /\ mounted \in BOOLEAN /\ timeline \subseteq Known /\ live \subseteq Known /\ enabled \subseteq PickTools
    /\ pending \in SessionOrNone /\ remembered \in SessionOrNone /\ requested \in SessionOrNone
    /\ activeSession \in SessionOrNone /\ sessionInUrl \in SessionOrNone /\ wanted \in SessionOrNone
    /\ activeTool \in PickTools \cup {NoSession} /\ events \in 0..MaxEvents

\* Between a change of the tools and the effects that answer it, the tool shown may not be listed.
ToolListed ==
    mounted /\ Seen /\ deps[1].tools = ToolOrder =>
        activeTool \in Listed \/ (Listed = {} /\ activeTool = NoSession /\ activeSession = NoSession)

SessionFits ==
    mounted /\ Seen /\ deps[1].tool = activeTool /\ deps[1].count = Cardinality(OfTool(activeTool)) =>
        activeSession = NoSession \/ ToolOf[activeSession] = activeTool

\* a request that the effects saw is of a session that is not listed
RequestWaits ==
    mounted /\ Seen /\ requested # NoSession /\ deps[1].request = requested /\ deps[1].sessions = Sessions =>
        requested \notin Sessions

Remembers ==
    mounted /\ Seen /\ activeSession # NoSession /\ deps[1].session = activeSession => remembered = activeSession

\* the session asked for is on its way, is shown, or is of an excluded tool
WantedComes ==
    mounted /\ wanted # NoSession =>
        \/ requested = wanted
        \/ requested = NoSession /\ activeSession = wanted /\ wanted \in Filtered /\ activeTool = ToolOf[wanted]
        \/ requested = NoSession /\ ToolOf[wanted] \notin enabled

Away == ~mounted =>
    /\ requested = NoSession /\ activeTool = NoSession /\ activeSession = NoSession
    /\ wanted # NoSession => wanted = IF pending # NoSession THEN pending ELSE remembered

Fresh == deps = <<>> => activeTool = NoSession /\ activeSession = NoSession

PickerInv ==
    /\ PickerTypes /\ ToolListed /\ SessionFits /\ RequestWaits /\ Remembers /\ WantedComes /\ Away /\ Fresh
    /\ mounted => pending = NoSession

LEMMA RangeIsFinite == ASSUME NEW S, NEW seq \in Seq(S) PROVE IsFiniteSet(Range(seq))
<1>1. seq \in Surjection(1..Len(seq), Range(seq))
  BY DEF Surjection, Range
<1>2. IsFiniteSet(1..Len(seq))
  BY FS_Interval
<1> QED BY <1>1, <1>2, FS_Surjection

LEMMA PlaceInSeq == ASSUME NEW S, NEW seq \in Seq(S), NEW x \in Range(seq)
                 PROVE  PlaceIn(seq, x) \in Nat /\ PlaceIn(seq, x) \in DOMAIN seq /\ seq[PlaceIn(seq, x)] = x
BY DEF PlaceIn, Range

LEMMA NewestIsOne == ASSUME NEW ss \in SUBSET Known, ss # {} PROVE Newest(ss) \in ss
<1>1. \A s \in Known : PlaceIn(Session, s) \in Nat
  BY PlaceInSeq, PickerSessions DEF Known
<1>2. PICK n \in {PlaceIn(Session, s) : s \in ss} : \A k \in {PlaceIn(Session, s) : s \in ss} : n <= k
  <2>1. {PlaceIn(Session, s) : s \in ss} \in SUBSET Nat /\ {PlaceIn(Session, s) : s \in ss} # {}
    BY <1>1
  <2> QED BY <2>1, LeastNumber
<1>3. PICK s \in ss : n = PlaceIn(Session, s)
  BY <1>2
<1> QED BY <1>2, <1>3 DEF Newest

LEMMA ListedSets ==
    ASSUME PickerTypes
    PROVE  /\ Sessions \subseteq Known /\ Filtered \subseteq Known /\ Listed \subseteq PickTools /\ IsFiniteSet(Listed)
           /\ \A t : OfTool(t) \subseteq Known /\ Cardinality(OfTool(t)) \in Nat
           /\ \A t : OfTool(t) # {} <=> t \in Listed
<1>1. Sessions \subseteq Known /\ Filtered \subseteq Known
  BY DEF PickerTypes, Sessions, Filtered
<1>2. Listed \subseteq PickTools /\ \A s \in Known : ToolOf[s] \in PickTools
  BY <1>1, PickerSessions DEF Listed, PickTools, Known, Range
<1>3. IsFiniteSet(Known) /\ IsFiniteSet(PickTools)
  BY RangeIsFinite, PickerSessions DEF Known, PickTools
<1>4. IsFiniteSet(Listed)
  BY <1>2, <1>3, FS_Subset
<1>5. \A t : OfTool(t) \subseteq Known
  BY <1>1 DEF OfTool
<1>6. \A t : Cardinality(OfTool(t)) \in Nat
  BY <1>3, <1>5, FS_Subset, FS_CardinalityType
<1>7. \A t : OfTool(t) # {} <=> t \in Listed
  BY DEF OfTool, Listed
<1> QED BY <1>1, <1>2, <1>4, <1>5, <1>6, <1>7

LEMMA FirstIsListed == ASSUME PickerTypes, Listed # {} PROVE FirstTool \in Listed
<1> DEFINE Ahead(t) == {u \in Listed : Precedes(u, t)}
<1>1. \A t \in Listed : PlaceIn(ToolNames, t) \in Nat
  BY PlaceInSeq, ListedSets, PickerSessions DEF PickTools
<1>2. \A t \in Listed : Cardinality(OfTool(t)) \in Nat
  BY ListedSets
<1>3. \A t \in Listed : ~Precedes(t, t)
  BY <1>1, <1>2 DEF Precedes
<1>4. \A t, u, w \in Listed : Precedes(w, u) /\ Precedes(u, t) => Precedes(w, t)
  BY <1>1, <1>2 DEF Precedes
<1>5. \A t \in Listed : /\ IsFiniteSet(Ahead(t)) /\ ToolOrder[t] = Cardinality(Ahead(t)) /\ ToolOrder[t] \in Nat
                        /\ \A T \in SUBSET Ahead(t) : T # Ahead(t) => Cardinality(T) # Cardinality(Ahead(t)) /\ Cardinality(T) <= Cardinality(Ahead(t))
  <2> SUFFICES ASSUME NEW t \in Listed
               PROVE  /\ IsFiniteSet(Ahead(t)) /\ ToolOrder[t] = Cardinality(Ahead(t)) /\ ToolOrder[t] \in Nat
                      /\ \A T \in SUBSET Ahead(t) : T # Ahead(t) => Cardinality(T) # Cardinality(Ahead(t)) /\ Cardinality(T) <= Cardinality(Ahead(t))
    OBVIOUS
  <2>1. IsFiniteSet(Ahead(t))
    <3>1. IsFiniteSet(Listed) /\ Ahead(t) \in SUBSET Listed
      BY ListedSets
    <3> QED BY <3>1, FS_Subset
  <2>2. ToolOrder[t] = Cardinality(Ahead(t))
    BY DEF ToolOrder
  <2>3. Cardinality(Ahead(t)) \in Nat
    BY <2>1, FS_CardinalityType
  <2> HIDE DEF Ahead
  <2>4. \A T \in SUBSET Ahead(t) : T # Ahead(t) => Cardinality(T) # Cardinality(Ahead(t)) /\ Cardinality(T) <= Cardinality(Ahead(t))
    BY <2>1, FS_Subset
  <2> QED BY <2>1, <2>2, <2>3, <2>4
<1>6. PICK t \in Listed : \A u \in Listed : ToolOrder[t] <= ToolOrder[u]
  <2> DEFINE Ranks == {ToolOrder[t] : t \in Listed}
  <2>1. Ranks \in SUBSET Nat /\ Ranks # {}
    BY <1>5
  <2> HIDE DEF Ranks
  <2>2. PICK n \in Ranks : \A k \in Ranks : n <= k
    BY <2>1, LeastNumber
  <2> QED BY <2>2 DEF Ranks
<1>7. Ahead(t) = {}
  <2> SUFFICES ASSUME NEW u \in Ahead(t) PROVE FALSE
    OBVIOUS
  <2>1. u \in Listed /\ Precedes(u, t)
    OBVIOUS
  <2>2. Ahead(u) \in SUBSET Ahead(t) /\ u \notin Ahead(u)
    BY <1>3, <1>4, <2>1
  <2> HIDE DEF Ahead
  <2>3. Cardinality(Ahead(u)) # Cardinality(Ahead(t)) /\ Cardinality(Ahead(u)) <= Cardinality(Ahead(t))
    BY <1>5, <2>2
  <2> QED BY <1>5, <1>6, <2>1, <2>3
<1>8. ToolOrder[t] = 0
  <2> HIDE DEF Ahead
  <2> QED BY <1>5, <1>7, FS_EmptySet
<1> QED BY <1>8 DEF FirstTool

\* What the effects find is what they leave: they change neither the lists nor the filter.
LEMMA EffectsKeepLists ==
    ASSUME Effects
    PROVE  /\ mounted /\ mounted' /\ pending' = pending /\ wanted' = wanted /\ enabled' = enabled
           /\ Sessions' = Sessions /\ Filtered' = Filtered /\ Listed' = Listed /\ ToolOrder' = ToolOrder
           /\ \A t : (OfTool(t))' = OfTool(t)
           /\ deps' # <<>> /\ deps'[1].tools = ToolOrder /\ deps'[1].tool = activeTool
           /\ deps'[1].session = activeSession /\ deps'[1].count = Cardinality(OfTool(activeTool))
           /\ deps'[1].request = requested /\ deps'[1].sessions = Sessions
<1>1. mounted /\ mounted' /\ pending' = pending /\ wanted' = wanted /\ enabled' = enabled /\ timeline' = timeline /\ live' = live
  BY DEF Effects, Settled
<1>2. Sessions' = Sessions
  BY <1>1 DEF Sessions
<1>3. Filtered' = Filtered
  BY <1>1, <1>2 DEF Filtered
<1>4. Listed' = Listed /\ \A t : (OfTool(t))' = OfTool(t)
  BY <1>3 DEF Listed, OfTool
<1>5. \A t, u : (Precedes(t, u))' = Precedes(t, u)
  BY <1>4 DEF Precedes
<1>6. ToolOrder' = ToolOrder
  BY <1>4, <1>5 DEF ToolOrder
<1>7. deps' = <<Deps>>
  BY DEF Effects
<1> QED BY <1>1, <1>2, <1>3, <1>4, <1>6, <1>7 DEF Deps

\* The four outcomes of a flush: a request is applied, nothing is left to show, another tool is
\* shown, or the tool stays and shows one of its sessions.
Applied ==
    /\ Applies /\ requested \in Filtered
    /\ activeTool' = ToolOf[requested] /\ activeSession' = requested

Emptied == Listed = {} /\ activeTool' = NoSession /\ activeSession' = NoSession

Switched == activeTool \notin Listed /\ activeTool' \in Listed /\ activeSession' = activeSession

Stayed ==
    /\ activeTool \in Listed /\ activeTool' = activeTool
    /\ \/ activeSession' \in OfTool(activeTool) /\ (activeSession \in OfTool(activeTool) => activeSession' = activeSession)
       \/ /\ activeSession' = activeSession
          /\ Seen /\ deps[1].tool = activeTool /\ deps[1].count = Cardinality(OfTool(activeTool))

LEMMA EffectsPick ==
    ASSUME PickerInv, Effects
    PROVE  \/ Applied
           \/ ~(Applies /\ requested \in Filtered) /\ (Emptied \/ Switched \/ Stayed)
<1> DEFINE own == OfTool(activeTool)
           tool == IF PickTool # <<>> THEN PickTool[1] ELSE activeTool
           session == IF PickSession # <<>> THEN PickSession[1] ELSE IF PickTool # <<>> THEN PickTool[2] ELSE activeSession
<1>1. Applies /\ ToolOf[requested] \in enabled <=> Applies /\ requested \in Filtered
  BY DEF Applies, Filtered
<1>2. activeTool' = (IF Applies /\ requested \in Filtered THEN ToolOf[requested] ELSE tool)
  BY <1>1 DEF Effects
<1>3. activeSession' = IF Applies /\ requested \in Filtered THEN requested ELSE session
  BY <1>1 DEF Effects
<1>4. own # {} <=> activeTool \in Listed
  BY ListedSets DEF PickerInv
<1>5. own # {} => Newest(own) \in own
  BY NewestIsOne, ListedSets DEF PickerInv
<1>6. CASE Applies /\ requested \in Filtered
  BY <1>2, <1>3, <1>6 DEF Applied
<1>7. CASE ~(Applies /\ requested \in Filtered)
  <2>1. activeTool' = tool /\ activeSession' = session
    BY <1>2, <1>3, <1>7
  <2>2. mounted
    BY EffectsKeepLists
  <2>3. CASE activeTool \in Listed
    <3>1. PickTool = <<>>
      BY <2>3 DEF PickTool
    <3>2. activeTool' = activeTool /\ activeSession' = IF PickSession # <<>> THEN PickSession[1] ELSE activeSession
      BY <2>1, <3>1
    <3>3. CASE Seen /\ deps[1].tool = activeTool /\ deps[1].count = Cardinality(own)
      <4>1. PickSession = <<>>
        BY <3>3 DEF PickSession, Seen
      <4> QED BY <1>7, <2>3, <3>2, <3>3, <4>1 DEF Stayed
    <3>4. CASE ~(Seen /\ deps[1].tool = activeTool /\ deps[1].count = Cardinality(own))
      <4>1. PickSession = IF activeSession \notin own THEN <<Newest(own)>> ELSE <<>>
        BY <1>4, <2>3, <3>4 DEF PickSession, Seen
      <4>2. activeSession' \in own /\ (activeSession \in own => activeSession' = activeSession)
        BY <1>4, <1>5, <2>3, <3>2, <4>1
      <4> QED BY <1>7, <2>3, <3>2, <4>2 DEF Stayed
    <3> QED BY <3>3, <3>4
  <2>4. CASE activeTool \notin Listed
    <3>1. PickSession = <<>>
      BY <1>4, <2>4 DEF PickSession
    <3>2. CASE Seen /\ deps[1].tools = ToolOrder
      <4>1. PickTool = <<>>
        BY <3>2 DEF PickTool, Seen
      <4>2. Listed = {} /\ activeTool = NoSession /\ activeSession = NoSession
        BY <2>2, <2>4, <3>2 DEF PickerInv, ToolListed
      <4> QED BY <1>7, <2>1, <3>1, <4>1, <4>2 DEF Emptied
    <3>3. CASE ~(Seen /\ deps[1].tools = ToolOrder) /\ Listed = {}
      <4>1. PickTool = <<NoSession, NoSession>>
        BY <3>3 DEF PickTool, Seen
      <4> QED BY <1>7, <2>1, <3>1, <3>3, <4>1 DEF Emptied
    <3>4. CASE ~(Seen /\ deps[1].tools = ToolOrder) /\ Listed # {}
      <4>1. PickTool = <<FirstTool, activeSession>>
        BY <2>4, <3>4 DEF PickTool, Seen
      <4>2. FirstTool \in Listed
        BY <3>4, FirstIsListed DEF PickerInv
      <4> QED BY <1>7, <2>1, <2>4, <3>1, <4>1, <4>2 DEF Switched
    <3> QED BY <3>2, <3>3, <3>4
  <2> QED BY <2>3, <2>4
<1> QED BY <1>6, <1>7

LEMMA EffectsTyped == ASSUME PickerInv, Effects PROVE PickerTypes'
<1>1. \A s \in Known : ToolOf[s] \in PickTools
  BY PickerSessions DEF Known, PickTools
<1>2. Listed \subseteq PickTools /\ \A t : OfTool(t) \subseteq Known
  BY ListedSets DEF PickerInv
<1>3. Filtered \subseteq Known
  BY ListedSets DEF PickerInv
<1>4. activeTool \in PickTools \cup {NoSession} /\ activeSession \in SessionOrNone /\ requested \in SessionOrNone
  BY DEF PickerInv, PickerTypes
<1>5. activeTool' \in PickTools \cup {NoSession}
  BY <1>1, <1>2, <1>3, <1>4, EffectsPick DEF Applied, Emptied, Switched, Stayed
<1>6. activeSession' \in SessionOrNone
  BY <1>2, <1>3, <1>4, EffectsPick DEF Applied, Emptied, Switched, Stayed, SessionOrNone
<1>7. requested' \in SessionOrNone /\ remembered' \in SessionOrNone /\ sessionInUrl' \in SessionOrNone
  BY <1>4 DEF PickerInv, PickerTypes, Effects, SessionOrNone
<1> QED BY <1>5, <1>6, <1>7 DEF PickerInv, PickerTypes, Effects

LEMMA EffectsKeep == ASSUME PickerInv, Effects PROVE PickerInv'
<1> DEFINE Waits == requested = NoSession \/ requested \notin Sessions
<1>1. PickerTypes'
  BY EffectsTyped
<1>2. /\ mounted /\ mounted' /\ pending' = pending /\ wanted' = wanted /\ enabled' = enabled
      /\ Sessions' = Sessions /\ Filtered' = Filtered /\ Listed' = Listed /\ ToolOrder' = ToolOrder
      /\ \A t : (OfTool(t))' = OfTool(t)
  BY EffectsKeepLists
<1>3. /\ Seen' /\ deps'[1].tools = ToolOrder /\ deps'[1].tool = activeTool
      /\ deps'[1].session = activeSession /\ deps'[1].count = Cardinality(OfTool(activeTool))
      /\ deps'[1].request = requested /\ deps'[1].sessions = Sessions
  BY EffectsKeepLists DEF Seen
<1>4. /\ \A s \in Filtered : s \in Sessions /\ ToolOf[s] \in Listed /\ s \in OfTool(ToolOf[s])
      /\ \A t : \A s \in OfTool(t) : ToolOf[s] = t
      /\ \A t : OfTool(t) # {} <=> t \in Listed
      /\ NoSession \notin Listed
  BY ListedSets, PickerSessions DEF PickerInv, Filtered, Listed, OfTool, PickTools
<1>5. requested' = (IF Applies THEN NoSession ELSE requested) /\ remembered' = (IF activeSession = NoSession THEN remembered ELSE activeSession)
  BY DEF Effects
<1>6. ~Applies => Waits
  BY <1>2 DEF PickerInv, RequestWaits, Applies, Seen
<1>7. ToolListed'
  BY <1>2, <1>4, EffectsPick DEF ToolListed, Applied, Emptied, Switched, Stayed
<1>8. SessionFits'
  <2> SUFFICES ASSUME deps'[1].tool = activeTool' PROVE activeSession' = NoSession \/ ToolOf[activeSession'] = activeTool'
    BY DEF SessionFits
  <2>1. CASE Applied
    BY <2>1 DEF Applied
  <2>2. CASE Emptied
    BY <2>2 DEF Emptied
  <2>3. CASE Switched
    BY <1>3, <2>3 DEF Switched
  <2>4. CASE Stayed
    <3>1. CASE activeSession' \in OfTool(activeTool)
      BY <1>4, <2>4, <3>1 DEF Stayed
    <3>2. CASE activeSession' = activeSession /\ Seen /\ deps[1].tool = activeTool /\ deps[1].count = Cardinality(OfTool(activeTool))
      BY <1>2, <2>4, <3>2 DEF Stayed, PickerInv, SessionFits
    <3> QED BY <2>4, <3>1, <3>2 DEF Stayed
  <2> QED BY <2>1, <2>2, <2>3, <2>4, EffectsPick
<1>9. RequestWaits'
  BY <1>2, <1>5, <1>6 DEF RequestWaits
<1>10. Remembers'
  BY <1>3, <1>5 DEF Remembers
<1>11. WantedComes'
  <2> SUFFICES ASSUME wanted # NoSession
               PROVE  \/ requested' = wanted
                      \/ requested' = NoSession /\ activeSession' = wanted /\ wanted \in Filtered /\ activeTool' = ToolOf[wanted]
                      \/ requested' = NoSession /\ ToolOf[wanted] \notin enabled
    BY <1>2 DEF WantedComes
  <2>1. CASE requested = wanted /\ ~Applies
    BY <1>5, <2>1
  <2>2. CASE requested = wanted /\ Applies /\ requested \in Filtered
    BY <1>5, <2>2, EffectsPick DEF Applied
  <2>3. CASE requested = wanted /\ Applies /\ requested \notin Filtered
    BY <1>5, <2>3 DEF Applies, Filtered
  <2>4. CASE requested = NoSession /\ activeSession = wanted /\ wanted \in Filtered /\ activeTool = ToolOf[wanted]
    <3>1. ~Applies /\ activeTool \in Listed /\ activeSession \in OfTool(activeTool)
      BY <1>4, <2>4 DEF Applies
    <3>2. Stayed
      BY <3>1, EffectsPick DEF Applied, Emptied, Switched
    <3> QED BY <1>5, <2>4, <3>1, <3>2 DEF Stayed
  <2>5. CASE requested = NoSession /\ ToolOf[wanted] \notin enabled
    BY <1>5, <2>5 DEF Applies
  <2> QED BY <1>2, <2>1, <2>2, <2>3, <2>4, <2>5 DEF PickerInv, WantedComes
<1>12. Away' /\ Fresh' /\ (mounted' => pending' = NoSession)
  BY <1>2, <1>3 DEF Away, Fresh, Seen, PickerInv
<1> QED BY <1>1, <1>7, <1>8, <1>9, <1>10, <1>11, <1>12 DEF PickerInv

\* Once the effects have settled, what is shown fits.
LEMMA SettledFits ==
    ASSUME PickerInv, Settled, mounted
    PROVE  /\ Seen /\ deps = <<Deps>>
           /\ activeSession # NoSession => ToolOf[activeSession] = activeTool /\ activeTool \in enabled /\ remembered = activeSession
           /\ requested # NoSession => requested \notin Sessions
<1>1. deps = <<Deps>> /\ Seen
  BY DEF Settled, Seen
<1>2. /\ deps[1].tools = ToolOrder /\ deps[1].tool = activeTool /\ deps[1].session = activeSession
      /\ deps[1].count = Cardinality(OfTool(activeTool)) /\ deps[1].request = requested /\ deps[1].sessions = Sessions
  BY <1>1 DEF Deps
<1>3. activeSession # NoSession => activeTool \in Listed
  BY <1>1, <1>2 DEF PickerInv, ToolListed
<1>4. activeTool \in Listed => activeTool \in enabled
  BY DEF Listed, Filtered
<1> QED BY <1>1, <1>2, <1>3, <1>4 DEF PickerInv, SessionFits, Remembers, RequestWaits

LEMMA PickerInvHolds == PickerInv => PickerTypeOK /\ PickerHolds
<1> SUFFICES ASSUME PickerInv PROVE PickerTypeOK /\ PickerHolds
  OBVIOUS
<1>1. PickerTypeOK
  BY DEF PickerInv, PickerTypes, PickerTypeOK, SessionOrNone
<1>2. NoneExcluded /\ SessionOfTool
  BY SettledFits DEF NoneExcluded, SessionOfTool
<1>3. RequestWins
  <2> SUFFICES ASSUME Settled, mounted, wanted # NoSession, wanted \in Filtered PROVE activeSession = wanted
    BY DEF RequestWins
  <2>1. wanted \in Sessions /\ ToolOf[wanted] \in enabled
    BY DEF Filtered
  <2> QED BY <2>1, SettledFits DEF PickerInv, WantedComes
<1> QED BY <1>1, <1>2, <1>3 DEF PickerHolds

\* Of an event that leaves what is shown: the effects' view of it is the one before it.
LEMMA ShownStays ==
    ASSUME PickerInv, Event, mounted, mounted', deps' = deps, activeTool' = activeTool, activeSession' = activeSession,
           remembered' = remembered
    PROVE  ToolListed' /\ SessionFits' /\ Remembers' /\ Away' /\ Fresh'
<1>1. Settled
  BY DEF Event
<1>2. Seen /\ deps = <<Deps>>
  BY <1>1, SettledFits
<1>3. deps[1].tools = ToolOrder /\ deps[1].session = activeSession
  BY <1>2 DEF Deps
<1>4. activeTool \in Listed \/ (Listed = {} /\ activeTool = NoSession /\ activeSession = NoSession)
  BY <1>2, <1>3 DEF PickerInv, ToolListed
<1>5. DOMAIN ToolOrder = Listed /\ DOMAIN ToolOrder' = Listed'
  BY DEF ToolOrder
<1>6. ToolListed'
  BY <1>3, <1>4, <1>5 DEF ToolListed
<1>7. activeSession # NoSession => ToolOf[activeSession] = activeTool /\ remembered = activeSession
  BY <1>1, SettledFits
<1> QED BY <1>2, <1>6, <1>7 DEF SessionFits, Remembers, Away, Fresh, Seen

\* a request that waits goes on waiting until the lists change
LEMMA RequestStays ==
    ASSUME PickerInv, Event, mounted, deps' = deps, requested' = requested
    PROVE  RequestWaits'
<1>1. Settled
  BY DEF Event
<1>2. requested # NoSession => requested \notin Sessions
  BY <1>1, SettledFits
<1>3. deps = <<Deps>>
  BY <1>1, SettledFits
<1>4. deps[1].sessions = Sessions
  BY <1>3 DEF Deps
<1> QED BY <1>2, <1>4 DEF RequestWaits

LEMMA EventTyped == Event /\ events \in 0..MaxEvents => events' \in 0..MaxEvents
BY PickerSessions DEF Event

LEMMA SelectKeeps == ASSUME PickerInv, NEW s \in Known, SelectSession(s) PROVE PickerInv'
<1>1. PickerTypes'
  BY EventTyped DEF SelectSession, PickerInv, PickerTypes, SessionOrNone
<1>2. s # NoSession
  BY PickerSessions DEF Known
<1>3. CASE mounted
  <2>1. /\ mounted' /\ requested' = s /\ wanted' = s /\ pending' = NoSession /\ remembered' = remembered
        /\ deps' = deps /\ activeTool' = activeTool /\ activeSession' = activeSession /\ Sessions' = Sessions
    BY <1>3 DEF SelectSession, Sessions
  <2>2. Event
    BY DEF SelectSession
  <2>3. ToolListed' /\ SessionFits' /\ Remembers' /\ Away' /\ Fresh'
    BY <1>3, <2>1, <2>2, ShownStays
  <2>4. RequestWaits'
    <3>1. Seen /\ deps = <<Deps>>
      BY <1>3, <2>2, SettledFits DEF Event
    <3>2. deps[1].request = requested
      BY <3>1 DEF Deps
    <3> QED BY <1>3, <2>1, <3>1, <3>2 DEF RequestWaits, PickerInv
  <2>5. WantedComes'
    BY <2>1 DEF WantedComes
  <2> QED BY <1>1, <2>1, <2>3, <2>4, <2>5 DEF PickerInv
<1>4. CASE ~mounted
  BY <1>1, <1>2, <1>4 DEF SelectSession, PickerInv, ToolListed, SessionFits, RequestWaits, Remembers, WantedComes, Away, Fresh
<1> QED BY <1>3, <1>4

LEMMA MountKeeps == ASSUME PickerInv, Mount PROVE PickerInv'
<1>1. PickerTypes'
  BY EventTyped DEF Mount, PickerInv, PickerTypes, SessionOrNone
<1>2. /\ ~mounted /\ mounted' /\ ~Seen' /\ pending' = NoSession /\ activeTool' = NoSession /\ activeSession' = NoSession
      /\ requested' = (IF pending # NoSession THEN pending ELSE remembered) /\ wanted' = wanted
  BY DEF Mount, Seen
<1>3. WantedComes'
  BY <1>2 DEF WantedComes, Away, PickerInv
<1> QED BY <1>1, <1>2, <1>3 DEF PickerInv, ToolListed, SessionFits, RequestWaits, Remembers, Away, Fresh

LEMMA UnmountKeeps == ASSUME PickerInv, Unmount PROVE PickerInv'
<1>1. PickerTypes'
  BY EventTyped DEF Unmount, PickerInv, PickerTypes, SessionOrNone
<1>2. activeSession # NoSession => remembered = activeSession
  BY SettledFits DEF Unmount, Event
<1>3. Away'
  BY <1>2 DEF Away, Unmount, PickerInv
<1> QED BY <1>1, <1>3 DEF PickerInv, Unmount, ToolListed, SessionFits, RequestWaits, Remembers, WantedComes, Fresh

\* The lists and the filter change around what is shown.
LEMMA ListsKeep ==
    ASSUME PickerInv, PickerTypes', Event, mounted' = mounted, pending' = pending, remembered' = remembered,
           requested' = requested, deps' = deps, activeTool' = activeTool, activeSession' = activeSession, WantedComes',
           ~mounted => wanted' \in {wanted, NoSession}
    PROVE  PickerInv'
<1>1. CASE mounted
  <2>1. ToolListed' /\ SessionFits' /\ Remembers' /\ Away' /\ Fresh'
    BY <1>1, ShownStays
  <2>2. RequestWaits'
    BY <1>1, RequestStays
  <2> QED BY <1>1, <2>1, <2>2 DEF PickerInv
<1>2. CASE ~mounted
  BY <1>2 DEF PickerInv, ToolListed, SessionFits, RequestWaits, Remembers, WantedComes, Away, Fresh
<1> QED BY <1>1, <1>2

LEMMA RowsKeep == ASSUME PickerInv, NEW rows \in SUBSET Known, RowsArrive(rows) PROVE PickerInv'
<1> USE DEF RowsArrive, shownVars
<1>1. PickerTypes'
  BY EventTyped DEF PickerInv, PickerTypes, SessionOrNone
<1>2. mounted /\ mounted' /\ Sessions' = rows \cup live /\ enabled' = enabled
  BY DEF Sessions
<1>3. WantedComes'
  BY <1>2 DEF PickerInv, WantedComes, Filtered
<1> QED BY <1>1, <1>2, <1>3, ListsKeep

LEMMA LiveKeeps == ASSUME PickerInv, NEW s \in Known, LiveChanges(s) PROVE PickerInv'
<1> USE DEF LiveChanges, shownVars
<1>1. PickerTypes'
  BY EventTyped DEF PickerInv, PickerTypes, SessionOrNone
<1>2. /\ enabled' = enabled /\ \A x \in Sessions : x # s => x \in Sessions'
      /\ wanted' # NoSession => wanted' = wanted /\ (wanted = s /\ activeSession = s => s \in Sessions')
  BY DEF Sessions
<1>3. WantedComes'
  BY <1>2 DEF PickerInv, WantedComes, Filtered
<1> QED BY <1>1, <1>2, <1>3, ListsKeep

LEMMA ToolsKeep == ASSUME PickerInv, NEW ts \in SUBSET PickTools, ChooseTools(ts) PROVE PickerInv'
<1> USE DEF ChooseTools, shownVars
<1>1. PickerTypes'
  BY EventTyped DEF PickerInv, PickerTypes, SessionOrNone
<1>2. Sessions' = Sessions /\ enabled' = ts
  BY DEF Sessions
<1>3. WantedComes'
  <2> SUFFICES ASSUME mounted, wanted' # NoSession
               PROVE  \/ requested = wanted
                      \/ requested = NoSession /\ activeSession = wanted /\ wanted \in Sessions /\ ToolOf[wanted] \in ts
                         /\ activeTool = ToolOf[wanted]
    BY <1>2 DEF WantedComes, Filtered
  <2>1. wanted # NoSession /\ ToolOf[wanted] \in ts /\ (requested = wanted \/ activeSession = wanted)
    BY DEF PickerInv
  <2>2. activeSession = wanted => ToolOf[wanted] \in enabled
    BY <2>1, SettledFits DEF Event
  <2> QED BY <2>1, <2>2 DEF PickerInv, WantedComes, Filtered
<1>4. wanted' \in {wanted, NoSession}
  OBVIOUS
<1> QED BY <1>1, <1>3, <1>4, ListsKeep

LEMMA TabsKeep == ASSUME PickerInv, NEW t \in PickTools, PickFromTabs(t) PROVE PickerInv'
<1> USE DEF PickFromTabs
<1>1. PickerTypes'
  BY EventTyped DEF PickerInv, PickerTypes, SessionOrNone
<1>2. mounted /\ mounted' /\ Seen /\ deps = <<Deps>> /\ deps' = deps
  BY SettledFits DEF Event
<1>3. deps[1].tool = activeTool
  BY <1>2 DEF Deps
<1>4. Sessions' = Sessions /\ Filtered' = Filtered /\ Listed' = Listed
  BY DEF Sessions, Filtered, Listed
<1>5. ToolListed' /\ SessionFits' /\ WantedComes' /\ Away' /\ Fresh'
  BY <1>2, <1>3, <1>4 DEF ToolListed, SessionFits, WantedComes, Away, Fresh, Seen
<1>6. RequestWaits' /\ Remembers'
  BY <1>2, <1>4 DEF PickerInv, RequestWaits, Remembers, Seen
<1> QED BY <1>1, <1>2, <1>5, <1>6 DEF PickerInv

LEMMA ListKeeps == ASSUME PickerInv, NEW s \in Known, PickFromList(s) PROVE PickerInv'
<1> USE DEF PickFromList
<1>1. PickerTypes'
  BY EventTyped DEF PickerInv, PickerTypes, SessionOrNone
<1>2. mounted /\ mounted' /\ Seen /\ deps = <<Deps>> /\ deps' = deps
  BY SettledFits DEF Event
<1>3. deps[1].session = activeSession /\ activeTool' = activeTool /\ activeSession' = s /\ s # activeSession
  BY <1>2 DEF Deps
<1>4. Sessions' = Sessions /\ Filtered' = Filtered /\ Listed' = Listed
  BY DEF Sessions, Filtered, Listed
<1>5. s \in Filtered /\ ToolOf[s] = activeTool /\ activeTool \in Listed
  BY DEF OfTool, Listed
<1>6. ToolListed' /\ SessionFits' /\ Away' /\ Fresh'
  BY <1>2, <1>3, <1>4, <1>5 DEF ToolListed, SessionFits, Away, Fresh, Seen
<1>7. WantedComes'
  BY <1>3, <1>4, <1>5 DEF WantedComes
<1>8. RequestWaits' /\ Remembers'
  BY <1>2, <1>3, <1>4 DEF PickerInv, RequestWaits, Remembers, Seen
<1> QED BY <1>1, <1>2, <1>6, <1>7, <1>8 DEF PickerInv

LEMMA PickerStep == PickerInv /\ [PickerNext]_pickerVars => PickerInv'
<1> SUFFICES ASSUME PickerInv, [PickerNext]_pickerVars PROVE PickerInv'
  OBVIOUS
<1>1. CASE UNCHANGED pickerVars
  <2>1. Sessions' = Sessions /\ Filtered' = Filtered /\ Listed' = Listed /\ \A t : (OfTool(t))' = OfTool(t)
    BY <1>1 DEF pickerVars, Sessions, Filtered, Listed, OfTool
  <2>2. ToolOrder' = ToolOrder
    BY <2>1 DEF ToolOrder, Precedes
  <2>3. PickerTypes' /\ Seen' = Seen
    BY <1>1 DEF pickerVars, PickerInv, PickerTypes, Seen
  <2>4. ToolListed' /\ SessionFits'
    BY <1>1, <2>1, <2>2, <2>3 DEF pickerVars, PickerInv, ToolListed, SessionFits
  <2>5. RequestWaits' /\ Remembers' /\ WantedComes' /\ Away' /\ Fresh'
    BY <1>1, <2>1, <2>3 DEF pickerVars, PickerInv, RequestWaits, Remembers, WantedComes, Away, Fresh
  <2> QED BY <1>1, <2>3, <2>4, <2>5 DEF pickerVars, PickerInv
<1>2. CASE Effects
  BY <1>2, EffectsKeep
<1>3. CASE Mount
  BY <1>3, MountKeeps
<1>4. CASE Unmount
  BY <1>4, UnmountKeeps
<1>5. CASE \E s \in Known : SelectSession(s) \/ LiveChanges(s) \/ PickFromList(s)
  BY <1>5, SelectKeeps, LiveKeeps, ListKeeps
<1>6. CASE \E rows \in SUBSET Known : RowsArrive(rows)
  BY <1>6, RowsKeep
<1>7. CASE \E ts \in SUBSET PickTools : ChooseTools(ts)
  BY <1>7, ToolsKeep
<1>8. CASE \E t \in PickTools : PickFromTabs(t)
  BY <1>8, TabsKeep
<1> QED BY <1>1, <1>2, <1>3, <1>4, <1>5, <1>6, <1>7, <1>8 DEF PickerNext

LEMMA PickerStarts == PickerInit => PickerInv
<1> SUFFICES ASSUME PickerInit PROVE PickerInv
  OBVIOUS
<1>1. live \subseteq Known
  <2>1. Session[1] \in Known
    BY PickerSessions DEF Known, Range
  <2> QED BY <2>1 DEF PickerInit
<1>2. PickerTypes
  <2>1. events \in 0..MaxEvents /\ enabled \subseteq PickTools
    BY PickerSessions DEF PickerInit, EveryTool
  <2> QED BY <1>1, <2>1 DEF PickerInit, PickerTypes, SessionOrNone
<1>3. ~mounted /\ deps = <<>> /\ wanted = pending
  BY DEF PickerInit
<1> QED BY <1>2, <1>3 DEF PickerInit, PickerInv, ToolListed, SessionFits, RequestWaits, Remembers, WantedComes, Away, Fresh

\* Whatever rows arrive, tools are chosen and sessions are asked for, before the explorer is there
\* or while it is: once its effects have run, it shows the session that was asked for if that is
\* listed, never one of an excluded tool, and always one of the tool it shows (useSessionPicker).
THEOREM RequestIsShown == PickerSpec => []PickerHolds
<1>1. PickerSpec => []PickerInv
  BY PickerStarts, PickerStep, PTL DEF PickerSpec
<1> QED BY <1>1, PickerInvHolds, PTL

\* The state of the explorer has its type.
THEOREM PickerTyped == PickerSpec => []PickerTypeOK
<1>1. PickerSpec => []PickerInv
  BY PickerStarts, PickerStep, PTL DEF PickerSpec
<1> QED BY <1>1, PickerInvHolds, PTL

(* The frame ---------------------------------------------------------------- *)

ToolFilters == (SUBSET ToSet(ShellTools)) \cup {Unfiltered}

Looks(c) == [tab : ShellTabs, range : [id : ToSet(PresetIds), since : 0..c], tools : ToolFilters,
             density : ToSet(Densities), theme : Themes]

ViewsUntil(c) == [id : ViewIds, look : Looks(c)]

CommandArgs == ShellTabs \cup ToSet(PresetIds) \cup ToSet(ShellTools) \cup ViewIds \cup Themes \cup ToSet(Densities)

Kept == [kind : CommandKinds, arg : CommandArgs]

\* what the page can do now
CanDo(c) ==
    CASE c.kind = "tab" -> c.arg \in ShellTabs
      [] c.kind = "range" -> c.arg \in ToSet(PresetIds)
      [] c.kind = "filter" -> c.arg \in ToSet(ShellTools)
      [] c.kind = "view" -> c.arg \in Saved
      [] c.kind = "theme" -> c.arg \in Themes
      [] OTHER -> c.arg \in ToSet(Densities)

Doable == {c \in Kept : CanDo(c)}

ViewInv ==
    /\ look \in Looks(clock) /\ views \in Seq(ViewsUntil(clock)) /\ linked \in ViewIds \cup {NoView} /\ clock \in Nat

PaletteInv == lru \in Seq(Kept) /\ LruOnce /\ typed \in Queries

LEMMA LooksGrow ==
    ASSUME NEW c \in Nat, NEW d \in Nat, c <= d
    PROVE  Looks(c) \subseteq Looks(d) /\ Seq(ViewsUntil(c)) \subseteq Seq(ViewsUntil(d))
<1>1. [id : ToSet(PresetIds), since : 0..c] \subseteq [id : ToSet(PresetIds), since : 0..d]
  OBVIOUS
<1>2. Looks(c) \subseteq Looks(d)
  BY <1>1 DEF Looks
<1>3. ViewsUntil(c) \subseteq ViewsUntil(d)
  BY <1>2 DEF ViewsUntil
<1> QED BY <1>2, <1>3, SeqGrows

LEMMA SavedAre ==
    ASSUME ViewInv
    PROVE  /\ Saved \subseteq ViewIds
           /\ \A id \in Saved : ViewAt(id) \in ToSet(views) /\ ViewAt(id).id = id /\ ViewAt(id).look \in Looks(clock)
<1>1. \A v \in ToSet(views) : v.id \in ViewIds /\ v.look \in Looks(clock)
  <2>1. \A v \in ToSet(views) : v \in ViewsUntil(clock)
    BY DEF ViewInv, ToSet
  <2> QED BY <2>1 DEF ViewsUntil
<1>2. ASSUME NEW id \in Saved PROVE ViewAt(id) \in ToSet(views) /\ ViewAt(id).id = id
  BY DEF Saved, ViewAt
<1> QED BY <1>1, <1>2 DEF Saved

LEMMA CommandsOfAre ==
    ASSUME NEW kind \in CommandKinds, NEW A, NEW args \in Seq(A), NEW G,
           \A a \in A : [kind |-> kind, arg |-> a] \in G
    PROVE  CommandsOf(kind, args) \in Seq(G)
<1>1. Len(args) \in Nat /\ DOMAIN args = 1..Len(args)
  OBVIOUS
<1>2. CommandsOf(kind, args) = [i \in 1..Len(args) |-> [kind |-> kind, arg |-> args[i]]]
  BY <1>1 DEF CommandsOf, Command
<1>3. \A i \in 1..Len(args) : [kind |-> kind, arg |-> args[i]] \in G
  OBVIOUS
<1> QED BY <1>1, <1>2, <1>3, SeqBuilt

LEMMA TabsAre ==
    LET s == Picked(TabRing, {i \in DOMAIN TabRing : TabRing[i] # HomeTab}) IN s \in Seq(ShellTabs)
<1> DEFINE P == {i \in DOMAIN TabRing : TabRing[i] # HomeTab}
<1>1. TabRing \in Seq(ToSet(TabRing))
  BY ShellData
<1>2. P \in SUBSET DOMAIN TabRing /\ \A i \in P : TabRing[i] \in ShellTabs
  BY <1>1 DEF ShellTabs
<1> HIDE DEF P
<1> DEFINE s == Picked(TabRing, P)
<1>3. s \in Seq(ToSet(TabRing)) /\ \A n \in DOMAIN s : Nth(P, n) \in P /\ s[n] = TabRing[Nth(P, n)]
  BY <1>1, <1>2, PickedIs
<1> HIDE DEF s
<1>4. Len(s) \in Nat /\ DOMAIN s = 1..Len(s) /\ s = [i \in 1..Len(s) |-> s[i]]
  BY <1>3
<1>5. \A n \in 1..Len(s) : s[n] \in ShellTabs
  BY <1>2, <1>3, <1>4
<1>6. s \in Seq(ShellTabs)
  BY <1>4, <1>5, SeqBuilt
<1> QED BY <1>6 DEF s, P

LEMMA CommandsAre == ASSUME ViewInv PROVE Commands \in Seq(Doable)
<1> DEFINE tabs == Picked(TabRing, {i \in DOMAIN TabRing : TabRing[i] # HomeTab})
           ids == [i \in DOMAIN views |-> views[i].id]
<1> USE DEF CommandKinds
<1>1. CommandsOf("tab", tabs) \in Seq(Doable)
  <2>1. \A a \in ShellTabs : [kind |-> "tab", arg |-> a] \in Doable
    BY DEF Doable, Kept, CanDo, CommandArgs
  <2>2. tabs \in Seq(ShellTabs)
    BY TabsAre
  <2> HIDE DEF tabs
  <2> QED BY <2>1, <2>2, CommandsOfAre
<1>2. CommandsOf("range", PresetIds) \in Seq(Doable)
  <2>1. \A a \in ToSet(PresetIds) : [kind |-> "range", arg |-> a] \in Doable
    BY DEF Doable, Kept, CanDo, CommandArgs
  <2>2. PresetIds \in Seq(ToSet(PresetIds))
    BY ShellData
  <2> QED BY <2>1, <2>2, CommandsOfAre
<1>3. CommandsOf("filter", ShellTools) \in Seq(Doable)
  <2>1. \A a \in ToSet(ShellTools) : [kind |-> "filter", arg |-> a] \in Doable
    BY DEF Doable, Kept, CanDo, CommandArgs
  <2>2. ShellTools \in Seq(ToSet(ShellTools))
    BY ShellData
  <2> QED BY <2>1, <2>2, CommandsOfAre
<1>4. CommandsOf("view", ids) \in Seq(Doable)
  <2>1. \A a \in Saved : [kind |-> "view", arg |-> a] \in Doable
    BY SavedAre DEF Doable, Kept, CanDo, CommandArgs
  <2>2. ids \in Seq(Saved)
    <3>1. Len(views) \in Nat /\ DOMAIN views = 1..Len(views) /\ \A i \in DOMAIN views : views[i] \in ToSet(views)
      BY DEF ViewInv, ToSet
    <3>2. ids = [i \in 1..Len(views) |-> ids[i]] /\ \A i \in 1..Len(views) : ids[i] \in Saved
      BY <3>1 DEF Saved
    <3> HIDE DEF ids
    <3> QED BY <3>1, <3>2, SeqBuilt
  <2> HIDE DEF ids
  <2> QED BY <2>1, <2>2, CommandsOfAre
<1>5. CommandsOf("theme", Append(ThemeCycle, Editorial)) \in Seq(Doable)
  <2>1. \A a \in Themes : [kind |-> "theme", arg |-> a] \in Doable
    BY DEF Doable, Kept, CanDo, CommandArgs
  <2>2. ThemeCycle \in Seq(ToSet(ThemeCycle)) /\ ToSet(ThemeCycle) \subseteq Themes /\ Editorial \in Themes
    BY ShellData DEF Themes
  <2>3. ThemeCycle \in Seq(Themes)
    BY <2>2, SeqGrows
  <2>4. Append(ThemeCycle, Editorial) \in Seq(Themes)
    BY <2>2, <2>3
  <2> QED BY <2>1, <2>4, CommandsOfAre
<1>6. CommandsOf("density", Densities) \in Seq(Doable)
  <2>1. \A a \in ToSet(Densities) : [kind |-> "density", arg |-> a] \in Doable
    BY DEF Doable, Kept, CanDo, CommandArgs
  <2>2. Densities \in Seq(ToSet(Densities))
    BY ShellData
  <2> QED BY <2>1, <2>2, CommandsOfAre
<1> HIDE DEF tabs, ids
<1>7. Commands = CommandsOf("tab", tabs) \o CommandsOf("range", PresetIds) \o CommandsOf("filter", ShellTools)
                 \o CommandsOf("view", ids) \o CommandsOf("theme", Append(ThemeCycle, Editorial)) \o CommandsOf("density", Densities)
  BY DEF Commands, tabs, ids
<1>8. \A s, t : s \in Seq(Doable) /\ t \in Seq(Doable) => s \o t \in Seq(Doable)
  OBVIOUS
<1> QED BY <1>1, <1>2, <1>3, <1>4, <1>5, <1>6, <1>7, <1>8

LEMMA DoableIs ==
    ASSUME NEW c \in Doable
    PROVE  c \in Kept /\ c.kind \in CommandKinds /\ CanDo(c)
BY DEF Doable, Kept

LEMMA SomeAreDoable ==
    ASSUME NEW S, NEW s \in Seq(S), NEW P \in SUBSET DOMAIN s, NEW T, \A i \in P : s[i] \in T
    PROVE  Picked(s, P) \in Seq(T)
<1> DEFINE t == Picked(s, P)
<1>1. t \in Seq(S) /\ \A n \in DOMAIN t : Nth(P, n) \in P /\ t[n] = s[Nth(P, n)]
  BY PickedIs
<1> HIDE DEF t
<1>2. Len(t) \in Nat /\ t = [i \in 1..Len(t) |-> t[i]] /\ \A i \in 1..Len(t) : t[i] \in T
  BY <1>1
<1>3. t \in Seq(T)
  BY <1>2, SeqBuilt
<1> QED BY <1>3 DEF t

Better(hits) ==
    {x \in (DOMAIN hits) \X (DOMAIN hits) :
        \/ Score(hits[x[1]]) > Score(hits[x[2]])
        \/ Score(hits[x[1]]) = Score(hits[x[2]]) /\ x[1] < x[2]}

LEMMA BetterIs ==
    ASSUME PaletteInv, NEW hits \in Seq(Doable)
    PROVE  StrictOrder(Better(hits), DOMAIN hits)
<1> DEFINE better(i, j) == \/ Score(hits[i]) > Score(hits[j])
                           \/ Score(hits[i]) = Score(hits[j]) /\ i < j
<1>1. \A i \in DOMAIN hits : Score(hits[i]) \in Nat /\ i \in Nat
  <2>1. \A i \in DOMAIN hits : hits[i] \in Doable /\ i \in Nat
    OBVIOUS
  <2>2. \A i \in DOMAIN hits : hits[i].kind \in CommandKinds
    BY <2>1, DoableIs
  <2>3. typed \in [CommandKinds -> Nat]
    BY ShellData DEF PaletteInv
  <2> QED BY <2>1, <2>2, <2>3 DEF Score
<1>2. ASSUME NEW i \in DOMAIN hits, NEW j \in DOMAIN hits PROVE <<i, j>> \in Better(hits) <=> better(i, j)
  <2>1. <<i, j>> \in (DOMAIN hits) \X (DOMAIN hits) /\ <<i, j>>[1] = i /\ <<i, j>>[2] = j
    OBVIOUS
  <2> QED BY <2>1 DEF Better
<1>3. \A i \in DOMAIN hits : ~better(i, i)
  BY <1>1
<1>4. \A i, j \in DOMAIN hits : i # j => better(i, j) \/ better(j, i)
  BY <1>1
<1>5. \A i, j, k \in DOMAIN hits : better(i, j) /\ better(j, k) => better(i, k)
  BY <1>1
<1> HIDE DEF better
<1> QED BY <1>2, <1>3, <1>4, <1>5 DEF StrictOrder

LEMMA FoundAre == ASSUME ViewInv, PaletteInv PROVE Found \in Seq(Doable)
<1>1. Commands \in Seq(Doable)
  BY CommandsAre
<1>2. CASE typed = NoQueryTyped
  <2> DEFINE U == {i \in DOMAIN lru : Offered(lru[i])} R == {i \in DOMAIN Commands : ~IsUsed(Commands[i])}
  <2>1. Picked(lru, U) \in Seq(Doable)
    <3>1. U \in SUBSET DOMAIN lru /\ \A i \in U : lru[i] \in Doable
      BY <1>1 DEF Offered
    <3>2. lru \in Seq(Kept)
      BY DEF PaletteInv
    <3> HIDE DEF U
    <3> QED BY <3>1, <3>2, SomeAreDoable
  <2>2. Picked(Commands, R) \in Seq(Doable)
    <3>1. R \in SUBSET DOMAIN Commands
      OBVIOUS
    <3> HIDE DEF R
    <3> QED BY <1>1, <3>1, PickedIs
  <2>3. Found = Picked(lru, U) \o Picked(Commands, R)
    BY <1>2 DEF Found
  <2> HIDE DEF U, R
  <2> QED BY <2>1, <2>2, <2>3
<1>3. CASE typed # NoQueryTyped
  <2> DEFINE H == {i \in DOMAIN Commands : Score(Commands[i]) > 0} hits == Picked(Commands, H)
  <2>1. hits \in Seq(Doable)
    <3>1. H \in SUBSET DOMAIN Commands
      OBVIOUS
    <3> HIDE DEF H
    <3> QED BY <1>1, <3>1, PickedIs
  <2>2. Found = Ordered(hits, Better(hits))
    BY <1>3 DEF Found, Better
  <2> HIDE DEF hits
  <2>3. StrictOrder(Better(hits), DOMAIN hits)
    BY <2>1, BetterIs
  <2> QED BY <2>1, <2>2, <2>3, SortedIs
<1> QED BY <1>2, <1>3

GroupsApart(found) ==
    LET lead == Firsts(found) \o <<>>
    IN  {x \in (DOMAIN found) \X (DOMAIN found) :
            lead[x[1]] < lead[x[2]] \/ (lead[x[1]] = lead[x[2]] /\ x[1] < x[2])}

LEMMA FirstsAre ==
    ASSUME NEW S, NEW found \in Seq(S)
    PROVE  /\ Firsts(found) \in Seq(DOMAIN found) /\ Firsts(found) \o <<>> = Firsts(found)
           /\ \A i \in DOMAIN found : LET f == Firsts(found)[i] IN
                /\ f \in DOMAIN found /\ GroupIn(found[f]) = GroupIn(found[i])
                /\ \A j \in DOMAIN found : GroupIn(found[j]) = GroupIn(found[i]) => f <= j
<1> DEFINE D == DOMAIN found mates(i) == {j \in D : GroupIn(found[j]) = GroupIn(found[i])} f == Firsts(found)
<1>1. D = 1..Len(found) /\ Len(found) \in Nat
  OBVIOUS
<1>2. f = [i \in D |-> Min(mates(i))]
  BY DEF Firsts
<1>3. ASSUME NEW i \in D PROVE Min(mates(i)) \in mates(i) /\ \A j \in mates(i) : Min(mates(i)) <= j
  <2>1. mates(i) \in SUBSET Nat /\ mates(i) # {}
    BY <1>1
  <2> HIDE DEF mates
  <2>2. \E n \in mates(i) : \A k \in mates(i) : n <= k
    BY <2>1, LeastNumber
  <2> QED BY <2>2 DEF Min
<1> HIDE DEF f
<1>4. \A i \in D : f[i] \in D
  BY <1>2, <1>3
<1>5. f \in Seq(D)
  <2>1. f = [i \in 1..Len(found) |-> f[i]] /\ \A i \in 1..Len(found) : f[i] \in D
    BY <1>1, <1>2, <1>4
  <2> HIDE DEF D
  <2> QED BY <1>1, <2>1, SeqBuilt
<1>6. f \o <<>> = f
  BY <1>5
<1>7. \A i \in D : GroupIn(found[f[i]]) = GroupIn(found[i]) /\ \A j \in D : GroupIn(found[j]) = GroupIn(found[i]) => f[i] <= j
  BY <1>2, <1>3
<1> QED BY <1>4, <1>5, <1>6, <1>7 DEF f

LEMMA GroupsApartIs ==
    ASSUME NEW S, NEW found \in Seq(S)
    PROVE  /\ StrictOrder(GroupsApart(found), DOMAIN found)
           /\ \A i, j \in DOMAIN found : LET f == Firsts(found) IN
                <<i, j>> \in GroupsApart(found) <=> f[i] < f[j] \/ (f[i] = f[j] /\ i < j)
<1> DEFINE D == DOMAIN found f == Firsts(found) apart(i, j) == f[i] < f[j] \/ (f[i] = f[j] /\ i < j)
<1>1. f \o <<>> = f /\ \A i \in D : f[i] \in D
  BY FirstsAre
<1>2. \A i \in D : i \in Nat
  OBVIOUS
<1>3. GroupsApart(found) = {x \in D \X D : apart(x[1], x[2])}
  BY <1>1 DEF GroupsApart
<1> HIDE DEF f
<1>4. \A i \in D : f[i] \in Nat
  BY <1>1, <1>2
<1>5. ASSUME NEW i \in D, NEW j \in D PROVE <<i, j>> \in GroupsApart(found) <=> apart(i, j)
  <2>1. <<i, j>> \in D \X D /\ <<i, j>>[1] = i /\ <<i, j>>[2] = j
    OBVIOUS
  <2> HIDE DEF D
  <2> QED BY <1>3, <2>1
<1>6. \A i \in D : ~apart(i, i)
  BY <1>2, <1>4
<1>7. \A i, j \in D : i # j => apart(i, j) \/ apart(j, i)
  BY <1>2, <1>4
<1>8. \A i, j, k \in D : apart(i, j) /\ apart(j, k) => apart(i, k)
  BY <1>2, <1>4
<1>9. \A i, j \in D : <<i, j>> \in GroupsApart(found) <=> apart(i, j)
  BY <1>5
<1> HIDE DEF apart
<1>10. StrictOrder(GroupsApart(found), D)
  BY <1>5, <1>6, <1>7, <1>8 DEF StrictOrder
<1> QED BY <1>9, <1>10 DEF apart, f

LEMMA ByGroupIs ==
    ASSUME NEW S, NEW found \in Seq(S)
    PROVE  ByGroup(found) \in Seq(S) /\ ToSet(ByGroup(found)) = ToSet(found)
<1> DEFINE t == ByGroup(found) D == DOMAIN found B == GroupsApart(found) nth(n) == AtPlace(B, D, n)
<1>1. t = Ordered(found, B)
  BY DEF ByGroup, GroupsApart
<1>2. StrictOrder(B, D)
  BY GroupsApartIs
<1>3. /\ t \in Seq(S) /\ DOMAIN t = D
      /\ \A n \in DOMAIN t : nth(n) \in D /\ t[n] = found[nth(n)]
      /\ \A i \in D : \E n \in DOMAIN t : nth(n) = i
  <2> HIDE DEF t, B
  <2> QED BY <1>1, <1>2, SortedIs
<1> HIDE DEF t, D, nth
<1>4. \A x \in ToSet(t) : x \in ToSet(found)
  BY <1>3 DEF ToSet, D
<1>5. \A x \in ToSet(found) : x \in ToSet(t)
  <2>1. ASSUME NEW i \in D PROVE found[i] \in ToSet(t)
    <3>1. PICK n \in DOMAIN t : nth(n) = i
      BY <1>3
    <3>2. t[n] = found[i]
      BY <1>3, <3>1
    <3> QED BY <3>2 DEF ToSet
  <2> QED BY <2>1 DEF ToSet, D
<1> QED BY <1>3, <1>4, <1>5 DEF t

\* an order in which the earlier place always comes first changes nothing
LEMMA OrderedSame ==
    ASSUME NEW S, NEW s \in Seq(S), NEW B, StrictOrder(B, DOMAIN s), \A i, j \in DOMAIN s : i < j => <<i, j>> \in B
    PROVE  Ordered(s, B) = s
<1> DEFINE D == DOMAIN s
<1>1. Len(s) \in Nat /\ D = 1..Len(s)
  OBVIOUS
<1>2. \A i, j \in D : <<j, i>> \in B <=> j < i
  <2>1. \A i \in D : i \in Int
    BY <1>1
  <2>2. ASSUME NEW i \in D, NEW j \in D, <<j, i>> \in B PROVE j < i
    <3>1. j # i
      BY <2>2 DEF StrictOrder
    <3>2. ~(i < j)
      <4>1. <<i, j>> \in B => <<i, i>> \in B
        BY <2>2 DEF StrictOrder
      <4> QED BY <4>1 DEF StrictOrder
    <3> QED BY <2>1, <3>1, <3>2
  <2> QED BY <2>2
<1>3. IsFiniteSet(D) /\ Cardinality(D) = Len(s)
  <2>1. 1 \in Int /\ Len(s) \in Int /\ (1 > Len(s) <=> Len(s) = 0) /\ Len(s) - 1 + 1 = Len(s)
    BY <1>1
  <2> QED BY <1>1, <2>1, FS_Interval
<1>4. ASSUME NEW i \in D PROVE PlaceUnder(B, D, i) = i
  <2>1. {j \in D : <<j, i>> \in B} = 1..(i - 1)
    BY <1>1, <1>2
  <2>2. 1 \in Int /\ i - 1 \in Int /\ (1 > i - 1 <=> i - 1 = 0) /\ (i - 1) - 1 + 1 = i - 1 /\ (i - 1) + 1 = i
    BY <1>1
  <2>3. Cardinality(1..(i - 1)) = i - 1
    BY <2>2, FS_Interval
  <2> QED BY <2>1, <2>2, <2>3 DEF PlaceUnder
<1>5. ASSUME NEW n \in D PROVE AtPlace(B, D, n) = n
  <2>1. n \in 1..Cardinality(D)
    BY <1>1, <1>3
  <2>2. AtPlace(B, D, n) \in D /\ PlaceUnder(B, D, AtPlace(B, D, n)) = n
    BY <1>3, <2>1, AtPlaceIs
  <2> QED BY <1>4, <2>2
<1> DEFINE t == Ordered(s, B)
<1>6. t = [n \in D |-> s[AtPlace(B, D, n)]]
  BY DEF Ordered
<1> HIDE DEF t
<1>7. t = [n \in D |-> t[n]] /\ \A n \in D : t[n] = s[n]
  BY <1>5, <1>6
<1>8. t = s
  BY <1>7, SeqSame
<1> QED BY <1>8 DEF t

\* The mark on the page is on the command that the key runs, unless the groups interleave.
LEMMA MarkedIsRun ==
    ASSUME NEW S, NEW found \in Seq(S),
           ~\E i, j, k \in DOMAIN found :
               i < j /\ j < k /\ GroupIn(found[i]) = GroupIn(found[k]) /\ GroupIn(found[j]) # GroupIn(found[i])
    PROVE  ByGroup(found) = found
<1> DEFINE D == DOMAIN found B == GroupsApart(found) f == Firsts(found)
<1>1. StrictOrder(B, D) /\ \A i, j \in D : <<i, j>> \in B <=> f[i] < f[j] \/ (f[i] = f[j] /\ i < j)
  BY GroupsApartIs
<1>2. \A i \in D : /\ f[i] \in D /\ GroupIn(found[f[i]]) = GroupIn(found[i])
                   /\ \A j \in D : GroupIn(found[j]) = GroupIn(found[i]) => f[i] <= j
  BY FirstsAre
<1>3. \A i \in D : i \in Nat
  OBVIOUS
<1>4. ByGroup(found) = Ordered(found, B)
  BY DEF ByGroup, GroupsApart
<1> HIDE DEF f, B
<1>5. ASSUME NEW i \in D, NEW j \in D, i < j PROVE <<i, j>> \in B
  <2>1. f[i] \in D /\ f[j] \in D /\ f[i] <= i /\ f[i] \in Nat /\ f[j] \in Nat
    BY <1>2, <1>3
  <2>2. CASE f[i] <= f[j]
    BY <1>1, <1>5, <2>1, <2>2
  <2>3. CASE f[j] < f[i]
    <3>1. GroupIn(found[j]) # GroupIn(found[i])
      <4>1. GroupIn(found[j]) = GroupIn(found[i]) => f[i] <= f[j]
        BY <1>2, <2>1
      <4> QED BY <2>1, <2>3, <4>1
    <3>2. f[j] < i /\ GroupIn(found[f[j]]) = GroupIn(found[j])
      BY <1>2, <1>3, <2>1, <2>3
    <3> QED BY <1>5, <2>1, <3>1, <3>2
  <2> QED BY <2>1, <2>2, <2>3
<1>6. \A i, j \in D : i < j => <<i, j>> \in B
  BY <1>5
<1> QED BY <1>1, <1>4, <1>6, OrderedSame

LEMMA LookIs ==
    ASSUME NEW c, NEW l \in Looks(c)
    PROVE  /\ l.tab \in ShellTabs /\ l.theme \in Themes /\ l.density \in ToSet(Densities) /\ l.tools \in ToolFilters
           /\ l.range \in [id : ToSet(PresetIds), since : 0..c]
           /\ \A x \in ShellTabs : [l EXCEPT !.tab = x] \in Looks(c)
           /\ \A x \in [id : ToSet(PresetIds), since : 0..c] : [l EXCEPT !.range = x] \in Looks(c)
           /\ \A x \in ToolFilters : [l EXCEPT !.tools = x] \in Looks(c)
           /\ \A x \in Themes : [l EXCEPT !.theme = x] \in Looks(c)
           /\ \A x \in ToSet(Densities) : [l EXCEPT !.density = x] \in Looks(c)
BY DEF Looks

LEMMA FilterSets ==
    ASSUME NEW S, NEW U, NEW x \in (SUBSET S) \cup {U}, x # U, NEW a \in S
    PROVE  /\ x \ {a} \in (SUBSET S) \cup {U} /\ x \cup {a} \in (SUBSET S) \cup {U}
           /\ U \in (SUBSET S) \cup {U}
<1>1. x \subseteq S
  OBVIOUS
<1>2. x \ {a} \subseteq S /\ x \cup {a} \subseteq S
  BY <1>1
<1> QED BY <1>2

\* what a command makes of the page is a page
LEMMA CommandLooks == ASSUME ViewInv, NEW c \in Doable PROVE LookAfter(c) \in Looks(clock)
<1> USE DoableIs
<1>0. look \in Looks(clock) /\ clock \in Nat
  BY DEF ViewInv
<1>1. CASE c.kind = "tab"
  BY <1>0, <1>1, LookIs DEF LookAfter, CanDo
<1>2. CASE c.kind = "range"
  <2>1. Preset(c.arg) \in [id : ToSet(PresetIds), since : 0..clock]
    BY <1>0, <1>2 DEF Preset, CanDo
  <2> QED BY <1>0, <1>2, <2>1, LookIs DEF LookAfter
<1>3. CASE c.kind = "filter"
  <2>1. TogglesTool(c.arg) \in ToolFilters
    <3>1. look.tools \in ToolFilters /\ c.arg \in ToSet(ShellTools)
      BY <1>0, <1>3, LookIs DEF CanDo
    <3>2. CASE look.tools = Unfiltered
      BY <3>2 DEF TogglesTool, ToolFilters
    <3>3. CASE look.tools # Unfiltered
      <4>1. /\ look.tools \ {c.arg} \in ToolFilters /\ look.tools \cup {c.arg} \in ToolFilters
            /\ Unfiltered \in ToolFilters
        BY <3>1, <3>3, FilterSets DEF ToolFilters
      <4> QED BY <3>3, <4>1 DEF TogglesTool
    <3> QED BY <3>2, <3>3
  <2> QED BY <1>0, <1>3, <2>1, LookIs DEF LookAfter
<1>4. CASE c.kind = "view"
  BY <1>4, SavedAre DEF LookAfter, CanDo
<1>5. CASE c.kind = "theme"
  BY <1>0, <1>5, LookIs DEF LookAfter, CanDo
<1>6. CASE c.kind = "density"
  BY <1>0, <1>6, LookIs DEF LookAfter, CanDo
<1> QED BY <1>1, <1>2, <1>3, <1>4, <1>5, <1>6 DEF CommandKinds

LEMMA DoesViews == ASSUME ViewInv, NEW c \in Doable, Does(c), clock' = clock PROVE ViewInv'
<1>1. look' \in Looks(clock)
  BY CommandLooks DEF Does, Becomes
<1>2. linked' \in ViewIds \cup {NoView}
  <2>1. c.kind = "view" => c.arg \in Saved
    BY DoableIs DEF CanDo
  <2> QED BY <2>1, SavedAre DEF Does, ViewInv
<1>3. views' = views
  BY DEF Does
<1> QED BY <1>1, <1>2, <1>3 DEF ViewInv

LEMMA NewLookViews == ASSUME ViewInv, look' \in Looks(clock), UNCHANGED <<views, linked, clock>> PROVE ViewInv'
BY DEF ViewInv

LEMMA SameViews == ASSUME ViewInv, UNCHANGED <<viewVars, clock>> PROVE ViewInv'
BY DEF ViewInv, viewVars

LEMMA PressTabViews == ASSUME ViewInv, NEW step \in {1, -1}, PressTab(step) PROVE ViewInv'
<1>1. NextTab(step) \in ToSet(TabRing)
  <2> DEFINE n == Len(TabRing)
             around == SelectInSeq(TabRing, LAMBDA t : t = look.tab)
  <2>1. TabRing \in Seq(ToSet(TabRing)) /\ n \in Nat
    BY ShellData
  <2>2. n > 0
    <3>1. TabRing # <<>>
      BY ShellData DEF ToSet
    <3> QED BY <2>1, <3>1
  <2>3. around \in Int
    <3> DEFINE I == {i \in 1..Len(TabRing) : TabRing[i] = look.tab}
    <3>1. I \in SUBSET Nat
      OBVIOUS
    <3>2. around = IF I # {} THEN Min(I) ELSE 0
      BY DEF SelectInSeq
    <3> HIDE DEF I
    <3>3. I # {} => Min(I) \in I
      BY <3>1, LeastNumber DEF Min
    <3> QED BY <3>1, <3>2, <3>3
  <2>4. NextTab(step) = TabRing[((around - 1 + step + n) % n) + 1]
    BY DEF NextTab
  <2> HIDE DEF around, n
  <2>5. around - 1 + step + n \in Int
    BY <2>1, <2>3
  <2>6. \A x \in Int : x % n \in 0..(n - 1)
    BY <2>1, <2>2
  <2>7. ((around - 1 + step + n) % n) + 1 \in 1..n
    <3> DEFINE m == (around - 1 + step + n) % n
    <3>1. m \in 0..(n - 1)
      BY <2>5, <2>6
    <3> HIDE DEF m
    <3>2. m + 1 \in 1..n
      BY <2>1, <2>2, <3>1
    <3> QED BY <3>2 DEF m
  <2> QED BY <2>1, <2>4, <2>7 DEF n
<1>2. NextTab(step) \in ShellTabs
  BY <1>1 DEF PressTab, ShellTabs
<1>3. [look EXCEPT !.tab = NextTab(step)] \in Looks(clock)
  BY <1>2, LookIs DEF ViewInv
<1> QED BY <1>3, NewLookViews DEF PressTab, Becomes

LEMMA UseViews == ASSUME ViewInv, NEW id \in Saved, UseView(id) PROVE ViewInv'
<1>1. ViewAt(id).look \in Looks(clock) /\ id \in ViewIds
  BY SavedAre
<1> QED BY <1>1 DEF ViewInv, UseView, ApplyView, Becomes

LEMMA SaveViews == ASSUME ViewInv, NEW id \in ViewIds, SaveView(id) PROVE ViewInv'
<1>1. [id |-> id, look |-> look] \in ViewsUntil(clock)
  BY DEF ViewInv, ViewsUntil
<1>2. Append(views, [id |-> id, look |-> look]) \in Seq(ViewsUntil(clock))
  BY <1>1 DEF ViewInv
<1> QED BY <1>2 DEF ViewInv, SaveView

LEMMA DeleteViews == ASSUME ViewInv, NEW id \in Saved, DeleteView(id) PROVE ViewInv'
<1> DEFINE P == {i \in DOMAIN views : views[i].id # id}
<1>1. P \in SUBSET DOMAIN views /\ views \in Seq(ViewsUntil(clock))
  BY DEF ViewInv
<1>2. views' = Picked(views, P)
  BY DEF DeleteView
<1> HIDE DEF P
<1>3. views' \in Seq(ViewsUntil(clock))
  BY <1>1, <1>2, PickedIs
<1> QED BY <1>3 DEF ViewInv, DeleteView

LEMMA PresetViews == ASSUME ViewInv, NEW id \in ToSet(PresetIds), ChoosePreset(id) PROVE ViewInv'
<1>1. clock \in Nat /\ clock' = clock + 1 /\ clock' \in Nat /\ clock <= clock'
  BY DEF ChoosePreset, ViewInv
<1>2. look \in Looks(clock') /\ views \in Seq(ViewsUntil(clock'))
  BY <1>1, LooksGrow DEF ViewInv
<1>3. [id |-> id, since |-> clock'] \in [id : ToSet(PresetIds), since : 0..clock']
  BY <1>1
<1>4. look' \in Looks(clock')
  BY <1>2, <1>3, LookIs DEF ChoosePreset
<1> QED BY <1>1, <1>2, <1>4 DEF ViewInv, ChoosePreset, Looks, ViewsUntil

LEMMA ThemeViews == ASSUME ViewInv, CycleTheme PROVE ViewInv'
<1> DEFINE n == Len(ThemeCycle) i == SelectInSeq(ThemeCycle, LAMBDA t : t = look.theme)
<1>1. ThemeCycle \in Seq(ToSet(ThemeCycle)) /\ ThemeCycle # <<>>
  BY ShellData
<1>2. n \in Nat /\ n > 0
  BY <1>1
<1>3. i \in Nat
  <2> DEFINE I == {j \in 1..Len(ThemeCycle) : ThemeCycle[j] = look.theme}
  <2>1. I \in SUBSET Nat
    OBVIOUS
  <2>2. i = IF I # {} THEN Min(I) ELSE 0
    BY DEF SelectInSeq
  <2> HIDE DEF I
  <2>3. I # {} => Min(I) \in I
    BY <2>1, LeastNumber DEF Min
  <2> QED BY <2>1, <2>2, <2>3
<1>4. look' = [look EXCEPT !.theme = ThemeCycle[(i % n) + 1]]
  BY DEF CycleTheme
<1> HIDE DEF i
<1>5. (i % n) + 1 \in 1..n
  <2>1. i % n \in 0..(n - 1)
    <3> HIDE DEF n
    <3> QED BY <1>2, <1>3
  <2> HIDE DEF n
  <2> QED BY <1>2, <2>1
<1>6. ThemeCycle[(i % n) + 1] \in Themes
  BY <1>1, <1>5 DEF Themes
<1>7. look' \in Looks(clock)
  BY <1>4, <1>6, LookIs DEF ViewInv
<1> QED BY <1>7, NewLookViews DEF CycleTheme

LEMMA ReloadViews == ASSUME ViewInv, ReloadPage PROVE ViewInv'
<1>1. clock \in Nat /\ clock' = clock + 1 /\ clock' \in Nat /\ clock <= clock'
  BY DEF ReloadPage, ViewInv
<1>2. look \in Looks(clock') /\ Looks(clock) \subseteq Looks(clock') /\ views \in Seq(ViewsUntil(clock'))
  BY <1>1, LooksGrow DEF ViewInv
<1>3. CASE linked \in Saved
  <2>1. look' \in Looks(clock')
    BY <1>2, <1>3, SavedAre DEF ReloadPage
  <2> QED BY <1>1, <1>2, <2>1 DEF ViewInv, ReloadPage, Looks, ViewsUntil
<1>4. CASE linked \notin Saved
  <2>1. look.range \in [id : ToSet(PresetIds), since : 0..clock']
    BY <1>2, LookIs
  <2>2. [look.range EXCEPT !.since = clock'] \in [id : ToSet(PresetIds), since : 0..clock']
    BY <1>1, <2>1
  <2>3. look' = [look EXCEPT !.range = [look.range EXCEPT !.since = clock']]
    BY <1>4 DEF ReloadPage
  <2>4. look' \in Looks(clock')
    BY <1>2, <2>2, <2>3, LookIs
  <2> QED BY <1>1, <1>2, <2>4 DEF ViewInv, ReloadPage, Looks, ViewsUntil
<1> QED BY <1>3, <1>4

LEMMA RunViews == ASSUME ViewInv, NEW c \in Doable, Run(c) PROVE ViewInv'
BY DoesViews DEF Run

(* The commands used last: one that is used again comes first and is not there twice. *)

LEMMA UseRecorded ==
    ASSUME NEW S, lru \in Seq(S), IsInjective(lru), NEW c \in S
    PROVE  RecordUse(c) \in Seq(S) /\ IsInjective(RecordUse(c)) /\ Len(RecordUse(c)) <= LruMax
<1> DEFINE P == {i \in DOMAIN lru : lru[i] # c} rest == Picked(lru, P) used == <<c>> \o rest
<1>1. P \in SUBSET DOMAIN lru /\ \A i \in P : lru[i] # c
  OBVIOUS
<1> HIDE DEF P
<1>2. /\ rest \in Seq(S) /\ \A n \in DOMAIN rest : Nth(P, n) \in P /\ rest[n] = lru[Nth(P, n)]
      /\ \A n, m \in DOMAIN rest : n < m => Nth(P, n) < Nth(P, m)
  BY <1>1, PickedIs
<1> HIDE DEF rest
<1>3. \A n \in DOMAIN rest : rest[n] # c
  BY <1>1, <1>2
<1>4. \A n, m \in DOMAIN rest : rest[n] = rest[m] => n = m
  <2> SUFFICES ASSUME NEW n \in DOMAIN rest, NEW m \in DOMAIN rest, rest[n] = rest[m] PROVE n = m
    OBVIOUS
  <2>1. Nth(P, n) \in DOMAIN lru /\ Nth(P, m) \in DOMAIN lru /\ lru[Nth(P, n)] = lru[Nth(P, m)]
    BY <1>1, <1>2
  <2>2. Nth(P, n) = Nth(P, m)
    BY <2>1 DEF IsInjective
  <2>3. n \in Nat /\ m \in Nat /\ Nth(P, n) \in Nat
    BY <1>2, <2>1
  <2> QED BY <1>2, <2>2, <2>3
<1>5. used \in Seq(S) /\ Len(used) = Len(rest) + 1 /\ used[1] = c /\ \A i \in 2..Len(used) : used[i] = rest[i - 1]
  BY <1>2
<1> HIDE DEF used
<1>6. \A i, j \in DOMAIN used : used[i] = used[j] => i = j
  <2>1. \A i \in DOMAIN used : i = 1 \/ (i \in 2..Len(used) /\ i - 1 \in DOMAIN rest)
    BY <1>2, <1>5
  <2> SUFFICES ASSUME NEW i \in DOMAIN used, NEW j \in DOMAIN used, used[i] = used[j] PROVE i = j
    OBVIOUS
  <2>2. CASE i = 1 \/ j = 1
    BY <1>3, <1>5, <2>1, <2>2
  <2>3. CASE i # 1 /\ j # 1
    <3>1. i - 1 = j - 1
      BY <1>4, <1>5, <2>1, <2>3
    <3>2. i \in Nat /\ j \in Nat
      BY <1>5
    <3> QED BY <3>1, <3>2
  <2> QED BY <2>2, <2>3
<1> DEFINE t == SubSeq(used, 1, Min({LruMax, Len(used)}))
<1>7. t \in Seq(S) /\ Len(t) <= LruMax /\ \A i \in DOMAIN t : i \in DOMAIN used /\ t[i] = used[i]
  BY <1>5, ShellData, CutSeq
<1>8. RecordUse(c) = t
  BY DEF RecordUse, used, rest, P
<1> HIDE DEF t
<1>9. IsInjective(t)
  BY <1>6, <1>7 DEF IsInjective
<1> QED BY <1>7, <1>8, <1>9

LEMMA RunPalette == ASSUME PaletteInv, NEW c \in Doable, Run(c) PROVE PaletteInv'
<1>1. c \in Kept
  BY DoableIs
<1>2. RecordUse(c) \in Seq(Kept) /\ IsInjective(RecordUse(c)) /\ Len(RecordUse(c)) <= LruMax
  BY <1>1, UseRecorded DEF PaletteInv, LruOnce
<1> QED BY <1>2 DEF PaletteInv, LruOnce, Run

LEMMA SamePalette == ASSUME PaletteInv, UNCHANGED lru, typed' \in Queries PROVE PaletteInv'
BY DEF PaletteInv, LruOnce

(* The notices -------------------------------------------------------------- *)

ToastIds == Nat \ {0}
Holders == {pointerOn, focusOn}
ToastInv ==
    /\ toasts \in Seq(ToastIds) /\ lastToast \in Nat /\ \A t \in ToSet(toasts) : t <= lastToast
    /\ Holders \subseteq ToSet(toasts) \cup {NoToast}
    /\ ToastsEnd

\* what remains of the notices when those of a set go
LEMMA RemainingIs ==
    ASSUME NEW s \in Seq(ToastIds), NEW G, NEW P \in SUBSET DOMAIN s, \A i \in DOMAIN s : i \in P <=> s[i] \notin G,
           NEW t, t = Picked(s, P)
    PROVE  t \in Seq(ToastIds) /\ ToSet(t) = ToSet(s) \ G /\ Len(t) <= Len(s) /\ (ToSet(s) \cap G # {} => Len(t) < Len(s))
<1>3. /\ t \in Seq(ToastIds) /\ \A n \in DOMAIN t : Nth(P, n) \in P /\ t[n] = s[Nth(P, n)]
      /\ \A i \in P : \E n \in DOMAIN t : Nth(P, n) = i
  BY PickedIs
<1>4. Len(t) <= Len(s) /\ (P # DOMAIN s => Len(t) < Len(s))
  BY PickedLess
<1>5. ASSUME NEW x \in ToSet(t) PROVE x \in ToSet(s) \ G
  BY <1>3 DEF ToSet
<1>6. ASSUME NEW x \in ToSet(s) \ G PROVE x \in ToSet(t)
  <2>1. PICK i \in DOMAIN s : s[i] = x
    BY DEF ToSet
  <2>2. PICK n \in DOMAIN t : Nth(P, n) = i
    BY <1>3, <2>1
  <2> QED BY <1>3, <2>1, <2>2 DEF ToSet
<1>7. ToSet(s) \cap G # {} => P # DOMAIN s
  BY DEF ToSet
<1> QED BY <1>3, <1>4, <1>5, <1>6, <1>7

LEMMA AppendedIds == ASSUME NEW S, NEW s \in Seq(S), NEW x \in S PROVE ToSet(Append(s, x)) = ToSet(s) \cup {x}
<1> DEFINE t == Append(s, x)
<1>1. t \in Seq(S) /\ Len(t) = Len(s) + 1 /\ t[Len(s) + 1] = x /\ \A i \in 1..Len(s) : t[i] = s[i]
  OBVIOUS
<1>2. Len(s) \in Nat /\ DOMAIN s = 1..Len(s) /\ DOMAIN t = 1..(Len(s) + 1)
  BY <1>1
<1> HIDE DEF t
<1>3. \A i \in DOMAIN t : i \in DOMAIN s \/ i = Len(s) + 1
  BY <1>2
<1>4. \A y \in ToSet(t) : y \in ToSet(s) \cup {x}
  BY <1>1, <1>2, <1>3 DEF ToSet
<1>5. \A y \in ToSet(s) \cup {x} : y \in ToSet(t)
  BY <1>1, <1>2 DEF ToSet
<1> QED BY <1>4, <1>5 DEF t

LEMMA AddKeeps == ASSUME ToastInv, AddToast(lastToast + 1) PROVE ToastInv'
<1> DEFINE id == lastToast + 1 shown == Append(toasts, id) E == Evicted(shown)
<1>1. toasts \in Seq(ToastIds) /\ lastToast \in Nat /\ Len(toasts) \in Nat /\ ToastMax \in Nat
  BY ShellData DEF ToastInv
<1>2. shown \in Seq(ToastIds) /\ Len(shown) = Len(toasts) + 1 /\ ToSet(shown) = ToSet(toasts) \cup {id} /\ id \in ToastIds
  <2>1. id \in ToastIds
    BY <1>1 DEF ToastIds
  <2> QED BY <1>1, <2>1, AppendedIds
<1>3. Len(toasts) <= ToastMax /\ DOMAIN timers = ToSet(toasts)
  BY DEF ToastInv, ToastsEnd
<1> DEFINE P == {i \in DOMAIN shown : shown[i] \notin E}
<1>4. toasts' = Picked(shown, P) /\ P \in SUBSET DOMAIN shown /\ \A i \in DOMAIN shown : i \in P <=> shown[i] \notin E
  BY DEF AddToast
<1>5. timers' = [t \in (DOMAIN timers \cup {id}) \ E |-> IF t = id THEN "runs" ELSE timers[t]]
  BY DEF AddToast, Cleared
<1>6. pointerOn' = (IF pointerOn \in E THEN NoToast ELSE pointerOn) /\ focusOn' = (IF focusOn \in E THEN NoToast ELSE focusOn)
  BY DEF AddToast, Gone
<1>7. lastToast' = id
  BY DEF AddToast
<1>8. Len(shown) > ToastMax => ToSet(shown) \cap E # {}
  <2>1. ASSUME Len(shown) > ToastMax PROVE shown[1] \in ToSet(shown) /\ shown[1] \in E
    <3>1. 1 \in 1..(Len(shown) - ToastMax) /\ 1 \in DOMAIN shown
      BY <1>1, <1>2, <2>1
    <3> QED BY <3>1 DEF Evicted, ToSet
  <2> QED BY <2>1
<1>a. \A t \in ToSet(toasts) : t # id /\ t <= id
  <2> SUFFICES ASSUME NEW t \in ToSet(toasts) PROVE t # id /\ t <= id
    OBVIOUS
  <2>1. t <= lastToast /\ t \in Nat
    BY <1>1 DEF ToastInv, ToSet, ToastIds
  <2> QED BY <1>1, <2>1
<1>b. id # NoToast
  BY <1>2, ShellData DEF ToastIds
<1>e. id <= id
  BY <1>2 DEF ToastIds
<1> HIDE DEF E, P, shown, id
<1>9. toasts' \in Seq(ToastIds) /\ ToSet(toasts') = ToSet(shown) \ E /\ Len(toasts') <= Len(shown)
      /\ (ToSet(shown) \cap E # {} => Len(toasts') < Len(shown))
  BY <1>2, <1>4, RemainingIs
<1>10. Len(toasts') <= ToastMax
  <2>1. Len(toasts') \in Nat
    BY <1>9
  <2> QED BY <1>1, <1>2, <1>3, <1>8, <1>9, <2>1
<1>11. DOMAIN timers' = ToSet(toasts')
  BY <1>2, <1>3, <1>5, <1>9
<1>12. ASSUME NEW t \in DOMAIN timers', timers'[t] = "paused" PROVE t \in {pointerOn', focusOn'}
  <2>1. t # id /\ t \in DOMAIN timers /\ t \notin E /\ timers[t] = "paused"
    BY <1>5, <1>12
  <2>2. t \in {pointerOn, focusOn}
    BY <2>1 DEF ToastInv, ToastsEnd
  <2> QED BY <1>6, <2>1, <2>2
<1>13. Holders' \subseteq ToSet(toasts') \cup {NoToast}
  <2>1. {pointerOn, focusOn} \subseteq ToSet(toasts) \cup {NoToast}
    BY DEF ToastInv, Holders
  <2> QED BY <1>2, <1>6, <1>9, <2>1 DEF Holders
<1>14. ASSUME NEW t \in DOMAIN timers', pointerOn' = t, focusOn' = t PROVE timers'[t] = "paused"
  <2>1. t \in ToSet(toasts')
    BY <1>11
  <2>2. t \in ToastIds
    BY <1>9, <2>1 DEF ToSet
  <2>3. t # NoToast
    BY <2>2, ShellData DEF ToastIds
  <2>4. pointerOn = t /\ focusOn = t /\ t \in ToSet(toasts)
    BY <1>6, <1>14, <2>3 DEF ToastInv, Holders
  <2>5. t # id /\ timers'[t] = timers[t]
    BY <1>5, <1>14, <1>a, <2>4
  <2>6. timers[t] = "paused"
    BY <1>3, <2>4 DEF ToastInv, ToastsEnd
  <2> QED BY <2>5, <2>6
<1>15. \A t \in ToSet(toasts') : t <= lastToast'
  BY <1>2, <1>7, <1>9, <1>a, <1>e
<1>16. ToastsEnd'
  BY <1>10, <1>11, <1>12, <1>14 DEF ToastsEnd
<1>17. lastToast' \in Nat
  BY <1>2, <1>7 DEF ToastIds
<1> QED BY <1>9, <1>13, <1>15, <1>16, <1>17 DEF ToastInv

LEMMA RemoveKeeps == ASSUME ToastInv, NEW id, RemoveToast(id) PROVE ToastInv'
<1>1. toasts \in Seq(ToastIds) /\ Len(toasts) <= ToastMax /\ DOMAIN timers = ToSet(toasts)
  BY DEF ToastInv, ToastsEnd
<1> DEFINE P == {i \in DOMAIN toasts : toasts[i] # id}
<1>2. toasts' = Picked(toasts, P) /\ P \in SUBSET DOMAIN toasts /\ \A i \in DOMAIN toasts : i \in P <=> toasts[i] \notin {id}
  BY DEF RemoveToast, DropToast
<1> HIDE DEF P
<1>3. toasts' \in Seq(ToastIds) /\ ToSet(toasts') = ToSet(toasts) \ {id} /\ Len(toasts') <= Len(toasts)
  BY <1>1, <1>2, RemainingIs
<1>4. timers' = [t \in DOMAIN timers \ {id} |-> timers[t]]
  BY DEF RemoveToast, WithoutTimers
<1>5. Len(toasts') <= ToastMax
  <2>1. Len(toasts') \in Nat /\ Len(toasts) \in Nat /\ ToastMax \in Nat
    BY <1>1, <1>3, ShellData
  <2> QED BY <1>1, <1>3, <2>1
<1>6. ASSUME NEW t \in DOMAIN timers', timers'[t] = "paused" PROVE t \in {pointerOn', focusOn'}
  <2>1. t # id /\ t \in DOMAIN timers /\ timers[t] = "paused"
    BY <1>4, <1>6
  <2>2. t \in {pointerOn, focusOn}
    BY <2>1 DEF ToastInv, ToastsEnd
  <2> QED BY <2>1, <2>2 DEF RemoveToast, Gone
<1>7. DOMAIN timers' = ToSet(toasts') /\ lastToast' = lastToast
  BY <1>1, <1>3, <1>4 DEF RemoveToast
<1>8. /\ pointerOn' = (IF pointerOn = id THEN NoToast ELSE pointerOn)
      /\ focusOn' = (IF focusOn = id THEN NoToast ELSE focusOn)
  BY DEF RemoveToast, Gone
<1>9. Holders' \subseteq ToSet(toasts') \cup {NoToast}
  BY <1>3, <1>8 DEF ToastInv, Holders
<1>10. ASSUME NEW t \in DOMAIN timers', pointerOn' = t, focusOn' = t PROVE timers'[t] = "paused"
  <2>1. t \in ToSet(toasts) /\ t \in DOMAIN timers /\ timers'[t] = timers[t]
    BY <1>1, <1>4
  <2>2. t \in ToastIds
    BY <1>1, <2>1 DEF ToSet
  <2>3. t # NoToast
    BY <2>2, ShellData DEF ToastIds
  <2>4. pointerOn = t /\ focusOn = t
    BY <1>8, <1>10, <2>3
  <2> QED BY <2>1, <2>4 DEF ToastInv, ToastsEnd
<1>11. ToastsEnd'
  BY <1>5, <1>6, <1>7, <1>10 DEF ToastsEnd
<1>12. lastToast \in Nat /\ \A t \in ToSet(toasts') : t <= lastToast'
  BY <1>3, <1>7 DEF ToastInv
<1> QED BY <1>3, <1>7, <1>9, <1>11, <1>12 DEF ToastInv

\* a notice loses one hold and another gets it: what runs that did not, was let go
LEMMA HoldIs ==
    ASSUME NEW held, NEW other, NEW id, NEW f, f = Pause(Resume(timers, held), id)
    PROVE  /\ DOMAIN f = DOMAIN timers
           /\ \A t \in DOMAIN f : f[t] = "paused" => t = id \/ (t # held /\ timers[t] = "paused")
           /\ id \in DOMAIN f => f[id] = "paused"
           /\ \A t \in DOMAIN f : t # id /\ t # held => f[t] = timers[t]
<1> DEFINE g == Resume(timers, held)
<1>1. DOMAIN g = DOMAIN timers /\ \A t \in DOMAIN g : /\ g[t] = "paused" => t # held /\ timers[t] = "paused"
                                                      /\ t # held => g[t] = timers[t]
  BY DEF Resume
<1> HIDE DEF g
<1>2. f = Pause(g, id)
  BY DEF g
<1>3. /\ DOMAIN f = DOMAIN g /\ \A t \in DOMAIN g : t # id => f[t] = g[t]
      /\ id \in DOMAIN f => f[id] = "paused"
  BY <1>2 DEF Pause
<1> QED BY <1>1, <1>3

\* the pointer, or the focus, goes from one notice to another: pointerOn and focusOn are held and other
Moves(held, other, id) ==
    /\ {held, other} = {pointerOn, focusOn} /\ {id, other} = {pointerOn', focusOn'}
    /\ timers' = Pause(Resume(timers, held), id) /\ id # held

LEMMA HoldMoves ==
    ASSUME NEW id \in ToSet(toasts) \cup {NoToast}, PointTo(id) \/ FocusTo(id)
    PROVE  /\ \E held, other : Moves(held, other, id)
           /\ UNCHANGED <<toasts, lastToast>>
<1>1. CASE PointTo(id)
  <2>1. Moves(pointerOn, focusOn, id)
    BY <1>1 DEF PointTo, Moves
  <2> QED BY <1>1, <2>1 DEF PointTo
<1>2. CASE FocusTo(id)
  <2>1. Moves(focusOn, pointerOn, id)
    BY <1>2 DEF FocusTo, Moves
  <2> QED BY <1>2, <2>1 DEF FocusTo
<1> QED BY <1>1, <1>2

LEMMA HoldKeeps == ASSUME ToastInv, NEW id \in ToSet(toasts) \cup {NoToast}, PointTo(id) \/ FocusTo(id) PROVE ToastInv'
<1>1. PICK held, other : Moves(held, other, id)
  BY HoldMoves
<1>2. toasts' = toasts /\ lastToast' = lastToast
  BY HoldMoves
<1>3. /\ {held, other} = {pointerOn, focusOn} /\ {id, other} = {pointerOn', focusOn'} /\ id # held
      /\ timers' = Pause(Resume(timers, held), id)
  BY <1>1 DEF Moves
<1>4. /\ DOMAIN timers' = DOMAIN timers
      /\ \A t \in DOMAIN timers' : timers'[t] = "paused" => t = id \/ (t # held /\ timers[t] = "paused")
      /\ id \in DOMAIN timers' => timers'[id] = "paused"
  BY <1>3, HoldIs
<1>5. \A t \in DOMAIN timers : timers[t] = "paused" => t \in {held, other}
  BY <1>3 DEF ToastInv, ToastsEnd
<1>6. \A t \in DOMAIN timers' : timers'[t] = "paused" => t \in {pointerOn', focusOn'}
  BY <1>3, <1>4, <1>5
<1>7. \A t \in DOMAIN timers' : pointerOn' = t /\ focusOn' = t => timers'[t] = "paused"
  <2> SUFFICES ASSUME NEW t \in DOMAIN timers', pointerOn' = t, focusOn' = t PROVE timers'[t] = "paused"
    OBVIOUS
  <2>1. t = id
    BY <1>3
  <2> QED BY <1>4, <2>1
<1>8. Holders' \subseteq ToSet(toasts) \cup {NoToast}
  BY <1>3 DEF ToastInv, Holders
<1> QED BY <1>2, <1>4, <1>6, <1>7, <1>8 DEF ToastInv, ToastsEnd

LEMMA SameToasts == ASSUME ToastInv, UNCHANGED toastVars PROVE ToastInv'
BY DEF ToastInv, ToastsEnd, Holders, toastVars

(* Where each tab was scrolled to -------------------------------------------- *)

ScrollInv ==
    /\ positions \in [ShellTabs -> Depths] /\ scrollTop \in Depths /\ scrollTarget \in Depths /\ scrollTick \in 0..Retries
    /\ steady => ~settled /\ (scrollTarget = 0 => scrollTop = 0)
    /\ TabRestored

LEMMA BottomIs == Max(Depths) \in Depths /\ \A y \in Depths : y <= Max(Depths)
<1>1. \E y \in Depths : \A z \in Depths : z <= y
  BY ShellData
<1>2. Depths \subseteq Nat
  BY ShellData
<1>3. \E y \in Depths : \A z \in Depths : y >= z
  BY <1>1, <1>2
<1>4. Max(Depths) \in Depths /\ \A z \in Depths : Max(Depths) >= z
  BY <1>3 DEF Max
<1> QED BY <1>2, <1>4

LEMMA BecomesScrolls == ASSUME ScrollInv, NEW l, l.tab \in ShellTabs, Becomes(l) PROVE ScrollInv'
<1>1. CASE l.tab = look.tab
  BY <1>1 DEF Becomes, ScrollInv, TabRestored, scrollVars
<1>2. CASE l.tab # look.tab
  <2>1. PICK long \in BOOLEAN :
          LET goal == positions[l.tab]
              top == IF long THEN goal ELSE 0
          IN  /\ grown' = long /\ scrollTarget' = goal /\ scrollTop' = top
              /\ positions' = IF top = scrollTop THEN positions ELSE [positions EXCEPT ![l.tab] = top]
              /\ settled' = FALSE /\ scrollTick' = 0 /\ steady' = TRUE
    BY <1>2 DEF Becomes
  <2>2. positions[l.tab] \in Depths /\ 0 \in Depths /\ Retries \in Nat \ {0}
    BY ShellData DEF ScrollInv
  <2>3. scrollTarget' \in Depths /\ scrollTop' \in Depths /\ (scrollTarget' = 0 => scrollTop' = 0)
    BY <2>1, <2>2
  <2>4. positions' \in [ShellTabs -> Depths]
    BY <2>1, <2>2 DEF ScrollInv
  <2>5. scrollTick' \in 0..Retries /\ scrollTick' # Retries
    BY <2>1, <2>2
  <2> QED BY <2>1, <2>3, <2>4, <2>5 DEF ScrollInv, TabRestored
<1> QED BY <1>1, <1>2

LEMMA UserScrollKeeps ==
    ASSUME ScrollInv, look.tab \in ShellTabs, NEW y \in Depths, NEW heard \in BOOLEAN, UserScrolls(y, heard)
    PROVE  ScrollInv'
BY DEF ScrollInv, TabRestored, UserScrolls, ScrollTo

LEMMA GrowsKeeps == ASSUME ScrollInv, PageGrows PROVE ScrollInv'
BY DEF ScrollInv, TabRestored, PageGrows

LEMMA TimerKeeps == ASSUME ScrollInv, look.tab \in ShellTabs, ScrollTimer PROVE ScrollInv'
<1> DEFINE y == Again
<1>0. Depths \subseteq Nat /\ 0 \in Depths /\ Max(Depths) \in Depths /\ \A d \in Depths : d <= Max(Depths)
  BY ShellData, BottomIs
<1>1. Height \in Depths /\ (grown => Height = Max(Depths))
  BY <1>0 DEF Height
<1>2. scrollTarget \in Depths /\ scrollTop \in Depths
  BY DEF ScrollInv
<1>3. Min({scrollTarget, Height}) = IF scrollTarget <= Height THEN scrollTarget ELSE Height
  <2>1. scrollTarget \in Int /\ Height \in Int
    BY <1>0, <1>1, <1>2
  <2> QED BY <2>1, SmallerIs
<1>4. y = IF settled \/ scrollTarget = 0 THEN scrollTop ELSE IF scrollTarget <= Height THEN scrollTarget ELSE Height
  BY <1>3 DEF Again
<1> HIDE DEF y
<1>5. y \in Depths
  BY <1>1, <1>2, <1>4
<1>6. scrollTop' = y
  BY DEF ScrollTimer, ScrollTo, y
<1>7. positions' \in [ShellTabs -> Depths]
  BY <1>5 DEF ScrollTimer, ScrollTo, ScrollInv, y
<1>8. scrollTarget' = scrollTarget /\ settled' = settled /\ scrollTick' = scrollTick + 1 /\ scrollTick < Retries
      /\ steady' = (steady /\ (scrollTick' < Retries \/ grown))
  BY DEF ScrollTimer
<1>9. scrollTick' \in 0..Retries
  BY <1>8, ShellData DEF ScrollInv
<1>10. steady' => ~settled' /\ (scrollTarget' = 0 => scrollTop' = 0)
  BY <1>4, <1>6, <1>8 DEF ScrollInv
<1>11. TabRestored'
  <2>1. ASSUME scrollTick' = Retries, steady' PROVE y = scrollTarget
    <3>0. ~(scrollTick' < Retries)
      BY <2>1, ShellData
    <3>1. steady /\ grown /\ ~settled
      <4>1. steady /\ (scrollTick' < Retries \/ grown)
        BY <1>8, <2>1, Zenon
      <4> QED BY <3>0, <4>1 DEF ScrollInv
    <3>2. scrollTarget = 0 => scrollTop = 0
      BY <3>1 DEF ScrollInv
    <3>3. scrollTarget <= Height
      BY <1>0, <1>1, <1>2, <3>1
    <3> QED BY <1>4, <3>1, <3>2, <3>3
  <2> QED BY <1>6, <1>8, <2>1 DEF TabRestored
<1> QED BY <1>2, <1>5, <1>6, <1>7, <1>8, <1>9, <1>10, <1>11 DEF ScrollInv

LEMMA ReloadScrolls == ASSUME ScrollInv, ReloadPage PROVE ScrollInv'
BY ShellData DEF ScrollInv, TabRestored, ReloadPage

LEMMA SameScrolls == ASSUME ScrollInv, UNCHANGED scrollVars PROVE ScrollInv'
BY DEF ScrollInv, TabRestored, scrollVars

\* What holds of the frame between the steps: the page it shows and those it kept are pages, no command is
\* kept twice, every notice has its timer, and a tab nobody scrolls is on its way to where it was.
ShellInv == ViewInv /\ PaletteInv /\ ToastInv /\ ScrollInv

LEMMA TabNow == ASSUME ViewInv PROVE look.tab \in ShellTabs
BY LookIs DEF ViewInv

LEMMA TabsKeep2 == ASSUME ShellInv, NEW step \in {1, -1}, PressTab(step) PROVE ShellInv'
<1> USE DEF ShellInv
<1>1. ViewInv' /\ look'.tab \in ShellTabs /\ Becomes(look')
  <2>1. ViewInv'
    BY PressTabViews
  <2>2. look' \in Looks(clock')
    BY <2>1 DEF ViewInv
  <2> QED BY <2>1, <2>2, LookIs DEF PressTab, Becomes
<1>2. PaletteInv'
  BY SamePalette DEF PressTab, paletteVars, PaletteInv
<1>3. ToastInv'
  BY SameToasts DEF PressTab
<1>4. ScrollInv'
  BY <1>1, BecomesScrolls
<1> QED BY <1>1, <1>2, <1>3, <1>4

LEMMA ScrollingKeeps ==
    ASSUME ShellInv, (\E y \in Depths, heard \in BOOLEAN : UserScrolls(y, heard)) \/ PageGrows \/ ScrollTimer
    PROVE  ShellInv'
<1> USE DEF ShellInv
<1>0. look.tab \in ShellTabs
  BY TabNow
<1>1. UNCHANGED <<viewVars, clock>> /\ UNCHANGED paletteVars /\ UNCHANGED toastVars
  BY DEF UserScrolls, PageGrows, ScrollTimer
<1>2. ViewInv'
  BY <1>1, SameViews
<1>3. PaletteInv'
  BY <1>1, SamePalette DEF paletteVars, PaletteInv
<1>4. ToastInv'
  BY <1>1, SameToasts
<1>5. ScrollInv'
  BY <1>0, UserScrollKeeps, GrowsKeeps, TimerKeeps
<1> QED BY <1>2, <1>3, <1>4, <1>5

LEMMA ViewsKeep ==
    ASSUME ShellInv,
           (\E id \in ViewIds : SaveView(id)) \/ (\E id \in Saved : DeleteView(id)) \/ CycleTheme
             \/ \E id \in ToSet(PresetIds) : ChoosePreset(id)
    PROVE  ShellInv'
<1> USE DEF ShellInv
<1>1. ViewInv'
  BY SaveViews, DeleteViews, ThemeViews, PresetViews
<1>2. UNCHANGED paletteVars /\ UNCHANGED toastVars /\ UNCHANGED scrollVars
  BY DEF SaveView, DeleteView, CycleTheme, ChoosePreset
<1>3. PaletteInv'
  BY <1>2, SamePalette DEF paletteVars, PaletteInv
<1>4. ToastInv' /\ ScrollInv'
  BY <1>2, SameToasts, SameScrolls
<1> QED BY <1>1, <1>3, <1>4

LEMMA UseKeeps == ASSUME ShellInv, NEW id \in Saved, UseView(id) PROVE ShellInv'
<1> USE DEF ShellInv
<1>1. ViewInv'
  BY UseViews
<1>2. PaletteInv'
  BY SamePalette DEF UseView, paletteVars, PaletteInv
<1>3. ToastInv'
  BY SameToasts DEF UseView
<1>4. ScrollInv'
  <2>1. Becomes(ViewAt(id).look) /\ ViewAt(id).look \in Looks(clock)
    BY SavedAre DEF UseView, ApplyView
  <2>2. ViewAt(id).look.tab \in ShellTabs
    BY <2>1, LookIs
  <2> QED BY <2>1, <2>2, BecomesScrolls
<1> QED BY <1>1, <1>2, <1>3, <1>4

LEMMA PageReloads == ASSUME ShellInv, ReloadPage PROVE ShellInv'
<1> USE DEF ShellInv
<1>1. ViewInv'
  BY ReloadViews
<1>2. PaletteInv'
  BY SamePalette, ShellData DEF ReloadPage
<1>3. ToastInv'
  <2>1. toasts' = <<>> /\ timers' = <<>> /\ lastToast' = lastToast /\ Holders' = {NoToast}
    BY DEF ReloadPage, Holders
  <2>2. toasts' \in Seq(ToastIds) /\ Len(toasts') = 0 /\ DOMAIN timers' = {} /\ ToSet(toasts') = {}
    BY <2>1 DEF ToSet
  <2> QED BY <2>1, <2>2, ShellData DEF ToastInv, ToastsEnd
<1>4. ScrollInv'
  BY ReloadScrolls
<1> QED BY <1>1, <1>2, <1>3, <1>4

LEMMA RunKeeps == ASSUME ShellInv, NEW c \in Doable, Run(c) PROVE ShellInv'
<1> USE DEF ShellInv
<1>1. ViewInv'
  BY RunViews
<1>2. PaletteInv'
  BY RunPalette
<1>3. ToastInv'
  BY SameToasts DEF Run
<1>4. ScrollInv'
  <2>1. LookAfter(c) \in Looks(clock) /\ Becomes(LookAfter(c))
    BY CommandLooks DEF Run, Does
  <2>2. LookAfter(c).tab \in ShellTabs
    BY <2>1, LookIs
  <2> QED BY <2>1, <2>2, BecomesScrolls
<1> QED BY <1>1, <1>2, <1>3, <1>4

LEMMA MarkKeeps == ASSUME ShellInv, TogglePalette \/ (\E text \in Queries : TypeCommand(text)) \/ \E i : Mark(i) PROVE ShellInv'
<1> USE DEF ShellInv
<1>1. UNCHANGED <<viewVars, clock>> /\ UNCHANGED toastVars /\ UNCHANGED scrollVars /\ UNCHANGED lru
  BY DEF TogglePalette, TypeCommand, Mark
<1>2. typed' \in Queries
  BY ShellData DEF TogglePalette, TypeCommand, Mark, PaletteInv
<1>3. PaletteInv'
  BY <1>1, <1>2, SamePalette
<1> QED BY <1>1, <1>3, SameViews, SameToasts, SameScrolls

LEMMA PaletteKeeps == ASSUME ShellInv, PaletteStep PROVE ShellInv'
<1>1. Found \in Seq(Doable)
  BY FoundAre DEF ShellInv
<1>2. ListedCommands \in Seq(Doable)
  BY <1>1, ByGroupIs DEF ListedCommands
<1>3. ASSUME PressEnter PROVE ShellInv'
  <2>1. Found[activeIdx] \in Doable /\ Run(Found[activeIdx])
    BY <1>1, <1>3 DEF PressEnter
  <2> QED BY <2>1, RunKeeps
<1>4. ASSUME NEW c \in ToSet(ListedCommands), Click(c) PROVE ShellInv'
  <2>1. c \in Doable
    BY <1>2 DEF ToSet
  <2> QED BY <1>4, <2>1, RunKeeps DEF Click
<1>5. ASSUME NEW step \in {1, -1}, PressArrow(step) PROVE ShellInv'
  BY <1>5, MarkKeeps DEF PressArrow
<1> QED BY <1>3, <1>4, <1>5, MarkKeeps DEF PaletteStep

LEMMA ToastsKeep == ASSUME ShellInv, ToastStep PROVE ShellInv'
<1> USE DEF ShellInv
<1>1. UNCHANGED <<viewVars, clock>> /\ UNCHANGED paletteVars /\ UNCHANGED scrollVars
  BY DEF ToastStep, Notify, Connection, ToastExpires, Dismiss, RemoveToast, PointTo, FocusTo
<1>2. ToastInv'
  <2>1. CASE Notify
    BY <2>1, AddKeeps DEF Notify
  <2>2. CASE Connection
    BY <2>2, AddKeeps, SameToasts DEF Connection, NoneAdded
  <2>3. ASSUME NEW id \in ToSet(toasts), ToastExpires(id) \/ Dismiss(id) PROVE ToastInv'
    BY <2>3, RemoveKeeps DEF ToastExpires, Dismiss
  <2>4. ASSUME NEW id \in ToSet(toasts) \cup {NoToast}, PointTo(id) \/ FocusTo(id) PROVE ToastInv'
    BY <2>4, HoldKeeps
  <2> QED BY <2>1, <2>2, <2>3, <2>4 DEF ToastStep
<1>3. PaletteInv'
  BY <1>1, SamePalette DEF paletteVars, PaletteInv
<1> QED BY <1>1, <1>2, <1>3, SameViews, SameScrolls

LEMMA ShellStep == ASSUME ShellInv, [ShellNext]_shellVars PROVE ShellInv'
<1>1. CASE UNCHANGED shellVars
  <2>1. UNCHANGED <<viewVars, clock>> /\ UNCHANGED paletteVars /\ UNCHANGED toastVars /\ UNCHANGED scrollVars
    BY <1>1 DEF shellVars
  <2>2. PaletteInv'
    BY <2>1, SamePalette DEF ShellInv, paletteVars, PaletteInv
  <2> QED BY <2>1, <2>2, SameViews, SameToasts, SameScrolls DEF ShellInv
<1>2. CASE ScrollStep
  BY <1>2, TabsKeep2, ScrollingKeeps DEF ScrollStep
<1>3. CASE ViewStep
  BY <1>3, ViewsKeep, UseKeeps, PageReloads DEF ViewStep
<1>4. CASE PaletteStep
  BY <1>4, PaletteKeeps
<1>5. CASE ToastStep
  BY <1>5, ToastsKeep
<1> QED BY <1>1, <1>2, <1>3, <1>4, <1>5 DEF ShellNext

LEMMA ShellStarts == ASSUME ShellInit PROVE ShellInv
<1>1. ShellTabs # {} /\ (CHOOSE t \in ShellTabs : TRUE) \in ShellTabs
  BY ShellData DEF ShellTabs
<1>2. PresetIds[1] \in ToSet(PresetIds) /\ Densities[1] \in ToSet(Densities) /\ ThemeCycle[1] \in Themes
  <2>1. ASSUME NEW s \in {PresetIds, Densities, ThemeCycle} PROVE s[1] \in ToSet(s)
    <3>1. s \in Seq(ToSet(s)) /\ s # <<>>
      BY ShellData
    <3>2. Len(s) > 0 /\ Len(s) \in Nat
      BY <3>1
    <3> QED BY <3>1, <3>2
  <2> QED BY <2>1 DEF Themes
<1>3. [id |-> PresetIds[1], since |-> 0] \in [id : ToSet(PresetIds), since : 0..0]
  BY <1>2
<1>4. look \in Looks(0)
  BY <1>1, <1>2, <1>3 DEF ShellInit, Looks, ToolFilters
<1>5. ViewInv
  BY <1>4 DEF ShellInit, ViewInv
<1>6. PaletteInv
  <2>1. lru = <<>> /\ typed \in Queries
    BY ShellData DEF ShellInit
  <2>2. lru \in Seq(Kept) /\ IsInjective(lru) /\ Len(lru) = 0
    BY <2>1 DEF IsInjective
  <2> QED BY <2>1, <2>2, ShellData DEF PaletteInv, LruOnce
<1>7. ToastInv
  <2>1. toasts = <<>> /\ timers = <<>> /\ lastToast = 0 /\ Holders = {NoToast}
    BY DEF ShellInit, Holders
  <2>2. toasts \in Seq(ToastIds) /\ Len(toasts) = 0 /\ DOMAIN timers = {} /\ ToSet(toasts) = {}
    BY <2>1 DEF ToSet
  <2> QED BY <2>1, <2>2, ShellData DEF ToastInv, ToastsEnd
<1>8. ScrollInv
  BY ShellData DEF ShellInit, ScrollInv, TabRestored
<1> QED BY <1>5, <1>6, <1>7, <1>8 DEF ShellInv

LEMMA ShellInvHolds == ShellSpec => []ShellInv
<1>1. ShellInit => ShellInv
  BY ShellStarts
<1>2. ShellInv /\ [ShellNext]_shellVars => ShellInv'
  BY ShellStep
<1> QED BY <1>1, <1>2, PTL DEF ShellSpec

\* The state of the frame has its type: whatever command is run, from the list or from those used last, and
\* whatever view is applied, the page is one that there is (App, buildCommands, useSavedViews).
THEOREM ShellTyped == ShellSpec => []ShellTypeOK
<1>1. ASSUME ShellInv PROVE ShellTypeOK
  <2> USE <1>1 DEF ShellInv
  <2>1. /\ look.tab \in ShellTabs /\ look.theme \in Themes /\ look.density \in ToSet(Densities)
        /\ look.tools \in ToolFilters /\ look.range \in [id : ToSet(PresetIds), since : 0..clock]
    BY LookIs DEF ViewInv
  <2>2. look.range.id \in ToSet(PresetIds) /\ look.range.since \in 0..clock
    BY <2>1
  <2> QED BY <2>1, <2>2 DEF ShellTypeOK, ViewInv, PaletteInv, ScrollInv, ToolFilters
<1> QED BY <1>1, ShellInvHolds, PTL

\* For any commands, notices and tabs: a command is kept once; the command that the key runs is the one marked
\* unless the groups interleave, and the list leaves none out; no notice stays for ever, and no timer; a tab
\* is where it was left (useCommandPalette, CommandPalette, ToastProvider, useTabScroll).
THEOREM FrameHolds == ShellSpec => []ShellHolds
<1>1. ASSUME ShellInv PROVE ShellHolds
  <2> USE <1>1 DEF ShellInv
  <2>1. MarkedRuns
    <3>1. Found \in Seq(Doable)
      BY FoundAre
    <3> DEFINE found == Found
    <3>2. ToSet(ByGroup(found)) = ToSet(found)
      BY <3>1, ByGroupIs
    <3>3. \/ ByGroup(found) = found
          \/ \E i, j, k \in DOMAIN found :
               i < j /\ j < k /\ GroupIn(found[i]) = GroupIn(found[k]) /\ GroupIn(found[j]) # GroupIn(found[i])
      BY <3>1, MarkedIsRun
    <3> HIDE DEF found
    <3> QED BY <3>2, <3>3 DEF MarkedRuns, found
  <2> QED BY <2>1 DEF ShellHolds, PaletteInv, ToastInv, ScrollInv
<1> QED BY <1>1, ShellInvHolds, PTL

LEMMA ViewFound == ASSUME ViewInv', NEW v \in ToSet(views'), v.look = look' PROVE MatchingView' # 0
<1> DEFINE I == {i \in 1..Len(views') : views'[i].look = look'}
<1>1. MatchingView' = IF I # {} THEN Min(I) ELSE 0
  BY DEF MatchingView, SelectInSeq
<1>2. I # {}
  <2>1. DOMAIN views' = 1..Len(views')
    BY DEF ViewInv
  <2>2. PICK i \in DOMAIN views' : views'[i] = v
    BY DEF ToSet
  <2> QED BY <2>1, <2>2
<1>3. I \in SUBSET Nat /\ \A i \in I : i # 0
  OBVIOUS
<1> HIDE DEF I
<1>4. Min(I) \in I
  BY <1>2, <1>3, LeastNumber DEF Min
<1> QED BY <1>1, <1>2, <1>3, <1>4

\* A view that is applied, from the menu or by the address after a reload, is what the page then shows:
\* the menu marks it, or one that is the same (useSavedViews).
THEOREM AppliedIsShown == ShellSpec => [][ViewsMatch]_shellVars
<1>1. ASSUME ShellInv, ShellInv', [ShellNext]_shellVars PROVE [ViewsMatch]_shellVars
  <2> SUFFICES ASSUME NEW id \in Saved, UseView(id) \/ (ReloadPage /\ linked = id) PROVE MatchingView' # 0
    BY DEF ViewsMatch
  <2>1. ViewAt(id) \in ToSet(views)
    BY <1>1, SavedAre DEF ShellInv
  <2>2. views' = views /\ look' = ViewAt(id).look
    BY DEF UseView, ApplyView, Becomes, ReloadPage
  <2>3. ViewInv'
    BY <1>1 DEF ShellInv
  <2> QED BY <2>1, <2>2, <2>3, ViewFound
<1> QED BY <1>1, ShellInvHolds, PTL DEF ShellSpec

LEMMA AddedRuns ==
    ASSUME ToastInv, AddToast(lastToast + 1), NEW t \in DOMAIN timers \cap DOMAIN timers'
    PROVE  timers'[t] = timers[t] /\ (pointerOn' = t => pointerOn = t) /\ (focusOn' = t => focusOn = t)
<1>1. t \in ToSet(toasts) /\ toasts \in Seq(ToastIds) /\ lastToast \in Nat
  BY DEF ToastInv, ToastsEnd
<1>2. t \in ToastIds /\ t <= lastToast
  BY <1>1 DEF ToastInv, ToSet
<1>3. t # lastToast + 1 /\ t # NoToast
  BY <1>1, <1>2, ShellData DEF ToastIds
<1>4. timers'[t] = timers[t]
  BY <1>3 DEF AddToast
<1> QED BY <1>3, <1>4 DEF AddToast, Gone

LEMMA RemovedRuns ==
    ASSUME ToastInv, NEW id, RemoveToast(id), NEW t \in DOMAIN timers \cap DOMAIN timers'
    PROVE  timers'[t] = timers[t] /\ (pointerOn' = t => pointerOn = t) /\ (focusOn' = t => focusOn = t)
<1>1. t \in ToSet(toasts) /\ toasts \in Seq(ToastIds)
  BY DEF ToastInv, ToastsEnd
<1>2. t \in ToastIds
  BY <1>1 DEF ToSet
<1>3. t # NoToast
  BY <1>2, ShellData DEF ToastIds
<1>4. timers'[t] = timers[t]
  BY DEF RemoveToast, WithoutTimers
<1> QED BY <1>3, <1>4 DEF RemoveToast, Gone

LEMMA HoldsPause ==
    ASSUME ToastInv, NEW id \in ToSet(toasts) \cup {NoToast}, PointTo(id) \/ FocusTo(id),
           NEW t \in DOMAIN timers \cap DOMAIN timers', t \in {pointerOn', focusOn'}, timers'[t] = "runs"
    PROVE  (t \in {pointerOn, focusOn} /\ timers[t] = "runs") \/ (pointerOn = t /\ focusOn = t)
<1>1. PICK held, other : Moves(held, other, id)
  BY HoldMoves
<1>2. /\ {held, other} = {pointerOn, focusOn} /\ {id, other} = {pointerOn', focusOn'}
      /\ timers' = Pause(Resume(timers, held), id)
  BY <1>1 DEF Moves
<1>3. /\ id \in DOMAIN timers' => timers'[id] = "paused"
      /\ \A u \in DOMAIN timers' : u # id /\ u # held => timers'[u] = timers[u]
  BY <1>2, HoldIs
<1>4. t # id
  BY <1>3
<1>5. t = other
  BY <1>2, <1>4
<1>6. CASE t = held
  BY <1>2, <1>5, <1>6
<1>7. CASE t # held
  BY <1>2, <1>3, <1>4, <1>5, <1>7
<1> QED BY <1>6, <1>7

\* The time of a notice does not run on while the pointer or the focus is on it, unless both were and one of
\* them left (ToastProvider, "Pause the TTL while the pointer or keyboard focus is on a toast").
THEOREM HeldNoticesPause == ShellSpec => [][HeldPauses]_shellVars
<1>1. ASSUME ShellInv, [ShellNext]_shellVars PROVE [HeldPauses]_shellVars
  <2> DEFINE Stays(t) == timers'[t] = timers[t] /\ (pointerOn' = t => pointerOn = t) /\ (focusOn' = t => focusOn = t)
             Excused(t) == (t \in {pointerOn, focusOn} /\ timers[t] = "runs") \/ (pointerOn = t /\ focusOn = t)
  <2> SUFFICES ASSUME ShellNext, NEW t \in DOMAIN timers \cap DOMAIN timers',
                      t \in {pointerOn', focusOn'}, timers'[t] = "runs"
               PROVE  Excused(t)
    BY <1>1 DEF HeldPauses
  <2>1. ToastInv
    BY <1>1 DEF ShellInv
  <2>2. Stays(t) => Excused(t)
    OBVIOUS
  <2>3. UNCHANGED toastVars => Stays(t)
    BY DEF toastVars
  <2>4. CASE ScrollStep
    BY <2>2, <2>3, <2>4 DEF ScrollStep, PressTab, UserScrolls, PageGrows, ScrollTimer
  <2>5. CASE ViewStep
    <3>1. CASE ReloadPage
      <4>1. timers' = <<>>
        BY <3>1 DEF ReloadPage
      <4>2. DOMAIN timers' = {}
        BY <4>1
      <4> QED BY <4>2
    <3>2. CASE ~ReloadPage
      BY <2>2, <2>3, <2>5, <3>2 DEF ViewStep, SaveView, UseView, DeleteView, ChoosePreset, CycleTheme
    <3> QED BY <3>1, <3>2
  <2>6. CASE PaletteStep
    BY <2>2, <2>3, <2>6 DEF PaletteStep, TogglePalette, TypeCommand, PressArrow, Mark, Click, PressEnter, Run
  <2>7. CASE ToastStep
    <3>1. CASE Notify
      <4>1. AddToast(lastToast + 1)
        BY <3>1 DEF Notify
      <4> QED BY <2>1, <2>2, <4>1, AddedRuns
    <3>2. CASE Connection
      <4>1. AddToast(lastToast + 1) \/ UNCHANGED toastVars
        BY <3>2 DEF Connection, NoneAdded
      <4> QED BY <2>1, <2>2, <2>3, <4>1, AddedRuns
    <3>3. ASSUME NEW id \in ToSet(toasts), ToastExpires(id) \/ Dismiss(id) PROVE Excused(t)
      <4>1. RemoveToast(id)
        BY <3>3 DEF ToastExpires, Dismiss
      <4> QED BY <2>1, <2>2, <4>1, RemovedRuns
    <3>4. ASSUME NEW id \in ToSet(toasts) \cup {NoToast}, PointTo(id) \/ FocusTo(id) PROVE Excused(t)
      BY <2>1, <3>4, HoldsPause
    <3> QED BY <2>7, <3>1, <3>2, <3>3, <3>4 DEF ToastStep
  <2> QED BY <2>4, <2>5, <2>6, <2>7 DEF ShellNext
<1> QED BY <1>1, ShellInvHolds, PTL DEF ShellSpec

(* A list that is gone through once, from its first entry to its last ------ *)

LEMMA PickedRange ==
    ASSUME NEW S, NEW s \in Seq(S), NEW P \in SUBSET DOMAIN s, NEW t, t = Picked(s, P)
    PROVE  t \in Seq(S) /\ Range(t) = {s[i] : i \in P} /\ Len(t) = Cardinality(P)
<1>1. /\ t \in Seq(S) /\ Len(t) = Cardinality(P)
      /\ \A n \in DOMAIN t : Nth(P, n) \in P /\ t[n] = s[Nth(P, n)]
      /\ \A i \in P : \E n \in DOMAIN t : Nth(P, n) = i
  BY PickedIs
<1>2. \A x \in Range(t) : x \in {s[i] : i \in P}
  BY <1>1 DEF Range
<1>3. \A i \in P : s[i] \in Range(t)
  BY <1>1 DEF Range
<1> QED BY <1>1, <1>2, <1>3

LEMMA JoinedRange ==
    ASSUME NEW S, NEW s \in Seq(S), NEW t \in Seq(S)
    PROVE  s \o t \in Seq(S) /\ Range(s \o t) = Range(s) \cup Range(t) /\ Len(s \o t) = Len(s) + Len(t)
<1> DEFINE st == s \o t
<1>1. Len(s) \in Nat /\ Len(t) \in Nat /\ DOMAIN s = 1..Len(s) /\ DOMAIN t = 1..Len(t)
  OBVIOUS
<1>2. st \in Seq(S) /\ Len(st) = Len(s) + Len(t)
      /\ \A i \in 1..(Len(s) + Len(t)) : st[i] = IF i <= Len(s) THEN s[i] ELSE t[i - Len(s)]
  OBVIOUS
<1>3. DOMAIN st = 1..(Len(s) + Len(t))
  BY <1>2
<1> HIDE DEF st
<1>4. ASSUME NEW i \in DOMAIN st PROVE st[i] \in Range(s) \cup Range(t)
  <2>1. CASE i <= Len(s)
    <3>1. i \in DOMAIN s /\ st[i] = s[i]
      BY <1>1, <1>2, <1>3, <2>1
    <3> QED BY <3>1 DEF Range
  <2>2. CASE ~(i <= Len(s))
    <3>1. i - Len(s) \in DOMAIN t /\ st[i] = t[i - Len(s)]
      BY <1>1, <1>2, <1>3, <2>2
    <3> QED BY <3>1 DEF Range
  <2> QED BY <2>1, <2>2
<1>5. ASSUME NEW i \in DOMAIN s PROVE s[i] \in Range(st)
  <2>1. i \in DOMAIN st /\ st[i] = s[i]
    BY <1>1, <1>2, <1>3
  <2> QED BY <2>1 DEF Range
<1>6. ASSUME NEW i \in DOMAIN t PROVE t[i] \in Range(st)
  <2>1. Len(s) + i \in DOMAIN st /\ ~(Len(s) + i <= Len(s)) /\ Len(s) + i - Len(s) = i
    BY <1>1, <1>3
  <2>2. st[Len(s) + i] = t[i]
    BY <1>2, <1>3, <2>1
  <2> QED BY <2>1, <2>2 DEF Range
<1>7. Range(st) \subseteq Range(s) \cup Range(t)
  BY <1>4 DEF Range
<1>8. Range(s) \cup Range(t) \subseteq Range(st)
  BY <1>5, <1>6 DEF Range
<1> QED BY <1>2, <1>7, <1>8 DEF st

RowRecords == [ids : Seq(RowIds), tool : RowTools, started : Nat, duration : Nat \cup {Live},
               tokens : Nat, files : Nat, seen : Nat, errors : Nat]

MergedRows == {r \in RowRecords : r.ids # <<>>}

LEMMA RawIs ==
    ASSUME NEW r \in RawRows
    PROVE  Raw(r) \in MergedRows /\ Range(Raw(r).ids) = {r.id} /\ Raw(r).tokens = r.tokens /\ Raw(r).files = r.files
<1>1. <<r.id>> \in Seq(RowIds) /\ <<r.id>> # <<>> /\ r.id \in RowIds
  BY DEF RawRows
<1>2. Range(<<r.id>>) = {r.id}
  BY DEF Range
<1>3. Raw(r) \in RowRecords
  BY <1>1 DEF Raw, RowRecords, RawRows
<1> QED BY <1>1, <1>2, <1>3 DEF Raw, MergedRows

LEMMA FirstIn ==
    ASSUME NEW ids \in Seq(RowIds), ids # <<>>
    PROVE  FirstId(ids) \in Range(ids) /\ FirstId(ids) \in RowIds
<1> DEFINE own == {i \in DOMAIN ids : ids[i] \in Uuids}
<1>1. Len(ids) \in Nat /\ Len(ids) # 0 /\ DOMAIN ids = 1..Len(ids)
  OBVIOUS
<1>2. ASSUME own # {} PROVE Min(own) \in DOMAIN ids
  <2>1. own \in SUBSET Nat /\ own \subseteq DOMAIN ids
    BY <1>1
  <2> HIDE DEF own
  <2>2. Min(own) \in own
    BY <1>2, <2>1, LeastNumber DEF Min
  <2> QED BY <2>1, <2>2
<1>3. 1 \in DOMAIN ids
  BY <1>1
<1>4. (IF own # {} THEN Min(own) ELSE 1) \in DOMAIN ids
  BY <1>2, <1>3
<1>5. PICK i \in DOMAIN ids : FirstId(ids) = ids[i]
  BY <1>4 DEF FirstId
<1> QED BY <1>1, <1>5 DEF Range

LEMMA MergedIdsAre ==
    ASSUME NEW keep \in MergedRows, NEW other \in MergedRows, NEW ids, ids = AllIds(keep, other),
           NEW new, new = OwnFirst(ids)
    PROVE  new \in Seq(RowIds) /\ new # <<>> /\ Range(new) = Range(keep.ids) \cup Range(other.ids)
<1> DEFINE P == {i \in DOMAIN other.ids : other.ids[i] \notin Range(keep.ids)}
           late == Picked(other.ids, P)
           Q == {i \in DOMAIN ids : ids[i] # FirstId(ids)}
           rest == Picked(ids, Q)
           f == FirstId(ids)
<1>1. keep.ids \in Seq(RowIds) /\ other.ids \in Seq(RowIds) /\ keep.ids # <<>>
  BY DEF MergedRows, RowRecords
<1>2. late \in Seq(RowIds) /\ Range(late) = {other.ids[i] : i \in P}
  <2>1. P \in SUBSET DOMAIN other.ids
    OBVIOUS
  <2> HIDE DEF P
  <2> QED BY <1>1, <2>1, PickedRange
<1>3. ids = keep.ids \o late
  BY DEF AllIds
<1>4. ids \in Seq(RowIds) /\ Range(ids) = Range(keep.ids) \cup Range(late) /\ Len(ids) = Len(keep.ids) + Len(late)
  <2> HIDE DEF late
  <2> QED BY <1>1, <1>2, <1>3, JoinedRange
<1>5. Range(ids) = Range(keep.ids) \cup Range(other.ids)
  BY <1>2, <1>4 DEF Range
<1>6. ids # <<>>
  <2>1. Len(keep.ids) \in Nat /\ Len(keep.ids) # 0 /\ Len(late) \in Nat
    BY <1>1, <1>2
  <2> HIDE DEF late
  <2>2. Len(ids) # 0
    BY <1>4, <2>1
  <2> QED BY <2>2
<1>7. f \in Range(ids) /\ f \in RowIds
  BY <1>4, <1>6, FirstIn
<1>8. rest \in Seq(RowIds) /\ Range(rest) = {ids[i] : i \in Q}
  <2>1. Q \in SUBSET DOMAIN ids
    OBVIOUS
  <2>2. ids \in Seq(RowIds)
    BY <1>4
  <2> HIDE DEF Q
  <2> QED BY <2>1, <2>2, PickedRange
<1>9. <<f>> \in Seq(RowIds) /\ Range(<<f>>) = {f} /\ Len(<<f>>) = 1
  BY <1>7 DEF Range
<1>10. new = <<f>> \o rest
  BY DEF OwnFirst
<1>11. new \in Seq(RowIds) /\ Range(new) = {f} \cup Range(rest) /\ Len(new) = 1 + Len(rest)
  <2>2. rest \in Seq(RowIds) /\ <<f>> \in Seq(RowIds)
    BY <1>8, <1>9
  <2> DEFINE one == <<f>>
  <2>3. one \in Seq(RowIds) /\ new = one \o rest
    BY <2>2, <1>10
  <2>4. rest \in Seq(RowIds)
    BY <2>2
  <2> HIDE DEF f, rest, one
  <2>5. one \o rest \in Seq(RowIds) /\ Range(one \o rest) = Range(one) \cup Range(rest) /\ Len(one \o rest) = Len(one) + Len(rest)
    BY <2>3, <2>4, JoinedRange
  <2>1. new \in Seq(RowIds) /\ Range(new) = Range(<<f>>) \cup Range(rest) /\ Len(new) = Len(<<f>>) + Len(rest)
    BY <2>3, <2>5 DEF one
  <2> QED BY <1>9, <2>1
<1>12. new # <<>>
  <2>1. Len(rest) \in Nat
    BY <1>8
  <2>2. Len(new) # 0
    BY <1>11, <2>1
  <2> QED BY <2>2
<1>13. {f} \cup {ids[i] : i \in Q} = Range(ids)
  BY <1>7 DEF Range
<1> QED BY <1>5, <1>8, <1>11, <1>12, <1>13

LEMMA MergedIs ==
    ASSUME NEW a \in MergedRows, NEW b \in MergedRows, NEW m, m = MergeSessionRows(a, b)
    PROVE  /\ m \in MergedRows /\ Range(m.ids) = Range(a.ids) \cup Range(b.ids)
           /\ m.tokens >= a.tokens /\ m.tokens >= b.tokens /\ m.files >= a.files /\ m.files >= b.files
<1> DEFINE keep == IF b.seen > a.seen THEN b ELSE a
           other == IF b.seen > a.seen THEN a ELSE b
           ids == AllIds(keep, other)
           new == OwnFirst(ids)
           tokens == Max({keep.tokens, other.tokens})
           files == Max({keep.files, other.files})
           duration == IF keep.duration = Live THEN other.duration ELSE keep.duration
<1>1. keep \in MergedRows /\ other \in MergedRows /\ {keep, other} = {a, b}
  OBVIOUS
<1>2. m = [keep EXCEPT !.tokens = tokens, !.files = files, !.duration = duration, !.ids = new]
  BY DEF MergeSessionRows
<1> HIDE DEF keep, other
<1>3. new \in Seq(RowIds) /\ new # <<>> /\ Range(new) = Range(keep.ids) \cup Range(other.ids)
  <2>1. ids = AllIds(keep, other) /\ new = OwnFirst(ids)
    OBVIOUS
  <2> HIDE DEF ids, new
  <2> QED BY <1>1, <2>1, MergedIdsAre
<1>4. /\ keep.tokens \in Nat /\ other.tokens \in Nat /\ keep.files \in Nat /\ other.files \in Nat
      /\ keep.duration \in Nat \cup {Live} /\ other.duration \in Nat \cup {Live}
      /\ keep \in RowRecords
  BY <1>1 DEF MergedRows, RowRecords
<1>5. tokens \in Nat /\ tokens >= keep.tokens /\ tokens >= other.tokens
  <2>1. Max({keep.tokens, other.tokens}) = IF keep.tokens >= other.tokens THEN keep.tokens ELSE other.tokens
    BY <1>4, LargerIs
  <2> QED BY <1>4, <2>1
<1>6. files \in Nat /\ files >= keep.files /\ files >= other.files
  <2>1. Max({keep.files, other.files}) = IF keep.files >= other.files THEN keep.files ELSE other.files
    BY <1>4, LargerIs
  <2> QED BY <1>4, <2>1
<1> HIDE DEF tokens, files, new
<1>7. duration \in Nat \cup {Live}
  BY <1>4
<1> HIDE DEF duration
<1>8. m \in RowRecords /\ m.ids = new /\ m.tokens = tokens /\ m.files = files
  BY <1>2, <1>3, <1>4, <1>5, <1>6, <1>7 DEF RowRecords
<1>9. m \in MergedRows
  BY <1>3, <1>8 DEF MergedRows
<1>10. Range(keep.ids) \cup Range(other.ids) = Range(a.ids) \cup Range(b.ids)
  BY DEF keep, other
<1>11. (keep = a /\ other = b) \/ (keep = b /\ other = a)
  BY DEF keep, other
<1> QED BY <1>3, <1>5, <1>6, <1>8, <1>9, <1>10, <1>11

\* by id: each id once, each reported row with what it counted
Keyed == [key : RowIds, row : MergedRows]

OneKey(rows) ==
    /\ \A i \in DOMAIN rows : Range(rows[i].row.ids) = {rows[i].key}
    /\ \A i, j \in DOMAIN rows : rows[i].key = rows[j].key => i = j

KeyHolds(rows, id, tokens, files) ==
    \E i \in DOMAIN rows : rows[i].key = id /\ rows[i].row.tokens >= tokens /\ rows[i].row.files >= files

LEMMA KeyedAdded ==
    ASSUME NEW rows \in Seq(Keyed), NEW r \in RawRows, \A i \in DOMAIN rows : rows[i].key # r.id,
           NEW new, new = Append(rows, [key |-> r.id, row |-> Raw(r)])
    PROVE  /\ new \in Seq(Keyed) /\ (OneKey(rows) => OneKey(new)) /\ KeyHolds(new, r.id, r.tokens, r.files)
           /\ \A id, tokens, files : KeyHolds(rows, id, tokens, files) => KeyHolds(new, id, tokens, files)
<1> DEFINE x == [key |-> r.id, row |-> Raw(r)]
           n == Len(rows) + 1
<1>1. x \in Keyed /\ Range(x.row.ids) = {x.key} /\ x.key = r.id /\ x.row.tokens = r.tokens /\ x.row.files = r.files
  <2>1. r.id \in RowIds
    BY DEF RawRows
  <2> QED BY <2>1, RawIs DEF Keyed
<1>2. r.tokens \in Nat /\ r.files \in Nat
  BY DEF RawRows
<1> HIDE DEF x
<1>3. new = Append(rows, x)
  BY DEF x
<1>4. new \in Seq(Keyed) /\ new[n] = x /\ DOMAIN rows = 1..Len(rows) /\ DOMAIN new = 1..n
      /\ \A i \in 1..Len(rows) : new[i] = rows[i]
  BY <1>1, <1>3
<1>5. Len(rows) \in Nat /\ n \in DOMAIN new
  BY <1>4
<1>6. \A i \in DOMAIN new : i = n \/ i \in DOMAIN rows
  BY <1>4, <1>5
<1> HIDE DEF n
<1>7. ASSUME OneKey(rows) PROVE OneKey(new)
  <2>1. \A i \in DOMAIN new : Range(new[i].row.ids) = {new[i].key}
    BY <1>1, <1>4, <1>6, <1>7 DEF OneKey
  <2>2. ASSUME NEW i \in DOMAIN new, NEW j \in DOMAIN new, new[i].key = new[j].key PROVE i = j
    BY <1>1, <1>4, <1>6, <1>7, <2>2 DEF OneKey
  <2> QED BY <2>1, <2>2 DEF OneKey
<1>8. KeyHolds(new, r.id, r.tokens, r.files)
  BY <1>1, <1>2, <1>4, <1>5 DEF KeyHolds
<1>9. \A i \in DOMAIN rows : i \in DOMAIN new /\ new[i] = rows[i]
  BY <1>4, <1>5 DEF n
<1>10. \A id, tokens, files : KeyHolds(rows, id, tokens, files) => KeyHolds(new, id, tokens, files)
  BY <1>9 DEF KeyHolds
<1> QED BY <1>4, <1>7, <1>8, <1>10

LEMMA KeyedMerged ==
    ASSUME NEW rows \in Seq(Keyed), NEW r \in RawRows, NEW m \in DOMAIN rows, rows[m].key = r.id,
           NEW new, new = [rows EXCEPT ![m].row = MergeSessionRows(@, Raw(r))]
    PROVE  /\ new \in Seq(Keyed) /\ (OneKey(rows) => OneKey(new)) /\ KeyHolds(new, r.id, r.tokens, r.files)
           /\ \A id : \A tokens \in Nat, files \in Nat : KeyHolds(rows, id, tokens, files) => KeyHolds(new, id, tokens, files)
<1> DEFINE old == rows[m].row
           more == MergeSessionRows(old, Raw(r))
<1>1. rows[m] \in Keyed /\ old \in MergedRows /\ \A i \in DOMAIN rows : rows[i] \in Keyed
  <2>1. \A i \in DOMAIN rows : rows[i] \in Keyed
    OBVIOUS
  <2> QED BY <2>1 DEF Keyed
<1>2. Raw(r) \in MergedRows /\ Range(Raw(r).ids) = {r.id} /\ Raw(r).tokens = r.tokens /\ Raw(r).files = r.files
  BY RawIs
<1>3. /\ more \in MergedRows /\ Range(more.ids) = Range(old.ids) \cup {r.id}
      /\ more.tokens >= old.tokens /\ more.tokens >= r.tokens /\ more.files >= old.files /\ more.files >= r.files
  <2> DEFINE raw == Raw(r)
  <2>1. old \in MergedRows /\ raw \in MergedRows /\ more = MergeSessionRows(old, raw) /\ Range(raw.ids) = {r.id}
    BY <1>1, <1>2
  <2> HIDE DEF old, more, raw
  <2>2. /\ more \in MergedRows /\ Range(more.ids) = Range(old.ids) \cup Range(raw.ids)
        /\ more.tokens >= old.tokens /\ more.tokens >= raw.tokens /\ more.files >= old.files /\ more.files >= raw.files
    BY <2>1, MergedIs
  <2>3. raw.tokens = r.tokens /\ raw.files = r.files
    BY <1>2 DEF raw
  <2> QED BY <2>1, <2>2, <2>3
<1>4. /\ r.tokens \in Nat /\ r.files \in Nat /\ more.tokens \in Nat /\ more.files \in Nat
      /\ \A i \in DOMAIN rows : rows[i].row.tokens \in Nat /\ rows[i].row.files \in Nat
  <2>1. \A x \in MergedRows : x.tokens \in Nat /\ x.files \in Nat
    BY DEF MergedRows, RowRecords
  <2>2. \A i \in DOMAIN rows : rows[i].row \in MergedRows
    BY <1>1 DEF Keyed
  <2> QED BY <1>3, <2>1, <2>2 DEF RawRows
<1>5. new = [rows EXCEPT ![m] = [rows[m] EXCEPT !.row = more]]
  OBVIOUS
<1> HIDE DEF more
<1>6. [rows[m] EXCEPT !.row = more] \in Keyed
  BY <1>1, <1>3 DEF Keyed
<1>7. new \in Seq(Keyed) /\ DOMAIN new = DOMAIN rows
  BY <1>5, <1>6
<1>8. /\ \A i \in DOMAIN rows : new[i].key = rows[i].key
      /\ \A i \in DOMAIN rows : i # m => new[i] = rows[i]
      /\ new[m].row = more
  BY <1>1, <1>5 DEF Keyed
<1>9. ASSUME OneKey(rows) PROVE OneKey(new)
  <2>1. Range(more.ids) = {r.id}
    BY <1>3, <1>9 DEF OneKey
  <2>2. ASSUME NEW i \in DOMAIN new PROVE Range(new[i].row.ids) = {new[i].key}
    <3>1. CASE i = m
      BY <1>7, <1>8, <2>1, <3>1
    <3>2. CASE i # m
      BY <1>7, <1>8, <1>9, <3>2 DEF OneKey
    <3> QED BY <3>1, <3>2
  <2>3. \A i, j \in DOMAIN new : new[i].key = new[j].key => i = j
    BY <1>7, <1>8, <1>9 DEF OneKey
  <2> QED BY <2>2, <2>3 DEF OneKey
<1>10. KeyHolds(new, r.id, r.tokens, r.files)
  BY <1>3, <1>7, <1>8 DEF KeyHolds
<1>11. ASSUME NEW id, NEW tokens \in Nat, NEW files \in Nat, KeyHolds(rows, id, tokens, files)
       PROVE  KeyHolds(new, id, tokens, files)
  <2>1. PICK i \in DOMAIN rows : rows[i].key = id /\ rows[i].row.tokens >= tokens /\ rows[i].row.files >= files
    BY <1>11 DEF KeyHolds
  <2>2. new[i].row.tokens >= tokens /\ new[i].row.files >= files
    <3>1. CASE i = m
      BY <1>3, <1>4, <1>8, <2>1, <3>1
    <3>2. CASE i # m
      BY <1>8, <2>1, <3>2
    <3> QED BY <3>1, <3>2
  <2> QED BY <1>7, <1>8, <2>1, <2>2 DEF KeyHolds
<1> QED BY <1>7, <1>9, <1>10, <1>11

LEMMA AddByIdIs ==
    ASSUME NEW rows \in Seq(Keyed), NEW r \in RawRows, NEW new, new = AddById(rows, r)
    PROVE  /\ new \in Seq(Keyed) /\ (OneKey(rows) => OneKey(new)) /\ KeyHolds(new, r.id, r.tokens, r.files)
           /\ \A id : \A tokens \in Nat, files \in Nat : KeyHolds(rows, id, tokens, files) => KeyHolds(new, id, tokens, files)
<1> DEFINE same == {i \in DOMAIN rows : rows[i].key = r.id}
<1>1. CASE same = {}
  <2>1. \A i \in DOMAIN rows : rows[i].key # r.id
    BY <1>1
  <2>2. new = Append(rows, [key |-> r.id, row |-> Raw(r)])
    BY <1>1 DEF AddById
  <2> QED BY <2>1, <2>2, KeyedAdded
<1>2. CASE same # {}
  <2>1. same \in SUBSET Nat
    OBVIOUS
  <2> DEFINE m == Min(same)
  <2>2. m \in same
    <3> HIDE DEF same
    <3> QED BY <1>2, <2>1, LeastNumber DEF Min
  <2>3. new = [rows EXCEPT ![m].row = MergeSessionRows(@, Raw(r))]
    BY <1>2 DEF AddById
  <2>4. m \in DOMAIN rows /\ rows[m].key = r.id
    BY <2>2
  <2> HIDE DEF m, same
  <2> QED BY <2>3, <2>4, KeyedMerged
<1> QED BY <1>1, <1>2

ById0(raw) == CHOOSE g : g = [n \in 0..Len(raw) |-> IF n = 0 THEN <<>> ELSE AddById(g[n-1], raw[n])]

LEMMA ByIdRuns ==
    ASSUME NEW raw \in Seq(RawRows), NEW g, g = ById0(raw)
    PROVE  /\ ById(raw) = g[Len(raw)] /\ g[0] = <<>>
           /\ \A n \in 0..Len(raw) : g[n] \in Seq(Keyed)
           /\ \A n \in 1..Len(raw) : g[n] = AddById(g[n-1], raw[n])
<1> DEFINE N == Len(raw)
           S == Seq(Keyed)
           step == [x \in S \X (1..N) |-> AddById(x[1], raw[x[2]])]
<1>1. N \in Nat /\ \A n \in 1..N : raw[n] \in RawRows
  OBVIOUS
<1>2. <<>> \in S
  OBVIOUS
<1>3. step \in [S \X (1..N) -> S]
  <2>1. ASSUME NEW x \in S \X (1..N) PROVE AddById(x[1], raw[x[2]]) \in S
    <3>1. x[1] \in S /\ x[2] \in 1..N
      OBVIOUS
    <3> QED BY <1>1, <3>1, AddByIdIs
  <2> QED BY <2>1
<1>4. PICK h \in [0..N -> S] : Accumulated(h, <<>>, step, N)
  <2> HIDE DEF S, N, step
  <2> QED BY <1>1, <1>2, <1>3, Accumulates
<1>5. \A n \in 0..N : h[n] = IF n = 0 THEN <<>> ELSE step[<<h[n-1], n>>]
  BY <1>4 DEF Accumulated
<1>6. ASSUME NEW n \in 1..N PROVE step[<<h[n-1], n>>] = AddById(h[n-1], raw[n])
  <2>1. n - 1 \in 0..N
    BY <1>1
  <2>2. <<h[n-1], n>> \in S \X (1..N)
    BY <1>4, <2>1
  <2> QED BY <2>2
<1> HIDE DEF step
<1>7. h = [n \in 0..N |-> IF n = 0 THEN <<>> ELSE AddById(h[n-1], raw[n])]
  <2>1. h = [n \in 0..N |-> h[n]]
    BY <1>4
  <2>2. ASSUME NEW n \in 0..N PROVE h[n] = IF n = 0 THEN <<>> ELSE AddById(h[n-1], raw[n])
    <3>1. CASE n = 0
      BY <1>5, <3>1
    <3>2. CASE n # 0
      <4>1. n \in 1..N
        BY <1>1, <3>2
      <4> QED BY <1>5, <1>6, <3>2, <4>1
    <3> QED BY <3>1, <3>2
  <2> QED BY <2>1, <2>2
<1>8. g = [n \in 0..N |-> IF n = 0 THEN <<>> ELSE AddById(g[n-1], raw[n])]
  BY <1>7 DEF ById0
<1>9. \A n \in 0..N : g[n] = IF n = 0 THEN <<>> ELSE AddById(g[n-1], raw[n])
  BY <1>8
<1>10. g[0] = <<>> /\ \A n \in 1..N : g[n] = AddById(g[n-1], raw[n])
  BY <1>1, <1>9
<1>11. \A n \in 0..N : g[n] \in S
  <2> DEFINE T == {n \in 0..N : g[n] \in S}
  <2>1. 0 \in T
    <3>1. 0 \in 0..N
      BY <1>1
    <3> QED BY <1>2, <1>10, <3>1
  <2>2. ASSUME NEW n \in 1..N, n - 1 \in T PROVE n \in T
    <3>1. g[n-1] \in Seq(Keyed) /\ raw[n] \in RawRows
      BY <1>1, <2>2
    <3>2. AddById(g[n-1], raw[n]) \in Seq(Keyed)
      BY <3>1, AddByIdIs
    <3> QED BY <1>1, <1>10, <3>2
  <2> HIDE DEF T
  <2>3. \A n \in 1..N : n - 1 \in T => n \in T
    BY <2>2
  <2>4. \A n \in 0..N : n \in T
    BY <1>1, <2>1, <2>3, CountsUp
  <2> QED BY <2>4 DEF T
<1>12. ById(raw) = g[N]
  BY DEF ById, ById0
<1> QED BY <1>10, <1>11, <1>12

LEMMA ByIdIs ==
    ASSUME NEW raw \in Seq(RawRows), NEW rows, rows = ById(raw)
    PROVE  /\ rows \in Seq(Keyed) /\ OneKey(rows)
           /\ \A k \in DOMAIN raw : KeyHolds(rows, raw[k].id, raw[k].tokens, raw[k].files)
<1> DEFINE g == ById0(raw)
           N == Len(raw)
           Told(n) == \A k \in 1..n : KeyHolds(g[n], raw[k].id, raw[k].tokens, raw[k].files)
           T == {n \in 0..N : OneKey(g[n]) /\ Told(n)}
<1>1. N \in Nat /\ DOMAIN raw = 1..N /\ \A n \in 1..N : raw[n] \in RawRows
  OBVIOUS
<1>2. /\ rows = g[N] /\ g[0] = <<>> /\ \A n \in 0..N : g[n] \in Seq(Keyed)
      /\ \A n \in 1..N : g[n] = AddById(g[n-1], raw[n])
  <2> HIDE DEF g
  <2> QED BY ByIdRuns DEF g
<1> HIDE DEF g
<1>3. 0 \in T
  <2>1. OneKey(<<>>)
    BY DEF OneKey
  <2>2. Told(0)
    OBVIOUS
  <2> HIDE DEF Told
  <2> QED BY <1>1, <1>2, <2>1, <2>2
<1>4. ASSUME NEW n \in 1..N, n - 1 \in T PROVE n \in T
  <2> DEFINE old == g[n-1]
             new == g[n]
             r == raw[n]
  <2>1. old \in Seq(Keyed) /\ r \in RawRows /\ new = AddById(old, r) /\ n - 1 \in 0..N /\ n \in 0..N
    <3>1. n - 1 \in 0..N /\ n \in 0..N
      BY <1>1
    <3> QED BY <1>1, <1>2, <3>1
  <2>2. OneKey(old) /\ \A k \in 1..(n-1) : KeyHolds(old, raw[k].id, raw[k].tokens, raw[k].files)
    BY <1>4
  <2>3. /\ (OneKey(old) => OneKey(new)) /\ KeyHolds(new, r.id, r.tokens, r.files)
        /\ \A id : \A tokens \in Nat, files \in Nat : KeyHolds(old, id, tokens, files) => KeyHolds(new, id, tokens, files)
    <3> HIDE DEF old, new, r
    <3> QED BY <2>1, AddByIdIs
  <2>4. ASSUME NEW k \in 1..n PROVE KeyHolds(new, raw[k].id, raw[k].tokens, raw[k].files)
    <3>1. CASE k = n
      BY <2>3, <3>1
    <3>2. CASE k # n
      <4>1. k \in 1..(n-1) /\ k \in 1..N
        BY <1>1, <3>2
      <4>2. raw[k].tokens \in Nat /\ raw[k].files \in Nat
        BY <1>1, <4>1 DEF RawRows
      <4>3. KeyHolds(old, raw[k].id, raw[k].tokens, raw[k].files)
        BY <2>2, <4>1
      <4> HIDE DEF old, new, r
      <4> QED BY <2>3, <4>2, <4>3
    <3> QED BY <3>1, <3>2
  <2> QED BY <2>1, <2>2, <2>3, <2>4
<1> HIDE DEF T
<1>5. \A n \in 1..N : n - 1 \in T => n \in T
  BY <1>4
<1>6. \A n \in 0..N : n \in T
  BY <1>1, <1>3, <1>5, CountsUp
<1>7. N \in T
  BY <1>1, <1>6
<1> QED BY <1>1, <1>2, <1>7 DEF T

\* by time: no id in two rows, each of the rows by id with what it counted
RowsApart(rows) == \A i, j \in DOMAIN rows : i # j => Range(rows[i].ids) \cap Range(rows[j].ids) = {}

IdsAmong(rows, ids) == \A i \in DOMAIN rows : Range(rows[i].ids) \subseteq ids

IdHolds(rows, id, tokens, files) ==
    \E i \in DOMAIN rows : id \in Range(rows[i].ids) /\ rows[i].tokens >= tokens /\ rows[i].files >= files

LEMMA RowAdded ==
    ASSUME NEW rows \in Seq(MergedRows), NEW r \in MergedRows, NEW ids, RowsApart(rows), IdsAmong(rows, ids),
           Range(r.ids) \cap ids = {}, NEW new, new = Append(rows, r)
    PROVE  /\ new \in Seq(MergedRows) /\ RowsApart(new) /\ IdsAmong(new, ids \cup Range(r.ids))
           /\ \A id \in Range(r.ids) : IdHolds(new, id, r.tokens, r.files)
           /\ \A id : \A tokens \in Nat, files \in Nat : IdHolds(rows, id, tokens, files) => IdHolds(new, id, tokens, files)
<1> DEFINE n == Len(rows) + 1
<1>1. new \in Seq(MergedRows) /\ new[n] = r /\ DOMAIN rows = 1..Len(rows) /\ DOMAIN new = 1..n
      /\ \A i \in 1..Len(rows) : new[i] = rows[i]
  OBVIOUS
<1>2. Len(rows) \in Nat /\ n \in DOMAIN new
  BY <1>1
<1>3. \A i \in DOMAIN new : i = n \/ i \in DOMAIN rows
  BY <1>1, <1>2
<1>4. \A i \in DOMAIN rows : i \in DOMAIN new /\ new[i] = rows[i] /\ i # n
  BY <1>1, <1>2
<1>5. r.tokens \in Nat /\ r.files \in Nat
  BY DEF MergedRows, RowRecords
<1> HIDE DEF n
<1>6. ASSUME NEW i \in DOMAIN new, NEW j \in DOMAIN new, i # j PROVE Range(new[i].ids) \cap Range(new[j].ids) = {}
  <2>1. CASE i = n
    <3>1. j \in DOMAIN rows /\ new[j] = rows[j] /\ new[i] = r
      BY <1>1, <1>3, <1>4, <1>6, <2>1
    <3> QED BY <3>1 DEF IdsAmong
  <2>2. CASE i # n /\ j = n
    <3>1. i \in DOMAIN rows /\ new[i] = rows[i] /\ new[j] = r
      BY <1>1, <1>3, <1>4, <2>2
    <3> QED BY <3>1 DEF IdsAmong
  <2>3. CASE i # n /\ j # n
    <3>1. i \in DOMAIN rows /\ new[i] = rows[i] /\ j \in DOMAIN rows /\ new[j] = rows[j]
      BY <1>3, <1>4, <2>3
    <3> QED BY <1>6, <3>1 DEF RowsApart
  <2> QED BY <2>1, <2>2, <2>3
<1>7. ASSUME NEW i \in DOMAIN new PROVE Range(new[i].ids) \subseteq ids \cup Range(r.ids)
  <2>1. CASE i = n
    BY <1>1, <2>1
  <2>2. CASE i # n
    <3>1. i \in DOMAIN rows /\ new[i] = rows[i]
      BY <1>3, <1>4, <2>2
    <3> QED BY <3>1 DEF IdsAmong
  <2> QED BY <2>1, <2>2
<1>8. \A id \in Range(r.ids) : IdHolds(new, id, r.tokens, r.files)
  BY <1>1, <1>2, <1>5 DEF IdHolds
<1>9. \A id : \A tokens \in Nat, files \in Nat : IdHolds(rows, id, tokens, files) => IdHolds(new, id, tokens, files)
  BY <1>4 DEF IdHolds
<1> QED BY <1>1, <1>6, <1>7, <1>8, <1>9 DEF RowsApart, IdsAmong

LEMMA RowMerged ==
    ASSUME NEW rows \in Seq(MergedRows), NEW r \in MergedRows, NEW ids, RowsApart(rows), IdsAmong(rows, ids),
           Range(r.ids) \cap ids = {}, NEW m \in DOMAIN rows, NEW more, more = MergeSessionRows(rows[m], r),
           NEW new, new = [rows EXCEPT ![m] = more]
    PROVE  /\ new \in Seq(MergedRows) /\ RowsApart(new) /\ IdsAmong(new, ids \cup Range(r.ids))
           /\ \A id \in Range(r.ids) : IdHolds(new, id, r.tokens, r.files)
           /\ \A id : \A tokens \in Nat, files \in Nat : IdHolds(rows, id, tokens, files) => IdHolds(new, id, tokens, files)
<1>1. rows[m] \in MergedRows /\ \A i \in DOMAIN rows : rows[i] \in MergedRows
  OBVIOUS
<1>2. /\ more \in MergedRows /\ Range(more.ids) = Range(rows[m].ids) \cup Range(r.ids)
      /\ more.tokens >= rows[m].tokens /\ more.tokens >= r.tokens /\ more.files >= rows[m].files /\ more.files >= r.files
  <2> DEFINE a == rows[m]
  <2>1. a \in MergedRows /\ more = MergeSessionRows(a, r)
    BY <1>1
  <2> HIDE DEF a
  <2>2. /\ more \in MergedRows /\ Range(more.ids) = Range(a.ids) \cup Range(r.ids)
        /\ more.tokens >= a.tokens /\ more.tokens >= r.tokens /\ more.files >= a.files /\ more.files >= r.files
    BY <2>1, MergedIs
  <2> QED BY <2>2 DEF a
<1>3. new \in Seq(MergedRows) /\ DOMAIN new = DOMAIN rows /\ new[m] = more /\ \A i \in DOMAIN rows : i # m => new[i] = rows[i]
  BY <1>2
<1>4. \A x \in MergedRows : x.tokens \in Nat /\ x.files \in Nat
  BY DEF MergedRows, RowRecords
<1>5. \A j \in DOMAIN rows : Range(rows[j].ids) \subseteq ids
  BY DEF IdsAmong
<1>6. ASSUME NEW i \in DOMAIN rows, i # m PROVE Range(new[i].ids) \cap Range(new[m].ids) = {}
  <2>1. Range(rows[i].ids) \cap Range(rows[m].ids) = {} /\ Range(rows[i].ids) \cap Range(r.ids) = {}
    BY <1>5, <1>6 DEF RowsApart
  <2> QED BY <1>2, <1>3, <1>6, <2>1
<1>7. ASSUME NEW i \in DOMAIN new, NEW j \in DOMAIN new, i # j PROVE Range(new[i].ids) \cap Range(new[j].ids) = {}
  <2>1. CASE i = m
    BY <1>3, <1>6, <1>7, <2>1
  <2>2. CASE i # m /\ j = m
    BY <1>3, <1>6, <2>2
  <2>3. CASE i # m /\ j # m
    BY <1>3, <1>7, <2>3 DEF RowsApart
  <2> QED BY <2>1, <2>2, <2>3
<1>8. ASSUME NEW i \in DOMAIN new PROVE Range(new[i].ids) \subseteq ids \cup Range(r.ids)
  <2>1. CASE i = m
    BY <1>2, <1>3, <1>5, <2>1
  <2>2. CASE i # m
    BY <1>3, <1>5, <2>2
  <2> QED BY <2>1, <2>2
<1>9. \A id \in Range(r.ids) : IdHolds(new, id, r.tokens, r.files)
  BY <1>2, <1>3 DEF IdHolds
<1>10. ASSUME NEW id, NEW tokens \in Nat, NEW files \in Nat, IdHolds(rows, id, tokens, files)
       PROVE  IdHolds(new, id, tokens, files)
  <2>1. PICK i \in DOMAIN rows : id \in Range(rows[i].ids) /\ rows[i].tokens >= tokens /\ rows[i].files >= files
    BY <1>10 DEF IdHolds
  <2>2. CASE i = m
    <3>1. id \in Range(more.ids)
      BY <1>2, <2>1, <2>2
    <3>2. more.tokens \in Nat /\ rows[m].tokens \in Nat /\ more.files \in Nat /\ rows[m].files \in Nat
      BY <1>1, <1>2, <1>4
    <3>3. more.tokens >= tokens /\ more.files >= files
      BY <1>2, <2>1, <2>2, <3>2
    <3> QED BY <1>3, <3>1, <3>3 DEF IdHolds
  <2>3. CASE i # m
    BY <1>3, <2>1, <2>3 DEF IdHolds
  <2> QED BY <2>2, <2>3
<1> QED BY <1>3, <1>7, <1>8, <1>9, <1>10 DEF RowsApart, IdsAmong

LEMMA AddNearIs ==
    ASSUME NEW rows \in Seq(MergedRows), NEW r \in MergedRows, NEW ids, RowsApart(rows), IdsAmong(rows, ids),
           Range(r.ids) \cap ids = {}, NEW new, new = AddNear(rows, r)
    PROVE  /\ new \in Seq(MergedRows) /\ RowsApart(new) /\ IdsAmong(new, ids \cup Range(r.ids))
           /\ \A id \in Range(r.ids) : IdHolds(new, id, r.tokens, r.files)
           /\ \A id : \A tokens \in Nat, files \in Nat : IdHolds(rows, id, tokens, files) => IdHolds(new, id, tokens, files)
<1> DEFINE near == {i \in DOMAIN rows : IsNearDuplicate(rows[i], r)}
<1>1. CASE near = {}
  <2>1. new = Append(rows, r)
    BY <1>1 DEF AddNear
  <2> QED BY <2>1, RowAdded
<1>2. CASE near # {}
  <2>1. near \in SUBSET Nat /\ near \subseteq DOMAIN rows
    OBVIOUS
  <2> DEFINE m == Min(near)
             more == MergeSessionRows(rows[m], r)
  <2>2. new = [rows EXCEPT ![m] = more]
    BY <1>2 DEF AddNear
  <2> HIDE DEF near
  <2>3. m \in DOMAIN rows
    BY <1>2, <2>1, LeastNumber DEF Min
  <2> HIDE DEF m
  <2>4. more = MergeSessionRows(rows[m], r)
    OBVIOUS
  <2> HIDE DEF more
  <2> QED BY <2>2, <2>3, <2>4, RowMerged
<1> QED BY <1>1, <1>2

LEMMA AddNearTyped ==
    ASSUME NEW rows \in Seq(MergedRows), NEW r \in MergedRows
    PROVE  AddNear(rows, r) \in Seq(MergedRows)
<1> DEFINE near == {i \in DOMAIN rows : IsNearDuplicate(rows[i], r)}
<1>1. CASE near = {}
  <2>1. AddNear(rows, r) = Append(rows, r)
    BY <1>1 DEF AddNear
  <2> QED BY <2>1
<1>2. CASE near # {}
  <2>1. near \in SUBSET Nat /\ near \subseteq DOMAIN rows
    OBVIOUS
  <2> DEFINE m == Min(near)
             more == MergeSessionRows(rows[m], r)
  <2>2. AddNear(rows, r) = [rows EXCEPT ![m] = more]
    BY <1>2 DEF AddNear
  <2> HIDE DEF near
  <2>3. m \in DOMAIN rows
    BY <1>2, <2>1, LeastNumber DEF Min
  <2> HIDE DEF m
  <2>4. rows[m] \in MergedRows
    BY <2>3
  <2>5. more \in MergedRows
    BY <2>4, MergedIs
  <2> HIDE DEF more
  <2> QED BY <2>2, <2>3, <2>5
<1> QED BY <1>1, <1>2

NearOf(keyed) == CHOOSE g : g = [n \in 0..Len(keyed) |-> IF n = 0 THEN <<>> ELSE AddNear(g[n-1], keyed[n].row)]

LEMMA DedupeRuns ==
    ASSUME NEW keyed \in Seq(Keyed), NEW g, g = NearOf(keyed)
    PROVE  /\ g[0] = <<>>
           /\ \A n \in 0..Len(keyed) : g[n] \in Seq(MergedRows)
           /\ \A n \in 1..Len(keyed) : g[n] = AddNear(g[n-1], keyed[n].row)
<1> DEFINE N == Len(keyed)
           S == Seq(MergedRows)
           step == [x \in S \X (1..N) |-> AddNear(x[1], keyed[x[2]].row)]
<1>1. N \in Nat /\ \A n \in 1..N : keyed[n].row \in MergedRows
  <2>1. N \in Nat /\ \A n \in 1..N : keyed[n] \in Keyed
    OBVIOUS
  <2> QED BY <2>1 DEF Keyed
<1>2. <<>> \in S
  OBVIOUS
<1>3. step \in [S \X (1..N) -> S]
  <2>1. ASSUME NEW x \in S \X (1..N) PROVE AddNear(x[1], keyed[x[2]].row) \in S
    <3>1. x[1] \in S /\ x[2] \in 1..N
      OBVIOUS
    <3> QED BY <1>1, <3>1, AddNearTyped
  <2> QED BY <2>1
<1>4. PICK h \in [0..N -> S] : Accumulated(h, <<>>, step, N)
  <2> HIDE DEF S, N, step
  <2> QED BY <1>1, <1>2, <1>3, Accumulates
<1>5. \A n \in 0..N : h[n] = IF n = 0 THEN <<>> ELSE step[<<h[n-1], n>>]
  BY <1>4 DEF Accumulated
<1>6. ASSUME NEW n \in 1..N PROVE step[<<h[n-1], n>>] = AddNear(h[n-1], keyed[n].row)
  <2>1. n - 1 \in 0..N
    BY <1>1
  <2>2. <<h[n-1], n>> \in S \X (1..N)
    BY <1>4, <2>1
  <2> QED BY <2>2
<1> HIDE DEF step
<1>7. h = [n \in 0..N |-> IF n = 0 THEN <<>> ELSE AddNear(h[n-1], keyed[n].row)]
  <2>1. h = [n \in 0..N |-> h[n]]
    BY <1>4
  <2>2. ASSUME NEW n \in 0..N PROVE h[n] = IF n = 0 THEN <<>> ELSE AddNear(h[n-1], keyed[n].row)
    <3>1. CASE n = 0
      BY <1>5, <3>1
    <3>2. CASE n # 0
      <4>1. n \in 1..N
        BY <1>1, <3>2
      <4> QED BY <1>5, <1>6, <3>2, <4>1
    <3> QED BY <3>1, <3>2
  <2> QED BY <2>1, <2>2
<1>8. g = [n \in 0..N |-> IF n = 0 THEN <<>> ELSE AddNear(g[n-1], keyed[n].row)]
  BY <1>7 DEF NearOf
<1>9. \A n \in 0..N : g[n] = IF n = 0 THEN <<>> ELSE AddNear(g[n-1], keyed[n].row)
  BY <1>8
<1>10. g[0] = <<>> /\ \A n \in 1..N : g[n] = AddNear(g[n-1], keyed[n].row)
  BY <1>1, <1>9
<1>11. \A n \in 0..N : g[n] \in S
  <2> DEFINE T == {n \in 0..N : g[n] \in S}
  <2>1. 0 \in T
    <3>1. 0 \in 0..N
      BY <1>1
    <3> QED BY <1>2, <1>10, <3>1
  <2>2. ASSUME NEW n \in 1..N, n - 1 \in T PROVE n \in T
    <3>1. g[n-1] \in Seq(MergedRows) /\ keyed[n].row \in MergedRows
      BY <1>1, <2>2
    <3>2. AddNear(g[n-1], keyed[n].row) \in Seq(MergedRows)
      BY <3>1, AddNearTyped
    <3> QED BY <1>1, <1>10, <3>2
  <2> HIDE DEF T
  <2>3. \A n \in 1..N : n - 1 \in T => n \in T
    BY <2>2
  <2>4. \A n \in 0..N : n \in T
    BY <1>1, <2>1, <2>3, CountsUp
  <2> QED BY <2>4 DEF T
<1> QED BY <1>10, <1>11

\* The rows of one answer: none shares an id with another, and each id reported is with one that has
\* what was counted under it.
LEMMA DedupedIs ==
    ASSUME NEW raw \in Seq(RawRows), NEW rows, rows = DedupeSessions(raw)
    PROVE  /\ rows \in Seq(MergedRows) /\ RowsApart(rows)
           /\ \A k \in DOMAIN raw : IdHolds(rows, raw[k].id, raw[k].tokens, raw[k].files)
<1> DEFINE keyed == ById(raw)
           g == NearOf(keyed)
           N == Len(keyed)
           Keys(n) == {keyed[k].key : k \in 1..n}
           Told(n) == \A k \in 1..n : IdHolds(g[n], keyed[k].key, keyed[k].row.tokens, keyed[k].row.files)
           T == {n \in 0..N : RowsApart(g[n]) /\ IdsAmong(g[n], Keys(n)) /\ Told(n)}
<1>1. rows = g[N]
  BY DEF DedupeSessions, NearOf
<1>2. /\ keyed \in Seq(Keyed) /\ OneKey(keyed)
      /\ \A k \in DOMAIN raw : KeyHolds(keyed, raw[k].id, raw[k].tokens, raw[k].files)
  <2>1. keyed = ById(raw)
    OBVIOUS
  <2> HIDE DEF keyed
  <2> QED BY <2>1, ByIdIs
<1> HIDE DEF keyed
<1>3. /\ N \in Nat /\ DOMAIN keyed = 1..N /\ \A n \in 1..N : keyed[n].row \in MergedRows
      /\ \A n \in 1..N : keyed[n].row.tokens \in Nat /\ keyed[n].row.files \in Nat
      /\ \A n \in 1..N : Range(keyed[n].row.ids) = {keyed[n].key}
      /\ \A i, j \in 1..N : keyed[i].key = keyed[j].key => i = j
  <2>1. N \in Nat /\ DOMAIN keyed = 1..N /\ \A n \in 1..N : keyed[n] \in Keyed
    BY <1>2
  <2>2. \A n \in 1..N : keyed[n].row \in MergedRows
    BY <2>1 DEF Keyed
  <2>3. \A r \in MergedRows : r.tokens \in Nat /\ r.files \in Nat
    BY DEF MergedRows, RowRecords
  <2>4. /\ \A n \in 1..N : Range(keyed[n].row.ids) = {keyed[n].key}
        /\ \A i, j \in 1..N : keyed[i].key = keyed[j].key => i = j
    BY <1>2, <2>1 DEF OneKey
  <2> QED BY <2>1, <2>2, <2>3, <2>4
<1>4. /\ g[0] = <<>> /\ \A n \in 0..N : g[n] \in Seq(MergedRows)
      /\ \A n \in 1..N : g[n] = AddNear(g[n-1], keyed[n].row)
  <2>1. g = NearOf(keyed) /\ keyed \in Seq(Keyed)
    BY <1>2
  <2> HIDE DEF g
  <2> QED BY <2>1, DedupeRuns
<1> HIDE DEF g
<1>5. 0 \in T
  <2>1. RowsApart(<<>>) /\ IdsAmong(<<>>, Keys(0))
    BY DEF RowsApart, IdsAmong
  <2>2. Told(0)
    OBVIOUS
  <2>3. 0 \in 0..N
    BY <1>3
  <2> HIDE DEF Told, Keys
  <2> QED BY <1>4, <2>1, <2>2, <2>3
<1>6. ASSUME NEW n \in 1..N, n - 1 \in T PROVE n \in T
  <2> DEFINE old == g[n-1]
             new == g[n]
             r == keyed[n].row
             ids == Keys(n-1)
  <2>1. n - 1 \in 0..N /\ n \in 0..N
    BY <1>3
  <2>2. old \in Seq(MergedRows) /\ r \in MergedRows /\ new = AddNear(old, r)
    BY <1>3, <1>4, <2>1
  <2>3. RowsApart(old) /\ IdsAmong(old, ids)
    BY <1>6
  <2>4. \A k \in 1..(n-1) : IdHolds(old, keyed[k].key, keyed[k].row.tokens, keyed[k].row.files)
    BY <1>6
  <2>5. Range(r.ids) = {keyed[n].key}
    BY <1>3
  <2>6. \A k \in 1..(n-1) : k \in 1..N /\ k # n
    BY <1>3
  <2>7. keyed[n].key \notin ids
    BY <1>3, <2>6
  <2>8. Range(r.ids) \cap ids = {}
    BY <2>5, <2>7
  <2>9. Keys(n) = ids \cup Range(r.ids)
    <3>1. 1..n = (1..(n-1)) \cup {n}
      BY <1>3
    <3> QED BY <2>5, <3>1
  <2>10. /\ RowsApart(new) /\ IdsAmong(new, ids \cup Range(r.ids))
         /\ \A id \in Range(r.ids) : IdHolds(new, id, r.tokens, r.files)
         /\ \A id : \A tokens \in Nat, files \in Nat : IdHolds(old, id, tokens, files) => IdHolds(new, id, tokens, files)
    <3> HIDE DEF old, new, r, ids
    <3> QED BY <2>2, <2>3, <2>8, AddNearIs
  <2>11. IdHolds(new, keyed[n].key, keyed[n].row.tokens, keyed[n].row.files)
    BY <2>5, <2>10
  <2>12. ASSUME NEW k \in 1..n PROVE IdHolds(new, keyed[k].key, keyed[k].row.tokens, keyed[k].row.files)
    <3>1. CASE k = n
      BY <2>11, <3>1
    <3>2. CASE k # n
      <4>1. k \in 1..(n-1)
        BY <1>3, <3>2
      <4>2. keyed[k].row.tokens \in Nat /\ keyed[k].row.files \in Nat
        BY <1>3, <2>6, <4>1
      <4> QED BY <2>4, <2>10, <4>1, <4>2
    <3> QED BY <3>1, <3>2
  <2>13. IdsAmong(new, Keys(n))
    BY <2>9, <2>10
  <2> HIDE DEF Keys
  <2> QED BY <2>1, <2>10, <2>12, <2>13
<1> HIDE DEF T
<1>7. \A n \in 1..N : n - 1 \in T => n \in T
  BY <1>6
<1>8. \A n \in 0..N : n \in T
  BY <1>3, <1>5, <1>7, CountsUp
<1>9. N \in T /\ N \in 0..N
  BY <1>3, <1>8
<1>10. rows \in Seq(MergedRows) /\ RowsApart(rows)
  BY <1>1, <1>4, <1>9 DEF T
<1>11. \A k \in 1..N : IdHolds(rows, keyed[k].key, keyed[k].row.tokens, keyed[k].row.files)
  BY <1>1, <1>9 DEF T
<1>12. ASSUME NEW k \in DOMAIN raw PROVE IdHolds(rows, raw[k].id, raw[k].tokens, raw[k].files)
  <2>1. PICK m \in 1..N : keyed[m].key = raw[k].id /\ keyed[m].row.tokens >= raw[k].tokens /\ keyed[m].row.files >= raw[k].files
    BY <1>2, <1>3 DEF KeyHolds
  <2>2. PICK i \in DOMAIN rows : /\ keyed[m].key \in Range(rows[i].ids)
                                 /\ rows[i].tokens >= keyed[m].row.tokens /\ rows[i].files >= keyed[m].row.files
    BY <1>11 DEF IdHolds
  <2>3. /\ rows[i].tokens \in Nat /\ rows[i].files \in Nat /\ raw[k].tokens \in Nat /\ raw[k].files \in Nat
        /\ keyed[m].row.tokens \in Nat /\ keyed[m].row.files \in Nat
    <3>1. rows[i] \in MergedRows /\ raw[k] \in RawRows
      BY <1>10
    <3> QED BY <1>3, <3>1 DEF MergedRows, RowRecords, RawRows
  <2>4. rows[i].tokens >= raw[k].tokens /\ rows[i].files >= raw[k].files
    BY <2>1, <2>2, <2>3
  <2> QED BY <2>1, <2>2, <2>4 DEF IdHolds
<1> QED BY <1>10, <1>12

LEMMA SessionsAre ==
    ASSUME reported \in RowAnswers, NEW all, all = AllSessions
    PROVE  /\ all \in Seq(MergedRows) /\ RowsApart(all) /\ NoRow \notin Range(all) /\ reported \in Seq(RawRows)
           /\ \A k \in DOMAIN reported : IdHolds(all, reported[k].id, reported[k].tokens, reported[k].files)
<1>1. reported \in Seq(RawRows) /\ all = DedupeSessions(reported)
  BY RowData DEF AllSessions
<1>2. NoRow \notin Range(all)
  BY <1>1, NoRowIsNone
<1> QED BY <1>1, <1>2, DedupedIs

\* what rows that share no id are good for
LEMMA FirstIsOne ==
    ASSUME NEW rows \in Seq(MergedRows), NEW i \in DOMAIN rows
    PROVE  rows[i].ids[1] \in Range(rows[i].ids) /\ rows[i].ids[1] \in RowIds /\ rows[i] \in MergedRows
<1>1. rows[i] \in MergedRows
  OBVIOUS
<1> DEFINE ids == rows[i].ids
<1>2. ids \in Seq(RowIds) /\ ids # <<>>
  BY <1>1 DEF MergedRows, RowRecords
<1> HIDE DEF ids
<1>3. 1 \in DOMAIN ids
  BY <1>2
<1>4. ids[1] \in Range(ids) /\ ids[1] \in RowIds
  BY <1>2, <1>3 DEF Range
<1> QED BY <1>1, <1>4 DEF ids

LEMMA ApartOnce == ASSUME NEW rows \in Seq(MergedRows), RowsApart(rows) PROVE IsInjective(rows)
<1>1. ASSUME NEW i \in DOMAIN rows, NEW j \in DOMAIN rows, rows[i] = rows[j] PROVE i = j
  <2>1. rows[i].ids[1] \in Range(rows[i].ids) /\ rows[i].ids[1] \in Range(rows[j].ids)
    BY <1>1, FirstIsOne
  <2> QED BY <2>1 DEF RowsApart
<1> QED BY <1>1 DEF IsInjective

LEMMA OneFirst ==
    ASSUME NEW rows \in Seq(MergedRows), RowsApart(rows), NEW id, NEW t, t = Picked(rows, {i \in DOMAIN rows : rows[i].ids[1] = id})
    PROVE  Len(t) <= 1
<1> DEFINE P == {i \in DOMAIN rows : rows[i].ids[1] = id}
<1>1. ASSUME NEW i \in P, NEW j \in P PROVE i = j
  <2>1. i \in DOMAIN rows /\ j \in DOMAIN rows /\ rows[i].ids[1] = id /\ rows[j].ids[1] = id
    OBVIOUS
  <2>2. id \in Range(rows[i].ids) /\ id \in Range(rows[j].ids)
    BY <2>1, FirstIsOne
  <2> QED BY <2>1, <2>2 DEF RowsApart
<1>2. P \in SUBSET DOMAIN rows /\ t = Picked(rows, P)
  OBVIOUS
<1> HIDE DEF P
<1>3. Len(t) = Cardinality(P)
  BY <1>2, PickedRange
<1>4. CASE P = {}
  BY <1>3, <1>4, FS_EmptySet
<1>5. CASE P # {}
  <2>1. PICK i \in P : TRUE
    BY <1>5
  <2>2. P = {i}
    BY <1>1, <2>1
  <2>3. Cardinality({i}) = 1
    BY FS_Singleton
  <2>4. Len(t) = 1
    BY <1>3, <2>2, <2>3, Zenon
  <2>5. 1 <= 1
    OBVIOUS
  <2> QED BY <2>4, <2>5, Zenon
<1> QED BY <1>4, <1>5

LEMMA PickedApart ==
    ASSUME NEW rows \in Seq(MergedRows), RowsApart(rows), NEW P \in SUBSET DOMAIN rows, NEW t, t = Picked(rows, P)
    PROVE  RowsApart(t)
<1> DEFINE nth(n) == Nth(P, n)
<1>1. /\ \A n \in DOMAIN t : nth(n) \in P /\ t[n] = rows[nth(n)]
      /\ \A n, m \in DOMAIN t : n < m => nth(n) < nth(m)
      /\ DOMAIN t = 1..Cardinality(P)
  BY PickedIs
<1>2. \A i \in P : i \in DOMAIN rows /\ i \in Nat
  OBVIOUS
<1> HIDE DEF nth
<1>3. ASSUME NEW n \in DOMAIN t, NEW m \in DOMAIN t, n # m PROVE nth(n) # nth(m)
  BY <1>1, <1>2, <1>3
<1>4. ASSUME NEW n \in DOMAIN t, NEW m \in DOMAIN t, n # m PROVE Range(t[n].ids) \cap Range(t[m].ids) = {}
  <2>1. nth(n) \in DOMAIN rows /\ nth(m) \in DOMAIN rows /\ t[n] = rows[nth(n)] /\ t[m] = rows[nth(m)] /\ nth(n) # nth(m)
    BY <1>1, <1>2, <1>3, <1>4
  <2> QED BY <2>1 DEF RowsApart
<1> QED BY <1>4 DEF RowsApart

LEMMA LaterIs ==
    \E v \in [MergedRows -> Int] : \A r, s \in MergedRows : Later(r, s) <=> v[r] < v[s]
<1> DEFINE v == [r \in MergedRows |-> IF order = "time-asc" THEN r.started
                                      ELSE IF order = "tokens-desc" THEN 0 - r.tokens
                                      ELSE IF order = "files-desc" THEN 0 - r.files ELSE 0 - r.started]
<1>1. \A r \in MergedRows : r.started \in Nat /\ r.tokens \in Nat /\ r.files \in Nat
  BY DEF MergedRows, RowRecords
<1> HIDE DEF MergedRows
<1>2. v \in [MergedRows -> Int]
  BY <1>1
<1>3. ASSUME NEW r \in MergedRows, NEW s \in MergedRows PROVE Later(r, s) <=> v[r] < v[s]
  <2>1. CASE order = "time-asc"
    BY <1>1, <2>1 DEF Later
  <2>2. CASE order = "tokens-desc"
    BY <1>1, <2>2 DEF Later
  <2>3. CASE order = "files-desc"
    BY <1>1, <2>3 DEF Later
  <2>4. CASE order \notin {"time-asc", "tokens-desc", "files-desc"}
    BY <1>1, <2>4 DEF Later
  <2> QED BY <2>1, <2>2, <2>3, <2>4
<1> QED BY <1>2, <1>3

LEMMA ListingIs ==
    ASSUME NEW rows \in Seq(MergedRows)
    PROVE  /\ StrictOrder(Listing(rows), DOMAIN rows)
           /\ \A i, j \in DOMAIN rows : <<i, j>> \in Listing(rows) => ~Later(rows[j], rows[i])
<1>1. PICK v \in [MergedRows -> Int] : \A r, s \in MergedRows : Later(r, s) <=> v[r] < v[s]
  BY LaterIs
<1> DEFINE D == DOMAIN rows
           w == [i \in D |-> v[rows[i]]]
           B == Listing(rows)
<1>2. /\ D \in SUBSET Nat /\ w \in [D -> Int] /\ \A i \in D : rows[i] \in MergedRows
      /\ \A i, j \in D : Later(rows[i], rows[j]) <=> w[i] < w[j]
  <2>1. D \in SUBSET Nat /\ \A i \in D : rows[i] \in MergedRows
    OBVIOUS
  <2> HIDE DEF D
  <2> QED BY <1>1, <2>1
<1>3. ASSUME NEW i \in D, NEW j \in D PROVE <<i, j>> \in B <=> w[i] < w[j] \/ (~(w[j] < w[i]) /\ i < j)
  <2>1. <<i, j>> \in D \X D /\ <<i, j>>[1] = i /\ <<i, j>>[2] = j
    OBVIOUS
  <2>2. <<i, j>> \in B <=> Later(rows[i], rows[j]) \/ (~Later(rows[j], rows[i]) /\ i < j)
    BY <2>1 DEF Listing
  <2> HIDE DEF w, B, D
  <2> QED BY <1>2, <2>2
<1> HIDE DEF w, B, D
<1>4. \A i \in D : <<i, i>> \notin B
  BY <1>2, <1>3
<1>5. \A i, j \in D : i # j => <<i, j>> \in B \/ <<j, i>> \in B
  BY <1>2, <1>3
<1>6. \A i, j, k \in D : <<i, j>> \in B /\ <<j, k>> \in B => <<i, k>> \in B
  BY <1>2, <1>3
<1>7. \A i, j \in D : <<i, j>> \in B => ~Later(rows[j], rows[i])
  BY <1>2, <1>3
<1> QED BY <1>4, <1>5, <1>6, <1>7 DEF StrictOrder, B, D

LEMMA SortedApart ==
    ASSUME NEW rows \in Seq(MergedRows), RowsApart(rows), NEW t, t = StableSort(rows)
    PROVE  /\ t \in Seq(MergedRows) /\ RowsApart(t) /\ Range(t) = Range(rows)
           /\ \A i, j \in DOMAIN t : i < j => ~Later(t[j], t[i])
<1> DEFINE B == Listing(rows)
           nth(n) == AtPlace(B, DOMAIN rows, n)
<1>1. StrictOrder(B, DOMAIN rows) /\ t = Ordered(rows, B)
  BY ListingIs DEF StableSort
<1>2. \A i, j \in DOMAIN rows : <<i, j>> \in B => ~Later(rows[j], rows[i])
  BY ListingIs
<1> HIDE DEF B
<1>3. /\ t \in Seq(MergedRows) /\ DOMAIN t = DOMAIN rows
      /\ \A n \in DOMAIN t : nth(n) \in DOMAIN rows /\ t[n] = rows[nth(n)]
      /\ \A i \in DOMAIN rows : \E n \in DOMAIN t : nth(n) = i
      /\ \A n, m \in DOMAIN t : n < m => <<nth(n), nth(m)>> \in B
      /\ \A n, m \in DOMAIN t : nth(n) = nth(m) => n = m
  BY <1>1, SortedIs
<1> HIDE DEF nth
<1>4. ASSUME NEW n \in DOMAIN t, NEW m \in DOMAIN t, n # m PROVE Range(t[n].ids) \cap Range(t[m].ids) = {}
  <2>1. nth(n) \in DOMAIN rows /\ nth(m) \in DOMAIN rows /\ t[n] = rows[nth(n)] /\ t[m] = rows[nth(m)] /\ nth(n) # nth(m)
    BY <1>3, <1>4
  <2> QED BY <2>1 DEF RowsApart
<1>5. ASSUME NEW n \in DOMAIN t, NEW m \in DOMAIN t, n < m PROVE ~Later(t[m], t[n])
  <2>1. nth(n) \in DOMAIN rows /\ nth(m) \in DOMAIN rows /\ t[n] = rows[nth(n)] /\ t[m] = rows[nth(m)] /\ <<nth(n), nth(m)>> \in B
    BY <1>3, <1>5
  <2> QED BY <1>2, <2>1
<1>6. \A n \in DOMAIN t : t[n] \in Range(rows)
  BY <1>3 DEF Range
<1>7. ASSUME NEW i \in DOMAIN rows PROVE rows[i] \in Range(t)
  <2>1. PICK n \in DOMAIN t : nth(n) = i
    BY <1>3
  <2>2. t[n] = rows[i]
    BY <1>3, <2>1
  <2> QED BY <2>2 DEF Range
<1>8. Range(t) \subseteq Range(rows)
  BY <1>6 DEF Range
<1>9. Range(rows) \subseteq Range(t)
  BY <1>7 DEF Range
<1> QED BY <1>3, <1>4, <1>5, <1>8, <1>9 DEF RowsApart

LEMMA FilteredAre ==
    ASSUME reported \in RowAnswers, NEW list, list = FilteredRows
    PROVE  /\ list \in Seq(MergedRows) /\ RowsApart(list) /\ Range(list) = {r \in Range(AllSessions) : Matches(r)}
           /\ \A i, j \in DOMAIN list : i < j => ~Later(list[j], list[i])
<1> DEFINE all == AllSessions
           P == {i \in DOMAIN all : Matches(all[i])}
           t == Picked(all, P)
           rows == t \o <<>>
<1>1. all \in Seq(MergedRows) /\ RowsApart(all)
  <2>1. all = AllSessions
    OBVIOUS
  <2> HIDE DEF all
  <2> QED BY <2>1, SessionsAre
<1>2. list = StableSort(rows)
  BY DEF FilteredRows
<1>3. {all[i] : i \in P} = {r \in Range(all) : Matches(r)}
  <2> HIDE DEF all
  <2> QED BY DEF Range
<1> HIDE DEF all
<1>4. P \in SUBSET DOMAIN all
  OBVIOUS
<1> HIDE DEF P
<1>5. t \in Seq(MergedRows) /\ Range(t) = {all[i] : i \in P} /\ RowsApart(t)
  BY <1>1, <1>4, PickedRange, PickedApart
<1> HIDE DEF t
<1>6. rows = t
  BY <1>5
<1>7. list = StableSort(t)
  BY <1>2, <1>6
<1>8. /\ list \in Seq(MergedRows) /\ RowsApart(list) /\ Range(list) = Range(t)
      /\ \A i, j \in DOMAIN list : i < j => ~Later(list[j], list[i])
  BY <1>5, <1>7, SortedApart
<1> QED BY <1>3, <1>5, <1>8 DEF all

LEMMA DashRowsAre ==
    ASSUME reported \in RowAnswers, NEW list, list = DashRows
    PROVE  list \in Seq(MergedRows) /\ \A i \in DOMAIN list : list[i] # NoRow
<1> DEFINE all == AllSessions
           P == {i \in DOMAIN all : /\ dashTools = NoRow \/ all[i].tool \in dashTools
                                    /\ dashFind = NoRow \/ all[i].ids[1] \in dashFind}
<1>1. all \in Seq(MergedRows) /\ NoRow \notin Range(all)
  <2>1. all = AllSessions
    OBVIOUS
  <2> HIDE DEF all
  <2> QED BY <2>1, SessionsAre
<1>2. list = Picked(all, P)
  BY DEF DashRows
<1> HIDE DEF all
<1>3. P \in SUBSET DOMAIN all
  OBVIOUS
<1> HIDE DEF P
<1>4. list \in Seq(MergedRows) /\ Range(list) = {all[i] : i \in P}
  BY <1>1, <1>2, <1>3, PickedRange
<1>5. \A i \in DOMAIN list : list[i] \in Range(list)
  BY DEF Range
<1>6. NoRow \notin Range(list)
  BY <1>1, <1>3, <1>4 DEF Range
<1> QED BY <1>4, <1>5, <1>6

(* What the lists show ------------------------------------------------------ *)

LEMMA EveryIdIsFound == ASSUME reported \in RowAnswers PROVE EveryIdFinds
<1> DEFINE all == AllSessions
<1>1. /\ all \in Seq(MergedRows) /\ RowsApart(all) /\ reported \in Seq(RawRows)
      /\ \A k \in DOMAIN reported : IdHolds(all, reported[k].id, reported[k].tokens, reported[k].files)
  <2>1. all = AllSessions
    OBVIOUS
  <2> HIDE DEF all
  <2> QED BY <2>1, SessionsAre
<1> SUFFICES ASSUME NEW r \in Range(reported)
             PROVE  LET found == FindRow(all, r.id)
                    IN  Cardinality(found) = 1 /\ \A i \in found : all[i].tokens >= r.tokens /\ all[i].files >= r.files
  BY DEF EveryIdFinds
<1> HIDE DEF all
<1>2. PICK i \in DOMAIN all : r.id \in Range(all[i].ids) /\ all[i].tokens >= r.tokens /\ all[i].files >= r.files
  <2>1. PICK k \in DOMAIN reported : r = reported[k]
    BY DEF Range
  <2>2. IdHolds(all, r.id, r.tokens, r.files)
    BY <1>1, <2>1
  <2> QED BY <2>2 DEF IdHolds
<1>3. FindRow(all, r.id) = {i}
  <2>1. i \in FindRow(all, r.id)
    BY <1>2 DEF FindRow
  <2>2. ASSUME NEW j \in FindRow(all, r.id) PROVE j = i
    BY <1>1, <1>2, <2>2 DEF FindRow, RowsApart
  <2> QED BY <2>1, <2>2
<1>4. Cardinality({i}) = 1
  BY FS_Singleton
<1> QED BY <1>2, <1>3, <1>4

LEMMA PickIsShown == ASSUME reported \in RowAnswers PROVE PickStays
<1> DEFINE list == DashRows
           found == FindRow(list, dashPick)
<1>1. list \in Seq(MergedRows) /\ \A i \in DOMAIN list : list[i] # NoRow
  <2>1. list = DashRows
    OBVIOUS
  <2> HIDE DEF list
  <2> QED BY <2>1, DashRowsAre
<1>2. DashSelected = IF list = <<>> THEN NoRow ELSE IF found # {} THEN list[Min(found)] ELSE list[1]
  BY DEF DashSelected
<1> HIDE DEF list
<1>3. found \in SUBSET Nat /\ found \subseteq DOMAIN list /\ \A i \in found : dashPick \in Range(list[i].ids)
  BY <1>1 DEF FindRow
<1> HIDE DEF found
<1>4. ASSUME found # {} PROVE Min(found) \in found
  BY <1>3, <1>4, LeastNumber DEF Min
<1>5. ASSUME list # <<>> PROVE DashSelected # NoRow
  <2>1. 1 \in DOMAIN list
    BY <1>1, <1>5
  <2> QED BY <1>1, <1>2, <1>3, <1>4, <1>5, <2>1
<1>6. ASSUME found # {} PROVE dashPick \in Range(DashSelected.ids)
  <2>1. Min(found) \in DOMAIN list
    BY <1>3, <1>4, <1>6
  <2>2. list # <<>>
    BY <2>1
  <2>3. DashSelected = list[Min(found)]
    BY <1>2, <1>6, <2>2
  <2> QED BY <1>3, <1>4, <1>6, <2>3
<1>7. list = <<>> => DashSelected = NoRow
  BY <1>2
<1> QED BY <1>5, <1>6, <1>7 DEF PickStays, list, found

LEMMA AgentIsOffered == ASSUME reported \in RowAnswers PROVE AgentOnOffer
<1> SUFFICES ASSUME agent # NoRow, ~Ticked(agent), status = "all"
             PROVE  {r \in Range(AllSessions) : Ticked(r.tool)} = Range(FilteredRows)
  BY DEF AgentOnOffer
<1> DEFINE list == FilteredRows
<1>1. Range(list) = {r \in Range(AllSessions) : Matches(r)}
  <2>1. list = FilteredRows
    OBVIOUS
  <2> HIDE DEF list
  <2> QED BY <2>1, FilteredAre
<1>2. \A r : Matches(r) <=> Ticked(r.tool)
  BY DEF Matches, HasStatus
<1> QED BY <1>1, <1>2

LEMMA ListIsOrdered == ASSUME reported \in RowAnswers PROVE ListInOrder
<1> DEFINE list == FilteredRows
<1>1. list \in Seq(MergedRows) /\ RowsApart(list) /\ \A i, j \in DOMAIN list : i < j => ~Later(list[j], list[i])
  <2>1. list = FilteredRows
    OBVIOUS
  <2> HIDE DEF list
  <2> QED BY <2>1, FilteredAre
<1>2. ChosenRow = Picked(list, {i \in DOMAIN list : list[i].ids[1] = chosen})
  BY DEF ChosenRow
<1> HIDE DEF list
<1>3. IsInjective(list)
  BY <1>1, ApartOnce
<1>4. Len(ChosenRow) <= 1
  BY <1>1, <1>2, OneFirst
<1> QED BY <1>1, <1>3, <1>4 DEF ListInOrder, list

LEMMA RowsHeld == reported \in RowAnswers => RowsHold
BY EveryIdIsFound, PickIsShown, AgentIsOffered, ListIsOrdered DEF RowsHold

LEMMA ToolsAre == ASSUME reported \in RowAnswers PROVE SessionTools \subseteq RowTools /\ IsFiniteSet(SessionTools)
<1> DEFINE q == [k \in 1..Len(reported) |-> reported[k].tool]
<1>1. reported \in Seq(RawRows)
  BY RowData
<1>2. Len(reported) \in Nat /\ DOMAIN reported = 1..Len(reported) /\ \A k \in 1..Len(reported) : reported[k] \in RawRows
  BY <1>1
<1>3. \A k \in 1..Len(reported) : reported[k].tool \in RowTools
  BY <1>2 DEF RawRows
<1>4. q = [k \in 1..Len(reported) |-> q[k]] /\ \A k \in 1..Len(reported) : q[k] \in RowTools
  BY <1>3
<1>5. SessionTools = {q[k] : k \in 1..Len(reported)}
  BY <1>2 DEF SessionTools, Range
<1> HIDE DEF q
<1>6. q \in Seq(RowTools) /\ DOMAIN q = 1..Len(reported)
  BY <1>2, <1>4, SeqBuilt
<1>7. IsFiniteSet(Range(q)) /\ Range(q) = SessionTools
  BY <1>5, <1>6, RangeIsFinite DEF Range
<1> QED BY <1>4, <1>5, <1>7

LEMMA MovesCount == ASSUME RowMove, rowMoves \in 0..MaxRowMoves PROVE rowMoves' \in 0..MaxRowMoves
BY RowData DEF RowMove

LEMMA ListsStep == ASSUME RowsTypeOK, [RowsNext]_rowVars PROVE RowsTypeOK'
<1> USE DEF RowsTypeOK
<1>1. CASE SelectFirst
  <2> DEFINE list == FilteredRows
  <2>1. list \in Seq(MergedRows)
    <3>1. list = FilteredRows /\ reported \in RowAnswers
      OBVIOUS
    <3> HIDE DEF list
    <3> QED BY <3>1, FilteredAre DEF RowsTypeOK
  <2>2. list # <<>> /\ chosen' = list[1].ids[1]
    BY <1>1 DEF SelectFirst, ChooseEffect
  <2> HIDE DEF list
  <2>3. 1 \in DOMAIN list
    BY <2>1, <2>2
  <2>4. chosen' \in RowIds
    BY <2>1, <2>2, <2>3, FirstIsOne
  <2> QED BY <1>1, <2>4 DEF SelectFirst
<1>2. ASSUME NEW answer \in RowAnswers, Reported(answer) PROVE RowsTypeOK'
  BY <1>2, MovesCount DEF Reported
<1>3. ASSUME NEW t \in RowTools, ToggleAgent(t) PROVE RowsTypeOK'
  <2>1. dashTools' \in {NoRow} \cup SUBSET RowTools
    BY <1>3, ToolsAre DEF ToggleAgent
  <2>2. rowMoves' \in 0..MaxRowMoves
    BY <1>3, MovesCount DEF ToggleAgent
  <2> QED BY <1>3, <2>1, <2>2 DEF ToggleAgent
<1>4. ASSUME NEW ids \in {NoRow} \cup {{id} : id \in RowIds}, FindSessions(ids) PROVE RowsTypeOK'
  <2>1. ids \in {NoRow} \cup SUBSET RowIds
    OBVIOUS
  <2> QED BY <1>4, <2>1, MovesCount DEF FindSessions
<1>5. ASSUME NEW i, PickRow(i) PROVE RowsTypeOK'
  <2> DEFINE list == DashRows
  <2>1. list \in Seq(MergedRows)
    <3>1. list = DashRows /\ reported \in RowAnswers
      OBVIOUS
    <3> HIDE DEF list
    <3> QED BY <3>1, DashRowsAre
  <2>2. i \in DOMAIN list /\ dashPick' = list[i].ids[1]
    BY <1>5 DEF PickRow
  <2> HIDE DEF list
  <2>3. dashPick' \in RowIds
    BY <2>1, <2>2, FirstIsOne
  <2> QED BY <1>5, <2>3, MovesCount DEF PickRow
<1>6. ASSUME NEW i, ChooseRow(i) PROVE RowsTypeOK'
  <2> DEFINE list == FilteredRows
  <2>1. list \in Seq(MergedRows)
    <3>1. list = FilteredRows /\ reported \in RowAnswers
      OBVIOUS
    <3> HIDE DEF list
    <3> QED BY <3>1, FilteredAre
  <2>2. i \in DOMAIN list /\ chosen' = list[i].ids[1]
    BY <1>6 DEF ChooseRow
  <2> HIDE DEF list
  <2>3. chosen' \in RowIds
    BY <2>1, <2>2, FirstIsOne
  <2> QED BY <1>6, <2>3, MovesCount DEF ChooseRow
<1>7. ASSUME NEW s \in {"all", "active", "ended", "error"}, SetStatus(s) PROVE RowsTypeOK'
  BY <1>7, MovesCount DEF SetStatus
<1>8. ASSUME NEW a \in RowTools \cup {NoRow}, SetAgent(a) PROVE RowsTypeOK'
  BY <1>8, MovesCount DEF SetAgent
<1>9. ASSUME NEW o \in Orders, SetOrder(o) PROVE RowsTypeOK'
  BY <1>9, MovesCount DEF SetOrder
<1>10. ASSUME NEW ts \in {NoRow} \cup SUBSET RowTools, SetHeader(ts) PROVE RowsTypeOK'
  BY <1>10, MovesCount DEF SetHeader
<1>11. CASE UNCHANGED rowVars
  BY <1>11 DEF rowVars
<1> QED BY <1>1, <1>2, <1>3, <1>4, <1>5, <1>6, <1>7, <1>8, <1>9, <1>10, <1>11 DEF RowsNext

\* The filters of the two session lists, the sort and the picks stay values that the page offers.
THEOREM ListsTyped == RowsSpec => []RowsTypeOK
<1>1. RowsInit => RowsTypeOK
  BY RowData DEF RowsInit, RowsTypeOK, Orders
<1>2. RowsTypeOK /\ [RowsNext]_rowVars => RowsTypeOK'
  BY ListsStep
<1> QED BY <1>1, <1>2, PTL DEF RowsSpec

\* Whatever the collectors report, each id finds one row with what was counted under it, the pick
\* stays on its session, an agent that is not on offer takes nothing away, and the list is in order.
THEOREM ListsHold == RowsSpec => []RowsHold
<1>1. RowsTypeOK => RowsHold
  BY RowsHeld DEF RowsTypeOK
<1> QED BY <1>1, ListsTyped, PTL

LEMMA SameSize ==
    ASSUME NEW T, IsFiniteSet(T), NEW A \in SUBSET T
    PROVE  Cardinality(A) = Cardinality(T) <=> A = T
BY FS_Subset

LEMMA ToggleIsAlone == ASSUME RowsTypeOK, RowsNext PROVE AgentAlone
<1> SUFFICES ASSUME NEW t \in RowTools, ToggleAgent(t), dashTools = NoRow \/ dashTools \subseteq SessionTools,
                    NEW u \in SessionTools
             PROVE  ((dashTools = NoRow \/ u \in dashTools) = (dashTools' = NoRow \/ u \in dashTools')) <=> u # t
  BY DEF AgentAlone
<1> DEFINE T == SessionTools
           now == IF dashTools = NoRow THEN T ELSE dashTools
           next == IF t \in now THEN now \ {t} ELSE now \cup {t}
<1>1. T \subseteq RowTools /\ IsFiniteSet(T)
  BY ToolsAre DEF RowsTypeOK
<1>2. t \in T /\ dashTools' = IF Cardinality(next) = Cardinality(T) THEN NoRow ELSE next
  BY DEF ToggleAgent
<1>3. now \subseteq T /\ next \subseteq T /\ u \in T
  BY <1>2
<1>4. \A some \in SUBSET RowTools : some # NoRow
  BY RowData
<1>5. Cardinality(next) = Cardinality(T) <=> next = T
  <2> HIDE DEF T, next
  <2> QED BY <1>1, <1>3, SameSize
<1>6. next # NoRow
  <2> HIDE DEF next, T
  <2> QED BY <1>1, <1>3, <1>4
<1>7. (dashTools' = NoRow \/ u \in dashTools') <=> u \in next
  <2> HIDE DEF next, T
  <2> QED BY <1>2, <1>3, <1>5, <1>6, Zenon
<1>8. (dashTools = NoRow \/ u \in dashTools) <=> u \in now
  <2> HIDE DEF T
  <2> QED BY <1>3, Zenon
<1>9. (u \in next <=> u \in now) <=> u # t
  <2> HIDE DEF now
  <2> QED OBVIOUS
<1> QED BY <1>7, <1>8, <1>9, Zenon

\* A click on an agent's name, while every agent that is on is on offer, changes whether that agent is
\* listed and no other.
THEOREM AgentsToggleAlone == RowsSpec => [][AgentAlone]_rowVars
<1>1. RowsTypeOK /\ [RowsNext]_rowVars => [AgentAlone]_rowVars
  BY ToggleIsAlone
<1> QED BY <1>1, ListsTyped, PTL DEF RowsSpec

(* The tool filter ---------------------------------------------------------- *)

\* a finite set put into an order has each of its members once
LEMMA ArrangedIs ==
    ASSUME NEW D, IsFiniteSet(D), NEW B, StrictOrder(B, D), NEW t, t = Arranged(D, B)
    PROVE  t \in Seq(D) /\ Range(t) = D /\ Len(t) = Cardinality(D)
<1> DEFINE c == Cardinality(D) nth(n) == AtPlace(B, D, n)
<1>1. c \in Nat /\ t = [n \in 1..c |-> nth(n)]
  BY FS_CardinalityType DEF Arranged
<1>2. \A n \in 1..c : nth(n) \in D
  BY AtPlaceIs
<1> HIDE DEF c
<1>3. t = [n \in 1..c |-> t[n]] /\ \A n \in 1..c : t[n] = nth(n)
  BY <1>1
<1> HIDE DEF nth
<1>4. t \in Seq(D) /\ Len(t) = c /\ DOMAIN t = 1..c
  <2>1. \A n \in 1..c : t[n] \in D
    BY <1>2, <1>3
  <2> QED BY <1>1, <1>3, <2>1, SeqBuilt
<1>5. ASSUME NEW x \in D PROVE x \in Range(t)
  <2> DEFINE n == PlaceUnder(B, D, x)
  <2>1. n \in 1..c
    BY PlaceCounts DEF c
  <2>2. PlaceUnder(B, D, nth(n)) = n /\ nth(n) \in D
    BY <2>1, AtPlaceIs DEF c, nth
  <2>3. nth(n) = x
    BY <2>2, PlacesDiffer
  <2>4. t[n] = x
    BY <1>3, <2>1, <2>3
  <2> HIDE DEF n
  <2> QED BY <1>4, <2>1, <2>4 DEF Range
<1>6. \A x \in Range(t) : x \in D
  BY <1>2, <1>3, <1>4 DEF Range
<1> QED BY <1>4, <1>5, <1>6 DEF c

Scoped == Verified \cup UnlistedTools \cup NonTool

ScopeSound == snap \in Snapshots /\ ticked \in {All} \cup SUBSET Verified

LEMMA LabelsDiffer ==
    \A t, u \in Scoped : LabelOrder[t] \in Nat /\ (LabelOrder[t] = LabelOrder[u] => t = u)
<1>1. Scoped \subseteq DOMAIN LabelOrder
  BY ScopeTools DEF Scoped
<1>2. \A t \in DOMAIN LabelOrder : LabelOrder[t] \in Nat
  BY ScopeTools
<1>3. \A t, u \in DOMAIN LabelOrder : LabelOrder[t] = LabelOrder[u] => t = u
  BY ScopeTools DEF IsInjective
<1> QED BY <1>1, <1>2, <1>3

LEMMA RankSays ==
    ASSUME NEW a, NEW b, RankOf(a) \in Int \X Int \X Int \X Int, RankOf(b) \in Int \X Int \X Int \X Int
    PROVE  MoreActive(a, b) <=>
             \/ RankOf(a)[1] > RankOf(b)[1]
             \/ RankOf(a)[1] = RankOf(b)[1] /\ RankOf(a)[2] > RankOf(b)[2]
             \/ RankOf(a)[1] = RankOf(b)[1] /\ RankOf(a)[2] = RankOf(b)[2] /\ RankOf(a)[3] > RankOf(b)[3]
             \/ RankOf(a)[1] = RankOf(b)[1] /\ RankOf(a)[2] = RankOf(b)[2] /\ RankOf(a)[3] = RankOf(b)[3] /\ RankOf(a)[4] > RankOf(b)[4]
<1> DEFINE x == RankOf(a) y == RankOf(b)
           At(i) == x[i] > y[i] /\ \A j \in 1..(i-1) : x[j] = y[j]
<1>1. MoreActive(a, b) <=> \E i \in 1..4 : At(i)
  BY DEF MoreActive
<1> HIDE DEF x, y
<1>2. 1..4 = {1, 2, 3, 4} /\ 1..(1-1) = {} /\ 1..(2-1) = {1} /\ 1..(3-1) = {1, 2} /\ 1..(4-1) = {1, 2, 3}
  OBVIOUS
<1>3. At(1) <=> x[1] > y[1]
  BY <1>2
<1>4. At(2) <=> x[2] > y[2] /\ x[1] = y[1]
  BY <1>2
<1>5. At(3) <=> x[3] > y[3] /\ x[1] = y[1] /\ x[2] = y[2]
  BY <1>2
<1>6. At(4) <=> x[4] > y[4] /\ x[1] = y[1] /\ x[2] = y[2] /\ x[3] = y[3]
  BY <1>2
<1> HIDE DEF At
<1>7. MoreActive(a, b) <=> At(1) \/ At(2) \/ At(3) \/ At(4)
  BY <1>1, <1>2
<1> QED BY <1>3, <1>4, <1>5, <1>6, <1>7 DEF x, y

LEMMA ActivityIsOrder ==
    ASSUME ScopeSound, NEW T \in SUBSET snap.tools
    PROVE  StrictOrder({x \in T \X T : MoreActive(x[1], x[2])}, T)
<1> DEFINE B == {x \in T \X T : MoreActive(x[1], x[2])}
           k(t, i) == RankOf(t)[i]
<1>1. ASSUME NEW t \in T PROVE RankOf(t) \in Int \X Int \X Int \X Int /\ RankOf(t)[4] = 0 - LabelOrder[t.tool] /\ t.tool \in Scoped
  <2>1. /\ t.tool \in Verified \cup UnlistedTools \cup NonTool
        /\ {t.sessions, t.liveTokens} \subseteq Nat /\ IsFiniteSet(t.procs)
    BY SnapshotRows DEF ScopeSound
  <2>2. t.tool \in Scoped
    BY <2>1 DEF Scoped
  <2>3. LabelOrder[t.tool] \in Nat /\ Cardinality(t.procs) \in Nat
    BY <2>1, <2>2, LabelsDiffer, FS_CardinalityType
  <2>4. t.sessions \in Int /\ t.liveTokens \in Int /\ Cardinality(t.procs) \in Int /\ 0 - LabelOrder[t.tool] \in Int
    BY <2>1, <2>3
  <2> QED BY <2>2, <2>4 DEF RankOf
<1>2. ASSUME NEW t \in T, NEW u \in T, k(t, 4) = k(u, 4) PROVE t = u
  <2>1. LabelOrder[t.tool] \in Nat /\ LabelOrder[u.tool] \in Nat
    BY <1>1, LabelsDiffer
  <2>2. LabelOrder[t.tool] = LabelOrder[u.tool]
    BY <1>1, <1>2, <2>1
  <2>3. t.tool = u.tool
    BY <1>1, <2>2, LabelsDiffer
  <2> QED BY <2>3, SnapshotRows DEF ScopeSound
<1>3. ASSUME NEW t \in T, NEW u \in T
      PROVE  <<t, u>> \in B <=>
             \/ k(t, 1) > k(u, 1)
             \/ k(t, 1) = k(u, 1) /\ k(t, 2) > k(u, 2)
             \/ k(t, 1) = k(u, 1) /\ k(t, 2) = k(u, 2) /\ k(t, 3) > k(u, 3)
             \/ k(t, 1) = k(u, 1) /\ k(t, 2) = k(u, 2) /\ k(t, 3) = k(u, 3) /\ k(t, 4) > k(u, 4)
  <2>1. <<t, u>> \in T \X T /\ <<t, u>>[1] = t /\ <<t, u>>[2] = u
    OBVIOUS
  <2>2. <<t, u>> \in B <=> MoreActive(t, u)
    BY <2>1
  <2> HIDE DEF B
  <2> QED BY <1>1, <2>2, RankSays
<1>4. \A t \in T : k(t, 1) \in Int /\ k(t, 2) \in Int /\ k(t, 3) \in Int /\ k(t, 4) \in Int
  BY <1>1
<1> HIDE DEF B, k
<1>5. \A i \in T : <<i, i>> \notin B
  BY <1>3, <1>4
<1>6. \A i, j \in T : i # j => <<i, j>> \in B \/ <<j, i>> \in B
  BY <1>2, <1>3, <1>4
<1>7. \A i, j, m \in T : <<i, j>> \in B /\ <<j, m>> \in B => <<i, m>> \in B
  BY <1>3, <1>4
<1> QED BY <1>5, <1>6, <1>7 DEF StrictOrder, B

LEMMA AgentsAre ==
    ASSUME ScopeSound, NEW active \in BOOLEAN, NEW list, list = AgentList(active)
    PROVE  /\ Range(list) = {t.tool : t \in {t \in FilteredSnap.tools : t.tool # Aictl /\ IsActive(t) = active}}
           /\ list \in Seq(Verified)
<1> DEFINE T == {t \in FilteredSnap.tools : t.tool # Aictl /\ IsActive(t) = active}
           B == {x \in T \X T : MoreActive(x[1], x[2])}
           rows == Arranged(T, B)
<1>1. FilteredSnap.tools \subseteq snap.tools /\ \A t \in FilteredSnap.tools : t.tool \in Verified \cup {Aictl}
  BY SnapshotFields DEF FilteredSnap, FilterSnap, ScopeSound
<1>2. T \in SUBSET snap.tools /\ IsFiniteSet(T)
  <2>1. T \in SUBSET snap.tools /\ IsFiniteSet(snap.tools)
    BY <1>1, SnapshotRows DEF ScopeSound
  <2> HIDE DEF T
  <2> QED BY <2>1, FS_Subset
<1>3. \A t \in T : t.tool \in Verified
  BY <1>1
<1>4. list = [i \in DOMAIN rows |-> rows[i].tool]
  BY DEF AgentList, OrderByActivity
<1> HIDE DEF T
<1>5. StrictOrder(B, T)
  BY <1>2, ActivityIsOrder
<1> HIDE DEF B
<1>6. rows \in Seq(T) /\ Range(rows) = T
  BY <1>2, <1>5, ArrangedIs
<1> HIDE DEF rows
<1>7. DOMAIN rows = 1..Len(rows) /\ Len(rows) \in Nat /\ \A i \in DOMAIN rows : rows[i] \in T
  BY <1>6
<1>8. list = [i \in 1..Len(rows) |-> list[i]] /\ \A i \in 1..Len(rows) : list[i] = rows[i].tool /\ list[i] \in Verified
  BY <1>3, <1>4, <1>7
<1>9. list \in Seq(Verified) /\ DOMAIN list = DOMAIN rows
  <2>1. \A i \in 1..Len(rows) : list[i] \in Verified
    BY <1>8
  <2> QED BY <1>7, <1>8, <2>1, SeqBuilt
<1>10. Range(list) = {t.tool : t \in T}
  <2>1. \A x \in Range(list) : \E t \in T : x = t.tool
    BY <1>7, <1>8, <1>9 DEF Range
  <2>2. ASSUME NEW t \in T PROVE t.tool \in Range(list)
    <3>1. PICK i \in DOMAIN rows : rows[i] = t
      BY <1>6 DEF Range
    <3> QED BY <1>7, <1>8, <1>9, <3>1 DEF Range
  <2> QED BY <2>1, <2>2
<1> QED BY <1>9, <1>10 DEF T

LEMMA TabsOffered ==
    ASSUME ScopeSound, NEW tabs, tabs = OfferedTabs
    PROVE  Range(tabs) = TabTools /\ tabs \in Seq(TabTools) /\ TabTools \subseteq Verified \cup UnlistedTools
<1> DEFINE T == TabTools
           B == {x \in T \X T : MoreRows(x[1], x[2])}
<1>1. IsFiniteSet(snap.sessions) /\ \A r \in snap.sessions : r.tool \in Verified \cup UnlistedTools \cup {NoTool}
  <2>1. snap \in Snapshots
    BY DEF ScopeSound
  <2> QED BY <2>1, SnapshotRows, Zenon
<1>2. T \subseteq Verified \cup UnlistedTools /\ T \subseteq Scoped
  BY <1>1 DEF TabTools, Scoped
<1>3. IsFiniteSet(T)
  <2> DEFINE S == snap.sessions
             R == {s.tool : s \in S}
             f == [s \in S |-> s.tool]
  <2>1. f \in Surjection(S, R)
    BY DEF Surjection
  <2>2. IsFiniteSet(R)
    <3> HIDE DEF f, R, S
    <3>1. IsFiniteSet(S)
      BY <1>1 DEF S
    <3> QED BY <2>1, <3>1, FS_Surjection
  <2>3. T \in SUBSET R
    BY DEF TabTools
  <2> HIDE DEF T, R
  <2> QED BY <2>2, <2>3, FS_Subset
<1>4. \A t \in T : RowsOf(t) \in Nat
  <2> SUFFICES ASSUME NEW t \in T PROVE RowsOf(t) \in Nat
    OBVIOUS
  <2> DEFINE R == {s \in snap.sessions : s.tool = t}
  <2>1. R \in SUBSET snap.sessions
    OBVIOUS
  <2> HIDE DEF R
  <2>2. Cardinality(R) \in Nat
    BY <1>1, <2>1, FS_Subset, FS_CardinalityType
  <2> QED BY <2>2 DEF RowsOf, R
<1>5. \A t, u \in T : <<t, u>> \in B <=> MoreRows(t, u)
  <2> SUFFICES ASSUME NEW t \in T, NEW u \in T PROVE <<t, u>> \in B <=> MoreRows(t, u)
    OBVIOUS
  <2>1. <<t, u>> \in T \X T /\ <<t, u>>[1] = t /\ <<t, u>>[2] = u
    OBVIOUS
  <2> QED BY <2>1
<1>6. \A t, u \in T : LabelOrder[t] \in Nat /\ (LabelOrder[t] = LabelOrder[u] => t = u)
  BY <1>2, LabelsDiffer
<1>7. tabs = Arranged(T, B)
  BY DEF OfferedTabs
<1> HIDE DEF T, B
<1>8. StrictOrder(B, T)
  <2>1. \A i \in T : <<i, i>> \notin B
    BY <1>4, <1>5, <1>6 DEF MoreRows
  <2>2. \A i, j \in T : i # j => <<i, j>> \in B \/ <<j, i>> \in B
    BY <1>4, <1>5, <1>6 DEF MoreRows
  <2>3. \A i, j, m \in T : <<i, j>> \in B /\ <<j, m>> \in B => <<i, m>> \in B
    BY <1>4, <1>5, <1>6 DEF MoreRows
  <2> QED BY <2>1, <2>2, <2>3 DEF StrictOrder
<1>9. tabs \in Seq(T) /\ Range(tabs) = T
  BY <1>3, <1>7, <1>8, ArrangedIs
<1> QED BY <1>2, <1>9 DEF T

LEMMA KeptIs ==
    ASSUME ScopeSound, NEW kept, kept = FilteredSnap
    PROVE  /\ kept.tools = {t \in snap.tools : t.tool \in Verified \cup {Aictl} /\ IsSelected(t.tool, ticked) /\ (search = NoMatch \/ t.tool \in search)}
           /\ kept.sessions = FilterByTool(snap.sessions, ticked) /\ kept.telemetry = FilterByTool(snap.telemetry, ticked)
           /\ kept.configs = {c \in snap.configs : IsConfigSelected(c.tool, ticked)}
           /\ kept.mcp = FilterByTool(snap.mcp, ticked) /\ kept.events = FilterByTool(snap.events, ticked)
           /\ kept.hiddenUnlisted = IF ~IsFiltered(ticked) THEN 0
                                    ELSE CountUnlisted(snap.sessions) + CountUnlisted(snap.telemetry) + CountUnlisted(snap.configs)
                                         + CountUnlisted(snap.mcp) + CountUnlisted(snap.events)
<1>1. {"tools", "sessions", "telemetry", "configs", "mcp", "events", "memory", "hiddenUnlisted"} \subseteq DOMAIN snap
  BY SnapshotFields DEF ScopeSound
<1>2. snap = [field \in DOMAIN snap |-> snap[field]]
  BY SnapshotFields DEF ScopeSound
<1>3. kept.tools = {t \in snap.tools : t.tool \in Verified \cup {Aictl} /\ IsSelected(t.tool, ticked) /\ (search = NoMatch \/ t.tool \in search)}
  BY <1>1, <1>2 DEF FilteredSnap, FilterSnap
<1>4. kept.sessions = FilterByTool(snap.sessions, ticked) /\ kept.telemetry = FilterByTool(snap.telemetry, ticked)
  BY <1>1, <1>2 DEF FilteredSnap, FilterSnap
<1>5. kept.configs = {c \in snap.configs : IsConfigSelected(c.tool, ticked)}
  BY <1>1, <1>2 DEF FilteredSnap, FilterSnap
<1>6. kept.mcp = FilterByTool(snap.mcp, ticked) /\ kept.events = FilterByTool(snap.events, ticked)
  BY <1>1, <1>2 DEF FilteredSnap, FilterSnap
<1>7. kept.hiddenUnlisted = IF ~IsFiltered(ticked) THEN 0
                            ELSE CountUnlisted(snap.sessions) + CountUnlisted(snap.telemetry) + CountUnlisted(snap.configs)
                                 + CountUnlisted(snap.mcp) + CountUnlisted(snap.events)
  BY <1>1, <1>2 DEF FilteredSnap, FilterSnap
<1> QED BY <1>3, <1>4, <1>5, <1>6, <1>7

GoneOf(all, rest) == {r \in all \ rest : r.tool \notin Verified}

\* what is left out of a list and nobody unticked is what nobody can tick
LEMMA GoneAreUnlisted ==
    ASSUME ticked \in SUBSET Verified, NEW all
    PROVE  /\ Cardinality(GoneOf(all, FilterByTool(all, ticked))) = CountUnlisted(all)
           /\ Cardinality(GoneOf(all, {c \in all : IsConfigSelected(c.tool, ticked)})) = CountUnlisted(all)
<1>1. ticked # All /\ DOMAIN CardOwners \subseteq Verified
  BY ScopeTools
<1>2. GoneOf(all, FilterByTool(all, ticked)) = {r \in all : IsUnlisted(r.tool)}
  BY <1>1 DEF GoneOf, FilterByTool, IsSelected, IsUnlisted
<1>3. GoneOf(all, {c \in all : IsConfigSelected(c.tool, ticked)}) = {r \in all : IsUnlisted(r.tool)}
  BY <1>1 DEF GoneOf, IsConfigSelected, IsSelected, IsUnlisted
<1> QED BY <1>2, <1>3 DEF CountUnlisted

LEMMA NoneGone ==
    ASSUME ticked = All, NEW all
    PROVE  /\ Cardinality(GoneOf(all, FilterByTool(all, ticked))) = 0
           /\ Cardinality(GoneOf(all, {c \in all : IsConfigSelected(c.tool, ticked)})) = 0
<1>1. GoneOf(all, FilterByTool(all, ticked)) = {}
  BY DEF GoneOf, FilterByTool, IsSelected
<1>2. GoneOf(all, {c \in all : IsConfigSelected(c.tool, ticked)}) = {}
  BY DEF GoneOf, IsConfigSelected, IsSelected
<1> QED BY <1>1, <1>2, FS_EmptySet

LEMMA AllAreCounted == ASSUME ScopeSound PROVE NothingVanishes
<1> DEFINE kept == FilteredSnap
           c1 == Cardinality(GoneOf(snap.sessions, kept.sessions))
           c2 == Cardinality(GoneOf(snap.telemetry, kept.telemetry))
           c3 == Cardinality(GoneOf(snap.configs, kept.configs))
           c4 == Cardinality(GoneOf(snap.mcp, kept.mcp))
           c5 == Cardinality(GoneOf(snap.events, kept.events))
<1>1. NothingVanishes <=> c1 + c2 + c3 + c4 + c5 = kept.hiddenUnlisted
  BY DEF NothingVanishes, GoneOf
<1>2. /\ kept.sessions = FilterByTool(snap.sessions, ticked) /\ kept.telemetry = FilterByTool(snap.telemetry, ticked)
      /\ kept.configs = {c \in snap.configs : IsConfigSelected(c.tool, ticked)}
      /\ kept.mcp = FilterByTool(snap.mcp, ticked) /\ kept.events = FilterByTool(snap.events, ticked)
      /\ kept.hiddenUnlisted = IF ~IsFiltered(ticked) THEN 0
                               ELSE CountUnlisted(snap.sessions) + CountUnlisted(snap.telemetry) + CountUnlisted(snap.configs)
                                    + CountUnlisted(snap.mcp) + CountUnlisted(snap.events)
  <2>1. kept = FilteredSnap
    OBVIOUS
  <2> HIDE DEF kept
  <2> QED BY <2>1, KeptIs
<1> HIDE DEF kept
<1>3. CASE ticked = All
  <2>1. c1 = 0 /\ c2 = 0 /\ c3 = 0 /\ c4 = 0 /\ c5 = 0
    BY <1>2, <1>3, NoneGone
  <2>2. kept.hiddenUnlisted = 0
    BY <1>2, <1>3 DEF IsFiltered
  <2> HIDE DEF c1, c2, c3, c4, c5
  <2> QED BY <1>1, <2>1, <2>2
<1>4. CASE ticked \in SUBSET Verified
  <2>1. /\ c1 = CountUnlisted(snap.sessions) /\ c2 = CountUnlisted(snap.telemetry) /\ c3 = CountUnlisted(snap.configs)
        /\ c4 = CountUnlisted(snap.mcp) /\ c5 = CountUnlisted(snap.events)
    BY <1>2, <1>4, GoneAreUnlisted
  <2>2. IsFiltered(ticked)
    BY <1>4, ScopeTools DEF IsFiltered
  <2>3. kept.hiddenUnlisted = CountUnlisted(snap.sessions) + CountUnlisted(snap.telemetry) + CountUnlisted(snap.configs)
                              + CountUnlisted(snap.mcp) + CountUnlisted(snap.events)
    BY <1>2, <2>2, Zenon
  <2> HIDE DEF c1, c2, c3, c4, c5
  <2> QED BY <1>1, <2>1, <2>3, Zenon
<1> QED BY <1>3, <1>4 DEF ScopeSound

LEMMA CardsAreKept == ASSUME ScopeSound PROVE CardsOfTicked
<1> DEFINE kept == FilteredSnap
<1>1. kept.configs = {c \in snap.configs : IsConfigSelected(c.tool, ticked)}
  <2>1. kept = FilteredSnap
    OBVIOUS
  <2> HIDE DEF kept
  <2> QED BY <2>1, KeptIs
<1> HIDE DEF kept
<1> SUFFICES ASSUME NEW c \in snap.configs,
                    NEW t \in {c.tool} \cup (IF c.tool \in DOMAIN CardOwners THEN CardOwners[c.tool] ELSE {}),
                    t \in Verified, ticked = All \/ t \in ticked
             PROVE  IsConfigSelected(c.tool, ticked)
  BY <1>1 DEF CardsOfTicked, kept
<1>2. c.tool \in DOMAIN CardOwners => t \in CardOwners[c.tool]
  BY ScopeTools
<1> QED BY <1>2 DEF IsConfigSelected, IsSelected

LEMMA PicksAreOffered == ASSUME ScopeSound PROVE PicksOnOffer
<1> DEFINE kept == FilteredSnap
           on == AgentList(TRUE)
           off == AgentList(FALSE)
           all == on \o off
           firsts == IF on # <<>> THEN on ELSE all
           tabs == OfferedTabs
           names == {t.tool : t \in {t \in kept.tools : t.tool # Aictl}}
<1>1. /\ kept.tools \subseteq snap.tools /\ \A t \in kept.tools : t.tool \in Verified \cup {Aictl}
  <2>1. kept = FilteredSnap
    OBVIOUS
  <2> HIDE DEF kept
  <2>2. kept.tools = {t \in snap.tools : t.tool \in Verified \cup {Aictl} /\ IsSelected(t.tool, ticked) /\ (search = NoMatch \/ t.tool \in search)}
    BY <2>1, KeptIs
  <2> QED BY <2>2
<1>2. /\ Range(on) = {t.tool : t \in {t \in kept.tools : t.tool # Aictl /\ IsActive(t) = TRUE}}
      /\ on \in Seq(Verified)
  <2>1. on = AgentList(TRUE)
    OBVIOUS
  <2> HIDE DEF on
  <2> QED BY <2>1, AgentsAre
<1>3. /\ Range(off) = {t.tool : t \in {t \in kept.tools : t.tool # Aictl /\ IsActive(t) = FALSE}}
      /\ off \in Seq(Verified)
  <2>1. off = AgentList(FALSE)
    OBVIOUS
  <2> HIDE DEF off
  <2> QED BY <2>1, AgentsAre
<1>4. ShownAgent = IF pickedAgent \in Range(all) THEN pickedAgent ELSE ResolveActiveTool(firsts, NoTool)
  BY DEF ShownAgent
<1> HIDE DEF on, off
<1>5. all \in Seq(Verified) /\ Range(all) = Range(on) \cup Range(off) /\ Len(all) = Len(on) + Len(off)
  BY <1>2, <1>3, JoinedRange
<1>6. \A t : IsActive(t) \in BOOLEAN
  BY DEF IsActive
<1> HIDE DEF all, kept
<1>7. Range(all) = names
  BY <1>2, <1>3, <1>5, <1>6
<1>8. names \subseteq Verified /\ NoTool \notin Verified
  BY <1>1, ScopeTools
<1>9. firsts \in Seq(Verified) /\ Range(firsts) \subseteq Range(all) /\ (firsts = <<>> => all = <<>>)
  BY <1>2, <1>5
<1> HIDE DEF firsts, names
<1>10. ASSUME firsts # <<>> PROVE Head(firsts) \in Range(firsts)
  <2>1. 1 \in DOMAIN firsts /\ Head(firsts) = firsts[1]
    BY <1>9, <1>10
  <2> QED BY <2>1 DEF Range
<1>11. NoTool \notin Range(firsts)
  BY <1>7, <1>8, <1>9
<1>12. ResolveActiveTool(firsts, NoTool) = IF firsts = <<>> THEN NoTool ELSE Head(firsts)
  BY <1>11 DEF ResolveActiveTool
<1>13. ShownAgent # NoTool => ShownAgent \in names
  BY <1>4, <1>7, <1>9, <1>10, <1>12
<1>14. ShownAgent = NoTool => names = {}
  <2>1. Range(<<>>) = {}
    BY DEF Range
  <2> QED BY <1>4, <1>7, <1>8, <1>9, <1>10, <1>11, <1>12, <2>1
<1>15. names = {t.tool : t \in kept.tools} \ {Aictl}
  BY DEF names
<1>16. names = {} => kept.tools \subseteq {t \in snap.tools : t.tool = Aictl}
  BY <1>1 DEF names
<1>17. TabIsOffered /\ OfferedTabs # <<>> => \E s \in snap.sessions : s.tool = tabTool /\ IsSelected(s.tool, ticked)
  <2> SUFFICES ASSUME TabIsOffered, OfferedTabs # <<>> PROVE \E s \in snap.sessions : s.tool = tabTool /\ IsSelected(s.tool, ticked)
    OBVIOUS
  <2>1. tabTool \in Range(tabs)
    BY DEF TabIsOffered
  <2>2. Range(tabs) = TabTools
    <3>1. tabs = OfferedTabs
      OBVIOUS
    <3> HIDE DEF tabs
    <3> QED BY <3>1, TabsOffered
  <2> HIDE DEF tabs
  <2>3. tabTool \in TabTools
    BY <2>1, <2>2
  <2> QED BY <2>3 DEF TabTools
<1> QED BY <1>13, <1>14, <1>15, <1>16, <1>17 DEF PicksOnOffer, kept

LEMMA CloudIsCloud == ASSUME ScopeSound PROVE CloudHidesNothing
<1> SUFFICES ASSUME ScopeIsCloudOnly(snap, ticked), NEW s \in snap.sessions, s.tool \in ticked PROVE FALSE
  BY DEF CloudHidesNothing
<1>1. ticked \in SUBSET Verified
  BY DEF ScopeSound, ScopeIsCloudOnly, IsFiltered
<1>2. snap \in Snapshots /\ s.tool \in Verified
  BY <1>1 DEF ScopeSound
<1>3. PICK t \in snap.tools : t.tool = s.tool /\ t.sessions > 0
  BY <1>2, SnapshotRows
<1>4. CloudOnly(t, snap)
  BY <1>3 DEF ScopeIsCloudOnly
<1>5. t.sessions = 0
  BY <1>4 DEF CloudOnly
<1> QED BY <1>3, <1>5

LEMMA SelectedIs == \A id, ts : IsSelected(id, ts) \in BOOLEAN
BY DEF IsSelected

LEMMA ScopeHeld == ScopeSound => ScopeHolds
BY AllAreCounted, CardsAreKept, PicksAreOffered, CloudIsCloud DEF ScopeHolds

LEMMA ScopeMoves == ASSUME ScopeMove, scopeMoves \in 0..MaxScopeMoves PROVE scopeMoves' \in 0..MaxScopeMoves
BY ScopeTools DEF ScopeMove

LEMMA OneOffered == ASSUME NEW offered \in Seq(Verified \cup UnlistedTools), NEW current
                    PROVE  ResolveActiveTool(offered, current) \in Verified \cup UnlistedTools \cup {NoTool}
<1>1. CASE current \in Range(offered)
  BY <1>1 DEF ResolveActiveTool, Range
<1>2. CASE current \notin Range(offered) /\ offered = <<>>
  BY <1>2 DEF ResolveActiveTool
<1>3. CASE current \notin Range(offered) /\ offered # <<>>
  <2>1. Head(offered) \in Verified \cup UnlistedTools
    BY <1>3
  <2> QED BY <1>3, <2>1 DEF ResolveActiveTool
<1> QED BY <1>1, <1>2, <1>3

LEMMA ScopeStep == ASSUME ScopeTypeOK, ScopeNext PROVE ScopeTypeOK'
<1> USE DEF ScopeTypeOK
<1>1. ScopeSound /\ IsFiniteSet(Verified)
  BY ScopeTools DEF ScopeSound
<1>2. CASE TabEffect
  <2> DEFINE tabs == OfferedTabs
  <2>1. tabs \in Seq(TabTools) /\ TabTools \subseteq Verified \cup UnlistedTools
    <3>1. tabs = OfferedTabs
      OBVIOUS
    <3> HIDE DEF tabs
    <3> QED BY <1>1, <3>1, TabsOffered
  <2>2. tabTool' = ResolveActiveTool(tabs, tabTool)
    BY <1>2 DEF TabEffect
  <2> HIDE DEF tabs
  <2>3. tabs \in Seq(Verified \cup UnlistedTools)
    BY <2>1, SeqGrows
  <2>4. tabTool' \in Verified \cup UnlistedTools \cup {NoTool}
    BY <2>2, <2>3, OneOffered
  <2> QED BY <1>2, <2>4 DEF TabEffect
<1>3. ASSUME NEW s \in Snapshots, NewSnapshot(s) PROVE ScopeTypeOK'
  BY <1>3, ScopeMoves DEF NewSnapshot
<1>4. ASSUME NEW t \in Verified, ToggleScopeTool(t) PROVE ScopeTypeOK'
  <2>1. VerifiedTools \subseteq Verified
    BY DEF VerifiedTools
  <2>2. ticked' \in {All} \cup SUBSET Verified
    BY <1>4, <2>1 DEF ToggleScopeTool
  <2> QED BY <1>4, <2>2, ScopeMoves DEF ToggleScopeTool
<1>5. ASSUME NEW t \in Verified, PickAgent(t) PROVE ScopeTypeOK'
  BY <1>5, ScopeMoves DEF PickAgent
<1>6. ASSUME NEW t \in Verified \cup UnlistedTools, PickTab(t) PROVE ScopeTypeOK'
  BY <1>6, ScopeMoves DEF PickTab
<1>7. ASSUME NEW ts \in {All, {}}, SetAllTools(ts) PROVE ScopeTypeOK'
  BY <1>7, ScopeMoves DEF SetAllTools
<1>8. ASSUME NEW q \in {NoMatch} \cup {{t} : t \in Verified}, SetSearch(q) PROVE ScopeTypeOK'
  <2>1. q \in {NoMatch} \cup SUBSET Verified
    OBVIOUS
  <2> QED BY <1>8, <2>1, ScopeMoves DEF SetSearch
<1> QED BY <1>2, <1>3, <1>4, <1>5, <1>6, <1>7, <1>8 DEF ScopeNext

LEMMA ProjectsAre ==
    ASSUME snap \in Snapshots
    PROVE  Projects \subseteq {f.project : f \in UNION {UNION {t.files : t \in s.tools} : s \in Snapshots}}
<1> SUFFICES ASSUME NEW r \in MapFiles PROVE \E f \in UNION {UNION {t.files : t \in s.tools} : s \in Snapshots} : r.file.project = f.project
  BY DEF Projects
<1>1. \A t \in FilteredSnap.tools : t \in snap.tools
  BY SnapshotFields DEF FilteredSnap, FilterSnap
<1>2. PICK t \in MapTools : r \in {[file |-> f, tool |-> t.tool] : f \in t.files}
  BY DEF MapFiles
<1>3. PICK f \in t.files : r.file = f
  BY <1>2
<1>4. t \in snap.tools
  BY <1>1 DEF MapTools
<1> QED BY <1>3, <1>4

LEMMA ScreenStep == ASSUME ScreenTypeOK, [ScreenNext]_screenVars PROVE ScreenTypeOK'
<1> DEFINE All0 == {NoProject} \cup {f.project : f \in UNION {UNION {t.files : t \in s.tools} : s \in Snapshots}}
<1>1. /\ ScopeTypeOK /\ groupBy \in GroupModes /\ health \in Reports /\ project \in All0
  BY DEF ScreenTypeOK
<1> SUFFICES ScopeTypeOK' /\ groupBy' \in GroupModes /\ health' \in Reports /\ project' \in All0
  BY DEF ScreenTypeOK
<1>2. \A p \in Projects : p \in All0
  BY <1>1, ProjectsAre DEF ScopeTypeOK
<1>3. NoProject \in All0
  OBVIOUS
<1> HIDE DEF All0
<1>4. CASE ScopeNext /\ UNCHANGED <<project, groupBy, health>>
  BY <1>1, <1>4, ScopeStep
<1>5. ASSUME NEW p \in Projects, OpenProject(p) PROVE ScopeTypeOK' /\ groupBy' \in GroupModes /\ health' \in Reports /\ project' \in All0
  <2>1. ScopeTypeOK'
    BY <1>1, <1>5, ScopeMoves DEF OpenProject, ScopeTypeOK
  <2>2. project' \in All0
    BY <1>2, <1>3, <1>5 DEF OpenProject
  <2> QED BY <1>1, <1>5, <2>1, <2>2 DEF OpenProject
<1>6. ASSUME NEW m \in GroupModes, SetGroupBy(m) PROVE ScopeTypeOK' /\ groupBy' \in GroupModes /\ health' \in Reports /\ project' \in All0
  <2>1. ScopeTypeOK'
    BY <1>1, <1>6, ScopeMoves DEF SetGroupBy, ScopeTypeOK
  <2> QED BY <1>1, <1>6, <2>1 DEF SetGroupBy
<1>7. ASSUME NEW h \in Reports, Report(h) PROVE ScopeTypeOK' /\ groupBy' \in GroupModes /\ health' \in Reports /\ project' \in All0
  <2>1. ScopeTypeOK'
    BY <1>1, <1>7, ScopeMoves DEF Report, ScopeTypeOK
  <2> QED BY <1>1, <1>7, <2>1 DEF Report
<1>8. CASE UNCHANGED screenVars
  <2>1. ScopeTypeOK'
    BY <1>1, <1>8 DEF screenVars, scopeVars, ScopeTypeOK
  <2> QED BY <1>1, <1>8, <2>1 DEF screenVars
<1> QED BY <1>4, <1>5, <1>6, <1>7, <1>8 DEF ScreenNext

\* The filter, the search, the picks and the groups of the detail screens stay values that the page
\* offers; an agent or a tab picked is a tool.
THEOREM ScreensTyped == ScreenSpec => []ScreenTypeOK
<1>1. ScreenInit => ScreenTypeOK
  <2> SUFFICES ASSUME ScreenInit PROVE ScreenTypeOK
    OBVIOUS
  <2>1. ScopeTypeOK
    BY ScopeTools DEF ScreenInit, ScopeInit, ScopeTypeOK
  <2>2. groupBy \in GroupModes /\ health \in Reports /\ project = NoProject
    BY DEF ScreenInit, GroupModes
  <2> QED BY <2>1, <2>2 DEF ScreenTypeOK
<1>2. ScreenTypeOK /\ [ScreenNext]_screenVars => ScreenTypeOK'
  BY ScreenStep
<1> QED BY <1>1, <1>2, PTL DEF ScreenSpec

\* For any snapshots and whatever is ticked or searched for: the filter hides no row without counting
\* it, keeps the settings of a ticked tool, shows the agent and the tab picked while they are on
\* offer, and "runs in the cloud" covers no session.
THEOREM FilterHides == ScreenSpec => []ScopeHolds
<1>1. ScreenTypeOK => ScopeHolds
  BY ScopeHeld DEF ScreenTypeOK, ScopeTypeOK, ScopeSound
<1> QED BY <1>1, ScreensTyped, PTL

LEMMA ToolToggles == ASSUME ScopeTypeOK PROVE ToggleChangesOne
<1> SUFFICES ASSUME NEW t \in Verified, ToggleScopeTool(t), ticked = All \/ ticked \subseteq VerifiedTools, NEW u \in VerifiedTools
             PROVE  (IsSelected(u, ticked) = IsSelected(u, ticked')) <=> u # t
  BY DEF ToggleChangesOne
<1> DEFINE V == VerifiedTools
<1>1. V \subseteq Verified /\ IsFiniteSet(V) /\ t \in V
  <2>1. V \subseteq Verified
    BY DEF VerifiedTools
  <2> HIDE DEF V
  <2>2. IsFiniteSet(V)
    BY <2>1, ScopeTools, FS_Subset
  <2> QED BY <2>1, <2>2 DEF ToggleScopeTool, V
<1>2. u \notin NonTool \cup {NoTool} /\ \A ts \in SUBSET Verified : ts # All
  BY <1>1, ScopeTools
<1>3. ticked' = IF ticked = All THEN V \ {t}
                ELSE IF t \in ticked THEN ticked \ {t}
                ELSE IF Cardinality(ticked) + 1 >= Cardinality(V) THEN All ELSE ticked \cup {t}
  BY DEF ToggleScopeTool
<1>4. u \in V
  OBVIOUS
<1> HIDE DEF V
<1>5. \A ts : IsSelected(u, ts) <=> ts = All \/ u \in ts
  BY <1>2 DEF IsSelected
<1>6. CASE ticked = All
  <2>1. ticked' = V \ {t} /\ V \ {t} # All
    BY <1>1, <1>2, <1>3, <1>6
  <2>2. IsSelected(u, ticked') <=> u # t
    BY <1>4, <1>5, <2>1
  <2>3. IsSelected(u, ticked)
    BY <1>5, <1>6
  <2> QED BY <2>2, <2>3, SelectedIs, Zenon
<1>7. CASE ticked # All /\ t \in ticked
  <2>1. ticked \subseteq V
    BY <1>7 DEF V
  <2>2. ticked' = ticked \ {t} /\ ticked \ {t} # All
    BY <1>1, <1>2, <1>3, <1>7, <2>1
  <2>3. IsSelected(u, ticked') <=> u \in ticked /\ u # t
    BY <1>5, <2>2
  <2>4. IsSelected(u, ticked) <=> u \in ticked
    BY <1>5, <1>7
  <2> QED BY <1>7, <2>3, <2>4, SelectedIs, Zenon
<1>8. CASE ticked # All /\ t \notin ticked
  <2>1. ticked \subseteq V
    BY <1>8 DEF V
  <2>2. CASE Cardinality(ticked) + 1 >= Cardinality(V)
    <3> DEFINE more == ticked \cup {t}
    <3>1. more \in SUBSET V /\ IsFiniteSet(ticked)
      BY <1>1, <2>1, FS_Subset
    <3>2. Cardinality(more) = Cardinality(ticked) + 1
      BY <1>8, <3>1, FS_AddElement
    <3> HIDE DEF more
    <3>3. Cardinality(more) <= Cardinality(V) /\ (Cardinality(more) = Cardinality(V) <=> more = V)
      BY <1>1, <3>1, FS_Subset
    <3>4. Cardinality(more) \in Nat /\ Cardinality(V) \in Nat
      BY <1>1, <3>1, FS_Subset, FS_CardinalityType
    <3>5. more = V
      BY <2>2, <3>2, <3>3, <3>4
    <3>6. u \in ticked <=> u # t
      BY <1>4, <1>8, <3>5 DEF more
    <3>7. ticked' = All
      BY <1>3, <1>8, <2>2
    <3>8. IsSelected(u, ticked') /\ (IsSelected(u, ticked) <=> u # t)
      BY <1>5, <1>8, <3>6, <3>7
    <3> QED BY <3>8, SelectedIs, Zenon
  <2>3. CASE ~(Cardinality(ticked) + 1 >= Cardinality(V))
    <3>1. ticked' = ticked \cup {t} /\ ticked \cup {t} # All
      BY <1>1, <1>2, <1>3, <1>8, <2>1, <2>3
    <3>2. IsSelected(u, ticked') <=> u \in ticked \/ u = t
      BY <1>5, <3>1
    <3>3. IsSelected(u, ticked) <=> u \in ticked
      BY <1>5, <1>8
    <3> QED BY <1>8, <3>2, <3>3, SelectedIs, Zenon
  <2> QED BY <2>2, <2>3
<1> QED BY <1>6, <1>7, <1>8

\* A click on a tool of the filter, while every ticked tool is on offer, changes whether that tool is
\* selected and no other.
THEOREM ToolsToggleAlone == ScreenSpec => [][ToggleChangesOne]_screenVars
<1>1. ScreenTypeOK /\ [ScreenNext]_screenVars => [ToggleChangesOne]_screenVars
  BY ToolToggles DEF ScreenTypeOK
<1> QED BY <1>1, ScreensTyped, PTL DEF ScreenSpec

FlowUnmoved ==
    /\ flow' = flow /\ flowMode' = flowMode /\ pickedIdx' = pickedIdx /\ hovered' = hovered /\ find' = find
    /\ pickedEv' = pickedEv /\ unfolded' = unfolded /\ allUnfolded' = allUnfolded

\* "Expand all" and "Collapse all" leave no turn of the list out, whatever was unfolded before.
THEOREM UnfoldsAllOrNone == FlowSpec => [][AllOrNone]_flowVars
<1>1. FlowTypeOK /\ [FlowNext]_flowVars => [AllOrNone]_flowVars
  <2> SUFFICES ASSUME FlowTypeOK, ToggleAll PROVE DOMAIN Turns \subseteq unfolded' \/ unfolded' = {}
    BY DEF AllOrNone
  <2> QED BY TurnsListed DEF ToggleAll, FlowTypeOK
<1> QED BY <1>1, FlowsTyped, PTL DEF FlowSpec

(* The parts together ------------------------------------------------------- *)

LEMMA EachStarts ==
    Init => /\ UrlInit /\ LayoutInit /\ TableInit /\ ChartInit /\ PickerInit
            /\ ScreenInit /\ RowsInit /\ FlowInit /\ GridInit /\ ShellInit
BY DEF Init, UrlStill, LayoutStill, TableStill, ChartStill, PickerStill, ScreenStill, RowsStill, FlowStill, GridStill

LEMMA EachMoves ==
    [Next]_allVars => /\ [UrlNext]_urlVars /\ [LayoutNext]_layoutVars /\ [TableNext]_tableVars /\ [ChartNext]_chartVars
                      /\ [PickerNext]_pickerVars /\ [ScreenNext]_screenVars /\ [RowsNext]_rowVars /\ [FlowNext]_flowVars
                      /\ [GridNext]_gridVars /\ [ShellNext]_shellVars
BY DEF Next, allVars, boardPart, detailPart

\* No part of the page disturbs another.
THEOREM UserPartsRun ==
    Spec => /\ UrlSpec /\ LayoutSpec /\ TableSpec /\ ChartSpec /\ PickerSpec
            /\ ScreenSpec /\ RowsSpec /\ FlowSpec /\ GridSpec /\ ShellSpec
BY EachStarts, EachMoves, PTL
   DEF Spec, UrlSpec, LayoutSpec, TableSpec, ChartSpec, PickerSpec, ScreenSpec, RowsSpec, FlowSpec, GridSpec, ShellSpec

\* part is one of the parts, so that UserTypeOK speaks of the one that moves
LEMMA PartIsOne == Spec => [](part \in {"url", "layout", "tables", "chart", "picker", "screens", "rows", "flow", "grid", "shell"})
<1> DEFINE P == part \in {"url", "layout", "tables", "chart", "picker", "screens", "rows", "flow", "grid", "shell"}
<1>1. Init => P
  BY DEF Init
<1>2. P /\ [Next]_allVars => P'
  BY DEF Next, allVars
<1> QED BY <1>1, <1>2, PTL DEF Spec

\* Whatever the user does to the page without asking the server, its state keeps its types: for any
\* data, addresses, layouts, series, sessions, flows and rows, and any number of steps.
THEOREM UserTyped == Spec => []UserTypeOK
<1>1. /\ UrlTypeOK /\ LayoutTypeOK /\ TableTypeOK /\ ChartTypeOK /\ PickerTypeOK
      /\ ScreenTypeOK /\ RowsTypeOK /\ FlowTypeOK /\ GridTypeOK /\ ShellTypeOK
      /\ part \in {"url", "layout", "tables", "chart", "picker", "screens", "rows", "flow", "grid", "shell"}
      => UserTypeOK
  BY DEF UserTypeOK
<1> QED BY <1>1, UserPartsRun, PartIsOne, UrlTyped, LayoutTyped, TablesTyped, ChartTyped, PickerTyped, ScreensTyped, ListsTyped,
           FlowsTyped, GridTyped, ShellTyped, PTL

\* What is proved of the address, the layout and the explorer alone holds on the whole page.
THEOREM UserKeeps == Spec => [](UrlTellsBoard /\ LayoutKept /\ PickerHolds)
BY UserPartsRun, BoardLivesInUrl, LayoutIsKept, RequestIsShown, PTL

=============================================================================
