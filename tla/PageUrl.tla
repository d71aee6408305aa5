------------------------------ MODULE PageUrl ------------------------------
(***************************************************************************)
(* What the address of the page says, and what the page shows.  Root opens *)
(* the board or the detail screens by the address; the board keeps its     *)
(* filters in it (useBoardFilters), the detail screens their tab, range    *)
(* and tools (useTabs, useRange, useTools), with the last choices in       *)
(* localStorage for an address that says nothing of them.  The history of  *)
(* the browser holds one address per entry; entries of one document are    *)
(* visited with a popstate event, others by loading the page.              *)
(*                                                                         *)
(* Project, model and status are one filter here, narrow.                  *)
(***************************************************************************)
EXTENDS Naturals, SequencesExt

CONSTANTS
    Absent,                      \* a key that the address does not have; no filter
    Tools,                       \* the tools that every screen lists
    BoardRanges, DefaultRange,   \* RANGES of filters.js
    DetailRanges, LiveRange,     \* RANGE_PRESETS
    Narrows, Texts, Spans,       \* what can be filtered by, typed and selected in a chart
    Tabs, HiddenTab,             \* the detail screens; the one that the board shows in its drawer
    MaxEntries, MaxMoves         \* bounds: entries of the history, steps of the user

ASSUME UrlValues ==
    /\ DefaultRange \in BoardRanges /\ LiveRange \in DetailRanges \ BoardRanges
    /\ Absent \notin BoardRanges \cup DetailRanges \cup Narrows \cup Texts \cup Spans \cup Tabs
    /\ Absent # HiddenTab /\ HiddenTab \notin Tabs
    /\ MaxEntries \in Nat \ {0} /\ MaxMoves \in Nat

VARIABLES
    entries, at,          \* the history of the window and the entry shown
    screen,               \* the route that Root opened
    filters, applied,     \* useBoardFilters: what the controls show, what the data hook reads
    finding,              \* the timer of the find box
    undo,                 \* what the toast of clearAll offers to bring back
    tools,                \* useTools of either screen
    tab, range,           \* useTabs and useRange of the detail screens
    storedTools, storedRange, storedTab,
    moves

boardVars == <<filters, applied, finding, undo>>
detailVars == <<tab, range>>
stored == <<storedTools, storedRange, storedTab>>
urlVars == <<entries, at, screen, boardVars, tools, detailVars, stored, moves>>

ToolChoices == {Absent} \cup SUBSET Tools
Urls == [tab : Tabs \cup {HiddenTab, Absent}, range : BoardRanges \cup DetailRanges \cup {Absent},
         tools : ToolChoices, narrow : Narrows \cup {Absent}, sel : Spans \cup {Absent},
         find : Texts \cup {Absent}]
Filters0 == [range : BoardRanges, narrow : Narrows \cup {Absent}, sel : Spans \cup {Absent},
             find : Texts \cup {Absent}]
NoFilters == [range |-> DefaultRange, narrow |-> Absent, sel |-> Absent, find |-> Absent]

url == entries[at].url
RouteOf(u) == IF u.tab \in Tabs THEN "detail" ELSE "board"

\* parseFilters and filtersToParams
ParseFilters(u) == [range |-> IF u.range \in BoardRanges THEN u.range ELSE DefaultRange,
                    narrow |-> u.narrow, sel |-> u.sel, find |-> u.find]
WithFilters(u, f) == [u EXCEPT !.range = IF f.range = DefaultRange THEN Absent ELSE f.range,
                               !.narrow = f.narrow, !.sel = f.sel, !.find = f.find]
\* rangeToParams of a detail screen
WithRange(u, r) == [u EXCEPT !.range = IF r = LiveRange THEN Absent ELSE r]

\* load of useTools and of useRange
LoadTools(u, kept) == IF u.tools = Absent THEN kept ELSE u.tools
LoadRange(u) == IF u.range \in DetailRanges THEN u.range ELSE storedRange

\* writeUrl: nothing happens when the address says it already
Replaced(es, i, u) == [es EXCEPT ![i].url = u]
Replace(u) == entries' = Replaced(entries, at, u) /\ UNCHANGED at
Push(u) ==
    IF u = url THEN UNCHANGED <<entries, at>>
    ELSE /\ at < MaxEntries
         /\ entries' = Append(SubSeq(entries, 1, at), [url |-> u, doc |-> entries[at].doc])
         /\ at' = at + 1

Move == moves < MaxMoves /\ moves' = moves + 1

-----------------------------------------------------------------------------
\* Root, and the first render of the screen it opens with its effects: a page of the history es
\* whose entry i is shown, kept being the tools that localStorage has
Load(es, i, kept) ==
    LET u == es[i].url
    IN  /\ at' = i
        /\ screen' = RouteOf(u)
        /\ tools' = LoadTools(u, kept)
        /\ finding' = FALSE /\ undo' = Absent
        /\ IF RouteOf(u) = "board"
           THEN /\ filters' = ParseFilters(u) /\ applied' = ParseFilters(u)
                /\ tab' = Absent /\ range' = LiveRange
                /\ entries' = Replaced(es, i, [u EXCEPT !.tools = LoadTools(u, kept)])
           ELSE /\ filters' = NoFilters /\ applied' = NoFilters
                /\ tab' = u.tab /\ range' = LoadRange(u)
                /\ entries' = Replaced(es, i, WithRange(u, LoadRange(u)))

\* A link is opened, a detail screen from the rail: a new document.
OpenLink(u) ==
    /\ Move /\ at < MaxEntries
    /\ Load(Append(SubSeq(entries, 1, at), [url |-> u, doc |-> entries[at].doc + 1]), at + 1, storedTools)
    /\ UNCHANGED stored
RailLink(t) == /\ screen = "board"
               /\ OpenLink([tab |-> t, range |-> Absent, tools |-> Absent, narrow |-> Absent,
                            sel |-> Absent, find |-> Absent])
Reload == Move /\ Load(entries, at, storedTools) /\ UNCHANGED stored

-----------------------------------------------------------------------------
(* The board                                                               *)

\* nextTools: all selected is no filter
NextTools(id) ==
    LET now == IF tools = Absent THEN Tools ELSE tools
        next == IF id \in now THEN now \ {id} ELSE now \cup {id}
    IN  IF next = Tools THEN Absent ELSE next

\* update: one entry of the history per choice
Update(f, ts) ==
    /\ screen = "board" /\ Move
    /\ Push([WithFilters(url, f) EXCEPT !.tools = IF ts = tools THEN @ ELSE ts])
    /\ finding' = FALSE
    /\ filters' = f /\ applied' = f
    /\ tools' = ts /\ storedTools' = ts
    /\ UNCHANGED <<screen, detailVars, storedRange, storedTab>>

SetRange(r) == Update([filters EXCEPT !.range = r, !.sel = Absent], tools) /\ UNCHANGED undo
SetFilter(n) == Update([filters EXCEPT !.narrow = n], tools) /\ UNCHANGED undo
Select(s) == Update([filters EXCEPT !.sel = s], tools) /\ UNCHANGED undo
ToggleTool(id) == Update(filters, NextTools(id)) /\ UNCHANGED undo
ClearAll ==
    /\ filters # [NoFilters EXCEPT !.range = filters.range] \/ tools # Absent
    /\ Update([NoFilters EXCEPT !.range = filters.range], Absent)
    /\ undo' = [filters |-> filters, tools |-> tools]
\* The toast offers it for six seconds, whatever is chosen meanwhile.
Undo == undo # Absent /\ Update(undo.filters, undo.tools) /\ undo' = Absent
ToastGone ==
    /\ undo # Absent /\ undo' = Absent
    /\ UNCHANGED <<entries, at, screen, filters, applied, finding, tools, detailVars, stored, moves>>

SetFind(q) ==
    /\ screen = "board" /\ Move
    /\ filters' = [filters EXCEPT !.find = q]
    /\ finding' = TRUE
    /\ UNCHANGED <<entries, at, screen, applied, undo, tools, detailVars, stored>>
FindTimer ==
    /\ finding /\ finding' = FALSE
    /\ Replace(WithFilters(url, filters))
    /\ applied' = filters
    /\ UNCHANGED <<screen, filters, undo, tools, detailVars, stored, moves>>

\* drawerClose
CloseDrawer ==
    /\ screen = "board" /\ url.tab # Absent /\ Move
    /\ Replace([url EXCEPT !.tab = Absent])
    /\ UNCHANGED <<screen, boardVars, tools, detailVars, stored>>

-----------------------------------------------------------------------------
(* The detail screens                                                      *)

\* setActiveTab.  Absent is the default tab, the board: Root loads the page again.
SetActiveTab(t) ==
    /\ screen = "detail" /\ t # tab /\ Move
    /\ storedTab' = t
    /\ IF t = Absent
       THEN /\ at < MaxEntries
            /\ Load(Append(SubSeq(entries, 1, at),
                           [url |-> [url EXCEPT !.tab = t], doc |-> entries[at].doc]), at + 1, storedTools)
       ELSE /\ Push([url EXCEPT !.tab = t])
            /\ tab' = t
            /\ UNCHANGED <<screen, boardVars, tools, range>>
    /\ UNCHANGED <<storedTools, storedRange>>
SetPreset(r) ==
    /\ screen = "detail" /\ r # range /\ Move
    /\ range' = r /\ storedRange' = r
    /\ Replace(WithRange(url, r))
    /\ UNCHANGED <<screen, boardVars, tools, tab, storedTools, storedTab>>
\* toggleTool, and setTools of "all" and "none"
SetTools(ts) ==
    /\ screen = "detail" /\ ts # tools /\ Move
    /\ ts \in {Absent, {}} \cup {NextTools(id) : id \in Tools}
    /\ tools' = ts /\ storedTools' = ts
    /\ Replace([url EXCEPT !.tools = ts])
    /\ UNCHANGED <<screen, boardVars, tab, range, storedRange, storedTab>>

-----------------------------------------------------------------------------
\* onPop of useBoardFilters, defect: the tools stay
OnPopKeepsTools(i) ==
    /\ filters' = ParseFilters(entries[i].url) /\ applied' = ParseFilters(entries[i].url)
    /\ finding' = FALSE
    /\ UNCHANGED <<tools, storedTools>>
OnPop(i) ==
    /\ filters' = ParseFilters(entries[i].url) /\ applied' = ParseFilters(entries[i].url)
    /\ finding' = FALSE
    /\ tools' = entries[i].url.tools /\ storedTools' = entries[i].url.tools

\* Back and Forward.  Within a document the screen hears of it; Root loads the page again when the
\* entry is of the other route.
Visit(i) ==
    /\ i \in DOMAIN entries \ {at} /\ Move
    /\ IF entries[i].doc # entries[at].doc
       THEN Load(entries, i, storedTools) /\ UNCHANGED stored
       ELSE IF RouteOf(entries[i].url) # screen
       THEN /\ storedTools' = IF screen = "board" THEN entries[i].url.tools ELSE storedTools
            /\ Load(entries, i, storedTools')
            /\ UNCHANGED <<storedRange, storedTab>>
       ELSE /\ at' = i
            /\ IF screen = "board" THEN OnPop(i) /\ UNCHANGED tab
               ELSE tab' = entries[i].url.tab /\ UNCHANGED <<filters, applied, finding, tools, storedTools>>
            /\ UNCHANGED <<entries, screen, undo, range, storedRange, storedTab>>

-----------------------------------------------------------------------------
UrlInit ==
    \E u \in {v \in Urls : v.tools \in {Absent, {}}} : \E ts \in ToolChoices \ {{}, Tools} :
        LET ts0 == IF u.tools = Absent THEN ts ELSE u.tools
            board == RouteOf(u) = "board"
            r0 == IF u.range \in DetailRanges THEN u.range ELSE LiveRange
        IN  /\ at = 1 /\ screen = RouteOf(u)
            /\ storedTools = ts /\ storedRange = LiveRange /\ storedTab = Absent
            /\ tools = ts0 /\ finding = FALSE /\ undo = Absent
            /\ filters = IF board THEN ParseFilters(u) ELSE NoFilters
            /\ applied = filters
            /\ tab = IF board THEN Absent ELSE u.tab
            /\ range = IF board THEN LiveRange ELSE r0
            /\ entries = <<[url |-> IF board THEN [u EXCEPT !.tools = ts0] ELSE WithRange(u, r0),
                            doc |-> 0]>>
            /\ moves = 0

UrlNext ==
    \/ \E r \in BoardRanges : SetRange(r)
    \/ \E n \in Narrows \cup {Absent} : SetFilter(n)
    \/ \E s \in Spans \cup {Absent} : Select(s)
    \/ \E id \in Tools : ToggleTool(id)
    \/ \E q \in Texts \cup {Absent} : SetFind(q)
    \/ ClearAll \/ Undo \/ ToastGone \/ FindTimer \/ CloseDrawer
    \/ \E t \in Tabs \cup {HiddenTab, Absent} : SetActiveTab(t)
    \/ \E r \in DetailRanges : SetPreset(r)
    \/ \E ts \in ToolChoices : SetTools(ts)
    \/ \E t \in Tabs : RailLink(t)
    \/ \E i \in 1..MaxEntries : Visit(i)
    \/ Reload

UrlSpec == UrlInit /\ [][UrlNext]_urlVars
-----------------------------------------------------------------------------
UrlTypeOK ==
    /\ at \in DOMAIN entries /\ Len(entries) <= MaxEntries
    /\ \A i \in DOMAIN entries : entries[i].url \in Urls /\ entries[i].doc \in Nat
    /\ screen \in {"board", "detail"} /\ finding \in BOOLEAN
    /\ filters \in Filters0 /\ applied \in Filters0
    /\ undo \in [filters : Filters0, tools : ToolChoices] \cup {Absent}
    /\ tools \in ToolChoices /\ storedTools \in ToolChoices
    /\ tab \in Tabs \cup {HiddenTab, Absent} /\ storedTab \in Tabs \cup {HiddenTab, Absent}
    /\ range \in DetailRanges /\ storedRange \in DetailRanges
    /\ moves \in 0..MaxMoves

\* The board "lives in the URL": but for text still being typed, the page loaded again from its
\* address shows the same filters and tools, wherever Back and Forward have led.
UrlTellsBoard ==
    screen = "board" /\ ~finding =>
        RouteOf(url) = "board" /\ filters = ParseFilters(url) /\ applied = filters /\ tools = LoadTools(url, storedTools)
=============================================================================
