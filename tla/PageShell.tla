----------------------------- MODULE PageShell -----------------------------
(***************************************************************************)
(* The frame around the detail screens (App): the tabs and where each was  *)
(* scrolled to, the theme and the density, the views that the user saves   *)
(* and applies, the command palette with the commands used last, and the   *)
(* notices that come and go at the edge of the page.                       *)
(*                                                                         *)
(* A range is its preset and the moment it starts from; what is typed in   *)
(* the palette is the score that it gives to each kind of command.         *)
(***************************************************************************)
EXTENDS Integers, SequencesExt, FiniteSetsExt, Places

CONSTANTS
    TabRing, HomeTab,           \* the tabs in their order; the one that is the board
    PresetIds, ShellTools,      \* the ranges and the tools that a command chooses
    Unfiltered,                 \* null: every tool is enabled
    ViewIds, NoView,
    ThemeCycle, Editorial, Densities,
    Queries, NoQueryTyped,      \* scores by kind of command; nothing typed
    LruMax, ToastMax,           \* LRU_MAX, TOAST_MAX
    NoToast,
    Depths, Retries,            \* where one can scroll to; the timers of useTabScroll
    MaxShellMoves               \* bound: steps of the user
CommandKinds == {"tab", "range", "filter", "view", "theme", "density"}
ASSUME ShellData ==
    /\ \A s \in {TabRing, PresetIds, ShellTools, ThemeCycle, Densities} : s \in Seq(ToSet(s))
    /\ ToSet(TabRing) \ {HomeTab} # {} /\ <<>> \notin {PresetIds, ThemeCycle, Densities}
    /\ \A ts \in SUBSET ToSet(ShellTools) : ts # Unfiltered
    /\ NoToast \notin Nat \ {0}
    /\ NoQueryTyped \in Queries /\ Queries \subseteq [CommandKinds -> Nat]
    /\ LruMax \in Nat /\ ToastMax \in Nat /\ Retries \in Nat \ {0} /\ MaxShellMoves \in Nat
    /\ 0 \in Depths /\ Depths \subseteq Nat /\ \E bottom \in Depths : \A y \in Depths : y <= bottom

VARIABLES
    look,                       \* tab, range, tools, density and theme, as one record
    views, linked,              \* useSavedViews and the view that the address names
    palette, typed, activeIdx, lru,
    toasts, timers, pointerOn, focusOn, lastToast,
    connected, everConnected,
    positions, scrollTop, scrollTarget, settled, scrollTick, steady, grown,
    clock, shellMoves

viewVars == <<look, views, linked>>
paletteVars == <<palette, typed, activeIdx, lru>>
toastVars == <<toasts, timers, pointerOn, focusOn, lastToast>>
linkVars == <<connected, everConnected>>
scrollVars == <<positions, scrollTop, scrollTarget, settled, scrollTick, steady, grown>>
shellVars == <<viewVars, paletteVars, toastVars, linkVars, scrollVars, clock, shellMoves>>

ShellTabs == ToSet(TabRing) \ {HomeTab}
Themes == ToSet(ThemeCycle) \cup {Editorial}
MovesOn == shellMoves < MaxShellMoves /\ shellMoves' = shellMoves + 1

-----------------------------------------------------------------------------
(* The tabs and where each was scrolled to (useTabs, useTabScroll). *)

Height == IF grown THEN Max(Depths) ELSE 0

\* The page looks as l says; a lazy tab that is entered is short until its data is there.
Becomes(l) ==
    /\ look' = l
    /\ IF l.tab = look.tab THEN UNCHANGED scrollVars
       ELSE \E long \in BOOLEAN :
            LET goal == positions[l.tab]
                top == IF long THEN goal ELSE 0
            IN  /\ grown' = long /\ scrollTarget' = goal /\ scrollTop' = top
                /\ positions' = IF top = scrollTop THEN positions ELSE [positions EXCEPT ![l.tab] = top]
                /\ settled' = FALSE /\ scrollTick' = 0 /\ steady' = TRUE

\* The keys [ and ] go round; the overview leads to the board, out of this page.
NextTab(step) ==
    LET n == Len(TabRing)
        at == SelectInSeq(TabRing, LAMBDA t : t = look.tab)
    IN  TabRing[((at - 1 + step + n) % n) + 1]
PressTab(step) ==
    /\ MovesOn /\ ~palette /\ NextTab(step) # HomeTab
    /\ Becomes([look EXCEPT !.tab = NextTab(step)])
    /\ UNCHANGED <<views, linked, paletteVars, toastVars, linkVars, clock>>

ScrollTo(y) == scrollTop' = y /\ positions' = [positions EXCEPT ![look.tab] = y]
\* By wheel or touch, or by a key or the scroll bar, which useTabScroll does not hear.
UserScrolls(y, heard) ==
    /\ MovesOn /\ y # scrollTop /\ y <= Height
    /\ ScrollTo(y) /\ steady' = FALSE /\ settled' = (settled \/ heard)
    /\ UNCHANGED <<viewVars, paletteVars, toastVars, linkVars, scrollTarget, scrollTick, grown, clock>>
PageGrows ==
    /\ ~grown /\ grown' = TRUE
    /\ UNCHANGED <<viewVars, paletteVars, toastVars, linkVars, positions, scrollTop, scrollTarget,
                   settled, scrollTick, steady, clock, shellMoves>>
AgainFromPositions == IF settled \/ scrollTarget = 0 THEN scrollTop ELSE Min({positions[look.tab], Height})
Again == IF settled \/ scrollTarget = 0 THEN scrollTop ELSE Min({scrollTarget, Height})
ScrollTimer ==
    /\ scrollTick < Retries /\ scrollTick' = scrollTick + 1
    /\ IF Again = scrollTop THEN UNCHANGED <<scrollTop, positions>> ELSE ScrollTo(Again)
    /\ steady' = (steady /\ (scrollTick' < Retries \/ grown))
    /\ UNCHANGED <<viewVars, paletteVars, toastVars, linkVars, scrollTarget, settled, grown, clock, shellMoves>>
ScrollStep ==
    \/ \E step \in {1, -1} : PressTab(step)
    \/ \E y \in Depths, heard \in BOOLEAN : UserScrolls(y, heard)
    \/ PageGrows
    \/ ScrollTimer

-----------------------------------------------------------------------------
(* The commands of the palette (buildCommands) and the views (useSavedViews). *)

Preset(id) == [id |-> id, since |-> clock]
\* useTools: without a filter all but this one stay; all of them again is no filter.
TogglesTool(t) ==
    IF look.tools = Unfiltered THEN ToSet(ShellTools) \ {t}
    ELSE IF t \in look.tools THEN look.tools \ {t}
    ELSE LET next == look.tools \cup {t}
         IN  IF Cardinality(next) >= Len(ShellTools) THEN Unfiltered ELSE next
ViewAt(id) == CHOOSE v \in ToSet(views) : v.id = id
Saved == {v.id : v \in ToSet(views)}

Command(kind, arg) == [kind |-> kind, arg |-> arg]
CommandsOf(kind, args) == [i \in DOMAIN args |-> Command(kind, args[i])]
GroupIn(c) == IF c.kind \in {"theme", "density"} THEN "Appearance" ELSE c.kind
Commands == CommandsOf("tab", Picked(TabRing, {i \in DOMAIN TabRing : TabRing[i] # HomeTab})) \o CommandsOf("range", PresetIds)
            \o CommandsOf("filter", ShellTools) \o CommandsOf("view", [i \in DOMAIN views |-> views[i].id])
            \o CommandsOf("theme", Append(ThemeCycle, Editorial)) \o CommandsOf("density", Densities)

\* applyViewState for a saved view, or what the command sets
LookAfter(c) ==
    CASE c.kind = "tab" -> [look EXCEPT !.tab = c.arg]
      [] c.kind = "range" -> [look EXCEPT !.range = Preset(c.arg)]
      [] c.kind = "filter" -> [look EXCEPT !.tools = TogglesTool(c.arg)]
      [] c.kind = "view" -> ViewAt(c.arg).look
      [] c.kind = "theme" -> [look EXCEPT !.theme = c.arg]
      [] c.kind = "density" -> [look EXCEPT !.density = c.arg]
Does(c) ==
    /\ Becomes(LookAfter(c))
    /\ linked' = IF c.kind = "view" THEN c.arg ELSE linked
    /\ UNCHANGED views

ApplyViewKeepsRange(id) == Becomes([ViewAt(id).look EXCEPT !.range = Preset(@.id)]) /\ linked' = id
ApplyView(id) == Becomes(ViewAt(id).look) /\ linked' = id
UseView(id) ==
    /\ MovesOn /\ ~palette /\ ApplyView(id)
    /\ UNCHANGED <<views, paletteVars, toastVars, linkVars, clock>>
SaveView(id) ==
    /\ MovesOn /\ ~palette /\ id \notin Saved
    /\ views' = Append(views, [id |-> id, look |-> look])
    /\ UNCHANGED <<look, linked, paletteVars, toastVars, linkVars, scrollVars, clock>>
DeleteView(id) ==
    /\ MovesOn /\ ~palette
    /\ views' = Picked(views, {i \in DOMAIN views : views[i].id # id})
    /\ UNCHANGED <<look, linked, paletteVars, toastVars, linkVars, scrollVars, clock>>
CycleTheme ==
    /\ MovesOn /\ ~palette
    /\ LET i == SelectInSeq(ThemeCycle, LAMBDA t : t = look.theme)
       IN  look' = [look EXCEPT !.theme = ThemeCycle[(i % Len(ThemeCycle)) + 1]]
    /\ UNCHANGED <<views, linked, paletteVars, toastVars, linkVars, scrollVars, clock>>
ChoosePreset(id) ==
    /\ MovesOn /\ ~palette /\ clock' = clock + 1
    /\ look' = [look EXCEPT !.range = [id |-> id, since |-> clock']]
    /\ UNCHANGED <<views, linked, paletteVars, toastVars, linkVars, scrollVars>>
MatchingView == SelectInSeq(views, LAMBDA v : v.look = look)

\* Range, tools and tab come back from the address, theme and density from localStorage; the view
\* in the address is applied over them once.
ReloadPage ==
    /\ MovesOn /\ clock' = clock + 1
    /\ look' = IF linked \in Saved THEN ViewAt(linked).look ELSE [look EXCEPT !.range.since = clock']
    /\ positions' = [t \in ShellTabs |-> 0] /\ scrollTop' = 0 /\ scrollTarget' = 0
    /\ settled' = FALSE /\ scrollTick' = 0 /\ steady' = TRUE /\ grown' = FALSE
    /\ palette' = FALSE /\ typed' = NoQueryTyped /\ activeIdx' = 1
    /\ toasts' = <<>> /\ timers' = <<>> /\ pointerOn' = NoToast /\ focusOn' = NoToast
    /\ connected' = FALSE /\ everConnected' = FALSE
    /\ UNCHANGED <<views, linked, lru, lastToast>>
ViewStep ==
    \/ \E id \in ViewIds : SaveView(id)
    \/ \E id \in Saved : UseView(id) \/ DeleteView(id)
    \/ \E id \in ToSet(PresetIds) : ChoosePreset(id)
    \/ CycleTheme
    \/ ReloadPage

-----------------------------------------------------------------------------
(* The palette (CommandPalette, useCommandPalette). *)

IsUsed(c) == \E i \in DOMAIN lru : lru[i] = c
Offered(c) == \E i \in DOMAIN Commands : Commands[i] = c
Score(c) == typed[c.kind]
\* Nothing typed: what was used last, then the rest; else the best first, equals in their order.
Found ==
    LET commands == Commands
    IN  IF typed = NoQueryTyped
        THEN Picked(lru, {i \in DOMAIN lru : Offered(lru[i])})
             \o Picked(commands, {i \in DOMAIN commands : ~IsUsed(commands[i])})
        ELSE LET hits == Picked(commands, {i \in DOMAIN commands : Score(commands[i]) > 0})
             IN  Ordered(hits, {x \in (DOMAIN hits) \X (DOMAIN hits) :
                                  \/ Score(hits[x[1]]) > Score(hits[x[2]])
                                  \/ Score(hits[x[1]]) = Score(hits[x[2]]) /\ x[1] < x[2]})
\* The list on the page: by group, the group of the best command first.
Firsts(found) == [i \in DOMAIN found |-> Min({j \in DOMAIN found : GroupIn(found[j]) = GroupIn(found[i])})]
ByGroup(found) ==
    LET first == Firsts(found) \o <<>>      \* the same sequence; TLC works it out once
    IN  Ordered(found, {x \in (DOMAIN found) \X (DOMAIN found) :
                          first[x[1]] < first[x[2]] \/ (first[x[1]] = first[x[2]] /\ x[1] < x[2])})
ListedCommands == ByGroup(Found)

RecordUseAgain(c) == SubSeq(<<c>> \o lru, 1, Min({LruMax, Len(lru) + 1}))
RecordUse(c) ==
    LET used == <<c>> \o Picked(lru, {i \in DOMAIN lru : lru[i] # c})
    IN  SubSeq(used, 1, Min({LruMax, Len(used)}))
Run(c) ==
    /\ MovesOn /\ palette
    /\ lru' = RecordUse(c) /\ Does(c)
    /\ palette' = FALSE
    /\ UNCHANGED <<typed, activeIdx, toastVars, linkVars, clock>>
\* The key that opens the palette opens it empty; it closes it too, as Escape does.
TogglePalette ==
    /\ MovesOn /\ palette' = ~palette
    /\ typed' = IF palette THEN typed ELSE NoQueryTyped
    /\ activeIdx' = IF palette THEN activeIdx ELSE 1
    /\ UNCHANGED <<viewVars, lru, toastVars, linkVars, scrollVars, clock>>
TypeCommand(text) ==
    /\ MovesOn /\ palette /\ text # typed
    /\ typed' = text /\ activeIdx' = 1
    /\ UNCHANGED <<viewVars, palette, lru, toastVars, linkVars, scrollVars, clock>>
\* By the arrow keys or by the pointer.
Mark(i) ==
    /\ MovesOn /\ palette /\ i # activeIdx
    /\ activeIdx' = i
    /\ UNCHANGED <<viewVars, palette, typed, lru, toastVars, linkVars, scrollVars, clock>>
PressArrow(step) == Mark(IF step = 1 THEN Min({activeIdx + 1, Len(Found)}) ELSE Max({activeIdx - 1, 1}))
PressEnter == activeIdx \in DOMAIN Found /\ Run(Found[activeIdx])
Click(c) == Run(c)
PaletteStep ==
    \/ TogglePalette
    \/ \E text \in Queries : TypeCommand(text)
    \/ \E step \in {1, -1} : PressArrow(step)
    \/ palette /\ \E i \in DOMAIN ListedCommands : Mark(i)
    \/ palette /\ \E c \in ToSet(ListedCommands) : Click(c)
    \/ PressEnter

-----------------------------------------------------------------------------
(* The notices (ToastProvider) and those about the connection. *)

DropToast(id) == Picked(toasts, {i \in DOMAIN toasts : toasts[i] # id})
WithoutTimers(f, ids) == [t \in DOMAIN f \ ids |-> f[t]]
Gone(ids) ==
    /\ pointerOn' = IF pointerOn \in ids THEN NoToast ELSE pointerOn
    /\ focusOn' = IF focusOn \in ids THEN NoToast ELSE focusOn

Evicted(shown) == {shown[i] : i \in 1..(Len(shown) - ToastMax)}
ClearedNone(shown) == {}
Cleared(shown) == Evicted(shown)
AddToast(id) ==
    LET shown == Append(toasts, id)
    IN  /\ toasts' = Picked(shown, {i \in DOMAIN shown : shown[i] \notin Evicted(shown)})
        /\ timers' = [t \in (DOMAIN timers \cup {id}) \ Cleared(shown) |-> IF t = id THEN "runs" ELSE timers[t]]
        /\ Gone(Evicted(shown)) /\ lastToast' = id
NoneAdded == UNCHANGED toastVars

\* A copied text, a saved file: any component may add one.
Notify ==
    /\ MovesOn /\ AddToast(lastToast + 1)
    /\ UNCHANGED <<viewVars, paletteVars, linkVars, scrollVars, clock>>
\* Its time is up, or the user closes it.
RemoveToast(id) ==
    /\ toasts' = DropToast(id) /\ timers' = WithoutTimers(timers, {id}) /\ Gone({id})
    /\ UNCHANGED <<lastToast, viewVars, paletteVars, linkVars, scrollVars, clock, shellMoves>>
ToastExpires(id) == timers[id] = "runs" /\ RemoveToast(id)
Dismiss(id) == (pointerOn = id \/ focusOn = id) /\ RemoveToast(id)

PauseLost(f, id) == f
Pause(f, id) == IF id \in DOMAIN f THEN [f EXCEPT ![id] = "paused"] ELSE f
Resume(f, id) == IF id \in DOMAIN f THEN [f EXCEPT ![id] = "runs"] ELSE f
\* The pointer, or the focus, goes from one notice to another or away.
PointTo(id) ==
    /\ MovesOn /\ id # pointerOn /\ pointerOn' = id
    /\ timers' = Pause(Resume(timers, pointerOn), id)
    /\ UNCHANGED <<toasts, focusOn, lastToast, viewVars, paletteVars, linkVars, scrollVars, clock>>
FocusTo(id) ==
    /\ MovesOn /\ id # focusOn /\ focusOn' = id
    /\ timers' = Pause(Resume(timers, focusOn), id)
    /\ UNCHANGED <<toasts, pointerOn, lastToast, viewVars, paletteVars, linkVars, scrollVars, clock>>

\* useConnectionToasts: nothing before the first connection, and once for each change.
Connection ==
    /\ MovesOn /\ connected' = ~connected
    /\ everConnected' = (everConnected \/ connected')
    /\ IF everConnected THEN AddToast(lastToast + 1) ELSE NoneAdded
    /\ UNCHANGED <<viewVars, paletteVars, scrollVars, clock>>
ToastStep ==
    \/ Notify \/ Connection
    \/ \E id \in ToSet(toasts) : ToastExpires(id) \/ Dismiss(id)
    \/ \E id \in ToSet(toasts) \cup {NoToast} : PointTo(id) \/ FocusTo(id)

ShellInit ==
    /\ look = [tab |-> CHOOSE t \in ShellTabs : TRUE, range |-> [id |-> PresetIds[1], since |-> 0],
               tools |-> Unfiltered, density |-> Densities[1], theme |-> ThemeCycle[1]]
    /\ views = <<>> /\ linked = NoView
    /\ palette = FALSE /\ typed = NoQueryTyped /\ activeIdx = 1 /\ lru = <<>>
    /\ toasts = <<>> /\ timers = <<>> /\ pointerOn = NoToast /\ focusOn = NoToast /\ lastToast = 0
    /\ connected = FALSE /\ everConnected = FALSE
    /\ positions = [t \in ShellTabs |-> 0] /\ scrollTop = 0 /\ scrollTarget = 0
    /\ settled = FALSE /\ scrollTick = 0 /\ steady = TRUE /\ grown = FALSE
    /\ clock = 0 /\ shellMoves = 0
ShellNext == ScrollStep \/ ViewStep \/ PaletteStep \/ ToastStep
ShellSpec == ShellInit /\ [][ShellNext]_shellVars

-----------------------------------------------------------------------------
ShellTypeOK ==
    /\ look.tab \in ShellTabs /\ look.theme \in Themes /\ look.density \in ToSet(Densities)
    /\ look.tools \in (SUBSET ToSet(ShellTools)) \cup {Unfiltered} /\ look.range.id \in ToSet(PresetIds) /\ look.range.since \in 0..clock
    /\ linked \in ViewIds \cup {NoView} /\ typed \in Queries
    /\ positions \in [ShellTabs -> Depths] /\ scrollTop \in Depths /\ scrollTick \in 0..Retries

\* useCommandPalette: each of the last commands is kept once.
LruOnce == IsInjective(lru) /\ Len(lru) <= LruMax

\* CommandPalette: the list has every command found, and while the groups do not interleave in the
\* order of relevance the key runs the command that is marked.
MarkedRuns ==
    palette => LET found == Found
                   listed == ByGroup(found)
                   interleaved == \E i, j, k \in DOMAIN found :
                       i < j /\ j < k /\ GroupIn(found[i]) = GroupIn(found[k]) /\ GroupIn(found[j]) # GroupIn(found[i])
               IN  ToSet(listed) = ToSet(found) /\ (listed = found \/ interleaved)

\* ToastProvider: every notice shown has its timer and no timer is left of one that went; one that
\* does not run is held by the pointer or the focus, and none runs while both are on it.
ToastsEnd ==
    /\ DOMAIN timers = ToSet(toasts) /\ Len(toasts) <= ToastMax
    /\ \A t \in DOMAIN timers : timers[t] = "paused" => t \in {pointerOn, focusOn}
    /\ \A t \in DOMAIN timers : pointerOn = t /\ focusOn = t => timers[t] = "paused"

\* useTabScroll: a tab that nobody scrolled since is where it was left, if its page grew in time.
TabRestored == scrollTick = Retries /\ steady => scrollTop = scrollTarget

ShellHolds == LruOnce /\ MarkedRuns /\ ToastsEnd /\ TabRestored

\* useSavedViews: a view that is applied, from the menu or by the address, is what the page shows.
ViewsMatch == \A id \in Saved : UseView(id) \/ (ReloadPage /\ linked = id) => MatchingView' # 0

\* ToastProvider ("Pause the TTL while the pointer or keyboard focus is on a toast"): a notice that
\* is held runs on only when both were on it and one of them left.
HeldPauses ==
    \A t \in DOMAIN timers \cap DOMAIN timers' :
        t \in {pointerOn', focusOn'} /\ timers'[t] = "runs"
        => \/ t \in {pointerOn, focusOn} /\ timers[t] = "runs"
           \/ pointerOn = t /\ focusOn = t
=============================================================================
