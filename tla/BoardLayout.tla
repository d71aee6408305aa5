---------------------------- MODULE BoardLayout ----------------------------
(***************************************************************************)
(* The arrangement of the board's panels: layout.js, the actions of        *)
(* BoardScreen and Panel that change it, with their undo, and its copy in  *)
(* localStorage, written 120 ms after the last change and read when the    *)
(* page is loaded, perhaps by a later version with other panels.           *)
(*                                                                         *)
(* A panel is [id, span, open, h]; a height is AutoHeight or a number of steps   *)
(* of 40 pixels.  Of the columns of each table one can be hidden, Col.     *)
(***************************************************************************)
EXTENDS Naturals, SequencesExt, FiniteSetsExt, Places

CONSTANTS
    DefaultLayout,       \* DEFAULT_LAYOUT: a sequence of [id, panels], panels one of [id, span]
    DefaultHiddenCols,   \* the panels whose Col is hidden at first
    Widths, Pulls,       \* WIDTHS; by how much a resize changes the span
    AutoHeight, MinHeight, MaxHeight,    \* bound: MaxHeight
    NoUi, OlderUis,      \* what localStorage may hold at first: nothing, what an older version wrote
    OtherIds,            \* the sections and panels that only other versions have
    MaxEdits             \* bound: steps of the user

\* of panels, and of sections
IdsOf(ps) == {ps[j].id : j \in DOMAIN ps}
OnceEach(ps) == \A j, k \in DOMAIN ps : ps[j].id = ps[k].id => j = k
AllPanels(layout) == UNION {IdsOf(layout[i].panels) : i \in DOMAIN layout}
OnePlace(layout) ==
    /\ \A i \in DOMAIN layout : OnceEach(layout[i].panels)
    /\ \A i, k \in DOMAIN layout : i # k => IdsOf(layout[i].panels) \cap IdsOf(layout[k].panels) = {}

SectionIds == IdsOf(DefaultLayout)
PanelIds == AllPanels(DefaultLayout)
Heights == {AutoHeight} \cup MinHeight..MaxHeight

PanelRecords == [id : PanelIds, span : 2..12, open : BOOLEAN, h : Heights]
SectionRecords == [id : SectionIds, open : BOOLEAN, panels : Seq(PanelRecords)]
Layouts == Seq(SectionRecords)
OlderPanels == [id : PanelIds \cup OtherIds, span : Nat, open : BOOLEAN, h : Heights]
OlderSections == [id : SectionIds \cup OtherIds, open : BOOLEAN, panels : Seq(OlderPanels)]
OlderLayouts == Seq(OlderSections)
UisOf(layouts, ids) == [layout : layouts, hidden : Seq(ids), hiddenCols : SUBSET (PanelIds \cup OtherIds),
                        density : {"compact", "comfortable"}, railMini : BOOLEAN]
Uis == UisOf(Layouts, PanelIds)

DefaultPanels == [id : PanelIds, span : 2..12]
DefaultSections == [id : SectionIds, panels : Seq(DefaultPanels)]
ASSUME LayoutBounds == MinHeight \in Nat /\ MaxHeight \in Nat /\ MaxEdits \in Nat /\ Pulls \subseteq Nat
ASSUME LayoutDefaults ==
    /\ DefaultLayout \in Seq(DefaultSections)
    /\ OnceEach(DefaultLayout) /\ OnePlace(DefaultLayout)
    /\ DefaultHiddenCols \subseteq PanelIds /\ Widths \subseteq 2..12
\* An older version too stored each of its sections once, and each panel that it hid.
ASSUME LayoutsStored ==
    /\ OlderUis \subseteq UisOf(OlderLayouts, PanelIds \cup OtherIds)
    /\ \A u \in OlderUis : OnceEach(u.layout) /\ IsInjective(u.hidden)
    /\ NoUi \notin Uis

VARIABLES
    ui,        \* [layout, hidden, hiddenCols, density, railMini]
    keptUi,    \* localStorage
    saving,    \* the timer of the effect on ui
    dragged, over,   \* dragId, and the panel below it
    offer,     \* the undo of the toast
    edits

layoutVars == <<ui, keptUi, saving, dragged, over, offer, edits>>

FreshLayout == [i \in DOMAIN DefaultLayout |->
    [id |-> DefaultLayout[i].id, open |-> TRUE,
     panels |-> [j \in DOMAIN DefaultLayout[i].panels |->
                    [id |-> DefaultLayout[i].panels[j].id, span |-> DefaultLayout[i].panels[j].span,
                     open |-> TRUE, h |-> AutoHeight]]]]
FreshUi == [layout |-> FreshLayout, hidden |-> <<>>, hiddenCols |-> DefaultHiddenCols,
            density |-> "compact", railMini |-> FALSE]

\* defect: only the lower one
ClampLow(span) == Max({2, span})
Clamp(span) == Max({2, Min({12, span})})
StoredSpan(span) == Clamp(IF span = 0 THEN 6 ELSE span)

-----------------------------------------------------------------------------
(* layout.js                                                               *)

KnownSecs(layout) == Picked(layout, {i \in DOMAIN layout : layout[i].id \in SectionIds})
\* the first of each known panel stays, in the section where it is stored
FirstHere(secs, i, j) ==
    LET id == secs[i].panels[j].id IN
    /\ id \in PanelIds
    /\ \A k \in 1..(j - 1) : secs[i].panels[k].id # id
    /\ \A k \in 1..(i - 1) : id \notin IdsOf(secs[k].panels)
KeptPanels(secs, i) ==
    LET ps == secs[i].panels IN
    Picked([j \in DOMAIN ps |-> [ps[j] EXCEPT !.span = StoredSpan(@)]], {j \in DOMAIN ps : FirstHere(secs, i, j)})
KeptSecs(layout) ==
    LET secs == KnownSecs(layout) IN [i \in DOMAIN secs |-> [secs[i] EXCEPT !.panels = KeptPanels(secs, i)]]
\* what is in no stored section
AddedSecs(secs) ==
    LET added == Picked(FreshLayout, {i \in DOMAIN FreshLayout : FreshLayout[i].id \notin IdsOf(secs)})
    IN  [i \in DOMAIN added |-> [added[i] EXCEPT !.panels = <<>>]]
AddedPanels(secs, id) ==
    LET ps == FreshLayout[CHOOSE i \in DOMAIN FreshLayout : FreshLayout[i].id = id].panels
    IN  Picked(ps, {j \in DOMAIN ps : ps[j].id \notin AllPanels(secs)})
Sanitize(layout) ==
    LET known == KeptSecs(layout) all == known \o AddedSecs(known)
    IN  [i \in DOMAIN all |-> [all[i] EXCEPT !.panels = @ \o AddedPanels(known, all[i].id)]]

Among(ids, S) == Picked(ids, {n \in DOMAIN ids : ids[n] \in S})
LoadUi(raw) ==
    IF raw = NoUi THEN FreshUi
    ELSE [raw EXCEPT !.layout = Sanitize(@), !.hidden = Among(@, PanelIds)]

SectionOf(layout, id) == CHOOSE i \in DOMAIN layout : id \in IdsOf(layout[i].panels)
PlaceOf(ps, id) == CHOOSE j \in DOMAIN ps : ps[j].id = id
PanelOf(layout, id) == LET ps == layout[SectionOf(layout, id)].panels IN ps[PlaceOf(ps, id)]
Patched(p, patch) == [f \in DOMAIN p |-> IF f \in DOMAIN patch THEN patch[f] ELSE p[f]]
UpdatePanel(layout, id, patch) ==
    [i \in DOMAIN layout |-> [layout[i] EXCEPT !.panels =
        [j \in DOMAIN @ |-> IF @[j].id = id THEN Patched(@[j], patch) ELSE @[j]]]]

Without(layout, id) == [i \in DOMAIN layout |->
    [layout[i] EXCEPT !.panels = Picked(@, {j \in DOMAIN @ : @[j].id # id})]]
\* movePanel onto a panel, and to the end of a section
\* defect: a panel dropped on itself is taken out and not put back
MoveByPanelLoses(layout, id, target, after) ==
    IF id = target THEN Without(layout, id)
    ELSE LET rest == Without(layout, id) to == SectionOf(rest, target) IN
         [rest EXCEPT ![to].panels =
             InsertAt(@, PlaceOf(@, target) + (IF after THEN 1 ELSE 0), PanelOf(layout, id))]
MoveByPanel(layout, id, target, after) ==
    IF id = target THEN layout
    ELSE LET rest == Without(layout, id) to == SectionOf(rest, target) IN
         [rest EXCEPT ![to].panels =
             InsertAt(@, PlaceOf(@, target) + (IF after THEN 1 ELSE 0), PanelOf(layout, id))]
MoveToEnd(layout, id, sec) ==
    LET rest == Without(layout, id) to == CHOOSE i \in DOMAIN rest : rest[i].id = sec
    IN  [rest EXCEPT ![to].panels = Append(@, PanelOf(layout, id))]

Swap(s, i, j) == IF j \in DOMAIN s THEN [s EXCEPT ![i] = s[j], ![j] = s[i]] ELSE s
\* dir is 1 for later, 0 for earlier
Neighbour(i, dir) == IF dir = 1 THEN i + 1 ELSE i - 1
StepPanel(layout, id, dir) ==
    [layout EXCEPT ![SectionOf(layout, id)].panels =
        LET j == PlaceOf(@, id) IN Swap(@, j, Neighbour(j, dir))]
MoveSection(layout, id, dir) ==
    LET i == CHOOSE k \in DOMAIN layout : layout[k].id = id IN Swap(layout, i, Neighbour(i, dir))

-----------------------------------------------------------------------------
(* BoardScreen.  Every change of ui starts the timer again.                *)
SetUi(u) == ui' = u /\ saving' = (saving \/ u # ui)
SetLayout(layout) == SetUi([ui EXCEPT !.layout = layout])
Edit == edits < MaxEdits /\ edits' = edits + 1

Visible(id) == id \notin ToSet(ui.hidden) /\ ui.layout[SectionOf(ui.layout, id)].open
Quiet == UNCHANGED <<keptUi, dragged, over, offer>>

\* openSection, toggleSection and foldAll
SetOpen(secs, open) ==
    /\ Edit /\ Quiet
    /\ SetLayout([i \in DOMAIN ui.layout |->
           IF ui.layout[i].id \in secs THEN [ui.layout[i] EXCEPT !.open = open] ELSE ui.layout[i]])
MoveSectionBy(sec, dir) == Edit /\ Quiet /\ SetLayout(MoveSection(ui.layout, sec, dir))
ToggleFold(id) ==
    /\ Visible(id) /\ Edit /\ Quiet
    /\ SetLayout(UpdatePanel(ui.layout, id, [open |-> ~PanelOf(ui.layout, id).open]))
SetSpan(id, w) ==
    /\ Visible(id) /\ Edit /\ Quiet
    /\ SetLayout(UpdatePanel(ui.layout, id, [span |-> w]))
\* growBy, from the height that the panel has on the screen
GrowBy(id, taller) ==
    /\ Visible(id) /\ Edit /\ Quiet
    /\ \E shows \in MinHeight..MaxHeight :
         LET now == IF PanelOf(ui.layout, id).h = AutoHeight THEN shows ELSE PanelOf(ui.layout, id).h
             next == IF taller THEN now + 1 ELSE Max({MinHeight, now - 1})
         IN  /\ next <= MaxHeight
             /\ SetLayout(UpdatePanel(ui.layout, id, [h |-> next]))
\* startResize, from the press of the button to its release
Resize(id) ==
    /\ Visible(id) /\ PanelOf(ui.layout, id).open /\ Edit /\ Quiet
    /\ \E d \in Pulls, wider \in BOOLEAN, h \in MinHeight..MaxHeight \cup {PanelOf(ui.layout, id).h} :
         LET was == PanelOf(ui.layout, id).span
             wide == IF wider THEN Clamp(was + d) ELSE IF d > was THEN 2 ELSE Clamp(was - d)
         IN  SetLayout(UpdatePanel(ui.layout, id, [span |-> wide, h |-> h]))
Step(id, dir) == Visible(id) /\ Edit /\ Quiet /\ SetLayout(StepPanel(ui.layout, id, dir))
MoveToSection(id, sec) ==
    /\ Visible(id) /\ ui.layout[SectionOf(ui.layout, id)].id # sec /\ Edit /\ Quiet
    /\ SetLayout(MoveToEnd(ui.layout, id, sec))
\* toggleCol, setDensity and toggleRail
Display ==
    /\ Edit /\ Quiet
    /\ \/ \E id \in PanelIds :
            /\ Visible(id)
            /\ SetUi([ui EXCEPT !.hiddenCols = IF id \in @ THEN @ \ {id} ELSE @ \cup {id}])
       \/ \E d \in {"compact", "comfortable"} : SetUi([ui EXCEPT !.density = d])
       \/ SetUi([ui EXCEPT !.railMini = ~@])

Hide(id) ==
    /\ Visible(id) /\ Edit
    /\ SetUi([ui EXCEPT !.hidden = Append(@, id)])
    /\ offer' = [show |-> {id}]
    /\ UNCHANGED <<keptUi, dragged, over>>
Shown(ids) == [ui EXCEPT !.hidden = Among(@, PanelIds \ ids)]
Show(id) == id \in ToSet(ui.hidden) /\ Edit /\ Quiet /\ SetUi(Shown({id}))
ResetLayout ==
    /\ Edit
    /\ SetUi([FreshUi EXCEPT !.density = ui.density, !.railMini = ui.railMini])
    /\ offer' = [layout |-> ui.layout, hidden |-> ui.hidden, hiddenCols |-> ui.hiddenCols]
    /\ UNCHANGED <<keptUi, dragged, over>>
\* The toast's Undo, after whatever was done meanwhile
UndoEdit ==
    /\ offer # NoUi /\ Edit
    /\ SetUi(IF "show" \in DOMAIN offer THEN Shown(offer.show)
             ELSE [ui EXCEPT !.layout = offer.layout, !.hidden = offer.hidden, !.hiddenCols = offer.hiddenCols])
    /\ offer' = NoUi
    /\ UNCHANGED <<keptUi, dragged, over>>
OfferGone == offer # NoUi /\ offer' = NoUi /\ UNCHANGED <<ui, keptUi, saving, dragged, over, edits>>

DragStart(id) ==
    /\ dragged = NoUi /\ Visible(id) /\ Edit
    /\ dragged' = id
    /\ UNCHANGED <<ui, keptUi, saving, over, offer>>
DragOver(id, after) ==
    /\ dragged # NoUi /\ Visible(id)
    /\ over' = [id |-> id, after |-> after]
    /\ UNCHANGED <<ui, keptUi, saving, dragged, offer, edits>>
\* dropOnPanel, dropOnSection, and dragEnd
Drop ==
    /\ dragged # NoUi
    /\ \/ over # NoUi /\ SetLayout(MoveByPanel(ui.layout, dragged, over.id, over.after))
       \/ \E i \in DOMAIN ui.layout : ui.layout[i].open /\ SetLayout(MoveToEnd(ui.layout, dragged, ui.layout[i].id))
       \/ UNCHANGED <<ui, saving>>
    /\ dragged' = NoUi /\ over' = NoUi
    /\ UNCHANGED <<keptUi, offer, edits>>

\* The timer of the effect, and a page loaded again, before it or after
Save ==
    /\ saving /\ saving' = FALSE
    /\ keptUi' = ui
    /\ UNCHANGED <<ui, dragged, over, offer, edits>>
ReloadBoard ==
    /\ Edit
    /\ ui' = LoadUi(keptUi)
    /\ saving' = TRUE /\ dragged' = NoUi /\ over' = NoUi /\ offer' = NoUi
    /\ UNCHANGED keptUi

-----------------------------------------------------------------------------
LayoutInit ==
    /\ keptUi \in OlderUis \cup {NoUi}
    /\ ui = LoadUi(keptUi) /\ saving = TRUE
    /\ dragged = NoUi /\ over = NoUi /\ offer = NoUi /\ edits = 0

LayoutNext ==
    \/ \E sec \in SectionIds : \/ \E open \in BOOLEAN : SetOpen({sec}, open)
                               \/ \E dir \in 0..1 : MoveSectionBy(sec, dir)
                               \/ \E id \in PanelIds : MoveToSection(id, sec)
    \/ \E open \in BOOLEAN : SetOpen(SectionIds, open)
    \/ \E id \in PanelIds :
          \/ ToggleFold(id) \/ Resize(id) \/ Hide(id) \/ Show(id) \/ DragStart(id)
          \/ \E w \in Widths : SetSpan(id, w)
          \/ \E taller \in BOOLEAN : GrowBy(id, taller)
          \/ \E dir \in 0..1 : Step(id, dir)
          \/ \E after \in BOOLEAN : DragOver(id, after)
    \/ Display \/ ResetLayout \/ UndoEdit \/ OfferGone \/ Drop \/ Save \/ ReloadBoard

LayoutSpec == LayoutInit /\ [][LayoutNext]_layoutVars
-----------------------------------------------------------------------------
LayoutTypeOK ==
    /\ ui \in Uis /\ keptUi \in Uis \cup OlderUis \cup {NoUi}
    /\ saving \in BOOLEAN /\ edits \in 0..MaxEdits
    /\ dragged \in PanelIds \cup {NoUi}
    /\ over \in [id : PanelIds, after : BOOLEAN] \cup {NoUi}

\* Whatever is moved, undone, or stored by an older version, every section and every panel is on
\* the board once, and a panel hidden once is shown by one click.
Complete(layout) ==
    /\ OnceEach(layout) /\ IdsOf(layout) = SectionIds
    /\ OnePlace(layout) /\ AllPanels(layout) = PanelIds
LayoutWhole == Complete(ui.layout) /\ IsInjective(ui.hidden)

\* "Layout and options stay when you reload": once the timer has gone off, the page loaded again
\* shows the same.
LayoutStays == ~saving => LoadUi(keptUi) = ui

\* The layout of the board stays whole, and what was saved is what a reload shows.
LayoutKept == LayoutWhole /\ LayoutStays
=============================================================================
