---------------------------- MODULE BoardDrawer ----------------------------
(***************************************************************************)
(* What opens over the board: the drawer with its stack of views, each of  *)
(* which asks the server for what it shows (useDetail, useExcerpt), the    *)
(* menus, the dialog that confirms a command, the command on its way, and  *)
(* the toast.  The board's own data is fetched again now and then; that    *)
(* makes the view of an agent ask again (refreshKey).                      *)
(*                                                                         *)
(* An answer is abstracted to the question and the version of the server's *)
(* data that it was made from.  The tab of an agent's view only picks a    *)
(* part of its answer and is left out.                                     *)
(***************************************************************************)
EXTENDS Naturals, SequencesExt

CONSTANTS
    Things,         \* what a drawer can show: records [view, id]
    Agents,         \* the main agents, which can be stopped
    BoardQueries,   \* what the filters and the time of the board may be
    Menus,          \* the menus of the board
    Empty,          \* nothing: no menu, no dialog, no toast, no question, no answer
    MaxDepth, MaxTurns, MaxData, MaxLosses    \* bounds: views in the drawer, steps of the user,
                                              \* changes of the server's data, requests that fail

Views == {"agent", "file", "named", "prompt", "hidden"}
ASSUME DrawerThings ==
    /\ Things \subseteq [view : Views, id : {t.id : t \in Things}]
    /\ Agents \subseteq {t.id : t \in Things}
    /\ Empty \notin Things \cup Menus \cup BoardQueries \cup {t.id : t \in Things}
ASSUME DrawerBounds == MaxDepth \in Nat \ {0} /\ MaxTurns \in Nat /\ MaxData \in Nat /\ MaxLosses \in Nat

VARIABLES
    stack,             \* drawer
    query, listed,     \* the board's query; whether its data list the agents yet
    detail, requests,  \* useDetail of the view on top: [key, data, failed]; its fetches
    excerpt, excerptOf,   \* useExcerpt: of which file it shows lines, and asks for them
    menu, modal, applying, \* the dialog and, in it, whether its button was pressed
    commands,          \* sent and not answered
    running, stopped,  \* the agents that run; those that the page shows as stopped
    toast, toastTimers,
    data, turns, losses

detailState == <<detail, requests, excerpt, excerptOf>>
dialogs == <<menu, modal, applying, commands, running, stopped, toast, toastTimers>>
drawerVars == <<stack, query, listed, detailState, dialogs, data, turns, losses>>

Keys == [view : Views, id : {t.id : t \in Things}, by : BoardQueries \cup BOOLEAN \cup {Empty}]
ASSUME DrawerKeys == Empty \notin Keys
NoDetail == [key |-> Empty, data |-> Empty, failed |-> FALSE]
Top(s) == IF s = <<>> THEN Empty ELSE Last(s)

\* The second argument of useDetail: the tools, errors, skills and files of the board's time, a
\* prompt of the session, which is the parent's once the board lists the agent.
KeyOf(t, q, known) ==
    IF t = Empty THEN Empty
    ELSE IF t.view = "hidden" THEN Empty
    ELSE [view |-> t.view, id |-> t.id,
          by |-> CASE t.view = "agent" -> Empty [] t.view = "prompt" -> known [] OTHER -> q]

-----------------------------------------------------------------------------
\* The effect of useDetail.  Its cleanup makes the callbacks of the fetch before do nothing.
\* defect: it does not
AskBeside(key) == requests \cup {[key |-> key, at |-> Empty]}
Ask(key) == {[key |-> key, at |-> Empty]}

\* A render of the drawer with stack s, query q and the agents known; tick: the board has new data.
\* A view of another type is another component.
Render(s, q, known, tick) ==
    LET old == KeyOf(Top(stack), query, listed)
        new == KeyOf(Top(s), q, known)
        mounted == old # Empty /\ new # Empty /\ old.view = new.view
        file == IF new # Empty /\ new.view = "file" THEN new.id ELSE Empty
    IN  /\ stack' = s /\ query' = q /\ listed' = known
        /\ IF new = Empty THEN detail' = NoDetail /\ requests' = {}
           ELSE IF ~mounted \/ new # old \/ (tick /\ new.view = "agent")
           THEN /\ detail' = IF mounted /\ detail.key = new THEN detail ELSE [NoDetail EXCEPT !.key = new]
                /\ requests' = Ask(new)
           ELSE UNCHANGED <<detail, requests>>
        /\ excerpt' = IF mounted /\ file # Empty THEN excerpt ELSE Empty
        /\ excerptOf' = IF ~mounted \/ new.id # old.id THEN file ELSE excerptOf

\* The server reads its data, the answer arrives, or the fetch fails.
Serve(r) ==
    /\ r.at = Empty
    /\ requests' = (requests \ {r}) \cup {[r EXCEPT !.at = data]}
    /\ UNCHANGED <<stack, query, listed, detail, excerpt, excerptOf, dialogs, data, turns, losses>>
DetailArrives(r) ==
    /\ r.at # Empty
    /\ requests' = requests \ {r}
    /\ detail' = [key |-> r.key, data |-> [to |-> r.key, at |-> r.at], failed |-> FALSE]
    /\ UNCHANGED <<stack, query, listed, excerpt, excerptOf, dialogs, data, turns, losses>>
DetailFails(r) ==
    /\ losses < MaxLosses /\ losses' = losses + 1
    /\ requests' = requests \ {r}
    /\ detail' = IF detail.key = r.key /\ detail.data # Empty THEN detail
                 ELSE [key |-> r.key, data |-> Empty, failed |-> TRUE]
    /\ UNCHANGED <<stack, query, listed, excerpt, excerptOf, dialogs, data, turns>>
\* the lines of the file, or why it cannot be read
ExcerptArrives ==
    /\ excerptOf # Empty /\ excerptOf' = Empty
    /\ excerpt' = excerptOf
    /\ UNCHANGED <<stack, query, listed, detail, requests, dialogs, data, turns, losses>>

-----------------------------------------------------------------------------
(* The user, who reaches only the dialog while one is open                 *)
Turn == turns < MaxTurns /\ turns' = turns + 1
Free == modal = Empty
Rest == UNCHANGED <<commands, running, stopped, data, losses>>

\* openDrawer: on the board it replaces the stack, in the drawer it adds to it
OpenDrawer(t, reset) ==
    /\ Turn /\ Free
    /\ reset \/ (stack # <<>> /\ Len(stack) < MaxDepth)
    /\ Render(IF reset THEN <<t>> ELSE Append(stack, t), query, listed, FALSE)
    /\ menu' = Empty
    /\ UNCHANGED <<modal, applying, toast, toastTimers>> /\ Rest
DrawerBack ==
    /\ Turn /\ Free /\ Len(stack) > 1
    /\ Render(Front(stack), query, listed, FALSE)
    /\ UNCHANGED <<menu, modal, applying, toast, toastTimers>> /\ Rest
DrawerClose ==
    /\ Turn /\ Free /\ stack # <<>>
    /\ Render(<<>>, query, listed, FALSE)
    /\ UNCHANGED <<menu, modal, applying, toast, toastTimers>> /\ Rest
\* The filters: the board's query is another, and so are the questions that name it.
ChooseQuery(q) ==
    /\ Turn /\ Free /\ q # query
    /\ Render(stack, q, listed, FALSE)
    /\ menu' = Empty
    /\ UNCHANGED <<modal, applying, toast, toastTimers>> /\ Rest
ToggleMenu(m) ==
    /\ Turn /\ Free
    /\ menu' = IF menu = m THEN Empty ELSE m
    /\ UNCHANGED <<stack, query, listed, detailState, modal, applying, toast, toastTimers>> /\ Rest

\* stopAgent, of an agent that the page shows as running, and runCommand, which is of no agent
OpenModal(of) ==
    /\ Turn /\ Free
    /\ of = Empty \/ (listed /\ of \in Agents \ stopped)
    /\ modal' = [of |-> of] /\ applying' = FALSE
    /\ UNCHANGED <<stack, query, listed, detailState, menu, toast, toastTimers>> /\ Rest
ApplyModal ==
    /\ Turn /\ modal # Empty /\ ~applying
    /\ applying' = TRUE
    /\ commands' = commands \cup {[of |-> modal.of, at |-> turns, done |-> FALSE]}
    /\ UNCHANGED <<stack, query, listed, detailState, menu, modal, running, stopped, toast, toastTimers, data, losses>>
CancelModal ==
    /\ Turn /\ modal # Empty
    /\ modal' = Empty /\ applying' = FALSE
    /\ UNCHANGED <<stack, query, listed, detailState, menu, toast, toastTimers>> /\ Rest
\* The Escape key: the dialog, then the menu, then the view on top of the drawer
Escape ==
    /\ Turn
    /\ IF modal # Empty
       THEN modal' = Empty /\ applying' = FALSE /\ UNCHANGED <<menu, stack, query, listed, detailState>>
       ELSE IF menu # Empty
       THEN menu' = Empty /\ UNCHANGED <<modal, applying, stack, query, listed, detailState>>
       ELSE stack # <<>> /\ Render(Front(stack), query, listed, FALSE) /\ UNCHANGED <<menu, modal, applying>>
    /\ UNCHANGED <<toast, toastTimers>> /\ Rest

-----------------------------------------------------------------------------
\* notice: the timer of the notice before is not cleared, for a render has replaced the object
\* that held it
Notice(text) == toast' = text /\ toastTimers' = toastTimers + 1
ToastTimer ==
    /\ toastTimers > 0 /\ toastTimers' = toastTimers - 1
    /\ toast' = Empty
    /\ UNCHANGED <<stack, query, listed, detailState, menu, modal, applying, commands, running, stopped, data, turns, losses>>

\* The server runs the command: a stop signals the agent.
RunCommand(c) ==
    /\ ~c.done
    /\ commands' = (commands \ {c}) \cup {[c EXCEPT !.done = TRUE]}
    /\ running' = running \ {c.of}
    /\ UNCHANGED <<stack, query, listed, detailState, menu, modal, applying, stopped, toast, toastTimers, data, turns, losses>>
\* The answer closes the dialog that is open, be it of this command or not.
CommandDone(c) ==
    /\ c.done
    /\ commands' = commands \ {c}
    /\ modal' = Empty /\ applying' = FALSE
    /\ stopped' = IF c.of = Empty THEN stopped ELSE stopped \cup {c.of}
    /\ Notice("done")
    /\ UNCHANGED <<stack, query, listed, detailState, menu, running, data, turns, losses>>
CommandFails(c) ==
    /\ losses < MaxLosses /\ losses' = losses + 1
    /\ commands' = commands \ {c}
    /\ modal' = Empty /\ applying' = FALSE
    /\ Notice("failed")
    /\ UNCHANGED <<stack, query, listed, detailState, menu, running, stopped, data, turns>>

\* The board gets an answer made at another time, on its timer or after a command.
BoardData ==
    /\ Render(stack, query, TRUE, TRUE)
    /\ UNCHANGED <<dialogs, data, turns, losses>>
ServerLearns ==
    /\ data < MaxData /\ data' = data + 1
    /\ UNCHANGED <<stack, query, listed, detailState, dialogs, turns, losses>>
\* A session is resumed in its tool.
Resume(a) ==
    /\ running' = running \cup {a} /\ a \notin running
    /\ UNCHANGED <<stack, query, listed, detailState, menu, modal, applying, commands, stopped, toast, toastTimers, data, turns, losses>>

-----------------------------------------------------------------------------
\* The page may be opened with one view in the drawer (?agent= and ?tab=hidden).
DrawerInit ==
    /\ stack \in {<<>>} \cup {<<t>> : t \in {t \in Things : t.view \in {"agent", "hidden"}}}
    /\ query \in BoardQueries /\ listed = FALSE
    /\ LET key == KeyOf(Top(stack), query, FALSE) IN
         /\ detail = [NoDetail EXCEPT !.key = key]
         /\ requests = IF key = Empty THEN {} ELSE {[key |-> key, at |-> Empty]}
    /\ excerpt = Empty /\ excerptOf = Empty
    /\ menu = Empty /\ modal = Empty /\ applying = FALSE /\ commands = {}
    /\ running = Agents /\ stopped = {} /\ toast = Empty /\ toastTimers = 0
    /\ data = 0 /\ turns = 0 /\ losses = 0

DrawerNext ==
    \/ \E t \in Things, reset \in BOOLEAN : OpenDrawer(t, reset)
    \/ \E q \in BoardQueries : ChooseQuery(q)
    \/ \E m \in Menus : ToggleMenu(m)
    \/ \E of \in Agents \cup {Empty} : OpenModal(of)
    \/ DrawerBack \/ DrawerClose \/ ApplyModal \/ CancelModal \/ Escape
    \/ \E r \in requests : Serve(r) \/ DetailArrives(r) \/ DetailFails(r)
    \/ \E c \in commands : RunCommand(c) \/ CommandDone(c) \/ CommandFails(c)
    \/ \E a \in Agents : Resume(a)
    \/ ExcerptArrives \/ ToastTimer \/ BoardData \/ ServerLearns

DrawerSpec == DrawerInit /\ [][DrawerNext]_drawerVars
-----------------------------------------------------------------------------
DrawerTypeOK ==
    /\ stack \in UNION {[1..n -> Things] : n \in 0..MaxDepth}
    /\ query \in BoardQueries /\ listed \in BOOLEAN
    /\ detail \in [key : Keys \cup {Empty}, data : [to : Keys, at : 0..MaxData] \cup {Empty}, failed : BOOLEAN]
    /\ requests \subseteq [key : Keys, at : 0..MaxData \cup {Empty}]
    /\ menu \in Menus \cup {Empty} /\ modal \in [of : Agents \cup {Empty}] \cup {Empty}
    /\ applying \in BOOLEAN /\ (applying => modal # Empty)
    /\ running \subseteq Agents /\ stopped \subseteq Agents
    /\ toast \in {"done", "failed", Empty} /\ toastTimers \in 0..MaxTurns
    /\ data \in 0..MaxData /\ turns \in 0..MaxTurns /\ losses \in 0..MaxLosses

\* The view on top shows only answers to its own question, and never an older one after a newer
\* one, however views are opened over it, closed, or asked again.
DrawerView == INSTANCE LatestAnswer
    WITH Questions <- Keys \cup {Empty}, Nothing <- Empty, version <- data,
         question <- KeyOf(Top(stack), query, listed), shown <- detail.data
DrawerFollows == DrawerView!Spec

\* The lines of a file shown, once they are all there, are of the file on top.
ExcerptOfTop ==
    excerptOf = Empty /\ stack # <<>> /\ Top(stack).view = "file" => excerpt = Top(stack).id
=============================================================================
