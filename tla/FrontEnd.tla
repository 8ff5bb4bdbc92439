------------------------------ MODULE FrontEnd ------------------------------
(***************************************************************************)
(* The GUI windows and the mux windows they show: GuiFrontEnd of           *)
(* wezterm-gui/src/frontend.rs, the key assignments that switch            *)
(* workspaces, and what decides that the program ends.                     *)
(*                                                                         *)
(* All of it runs on the main thread, but in pieces: notifications of the  *)
(* mux are acted upon later, by closures in the queue; a GUI window takes  *)
(* several awaits to create, a mux window to fill; window.notify and       *)
(* window.close go through the queue as well.                              *)
(*                                                                         *)
(* Of the mux only what the front end asks is kept: the workspace of each  *)
(* window, whether it has panes, and the Activity count.  A window has one *)
(* pane.  Identifiers are numbers, because both kinds of windows are       *)
(* matched in their order.                                                 *)
(***************************************************************************)
EXTENDS Naturals, Sequences, FiniteSets, SequencesExt

CONSTANTS
    MaxWindow,      \* bound on the mux windows of a behaviour
    MaxGui,         \* bound on GUI windows at one time
    MaxWorkspace,   \* number of workspaces
    MaxQueue,       \* bound on the closures that wait when one of these acts
    MaxActs         \* bound on what the user and the panes do

ASSUME FrontEndAssumption ==
    /\ MaxWindow \in Nat \ {0} /\ MaxGui \in Nat \ {0} /\ MaxWorkspace \in Nat \ {0}
    /\ MaxQueue \in Nat /\ MaxActs \in Nat

Window == 1..MaxWindow
Gui == 1..MaxGui
Workspace == 1..MaxWorkspace
None == 0           \* no such window, not known, no workspace to switch to

VARIABLES
    gui,            \* what the operations below read and write, see Init
    spawning,       \* mux windows being filled, and the switch that waits for it
    building,       \* GUI windows being created, and the rest of their task
    switched,       \* history: mux windows made by SwitchToWorkspace
    acts,           \* what the user and the panes have done so far
    quit            \* the message loop has been told to end

vars == <<gui, spawning, building, switched, acts, quit>>

\* After start-up: one window, shown.
Init ==
    /\ gui = [home |-> [w \in Window |-> IF w = 1 THEN 1 ELSE None],
              filled |-> {1},           \* windows that have a pane
              dead |-> {},              \* of these, the ones whose pane has exited
              next |-> 2,               \* next id of a mux window
              active |-> 1,             \* active_workspace of the GUI's client
              switching |-> FALSE,      \* switching_workspaces
              spawned |-> {1},          \* spawned_mux_window
              known |-> [g \in Gui |-> IF g = 1 THEN 1 ELSE None],
              shows |-> [g \in Gui |-> IF g = 1 THEN 1 ELSE None],
              closing |-> {},           \* GUI windows told to close
              queue |-> <<>>]
    /\ spawning = {} /\ building = <<>> /\ switched = {}
    /\ acts = 0 /\ quit = FALSE

----------------------------------------------------------------------------
(* The mux.                                                                *)

Plain(do) == [do |-> do, win |-> None, gui |-> None, then |-> None, todo |-> {}]

\* A closure goes to the end of the queue.  One that would do again what the one
\* before it does is left out.
Post(x, c) ==
    IF x.queue # <<>> /\ Last(x.queue) = c /\ c = Plain(c.do) /\ c.do # "spawn"
    THEN x ELSE [x EXCEPT !.queue = Append(@, c)]

Live(x) == {w \in Window : x.home[w] # None}
Occupied(x, ws) == \E w \in x.filled : x.home[w] = ws

\* Mutant: SwitchToWorkspace takes its Activity when its task is polled.
HeldOncePolled(x, spawns) == spawns # {}

\* Activities: one for each spawn under way, and one that SwitchToWorkspace holds
\* from the key press on.
Held(x, spawns) ==
    spawns # {} \/ \E i \in DOMAIN x.queue : x.queue[i].do = "spawn" /\ x.queue[i].then # None

RemoveWindows(x, ws) ==
    IF ws \cap Live(x) = {} THEN x
    ELSE Post([x EXCEPT !.home = [w \in Window |-> IF w \in ws THEN None ELSE @[w]],
                        !.filled = @ \ ws, !.dead = @ \ ws], Plain("reconcile"))

PruneDeadWindows(x) ==
    IF Held(x, spawning) THEN x
    ELSE LET y == RemoveWindows(x, {w \in Live(x) : w \notin x.filled \ x.dead})
         IN  IF y.filled = {} THEN Post(y, Plain("quit")) ELSE y

KillWindow(x, w) == PruneDeadWindows(RemoveWindows(x, {w}))

SetActive(x, ws) == Post([x EXCEPT !.active = ws], Plain("reconcile"))

----------------------------------------------------------------------------
(* The front end.                                                          *)

SetMin(S) == CHOOSE a \in S : \A b \in S : a <= b
Rank(a, S) == Cardinality({b \in S : b <= a})
Ascending(S) == [i \in 1..Cardinality(S) |-> CHOOSE a \in S : Rank(a, S) = i]

\* Windows of a workspace without panes are left for a workspace that has some.
PickWorkspace(x) ==
    LET occupied == {ws \in Workspace : Occupied(x, ws)} IN
    IF Occupied(x, x.active) \/ occupied = {} THEN x ELSE SetActive(x, SetMin(occupied))

\* The known GUI windows are given the windows of the active workspace: those
\* that show one keep it, the others take one that nobody shows, or close.
\* A task creates the GUI windows that are missing.
Assign(x) ==
    LET wanted == {w \in Window : x.home[w] = x.active}
        keeps == {g \in Gui : x.known[g] \in wanted /\ \A h \in 1..(g - 1) : x.known[h] # x.known[g]}
        unused == {g \in Gui : x.known[g] # None} \ keeps
        free == wanted \ {x.known[g] : g \in keeps}
        given == {g \in unused : Rank(g, unused) <= Cardinality(free)}
        new == [g \in given |-> Ascending(free)[Rank(g, unused)]]
        surplus == unused \ given
        shown == [i \in 1..Cardinality(given) |->
                    LET g == Ascending(given)[i]
                    IN  [Plain("show") EXCEPT !.gui = g, !.win = new[g]]]
        missing == free \ {new[g] : g \in given}
        y == [x EXCEPT
            !.known = [g \in Gui |-> IF g \in given THEN new[g]
                                     ELSE IF g \in surplus THEN None ELSE @[g]],
            !.closing = @ \cup surplus,
            !.spawned = @ \ {x.known[g] : g \in surplus},
            !.queue = @ \o shown]
    IN  Post(y, [Plain("build") EXCEPT !.todo = missing])

\* Mutant: the windows are matched whether or not the workspace has panes.
ReconcileAsIs(x) ==
    IF ~Occupied(x, x.active) /\ x.switching THEN x ELSE Assign(x)

ReconcileWorkspace(x) ==
    IF ~Occupied(x, x.active) /\ x.switching THEN x ELSE Assign(PickWorkspace(x))

UnlessSwitching(x) == IF x.switching THEN x ELSE ReconcileWorkspace(x)

SwitchWorkspace(x, ws) == ReconcileWorkspace([SetActive(x, ws) EXCEPT !.switching = FALSE])

\* The task that creates windows, in their order, up to its next await: the new
\* state, and the creation that is awaited, if any.
CreateWindows(x, todo) ==
    LET needed == {w \in todo \ x.spawned : \A g \in Gui : x.known[g] # w}
        at == SetMin(needed)
    IN  IF needed = {} THEN [state |-> [x EXCEPT !.switching = FALSE], builds |-> <<>>]
        ELSE [state |-> [x EXCEPT !.spawned = @ \cup {at}],
              builds |-> <<[at |-> at, todo |-> {w \in todo : w > at}]>>]

ForgetKnownWindow(x, g) == UnlessSwitching([x EXCEPT !.known[g] = None])

Others(s, i) == SubSeq(s, 1, i - 1) \o SubSeq(s, i + 1, Len(s))

----------------------------------------------------------------------------
(* The queue.                                                              *)

\* The next closure runs, up to its end or its first await.
RunQueue ==
    /\ ~quit /\ gui.queue # <<>>
    /\ LET c == Head(gui.queue)
           x == [gui EXCEPT !.queue = Tail(@)]
       IN
       \/ /\ c.do = "reconcile"
          /\ gui' = UnlessSwitching(x)
          /\ UNCHANGED <<spawning, building, quit>>
       \/ /\ c.do = "prune"
          /\ gui' = PruneDeadWindows(x)
          /\ UNCHANGED <<spawning, building, quit>>
       \/ /\ c.do = "quit"
          /\ quit' = ~Held(x, spawning)
          /\ gui' = x /\ UNCHANGED <<spawning, building>>
       \/ /\ c.do = "switch"
          /\ gui' = SwitchWorkspace(x, c.then)
          /\ UNCHANGED <<spawning, building, quit>>
       \/ /\ c.do = "show"
          /\ gui' = IF x.shows[c.gui] = None THEN x ELSE [x EXCEPT !.shows[c.gui] = c.win]
          /\ UNCHANGED <<spawning, building, quit>>
       \/ /\ c.do = "build"
          /\ gui' = CreateWindows(x, c.todo).state
          /\ building' = building \o CreateWindows(x, c.todo).builds
          /\ UNCHANGED <<spawning, quit>>
       \/ /\ c.do = "spawn" /\ x.next \in Window
          \* the workspace is the active one of this moment, not of the key press
          /\ gui' = [x EXCEPT !.home[x.next] = x.active, !.next = @ + 1]
          /\ spawning' = spawning \cup {[win |-> x.next, then |-> c.then]}
          /\ UNCHANGED <<building, quit>>
    /\ UNCHANGED <<switched, acts>>

\* The domain has answered: the window has its pane, or stays empty, to be
\* pruned.  Each Activity that is dropped asks for that.
Answered(x, s, ok) ==
    Post(Post(IF ok /\ x.home[s.win] # None THEN [x EXCEPT !.filled = @ \cup {s.win}] ELSE x,
              Plain("reconcile")),
         Plain("prune"))

\* Mutant: a spawn that fails returns before the switch is done.
SwitchOnlyIfSpawned(x, s, ok) ==
    LET y == Answered(x, s, ok) IN
    IF s.then = None \/ ~ok THEN y ELSE Post(SwitchWorkspace(y, s.then), Plain("prune"))

AfterSpawn(x, s, ok) ==
    LET y == Answered(x, s, ok) IN
    IF s.then = None THEN y ELSE Post(SwitchWorkspace(y, s.then), Plain("prune"))

FinishSpawn(s, ok) ==
    /\ ~quit
    /\ spawning' = spawning \ {s}
    /\ gui' = AfterSpawn(gui, s, ok)
    /\ switched' = IF ok /\ s.then # None THEN switched \cup {s.win} ELSE switched
    /\ UNCHANGED <<building, acts, quit>>

\* A GUI window has been created; the task goes on to the next.  It may get the
\* number of one that is gone, but not while a closure is meant for that one.
FinishBuild(i, g) ==
    /\ ~quit
    /\ gui.shows[g] = None /\ \A j \in DOMAIN gui.queue : gui.queue[j].gui # g
    /\ LET b == building[i]
           r == CreateWindows(UnlessSwitching([gui EXCEPT !.shows[g] = b.at, !.known[g] = b.at]),
                              b.todo)
       IN  gui' = r.state /\ building' = Others(building, i) \o r.builds
    /\ UNCHANGED <<spawning, switched, acts, quit>>

\* It could not be: its mux window is killed, so that nothing runs unseen.
FailBuild(i) ==
    /\ ~quit
    /\ LET b == building[i]
           r == CreateWindows([KillWindow(gui, b.at) EXCEPT !.spawned = @ \ {b.at}], b.todo)
       IN  gui' = r.state /\ building' = Others(building, i) \o r.builds
    /\ UNCHANGED <<spawning, switched, acts, quit>>

\* A closed window is gone, and its TermWindow dropped.
Destroyed(g) ==
    /\ ~quit /\ g \in gui.closing
    /\ gui' = ForgetKnownWindow([gui EXCEPT !.closing = @ \ {g}, !.shows[g] = None], g)
    /\ UNCHANGED <<spawning, building, switched, acts, quit>>

----------------------------------------------------------------------------
(* The user, and the programs in the panes.                                *)

Open == {g \in Gui : gui.shows[g] # None}
Act == ~quit /\ Len(gui.queue) <= MaxQueue /\ acts < MaxActs /\ acts' = acts + 1

MaySpawn ==
    gui.next + Cardinality({i \in DOMAIN gui.queue : gui.queue[i].do = "spawn"}) \in Window

SpawnWindow ==
    /\ Act /\ Open # {} /\ MaySpawn
    /\ gui' = Post(gui, Plain("spawn"))
    /\ UNCHANGED <<spawning, building, switched, quit>>

\* Its Activity goes with the spawn, or at once, which posts a prune.
SwitchToWorkspace(ws) ==
    /\ Act /\ Open # {}
    /\ LET x == SetActive([gui EXCEPT !.switching = TRUE], ws) IN
       \/ /\ \E w \in Window : x.home[w] = ws
          /\ gui' = Post(SwitchWorkspace(x, ws), Plain("prune"))
       \/ /\ \A w \in Window : x.home[w] # ws
          /\ MaySpawn
          /\ gui' = Post(x, [Plain("spawn") EXCEPT !.then = ws])
    /\ UNCHANGED <<spawning, building, switched, quit>>

SwitchWorkspaceRelative(ws) ==
    /\ Act /\ Open # {}
    /\ \E w \in Window : gui.home[w] = ws
    /\ gui' = SwitchWorkspace(gui, ws)
    /\ UNCHANGED <<spawning, building, switched, quit>>

\* Those who listen hear of it before anything has changed.
RenameWorkspace(old, new) ==
    /\ Act /\ Open # {} /\ old # new
    /\ LET x == IF gui.active \in {old, new}
                THEN Post([gui EXCEPT !.switching = TRUE], [Plain("switch") EXCEPT !.then = new])
                ELSE gui
           moves == {w \in Window : x.home[w] = old}
           y == IF moves = {} THEN x
                ELSE Post([x EXCEPT !.home = [w \in Window |-> IF w \in moves THEN new ELSE @[w]]],
                          Plain("reconcile"))
       IN  gui' = IF y.active = old THEN SetActive(y, new) ELSE y
    /\ UNCHANGED <<spawning, building, switched, quit>>

PaneExits(w) ==
    /\ Act /\ w \in gui.filled \ gui.dead
    /\ gui' = Post([gui EXCEPT !.dead = @ \cup {w}], Plain("prune"))
    /\ UNCHANGED <<spawning, building, switched, quit>>

CloseRequested(g) ==
    /\ Act /\ g \in Open
    /\ gui' = ForgetKnownWindow([KillWindow(gui, gui.shows[g]) EXCEPT !.closing = @ \cup {g}], g)
    /\ UNCHANGED <<spawning, building, switched, quit>>

\* Its OpenGL context is lost, and the window goes; the mux window stays.
ContextLost(g) ==
    /\ Act /\ g \in Open \ gui.closing
    /\ gui' = ForgetKnownWindow([gui EXCEPT !.closing = @ \cup {g}], g)
    /\ UNCHANGED <<spawning, building, switched, quit>>

Progress ==
    \/ RunQueue
    \/ \E s \in spawning, ok \in BOOLEAN : FinishSpawn(s, ok)
    \/ \E i \in DOMAIN building : FailBuild(i) \/ \E g \in Gui : FinishBuild(i, g)
    \/ \E g \in Gui : Destroyed(g)

Next ==
    \/ Progress
    \/ SpawnWindow
    \/ \E ws \in Workspace : SwitchToWorkspace(ws) \/ SwitchWorkspaceRelative(ws)
    \/ \E old, new \in Workspace : RenameWorkspace(old, new)
    \/ \E w \in Window : PaneExits(w)
    \/ \E g \in Gui : CloseRequested(g) \/ ContextLost(g)

Spec == Init /\ [][Next]_vars

----------------------------------------------------------------------------

\* What is filled is a live mux window, and what the front end knows of a GUI window, or
\* of one being closed, is of one that is open.
TypeOK ==
    /\ gui.home \in [Window -> Workspace \cup {None}]
    /\ gui.dead \subseteq gui.filled /\ gui.filled \subseteq Live(gui)
    /\ gui.known \in [Gui -> Window \cup {None}]
    /\ gui.shows \in [Gui -> Window \cup {None}]
    /\ gui.closing \subseteq Open
    /\ \A g \in Gui : gui.known[g] # None => g \in Open
    /\ \A s \in spawning : s.win < gui.next

Settled == ~quit /\ gui.queue = <<>> /\ building = <<>> /\ spawning = {} /\ gui.closing = {}

\* When nothing is left to do, each GUI window shows the mux window that the
\* front end thinks it does; these are windows of the active workspace, no two
\* the same; and no switch is pending.  Checked together with TypeOK.
Reconciled == TypeOK /\ (
    Settled =>
        /\ ~gui.switching
        /\ gui.shows = gui.known
        /\ \A g \in Open :
              /\ gui.home[gui.known[g]] = gui.active
              /\ \A h \in Open : gui.known[g] = gui.known[h] => g = h)

\* When nothing is left to do, the active workspace has panes if any has.
ActiveIsOccupied ==
    Settled /\ gui.filled # {} => Occupied(gui, gui.active)

\* The program does not end with a window in it that SwitchToWorkspace has made
\* and whose pane has not exited, nor before it is made.
QuitSparesSwitch ==
    quit => /\ switched \cap gui.filled \subseteq gui.dead
            /\ ~Held(gui, spawning)

=============================================================================
