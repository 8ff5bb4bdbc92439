-------------------------------- MODULE Mux --------------------------------
(***************************************************************************)
(* The multiplexer: mux/src/lib.rs, with the parts of domain.rs, tab.rs,   *)
(* window.rs, activity.rs and localpane.rs that its operations call.       *)
(*                                                                         *)
(* One main thread runs every operation between two awaits without being   *)
(* interrupted.  Three kinds of thread feed it closures: the thread that   *)
(* waits for a child process, the thread that reads its pty, and the main  *)
(* thread itself.  Two closures matter here: one that prunes, and one that *)
(* removes a given pane.  The queue is kept as what it holds at least one  *)
(* of: whether a prune is queued and which panes have a removal queued.    *)
(*                                                                         *)
(* What a pane shows, the order of the tabs in a window (module Window)    *)
(* and the shape of the split tree of a tab (module TabTree) are left out: *)
(* a window holds a set of tabs and a tab a set of panes.                  *)
(***************************************************************************)
EXTENDS Naturals, FiniteSets

CONSTANTS
    Workspaces,     \* names of workspaces
    MaxPane,        \* bound on pane ids handed out
    MaxTab,         \* bound on tab ids handed out
    MaxWindow,      \* bound on window ids handed out
    ExitBehavior,   \* config exit_behavior: "Close", "CloseOnCleanExit", "Hold"
    Yields,         \* TRUE: awaiting a spawn may give way to other work (an
                    \* ExecDomain's Lua callback, a remote domain); FALSE: it
                    \* completes in the poll that started it
    Ops             \* the operations users and clients perform

OpNames == {"spawn", "split", "kill_window", "remove_tab", "kill_pane",
            "move_to_new_tab", "split_move", "set_window_workspace",
            "rename_workspace"}

ASSUME BoundsAssumption ==
    MaxPane \in Nat /\ MaxTab \in Nat /\ MaxWindow \in Nat
ASSUME WorkspacesAssumption == Workspaces # {}
ASSUME ConfigAssumption ==
    /\ ExitBehavior \in {"Close", "CloseOnCleanExit", "Hold"}
    /\ Yields \in BOOLEAN
    /\ Ops \subseteq OpNames

PaneId == 1..MaxPane
TabId == 1..MaxTab
WindowId == 1..MaxWindow

ActivityKind == {"builder", "gui"}

\* A spawn or a split whose future has been polled and has not returned.
Op == [kind : {"spawn"}, pane : PaneId, window : WindowId,
       activities : SUBSET ActivityKind]
      \cup
      [kind : {"split"}, pane : PaneId, tab : TabId, at : PaneId,
       activities : SUBSET ActivityKind]

VARIABLES
    mux,        \* the Mux object, its windows and tabs, the queued closures
    next,       \* the id counters PANE_ID, TAB_ID and WIN_ID
    exited,     \* panes of some tab whose is_dead() answers true
    waiters,    \* panes whose child-waiting thread has not posted yet
    readers,    \* panes whose pty-reading thread has not posted yet
    ops         \* spawns and splits in flight

vars == <<mux, next, exited, waiters, readers, ops>>

MuxState == [panes : SUBSET PaneId, tabs : SUBSET TabId,
             windows : SUBSET WindowId,
             tabsOf : [WindowId -> SUBSET TabId],
             workspaceOf : [WindowId -> Workspaces],
             layout : [TabId -> SUBSET PaneId],
             occupied : SUBSET Workspaces,
             pruneQueued : BOOLEAN,
             removals : SUBSET PaneId]

----------------------------------------------------------------------------
(* Pure operators: what each method of Mux does to the Mux object m.       *)

WindowedTabs(m) == UNION {m.tabsOf[w] : w \in m.windows}

\* The workspaces that have a pane in a window, whatever the cache says.
ActuallyOccupied(m) ==
    {m.workspaceOf[w] : w \in
        {x \in m.windows : \E t \in m.tabsOf[x] : m.layout[t] # {}}}

\* num_panes_by_workspace is only ever compared with zero (is_workspace_empty),
\* so the cache is the set of workspaces whose cached count is not zero.
RecomputePaneCount(m) == [m EXCEPT !.occupied = ActuallyOccupied(m)]

\* A workspace for the windows that do not exist.
AnyWorkspace == CHOOSE ws \in Workspaces : TRUE

QueuePrune(m) == [m EXCEPT !.pruneQueued = TRUE]
QueueRemovals(m, P) == [m EXCEPT !.removals = @ \cup P]

\* Mutant: the pane is registered under the id that comes after its own.
AddPaneOffByOne(m, p) ==
    RecomputePaneCount([m EXCEPT !.panes = @ \cup {p + 1}])

AddPane(m, p) ==
    IF p \in m.panes THEN m
    ELSE RecomputePaneCount([m EXCEPT !.panes = @ \cup {p}])

RemovePaneInternal(m, p) ==
    IF p \in m.panes
    THEN RecomputePaneCount([m EXCEPT !.panes = @ \ {p}])
    ELSE m

\* Mutant: the windows keep their reference to the tab.
TabsStayInWindows(m, T) ==
    LET gone == T \cap m.tabs IN
    RecomputePaneCount(
        [m EXCEPT !.tabs = @ \ gone,
                  !.layout = [t \in TabId |->
                                  IF t \in gone THEN {} ELSE m.layout[t]],
                  !.panes = @ \ UNION {m.layout[t] : t \in gone}])

\* remove_tab_internal for every tab of T.  Nothing finds the panes of a tab the
\* mux does not know, so its tree goes with it.
RemoveTabsInternal(m, T) ==
    LET gone == T \cap m.tabs IN
    IF gone = {} THEN m
    ELSE RecomputePaneCount(
           [m EXCEPT !.tabs = @ \ gone,
                     !.tabsOf = [w \in WindowId |-> m.tabsOf[w] \ gone],
                     !.layout = [t \in TabId |->
                                     IF t \in gone THEN {} ELSE m.layout[t]],
                     !.panes = @ \ UNION {m.layout[t] : t \in gone}])

\* remove_window_internal for every window of W.  The domain of every pane
\* is a LocalDomain, which is not detachable.
RemoveWindowsInternal(m, W) ==
    LET closed == [m EXCEPT !.windows = @ \ W,
                            !.workspaceOf = [w \in WindowId |->
                                IF w \in W THEN AnyWorkspace ELSE m.workspaceOf[w]],
                            !.tabsOf = [w \in WindowId |->
                                IF w \in W THEN {} ELSE m.tabsOf[w]]]
    IN  IF W = {} THEN m
        ELSE RecomputePaneCount(RemoveTabsInternal(closed,
                 UNION {m.tabsOf[w] : w \in W \cap m.windows}))

\* Mutant: the cache is not refreshed.
AddTabWithoutRecount(m, t, w) == [m EXCEPT !.tabsOf[w] = @ \cup {t}]

AddTabToWindow(m, t, w) ==
    RecomputePaneCount([m EXCEPT !.tabsOf[w] = @ \cup {t}])

\* Tab::split_and_insert: pane p goes beside q in tab t, if q is still there and
\* leaves room for it ("fits").
SplitAndInsert(m, p, q, t, fits) ==
    IF fits /\ q \in m.layout[t] THEN [m EXCEPT !.layout[t] = @ \cup {p}] ELSE m

NewEmptyWindow(m, w, workspace) ==
    [m EXCEPT !.windows = @ \cup {w}, !.workspaceOf[w] = workspace]

(***************************************************************************)
(* Pruning.  A pane is removable when it is dead or the mux does not know  *)
(* it.  One pass of remove_pane_if over a tab takes out the first          *)
(* removable pane, and skips the leaf that takes its place in the tree, so *)
(* "gone" has at least one of the removable panes of every tab that has    *)
(* any, and not always all.                                                *)
(***************************************************************************)
Removable(m, dead, t) == {p \in m.layout[t] : p \in dead \/ p \notin m.panes}

PrunablePanes(m, dead) ==
    LET all == UNION {Removable(m, dead, t) : t \in WindowedTabs(m)}
    IN  {gone \in SUBSET all :
            \A t \in WindowedTabs(m) :
                Removable(m, dead, t) # {} => Removable(m, dead, t) \cap gone # {}}

TakeFromLayout(m, gone) ==
    QueueRemovals([m EXCEPT !.layout = [t \in TabId |->
                      IF t \in WindowedTabs(m) THEN m.layout[t] \ gone
                      ELSE m.layout[t]]],
                  gone)

\* Window::prune_dead_tabs: a tab is dead when all its panes are.
PruneDeadTabs(m, dead) ==
    [m EXCEPT !.tabsOf = [w \in WindowId |->
        {t \in m.tabsOf[w] : t \in m.tabs /\ ~(m.layout[t] \subseteq dead)}]]

\* What prune_dead_windows does once the windows were gone through.
ReapDead(pruned, dead) ==
    RemoveWindowsInternal(
        RemoveTabsInternal(pruned, {t \in pruned.tabs : pruned.layout[t] \subseteq dead}),
        {w \in pruned.windows : pruned.tabsOf[w] = {}})

\* The outcomes of the body of prune_dead_windows.  Children go on exiting while
\* it runs: panes are tested against "dead", the tabs of the windows against
\* "later" and then all tabs against "latest".
PruneOutcomes(m, dead, later, latest) ==
    {ReapDead(pruned, latest) : pruned \in
        {PruneDeadTabs(TakeFromLayout(m, gone), later) : gone \in PrunablePanes(m, dead)}}

----------------------------------------------------------------------------
(* Who may act.                                                            *)

\* Activity::count() > 0
ActivityHeld == \E o \in ops : o.activities # {}

\* The main thread runs one future at a time, up to its next await.
MainFree == Yields \/ ops = {}

\* Panes of a tab that may turn dead now: one the mux knows does with its child,
\* unless exit_behavior holds it; one the mux has removed was killed.
MayExit(m) ==
    {p \in (UNION {m.layout[t] : t \in m.tabs}) \ exited :
        p \in m.panes => p \in waiters /\ ExitBehavior # "Hold"}

\* prune_dead_windows, called with the mux in state m.
PruneDeadWindows(m, held) ==
    IF held THEN mux' = m /\ exited' = exited
    ELSE \E late \in SUBSET MayExit(m) : \E mid \in SUBSET late :
            /\ mux' \in PruneOutcomes(m, exited, exited \cup mid, exited \cup late)
            /\ exited' = exited \cup late

\* Mutant: dropping an Activity does not schedule a prune.
DropSilently(m, o) == m

\* The Activity objects of an operation are dropped when it returns.
DropActivities(m, o) == IF o.activities = {} THEN m ELSE QueuePrune(m)

\* resolve_pane_id finds p in tab t.
ResolvesTo(m, p, t) ==
    t \in m.tabs \cap WindowedTabs(m) /\ p \in m.layout[t]

\* The window has an active tab with an active pane.
HasActivePane(m, w) ==
    w \in m.windows /\ \E t \in m.tabsOf[w] : m.layout[t] # {}

----------------------------------------------------------------------------
Init ==
    /\ mux = [panes |-> {}, tabs |-> {}, windows |-> {},
              tabsOf |-> [w \in WindowId |-> {}],
              workspaceOf |-> [w \in WindowId |-> AnyWorkspace],
              layout |-> [t \in TabId |-> {}],
              occupied |-> {}, pruneQueued |-> FALSE, removals |-> {}]
    /\ next = [pane |-> 1, tab |-> 1, window |-> 1]
    /\ exited = {} /\ waiters = {} /\ readers = {} /\ ops = {}

\* spawn_tab_or_window into window w, up to the await in build_command.
StartSpawnTab(w, gui) ==
    /\ "spawn" \in Ops /\ MainFree
    /\ next.pane <= MaxPane
    /\ HasActivePane(mux, w)
    /\ ops' = ops \cup {[kind |-> "spawn", pane |-> next.pane, window |-> w,
                          activities |-> IF gui THEN {"gui"} ELSE {}]}
    /\ next' = [next EXCEPT !.pane = @ + 1]
    /\ UNCHANGED <<mux, exited, waiters, readers>>

\* The same with no window: new_empty_window, whose builder is an Activity.
StartSpawnWindow(workspace, gui) ==
    /\ "spawn" \in Ops /\ MainFree
    /\ next.pane <= MaxPane /\ next.window <= MaxWindow
    /\ mux' = NewEmptyWindow(mux, next.window, workspace)
    /\ ops' = ops \cup {[kind |-> "spawn", pane |-> next.pane, window |-> next.window,
                          activities |-> {"builder"} \cup IF gui THEN {"gui"} ELSE {}]}
    /\ next' = [next EXCEPT !.pane = @ + 1, !.window = @ + 1]
    /\ UNCHANGED <<exited, waiters, readers>>

\* The rest of it: the process and its pane, the tab, and the window, which
\* may be gone by now ("add_tab_to_window: no such window_id").
FinishSpawn(o) ==
    LET t == next.tab
        added == AddPane(mux, o.pane)
        tabbed == [added EXCEPT !.tabs = @ \cup {t}, !.layout[t] = {o.pane}]
    IN
    /\ o \in ops /\ o.kind = "spawn" /\ t <= MaxTab
    /\ mux' = DropActivities(IF o.window \in mux.windows
                             THEN AddTabToWindow(tabbed, t, o.window)
                             ELSE tabbed, o)
    /\ next' = [next EXCEPT !.tab = @ + 1]
    /\ waiters' = waiters \cup {o.pane}
    /\ readers' = readers \cup {o.pane}
    /\ ops' = ops \ {o}
    /\ UNCHANGED exited

\* The command cannot be built or the pty not opened: nothing was created.
FailSpawn(o) ==
    /\ o \in ops
    /\ mux' = DropActivities(mux, o)
    /\ ops' = ops \ {o}
    /\ UNCHANGED <<next, exited, waiters, readers>>

\* Mutant: the new pane does not use up a pane id.
StartSplitReusingId(q, t, gui) ==
    /\ "split" \in Ops /\ MainFree
    /\ next.pane <= MaxPane
    /\ ResolvesTo(mux, q, t) /\ q \in mux.panes
    /\ ops' = ops \cup {[kind |-> "split", pane |-> next.pane, tab |-> t, at |-> q,
                          activities |-> IF gui THEN {"gui"} ELSE {}]}
    /\ UNCHANGED <<mux, next, exited, waiters, readers>>

\* split_pane with SplitSource::Spawn, up to the await in build_command.
StartSplit(q, t, gui) ==
    /\ "split" \in Ops /\ MainFree
    /\ next.pane <= MaxPane
    /\ ResolvesTo(mux, q, t) /\ q \in mux.panes
    /\ ops' = ops \cup {[kind |-> "split", pane |-> next.pane, tab |-> t, at |-> q,
                          activities |-> IF gui THEN {"gui"} ELSE {}]}
    /\ next' = [next EXCEPT !.pane = @ + 1]
    /\ UNCHANGED <<mux, exited, waiters, readers>>

\* The new pane is in the mux before split_and_insert finds out whether the
\* pane to split is still in the tab and leaves room for it.
FinishSplit(o, fits) ==
    /\ o \in ops /\ o.kind = "split"
    /\ mux' = DropActivities(
          SplitAndInsert(AddPane(mux, o.pane), o.pane, o.at, o.tab, fits), o)
    /\ waiters' = waiters \cup {o.pane}
    /\ readers' = readers \cup {o.pane}
    /\ ops' = ops \ {o}
    /\ UNCHANGED <<next, exited>>

KillWindow(w) ==
    /\ "kill_window" \in Ops /\ MainFree
    /\ w < next.window
    /\ PruneDeadWindows(RemoveWindowsInternal(mux, {w}), ActivityHeld)
    /\ UNCHANGED <<next, waiters, readers, ops>>

RemoveTab(t) ==
    /\ "remove_tab" \in Ops /\ MainFree
    /\ t < next.tab
    /\ PruneDeadWindows(RemoveTabsInternal(mux, {t}), ActivityHeld)
    /\ UNCHANGED <<next, waiters, readers, ops>>

RemovePane(p) ==
    /\ "kill_pane" \in Ops /\ MainFree
    /\ p \in mux.panes
    /\ PruneDeadWindows(RemovePaneInternal(mux, p), ActivityHeld)
    /\ UNCHANGED <<next, waiters, readers, ops>>

\* Tab::kill_pane, from the confirmation overlay of a pane.
KillPaneInTab(p, t) ==
    /\ "kill_pane" \in Ops /\ MainFree
    /\ ResolvesTo(mux, p, t)
    /\ mux' = QueueRemovals([mux EXCEPT !.layout[t] = @ \ {p}], {p})
    /\ UNCHANGED <<next, exited, waiters, readers, ops>>

\* Pane p of tab src becomes the one pane of the new tab t of window w.
ToNewTab(m, p, src, t, w) ==
    AddTabToWindow(AddPane([m EXCEPT !.layout[src] = @ \ {p}, !.layout[t] = {p},
                                     !.tabs = @ \cup {t}], p),
                   t, w)

\* move_pane_to_new_tab once window w exists; add_pane starts a reader if the mux
\* had already forgotten the pane.
MovePane(m, p, src, w, held) ==
    LET moved == ToNewTab(m, p, src, next.tab, w) IN
    /\ next.tab <= MaxTab
    /\ readers' = IF p \in m.panes THEN readers ELSE readers \cup {p}
    /\ IF moved.layout[src] \subseteq exited
       THEN PruneDeadWindows(RemoveTabsInternal(moved, {src}), held)
       ELSE mux' = moved /\ exited' = exited
    /\ UNCHANGED <<waiters, ops>>

MovePaneToTab(p, src, w) ==
    /\ "move_to_new_tab" \in Ops /\ MainFree
    /\ ResolvesTo(mux, p, src)
    /\ w \in mux.windows /\ mux.tabsOf[w] # {}
    /\ MovePane(mux, p, src, w, ActivityHeld)
    /\ next' = [next EXCEPT !.tab = @ + 1]

\* The builder of the new window keeps its Activity to the end, and drops it.
MovePaneToWindow(p, src, workspace) ==
    LET w == next.window IN
    /\ "move_to_new_tab" \in Ops /\ MainFree
    /\ ResolvesTo(mux, p, src)
    /\ w <= MaxWindow
    /\ MovePane(QueuePrune(NewEmptyWindow(mux, w, workspace)), p, src, w, TRUE)
    /\ next' = [next EXCEPT !.tab = @ + 1, !.window = @ + 1]

\* split_pane with SplitSource::MovePane(p): p leaves its tab, which is removed
\* when that leaves it dead, before its place beside q is looked for.
SplitMove(p, src, q, dst, fits) ==
    LET taken == [mux EXCEPT !.layout[src] = @ \ {p}]
        dead == taken.layout[src] \subseteq exited
        m == IF dead THEN RemoveTabsInternal(taken, {src}) ELSE taken
    IN
    /\ "split_move" \in Ops /\ MainFree
    /\ ResolvesTo(mux, q, dst) /\ q \in mux.panes
    /\ ResolvesTo(mux, p, src)
    /\ IF dead /\ ~ActivityHeld
       THEN \E late \in SUBSET MayExit(m) : \E mid \in SUBSET late :
               /\ mux' \in {SplitAndInsert(x, p, q, dst, fits) : x \in
                     PruneOutcomes(m, exited, exited \cup mid, exited \cup late)}
               /\ exited' = exited \cup late
       ELSE mux' = SplitAndInsert(m, p, q, dst, fits) /\ exited' = exited
    /\ UNCHANGED <<next, waiters, readers, ops>>

\* Pdu::SetWindowWorkspace and window:set_workspace() in Lua: Window::set_workspace
\* changes the name and notifies; nothing recomputes the pane counts.
SetWindowWorkspace(w, workspace) ==
    /\ "set_window_workspace" \in Ops /\ MainFree
    /\ w \in mux.windows /\ mux.workspaceOf[w] # workspace
    /\ mux' = [mux EXCEPT !.workspaceOf[w] = workspace]
    /\ UNCHANGED <<next, exited, waiters, readers, ops>>

RenameWorkspace(old, new) ==
    /\ "rename_workspace" \in Ops /\ MainFree
    /\ old # new
    /\ mux' = RecomputePaneCount(
          [mux EXCEPT !.workspaceOf = [w \in WindowId |->
              IF w \in mux.windows /\ mux.workspaceOf[w] = old
              THEN new ELSE mux.workspaceOf[w]]])
    /\ UNCHANGED <<next, exited, waiters, readers, ops>>

\* The process of a pane ends and is_dead() would now say so.
ChildExits(p) ==
    /\ p \in MayExit(mux)
    /\ exited' = exited \cup {p}
    /\ UNCHANGED <<mux, next, waiters, readers, ops>>

\* Mutant: the waiting thread ends without posting a prune.
WaiterEndsSilently(p) ==
    /\ p \in waiters
    /\ waiters' = waiters \ {p}
    /\ UNCHANGED <<mux, next, exited, readers, ops>>

\* The waiting thread posts its prune: after the exit, or with the pane held.
WaiterPosts(p) ==
    /\ p \in waiters
    /\ waiters' = waiters \ {p}
    /\ mux' = QueuePrune(mux)
    /\ UNCHANGED <<next, exited, readers, ops>>

\* The reading thread sees EOF (or an error) and posts its closure.  A pane may
\* override exit_behavior "Close": one whose command failed to start does.
ReaderPosts(p) ==
    /\ p \in readers
    /\ readers' = readers \ {p}
    /\ mux' \in {QueuePrune(mux)} \cup
               IF ExitBehavior = "Close" THEN {QueueRemovals(mux, {p})} ELSE {}
    /\ UNCHANGED <<next, exited, waiters, ops>>

\* The main loop runs a closure that prunes; another may be queued behind it.
RunPrune(more) ==
    /\ MainFree
    /\ mux.pruneQueued
    /\ PruneDeadWindows([mux EXCEPT !.pruneQueued = more], ActivityHeld)
    /\ UNCHANGED <<next, waiters, readers, ops>>

\* The main loop runs a closure that calls remove_pane(p).
RunRemovePane(p, more) ==
    /\ MainFree
    /\ p \in mux.removals
    /\ PruneDeadWindows(
          RemovePaneInternal([mux EXCEPT !.removals = IF more THEN @ ELSE @ \ {p}], p),
          ActivityHeld)
    /\ UNCHANGED <<next, waiters, readers, ops>>

Next ==
    \/ \E w \in WindowId, gui \in BOOLEAN : StartSpawnTab(w, gui)
    \/ \E ws \in Workspaces, gui \in BOOLEAN : StartSpawnWindow(ws, gui)
    \/ \E o \in ops : FinishSpawn(o)
    \/ \E o \in ops : FailSpawn(o)
    \/ \E q \in PaneId, t \in TabId, gui \in BOOLEAN : StartSplit(q, t, gui)
    \/ \E o \in ops, fits \in BOOLEAN : FinishSplit(o, fits)
    \/ \E w \in WindowId : KillWindow(w)
    \/ \E t \in TabId : RemoveTab(t)
    \/ \E p \in PaneId : RemovePane(p)
    \/ \E p \in PaneId, t \in TabId : KillPaneInTab(p, t)
    \/ \E p \in PaneId, t \in TabId, w \in WindowId : MovePaneToTab(p, t, w)
    \/ \E p \in PaneId, t \in TabId, ws \in Workspaces : MovePaneToWindow(p, t, ws)
    \/ \E p, q \in PaneId, src, dst \in TabId, fits \in BOOLEAN :
            SplitMove(p, src, q, dst, fits)
    \/ \E w \in WindowId, ws \in Workspaces : SetWindowWorkspace(w, ws)
    \/ \E old, new \in Workspaces : RenameWorkspace(old, new)
    \/ \E p \in PaneId : ChildExits(p)
    \/ \E p \in PaneId : WaiterPosts(p)
    \/ \E p \in PaneId : ReaderPosts(p)
    \/ \E more \in BOOLEAN : RunPrune(more)
    \/ \E p \in PaneId, more \in BOOLEAN : RunRemovePane(p, more)

Spec == Init /\ [][Next]_vars

(***************************************************************************)
(* Fairness.  The main loop drains its queue, a waiting thread posts once  *)
(* its child has exited, and a spawn that started returns.                 *)
(***************************************************************************)
FairSpec ==
    /\ Spec
    /\ WF_vars(\E more \in BOOLEAN : RunPrune(more))
    /\ \A p \in PaneId : WF_vars(\E more \in BOOLEAN : RunRemovePane(p, more))
    /\ \A p \in PaneId : WF_vars(p \in exited /\ WaiterPosts(p))
    /\ WF_vars(\E o \in ops, fits \in BOOLEAN :
                  FinishSpawn(o) \/ FailSpawn(o) \/ FinishSplit(o, fits))

----------------------------------------------------------------------------
(* Properties.                                                             *)

\* Identifiers are those that were handed out, and what refers to panes, tabs and
\* windows refers to such.
TypeOK ==
    /\ mux \in MuxState
    /\ next \in [pane : 1..(MaxPane + 1), tab : 1..(MaxTab + 1),
                 window : 1..(MaxWindow + 1)]
    /\ exited \subseteq PaneId /\ waiters \subseteq PaneId /\ readers \subseteq PaneId
    /\ ops \subseteq Op

\* A tab is in one window at most, a pane in one tab at most, and the tabs of
\* the windows are known to the mux: what resolve_pane_id and
\* window_containing_tab take for granted when they return the first match.
OneHomeIn(m) ==
    /\ \A w \in WindowId : m.tabsOf[w] # {} => w \in m.windows
    /\ \A w \in WindowId : m.tabsOf[w] \subseteq m.tabs
    /\ \A v, w \in WindowId : v # w => m.tabsOf[v] \cap m.tabsOf[w] = {}
    /\ \A s, t \in TabId : s # t => m.layout[s] \cap m.layout[t] = {}
    /\ \A t \in TabId : t \notin m.tabs => m.layout[t] = {}

\* ... and so it is of the mux, in every state.
OneHome == OneHomeIn(mux)

\* No id is handed out twice, and the pane of an operation in flight is its own.
FreshIds ==
    /\ \A t \in TabId : t >= next.tab => t \notin mux.tabs
    /\ \A w \in WindowId : w >= next.window => w \notin mux.windows
    /\ \A t \in TabId : \A p \in mux.layout[t] : p < next.pane
    /\ \A o \in ops : o.pane < next.pane
    /\ \A o \in ops, t \in TabId : o.pane \notin mux.layout[t]
    /\ \A o1, o2 \in ops : o1.pane = o2.pane => o1 = o2

\* Something is left for a prune to clear away: an empty window, a dead tab, a
\* pane that is dead or no longer in the mux.
Untidy(m, dead) ==
    \E w \in m.windows :
        \/ m.tabsOf[w] = {}
        \/ \E t \in m.tabsOf[w] :
              m.layout[t] \subseteq dead \/ Removable(m, dead, t) # {}

\* A prune is still to come: it is queued, a thread is about to queue it, or
\* the Activity that made others skip theirs will queue one when dropped.
PrunePending ==
    \/ mux.pruneQueued \/ mux.removals # {}
    \/ waiters \cap exited # {}
    \/ ActivityHeld

\* No prune is lost.  prune_dead_windows gives up while an Activity is held,
\* leaves panes behind in the tree, and races with the children it polls; yet
\* nothing dead stays in a window without another prune being on its way.
NoLostPrune == Untidy(mux, exited) => PrunePending

Quiescent == ~PrunePending /\ ops = {}

\* is_workspace_empty answers from a cache that not every change of the trees
\* refreshes.  At rest the cache is right, as long as windows change workspace
\* through rename_workspace only.
OccupancyExact == Quiescent => mux.occupied = ActuallyOccupied(mux)

\* A dead pane is taken out of the tab that shows it.
DeadPanesGo ==
    \A p \in PaneId, t \in TabId :
        (p \in exited /\ ResolvesTo(mux, p, t)) ~> ~ResolvesTo(mux, p, t)

\* A window that is left without tabs, by a spawn that failed or by the removal
\* of its tabs, is closed or gets a tab.
EmptyWindowsGo ==
    \A w \in WindowId :
        (w \in mux.windows /\ mux.tabsOf[w] = {})
            ~> (w \notin mux.windows \/ mux.tabsOf[w] # {})

=============================================================================
