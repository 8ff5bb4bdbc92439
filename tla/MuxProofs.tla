------------------------------ MODULE MuxProofs ------------------------------
(***************************************************************************)
(* Proofs about Mux for every number of panes, tabs, windows and           *)
(* workspaces, every exit_behavior and every choice of operations.         *)
(***************************************************************************)
EXTENDS Mux, TLAPS

(***************************************************************************)
(* What the operators on the Mux object return.                            *)
(***************************************************************************)
LEMMA IdTypes ==
    /\ PaneId \subseteq Nat /\ TabId \subseteq Nat /\ WindowId \subseteq Nat
    /\ AnyWorkspace \in Workspaces
BY BoundsAssumption, WorkspacesAssumption DEF PaneId, TabId, WindowId, AnyWorkspace

LEMMA OccupiedType ==
    ASSUME NEW m \in MuxState
    PROVE  ActuallyOccupied(m) \subseteq Workspaces
BY DEF MuxState, ActuallyOccupied

\* recompute_pane_count touches the cache only.
LEMMA RecomputeIs ==
    ASSUME NEW m \in MuxState
    PROVE  LET r == RecomputePaneCount(m) IN
           /\ r \in MuxState
           /\ r.panes = m.panes /\ r.tabs = m.tabs /\ r.windows = m.windows
           /\ r.tabsOf = m.tabsOf /\ r.workspaceOf = m.workspaceOf
           /\ r.layout = m.layout
           /\ r.pruneQueued = m.pruneQueued /\ r.removals = m.removals
BY OccupiedType DEF MuxState, RecomputePaneCount

LEMMA RemovePaneIs ==
    ASSUME NEW m \in MuxState, NEW p
    PROVE  LET r == RemovePaneInternal(m, p) IN
           /\ r \in MuxState
           /\ r.panes = m.panes \ {p} /\ r.tabs = m.tabs /\ r.windows = m.windows
           /\ r.tabsOf = m.tabsOf /\ r.layout = m.layout
           /\ r.pruneQueued = m.pruneQueued /\ r.removals = m.removals
<1> DEFINE n == [m EXCEPT !.panes = @ \ {p}]
<1>1. /\ n \in MuxState
      /\ n.panes = m.panes \ {p} /\ n.tabs = m.tabs /\ n.windows = m.windows
      /\ n.tabsOf = m.tabsOf /\ n.layout = m.layout
      /\ n.pruneQueued = m.pruneQueued /\ n.removals = m.removals
  BY DEF MuxState
<1>2. CASE p \in m.panes
  <2>1. RemovePaneInternal(m, p) = RecomputePaneCount(n)
    BY <1>2 DEF RemovePaneInternal
  <2> QED BY <1>1, <2>1, RecomputeIs
<1>3. CASE p \notin m.panes
  BY <1>3 DEF RemovePaneInternal, MuxState
<1> QED BY <1>2, <1>3

LEMMA RemoveTabsIs ==
    ASSUME NEW m \in MuxState, NEW T
    PROVE  LET r == RemoveTabsInternal(m, T)
               gone == T \cap m.tabs
           IN
           /\ r \in MuxState
           /\ r.panes = m.panes \ UNION {m.layout[t] : t \in gone}
           /\ r.tabs = m.tabs \ gone /\ r.windows = m.windows
           /\ \A w \in WindowId : r.tabsOf[w] = m.tabsOf[w] \ gone
           /\ \A t \in TabId : r.layout[t] = IF t \in gone THEN {} ELSE m.layout[t]
           /\ r.pruneQueued = m.pruneQueued /\ r.removals = m.removals
<1> DEFINE gone == T \cap m.tabs
           n == [m EXCEPT !.tabs = @ \ gone,
                     !.tabsOf = [w \in WindowId |-> m.tabsOf[w] \ gone],
                     !.layout = [t \in TabId |->
                                     IF t \in gone THEN {} ELSE m.layout[t]],
                     !.panes = @ \ UNION {m.layout[t] : t \in gone}]
<1>1. /\ n \in MuxState
      /\ n.panes = m.panes \ UNION {m.layout[t] : t \in gone}
      /\ n.tabs = m.tabs \ gone /\ n.windows = m.windows
      /\ n.tabsOf = [w \in WindowId |-> m.tabsOf[w] \ gone]
      /\ n.layout = [t \in TabId |-> IF t \in gone THEN {} ELSE m.layout[t]]
      /\ n.pruneQueued = m.pruneQueued /\ n.removals = m.removals
  BY DEF MuxState
<1>2. CASE gone # {}
  <2>1. RemoveTabsInternal(m, T) = RecomputePaneCount(n)
    BY <1>2 DEF RemoveTabsInternal
  <2>2. LET r == RecomputePaneCount(n) IN
        /\ r \in MuxState
        /\ r.panes = n.panes /\ r.tabs = n.tabs /\ r.windows = n.windows
        /\ r.tabsOf = n.tabsOf /\ r.layout = n.layout
        /\ r.pruneQueued = n.pruneQueued /\ r.removals = n.removals
    <3> HIDE DEF n
    <3> QED BY <1>1, RecomputeIs
  <2> HIDE DEF n
  <2> QED BY <1>1, <2>1, <2>2
<1>3. CASE gone = {}
  <2>1. RemoveTabsInternal(m, T) = m
    BY <1>3 DEF RemoveTabsInternal
  <2>2. UNION {m.layout[t] : t \in gone} = {}
    BY <1>3
  <2> QED BY <1>3, <2>1, <2>2
<1> QED BY <1>2, <1>3

LEMMA RemoveWindowsIs ==
    ASSUME NEW m \in MuxState, NEW W \in SUBSET WindowId
    PROVE  LET r == RemoveWindowsInternal(m, W)
               gone == (UNION {m.tabsOf[w] : w \in W \cap m.windows}) \cap m.tabs
           IN
           /\ r \in MuxState
           /\ r.panes = m.panes \ UNION {m.layout[t] : t \in gone}
           /\ r.tabs = m.tabs \ gone /\ r.windows = m.windows \ W
           /\ \A w \in WindowId :
                r.tabsOf[w] = IF w \in W THEN {} ELSE m.tabsOf[w] \ gone
           /\ \A t \in TabId : r.layout[t] = IF t \in gone THEN {} ELSE m.layout[t]
           /\ r.pruneQueued = m.pruneQueued /\ r.removals = m.removals
<1> DEFINE T == UNION {m.tabsOf[w] : w \in W \cap m.windows}
           closed == [m EXCEPT !.windows = @ \ W,
                            !.workspaceOf = [w \in WindowId |->
                                IF w \in W THEN AnyWorkspace ELSE m.workspaceOf[w]],
                            !.tabsOf = [w \in WindowId |->
                                IF w \in W THEN {} ELSE m.tabsOf[w]]]
           n == RemoveTabsInternal(closed, T)
<1>1. /\ closed \in MuxState
      /\ closed.panes = m.panes /\ closed.tabs = m.tabs
      /\ closed.windows = m.windows \ W
      /\ closed.tabsOf = [w \in WindowId |-> IF w \in W THEN {} ELSE m.tabsOf[w]]
      /\ closed.layout = m.layout
      /\ closed.pruneQueued = m.pruneQueued /\ closed.removals = m.removals
  BY IdTypes DEF MuxState
<1>2. /\ n \in MuxState
      /\ n.panes = closed.panes \ UNION {closed.layout[t] : t \in T \cap closed.tabs}
      /\ n.tabs = closed.tabs \ (T \cap closed.tabs) /\ n.windows = closed.windows
      /\ \A w \in WindowId : n.tabsOf[w] = closed.tabsOf[w] \ (T \cap closed.tabs)
      /\ \A t \in TabId :
           n.layout[t] = IF t \in T \cap closed.tabs THEN {} ELSE closed.layout[t]
      /\ n.pruneQueued = closed.pruneQueued /\ n.removals = closed.removals
  <2> HIDE DEF closed, T
  <2> QED BY <1>1, RemoveTabsIs
<1>3. CASE W = {}
  <2>1. RemoveWindowsInternal(m, W) = m
    BY <1>3 DEF RemoveWindowsInternal
  <2>2. T = {} /\ UNION {m.layout[t] : t \in T \cap m.tabs} = {}
    BY <1>3
  <2> QED BY <1>3, <2>1, <2>2
<1>4. CASE W # {}
  <2>1. RemoveWindowsInternal(m, W) = RecomputePaneCount(n)
    BY <1>4 DEF RemoveWindowsInternal
  <2>2. LET r == RecomputePaneCount(n) IN
        /\ r \in MuxState
        /\ r.panes = n.panes /\ r.tabs = n.tabs /\ r.windows = n.windows
        /\ r.tabsOf = n.tabsOf /\ r.layout = n.layout
        /\ r.pruneQueued = n.pruneQueued /\ r.removals = n.removals
    <3> HIDE DEF n
    <3> QED BY <1>2, RecomputeIs
  <2>3. \A w \in WindowId :
           n.tabsOf[w] = IF w \in W THEN {} ELSE m.tabsOf[w] \ (T \cap m.tabs)
    <3> HIDE DEF closed, T, n
    <3>1. \A w \in WindowId : closed.tabsOf[w] = IF w \in W THEN {} ELSE m.tabsOf[w]
      BY <1>1
    <3>2. /\ \A w \in WindowId : n.tabsOf[w] = closed.tabsOf[w] \ (T \cap closed.tabs)
          /\ closed.tabs = m.tabs
      BY <1>1, <1>2
    <3> QED BY <3>1, <3>2
  <2> HIDE DEF closed, T, n
  <2>4. /\ n.panes = m.panes \ UNION {m.layout[t] : t \in T \cap m.tabs}
        /\ n.tabs = m.tabs \ (T \cap m.tabs) /\ n.windows = m.windows \ W
        /\ \A t \in TabId :
             n.layout[t] = IF t \in T \cap m.tabs THEN {} ELSE m.layout[t]
        /\ n.pruneQueued = m.pruneQueued /\ n.removals = m.removals
    BY <1>1, <1>2
  <2>5. LET r == RemoveWindowsInternal(m, W) IN
        /\ r \in MuxState
        /\ r.panes = n.panes /\ r.tabs = n.tabs /\ r.windows = n.windows
        /\ r.tabsOf = n.tabsOf /\ r.layout = n.layout
        /\ r.pruneQueued = n.pruneQueued /\ r.removals = n.removals
    BY <2>1, <2>2
  <2> USE DEF T
  <2> QED BY <2>3, <2>4, <2>5
<1> QED BY <1>3, <1>4

LEMMA TakeFromLayoutIs ==
    ASSUME NEW m \in MuxState, NEW gone \in SUBSET PaneId
    PROVE  LET r == TakeFromLayout(m, gone) IN
           /\ r \in MuxState
           /\ r.panes = m.panes /\ r.tabs = m.tabs /\ r.windows = m.windows
           /\ r.tabsOf = m.tabsOf
           /\ \A t \in TabId :
                r.layout[t] = IF t \in WindowedTabs(m) THEN m.layout[t] \ gone
                              ELSE m.layout[t]
           /\ r.pruneQueued = m.pruneQueued /\ r.removals = m.removals \cup gone
BY DEF TakeFromLayout, QueueRemovals, MuxState

LEMMA PruneDeadTabsIs ==
    ASSUME NEW m \in MuxState, NEW dead
    PROVE  LET r == PruneDeadTabs(m, dead) IN
           /\ r \in MuxState
           /\ r.panes = m.panes /\ r.tabs = m.tabs /\ r.windows = m.windows
           /\ r.layout = m.layout
           /\ \A w \in WindowId : r.tabsOf[w] =
                {t \in m.tabsOf[w] : t \in m.tabs /\ ~(m.layout[t] \subseteq dead)}
           /\ r.pruneQueued = m.pruneQueued /\ r.removals = m.removals
BY DEF PruneDeadTabs, MuxState

LEMMA AddPaneIs ==
    ASSUME NEW m \in MuxState, NEW p \in PaneId
    PROVE  LET r == AddPane(m, p) IN
           /\ r \in MuxState
           /\ r.panes = m.panes \cup {p} /\ r.tabs = m.tabs /\ r.windows = m.windows
           /\ r.tabsOf = m.tabsOf /\ r.layout = m.layout
           /\ r.pruneQueued = m.pruneQueued /\ r.removals = m.removals
<1> DEFINE n == [m EXCEPT !.panes = @ \cup {p}]
<1>1. /\ n \in MuxState
      /\ n.panes = m.panes \cup {p} /\ n.tabs = m.tabs /\ n.windows = m.windows
      /\ n.tabsOf = m.tabsOf /\ n.layout = m.layout
      /\ n.pruneQueued = m.pruneQueued /\ n.removals = m.removals
  BY DEF MuxState
<1>2. CASE p \notin m.panes
  <2>1. AddPane(m, p) = RecomputePaneCount(n)
    BY <1>2 DEF AddPane
  <2> HIDE DEF n
  <2> QED BY <1>1, <2>1, RecomputeIs
<1>3. CASE p \in m.panes
  BY <1>3 DEF AddPane, MuxState
<1> QED BY <1>2, <1>3

LEMMA AddTabToWindowIs ==
    ASSUME NEW m \in MuxState, NEW t \in TabId, NEW w \in WindowId
    PROVE  LET r == AddTabToWindow(m, t, w) IN
           /\ r \in MuxState
           /\ r.panes = m.panes /\ r.tabs = m.tabs /\ r.windows = m.windows
           /\ r.tabsOf = [m.tabsOf EXCEPT ![w] = @ \cup {t}]
           /\ r.layout = m.layout
           /\ r.pruneQueued = m.pruneQueued /\ r.removals = m.removals
<1> DEFINE n == [m EXCEPT !.tabsOf[w] = @ \cup {t}]
<1>1. /\ n \in MuxState
      /\ n.panes = m.panes /\ n.tabs = m.tabs /\ n.windows = m.windows
      /\ n.tabsOf = [m.tabsOf EXCEPT ![w] = @ \cup {t}] /\ n.layout = m.layout
      /\ n.pruneQueued = m.pruneQueued /\ n.removals = m.removals
  BY DEF MuxState
<1>2. AddTabToWindow(m, t, w) = RecomputePaneCount(n)
  BY DEF AddTabToWindow
<1> HIDE DEF n
<1> QED BY <1>1, <1>2, RecomputeIs

LEMMA NewEmptyWindowIs ==
    ASSUME NEW m \in MuxState, NEW w \in WindowId, NEW ws \in Workspaces
    PROVE  LET r == NewEmptyWindow(m, w, ws) IN
           /\ r \in MuxState
           /\ r.panes = m.panes /\ r.tabs = m.tabs /\ r.windows = m.windows \cup {w}
           /\ r.tabsOf = m.tabsOf /\ r.layout = m.layout
           /\ r.pruneQueued = m.pruneQueued /\ r.removals = m.removals
BY DEF NewEmptyWindow, MuxState

\* Queuing closures touches the queue only.
LEMMA QueueIs ==
    ASSUME NEW m \in MuxState, NEW p \in PaneId,
           NEW r \in {QueuePrune(m), QueueRemovals(m, {p})}
    PROVE  /\ r \in MuxState
           /\ r.panes = m.panes /\ r.tabs = m.tabs /\ r.windows = m.windows
           /\ r.tabsOf = m.tabsOf /\ r.layout = m.layout
           /\ r.pruneQueued \/ r.removals # {}
<1>1. CASE r = QueuePrune(m)
  BY <1>1 DEF QueuePrune, MuxState
<1>2. CASE r = QueueRemovals(m, {p})
  BY <1>2 DEF QueueRemovals, MuxState
<1> QED BY <1>1, <1>2

LEMMA DropActivitiesIs ==
    ASSUME NEW m \in MuxState, NEW o
    PROVE  LET r == DropActivities(m, o) IN
           /\ r \in MuxState
           /\ r.panes = m.panes /\ r.tabs = m.tabs /\ r.windows = m.windows
           /\ r.tabsOf = m.tabsOf /\ r.layout = m.layout
           /\ r.removals = m.removals
           /\ r.pruneQueued = (m.pruneQueued \/ o.activities # {})
BY DEF DropActivities, QueuePrune, MuxState

(***************************************************************************)
(* What a prune leaves.                                                    *)
(***************************************************************************)
\* The windows that are closed have no tabs left, so the tabs that go are
\* exactly the dead ones.
LEMMA ReapDeadIs ==
    ASSUME NEW m \in MuxState, NEW dead
    PROVE  LET r == ReapDead(m, dead)
               D == {t \in m.tabs : m.layout[t] \subseteq dead}
               W == {w \in m.windows : m.tabsOf[w] = {}}
           IN
           /\ r \in MuxState
           /\ r.panes = m.panes \ UNION {m.layout[t] : t \in D}
           /\ r.tabs = m.tabs \ D /\ r.windows = m.windows \ W
           /\ \A w \in WindowId : r.tabsOf[w] = m.tabsOf[w] \ D
           /\ \A t \in TabId : r.layout[t] = IF t \in D THEN {} ELSE m.layout[t]
           /\ r.pruneQueued = m.pruneQueued /\ r.removals = m.removals
<1> DEFINE D == {t \in m.tabs : m.layout[t] \subseteq dead}
           W == {w \in m.windows : m.tabsOf[w] = {}}
           n == RemoveTabsInternal(m, D)
           r == RemoveWindowsInternal(n, W)
           T == (UNION {n.tabsOf[w] : w \in W \cap n.windows}) \cap n.tabs
<1>1. D \cap m.tabs = D /\ W \subseteq WindowId /\ D \subseteq TabId
  BY DEF MuxState
<1>2. /\ n \in MuxState
      /\ n.panes = m.panes \ UNION {m.layout[t] : t \in D}
      /\ n.tabs = m.tabs \ D /\ n.windows = m.windows
      /\ \A w \in WindowId : n.tabsOf[w] = m.tabsOf[w] \ D
      /\ \A t \in TabId : n.layout[t] = IF t \in D THEN {} ELSE m.layout[t]
      /\ n.pruneQueued = m.pruneQueued /\ n.removals = m.removals
  <2>1. \E gone : gone = D \cap m.tabs
    OBVIOUS
  <2>2. LET q == RemoveTabsInternal(m, D)
            gone == D \cap m.tabs
        IN  /\ q \in MuxState
            /\ q.panes = m.panes \ UNION {m.layout[t] : t \in gone}
            /\ q.tabs = m.tabs \ gone /\ q.windows = m.windows
            /\ \A w \in WindowId : q.tabsOf[w] = m.tabsOf[w] \ gone
            /\ \A t \in TabId : q.layout[t] = IF t \in gone THEN {} ELSE m.layout[t]
            /\ q.pruneQueued = m.pruneQueued /\ q.removals = m.removals
    <3> HIDE DEF D
    <3> QED BY RemoveTabsIs
  <2> HIDE DEF D
  <2> QED BY <1>1, <2>2
<1>3. T = {}
  <2> SUFFICES ASSUME NEW w \in W, NEW t \in n.tabsOf[w] PROVE FALSE
    OBVIOUS
  <2>1. w \in WindowId /\ m.tabsOf[w] = {}
    BY <1>1
  <2> HIDE DEF W, n, D
  <2> QED BY <1>2, <2>1
<1>4. /\ r \in MuxState
      /\ r.panes = n.panes \ UNION {n.layout[t] : t \in T}
      /\ r.tabs = n.tabs \ T /\ r.windows = n.windows \ W
      /\ \A w \in WindowId : r.tabsOf[w] = IF w \in W THEN {} ELSE n.tabsOf[w] \ T
      /\ \A t \in TabId : r.layout[t] = IF t \in T THEN {} ELSE n.layout[t]
      /\ r.pruneQueued = n.pruneQueued /\ r.removals = n.removals
  <2> HIDE DEF n, W, D
  <2> QED BY <1>1, <1>2, RemoveWindowsIs
<1>5. \A w \in W : m.tabsOf[w] \ D = {}
  OBVIOUS
<1>6. UNION {n.layout[t] : t \in T} = {}
  BY <1>3
<1>7. ReapDead(m, dead) = r
  BY DEF ReapDead
<1>8. /\ r \in MuxState
      /\ r.panes = m.panes \ UNION {m.layout[t] : t \in D}
      /\ r.tabs = m.tabs \ D /\ r.windows = m.windows \ W
      /\ \A w \in WindowId : r.tabsOf[w] = m.tabsOf[w] \ D
      /\ \A t \in TabId : r.layout[t] = IF t \in D THEN {} ELSE m.layout[t]
      /\ r.pruneQueued = m.pruneQueued /\ r.removals = m.removals
  <2> HIDE DEF n, W, D, T, r
  <2> QED BY <1>2, <1>3, <1>4, <1>5, <1>6
<1> HIDE DEF r
<1> QED BY <1>7, <1>8

\* One run of the body of prune_dead_windows: what it keeps of m, and that what
\* it leaves untidy comes with a removal queued or with a pane whose child has
\* exited and whose waiting thread has still to post.
LEMMA PruneIs ==
    ASSUME NEW m \in MuxState, OneHomeIn(m), exited \subseteq PaneId,
           NEW late \in SUBSET MayExit(m), NEW mid \in SUBSET late,
           NEW r \in PruneOutcomes(m, exited, exited \cup mid, exited \cup late)
    PROVE  /\ r \in MuxState
           /\ OneHomeIn(r)
           /\ r.tabs \subseteq m.tabs /\ r.windows \subseteq m.windows
           /\ \A t \in TabId : r.layout[t] \subseteq m.layout[t]
           /\ r.panes \subseteq m.panes
           /\ m.panes \subseteq r.panes \cup UNION {m.layout[t] : t \in TabId}
           /\ r.pruneQueued = m.pruneQueued /\ m.removals \subseteq r.removals
           /\ exited \cup late \subseteq PaneId
           /\ Untidy(r, exited \cup late) =>
                r.removals # {} \/ waiters \cap (exited \cup late) # {}
<1> DEFINE later == exited \cup mid
           latest == exited \cup late
<1>1. MayExit(m) \subseteq PaneId
  BY DEF MayExit, MuxState
<1>2. PICK gone \in PrunablePanes(m, exited) :
         r = ReapDead(PruneDeadTabs(TakeFromLayout(m, gone), later), latest)
  BY DEF PruneOutcomes
<1>3. gone \subseteq PaneId
  BY DEF PrunablePanes, Removable, WindowedTabs, MuxState
<1> DEFINE a == TakeFromLayout(m, gone)
           b == PruneDeadTabs(a, later)
           D == {t \in b.tabs : b.layout[t] \subseteq latest}
           W == {w \in b.windows : b.tabsOf[w] = {}}
<1>4. /\ a \in MuxState
      /\ a.panes = m.panes /\ a.tabs = m.tabs /\ a.windows = m.windows
      /\ a.tabsOf = m.tabsOf
      /\ \A t \in TabId :
           a.layout[t] = IF t \in WindowedTabs(m) THEN m.layout[t] \ gone
                         ELSE m.layout[t]
      /\ a.pruneQueued = m.pruneQueued /\ a.removals = m.removals \cup gone
  BY <1>3, TakeFromLayoutIs
<1>5. /\ b \in MuxState
      /\ b.panes = a.panes /\ b.tabs = a.tabs /\ b.windows = a.windows
      /\ b.layout = a.layout
      /\ \A w \in WindowId : b.tabsOf[w] =
           {t \in a.tabsOf[w] : t \in a.tabs /\ ~(a.layout[t] \subseteq later)}
      /\ b.pruneQueued = a.pruneQueued /\ b.removals = a.removals
  <2> HIDE DEF a, later
  <2> QED BY <1>4, PruneDeadTabsIs
<1>6. /\ r \in MuxState
      /\ r.panes = b.panes \ UNION {b.layout[t] : t \in D}
      /\ r.tabs = b.tabs \ D /\ r.windows = b.windows \ W
      /\ \A w \in WindowId : r.tabsOf[w] = b.tabsOf[w] \ D
      /\ \A t \in TabId : r.layout[t] = IF t \in D THEN {} ELSE b.layout[t]
      /\ r.pruneQueued = b.pruneQueued /\ r.removals = b.removals
  <2>1. r = ReapDead(b, latest)
    BY <1>2
  <2> HIDE DEF b, latest
  <2> QED BY <1>5, <2>1, ReapDeadIs
<1> HIDE DEF a, b, later, latest
<1>7. /\ m.tabs \subseteq TabId /\ m.windows \subseteq WindowId
      /\ \A w \in WindowId : m.tabsOf[w] \subseteq TabId
      /\ D \subseteq TabId
  BY <1>4, <1>5 DEF MuxState
<1>8. /\ r.tabs = m.tabs \ D /\ r.windows \subseteq m.windows
      /\ \A w \in WindowId : r.tabsOf[w] \subseteq m.tabsOf[w] \ D
      /\ \A t \in TabId : r.layout[t] \subseteq m.layout[t]
      /\ r.removals = m.removals \cup gone /\ r.pruneQueued = m.pruneQueued
  <2> HIDE DEF D, W
  <2>1. \A w \in WindowId : b.tabsOf[w] \subseteq m.tabsOf[w]
    BY <1>4, <1>5
  <2>2. \A t \in TabId : b.layout[t] \subseteq m.layout[t]
    BY <1>4, <1>5
  <2> QED BY <1>4, <1>5, <1>6, <2>1, <2>2
<1>9. /\ r.panes \subseteq m.panes
      /\ m.panes \subseteq r.panes \cup UNION {m.layout[t] : t \in D}
  <2> HIDE DEF D, W
  <2>1. \A t \in D : b.layout[t] \subseteq m.layout[t]
    BY <1>4, <1>5, <1>7
  <2>2. r.panes = m.panes \ UNION {b.layout[t] : t \in D}
    BY <1>4, <1>5, <1>6
  <2>3. UNION {b.layout[t] : t \in D} \subseteq UNION {m.layout[t] : t \in D}
    BY <2>1
  <2> QED BY <2>2, <2>3
<1>10. OneHomeIn(r)
  <2>1. \A w \in WindowId : r.tabsOf[w] # {} => w \in r.windows
    BY <1>4, <1>5, <1>6 DEF OneHomeIn
  <2>2. \A w \in WindowId : r.tabsOf[w] \subseteq r.tabs
    BY <1>8 DEF OneHomeIn
  <2>3. \A v, w \in WindowId : v # w => r.tabsOf[v] \cap r.tabsOf[w] = {}
    BY <1>8 DEF OneHomeIn
  <2>4. \A s, t \in TabId : s # t => r.layout[s] \cap r.layout[t] = {}
    BY <1>8 DEF OneHomeIn
  <2>5. \A t \in TabId : t \notin r.tabs => r.layout[t] = {}
    BY <1>6, <1>8 DEF OneHomeIn
  <2> QED BY <2>1, <2>2, <2>3, <2>4, <2>5 DEF OneHomeIn
\* A pane that was removable at the start has made "gone" nonempty, and one that
\* turned dead during the run has a waiting thread or was removable.
<1>11. ASSUME NEW w \in m.windows, NEW t \in m.tabsOf[w], NEW p \in m.layout[t],
              p \in exited \/ p \notin m.panes
       PROVE  gone # {}
  <2>1. t \in WindowedTabs(m)
    BY DEF WindowedTabs
  <2>2. p \in Removable(m, exited, t)
    BY <1>11 DEF Removable
  <2> QED BY <2>1, <2>2 DEF PrunablePanes
<1>12. ASSUME NEW w \in m.windows, NEW t \in m.tabsOf[w], NEW p \in m.layout[t],
              p \in latest
       PROVE  gone # {} \/ waiters \cap latest # {}
  <2>1. CASE p \in exited \/ p \notin m.panes
    BY <1>11, <2>1
  <2>2. CASE p \notin exited /\ p \in m.panes
    <3>1. p \in late
      BY <1>12, <2>2 DEF latest
    <3>2. p \in waiters
      BY <2>2, <3>1 DEF MayExit
    <3> QED BY <1>12, <3>2
  <2> QED BY <2>1, <2>2
<1>13. ASSUME Untidy(r, latest) PROVE gone # {} \/ waiters \cap latest # {}
  <2>1. PICK w \in r.windows :
           \/ r.tabsOf[w] = {}
           \/ \E t \in r.tabsOf[w] :
                r.layout[t] \subseteq latest \/ Removable(r, latest, t) # {}
    BY <1>13 DEF Untidy
  <2>2. w \in m.windows /\ w \in WindowId
    BY <1>7, <1>8
  <2>3. CASE r.tabsOf[w] = {}
    <3>1. w \in b.windows /\ b.tabsOf[w] # {}
      BY <1>6, <2>1
    <3>2. PICK t : t \in b.tabsOf[w]
      BY <3>1
    <3>3. t \in D
      BY <1>6, <2>2, <2>3, <3>2
    <3>4. /\ t \in m.tabsOf[w] /\ b.layout[t] \subseteq latest
          /\ ~(b.layout[t] \subseteq later)
      BY <1>4, <1>5, <2>2, <3>2, <3>3
    <3>5. PICK p : p \in b.layout[t] /\ p \in latest
      BY <3>4
    <3>6. p \in m.layout[t]
      BY <1>4, <1>5, <1>7, <2>2, <3>4, <3>5
    <3> QED BY <1>12, <2>2, <3>4, <3>5, <3>6
  <2>4. CASE \E t \in r.tabsOf[w] : r.layout[t] \subseteq latest
    <3>1. PICK t \in r.tabsOf[w] : r.layout[t] \subseteq latest
      BY <2>4
    <3>2. t \in b.tabs /\ t \notin D /\ t \in TabId
      BY <1>4, <1>5, <1>6, <1>7, <2>2, <3>1
    <3>3. r.layout[t] = b.layout[t]
      BY <1>6, <3>2
    <3> QED BY <3>1, <3>2, <3>3
  <2>5. CASE \E t \in r.tabsOf[w] : Removable(r, latest, t) # {}
    <3>0. PICK t \in r.tabsOf[w] : Removable(r, latest, t) # {}
      BY <2>5
    <3>1. PICK p \in r.layout[t] : p \in latest \/ p \notin r.panes
      BY <3>0 DEF Removable
    <3>2. t \in m.tabsOf[w] /\ t \in TabId /\ t \notin D /\ p \in m.layout[t]
      BY <1>7, <1>8, <2>2, <3>0, <3>1
    <3>3. CASE p \in latest
      BY <1>12, <2>2, <3>2, <3>3
    <3>4. CASE p \notin r.panes
      <4>1. p \notin m.panes
        <5>1. \A s \in D : p \notin m.layout[s]
          BY <1>7, <3>2 DEF OneHomeIn
        <5> QED BY <1>9, <3>4, <5>1
      <4> QED BY <1>11, <2>2, <3>2, <4>1
    <3> QED BY <3>1, <3>3, <3>4
  <2> QED BY <2>1, <2>3, <2>4, <2>5
<1>14. Untidy(r, exited \cup late) =>
          r.removals # {} \/ waiters \cap (exited \cup late) # {}
  BY <1>8, <1>13 DEF latest
<1> QED BY <1>1, <1>6, <1>7, <1>8, <1>9, <1>10, <1>14

(***************************************************************************)
(* The inductive invariant: where panes and tabs are, which ids are taken  *)
(* and that no prune is lost.  The last conjunct needs the first three:    *)
(* that a prune leaves nothing behind relies on a pane being in one tab.   *)
(***************************************************************************)
IInv == TypeOK /\ OneHome /\ FreshIds /\ NoLostPrune

\* The primed invariants, with the prime moved to the variables.
LEMMA Primed ==
    /\ OneHome' <=> OneHomeIn(mux')
    /\ NoLostPrune' <=>
         (Untidy(mux', exited') =>
            \/ mux'.pruneQueued \/ mux'.removals # {}
            \/ waiters' \cap exited' # {}
            \/ \E o \in ops' : o.activities # {})
BY DEF OneHome, OneHomeIn, NoLostPrune, PrunePending, ActivityHeld, Untidy, Removable

\* prune_dead_windows as callers see it, whether or not it gives up at once.
LEMMA PruneDeadWindowsIs ==
    ASSUME NEW m \in MuxState, OneHomeIn(m), exited \subseteq PaneId, NEW held,
           PruneDeadWindows(m, held)
    PROVE  /\ mux' \in MuxState
           /\ OneHomeIn(mux')
           /\ mux'.tabs \subseteq m.tabs /\ mux'.windows \subseteq m.windows
           /\ \A t \in TabId : mux'.layout[t] \subseteq m.layout[t]
           /\ mux'.pruneQueued = m.pruneQueued
           /\ exited' \subseteq PaneId
           /\ \/ held
              \/ Untidy(mux', exited') =>
                    mux'.removals # {} \/ waiters \cap exited' # {}
<1>1. CASE held
  BY <1>1 DEF PruneDeadWindows
<1>2. CASE ~held
  <2>1. PICK late \in SUBSET MayExit(m) : \E mid \in SUBSET late :
           /\ mux' \in PruneOutcomes(m, exited, exited \cup mid, exited \cup late)
           /\ exited' = exited \cup late
    BY <1>2 DEF PruneDeadWindows
  <2>2. PICK mid \in SUBSET late :
           mux' \in PruneOutcomes(m, exited, exited \cup mid, exited \cup late)
    BY <2>1
  <2>3. PICK r \in PruneOutcomes(m, exited, exited \cup mid, exited \cup late) :
           mux' = r
    BY <2>2
  <2>4. /\ r \in MuxState
        /\ OneHomeIn(r)
        /\ r.tabs \subseteq m.tabs /\ r.windows \subseteq m.windows
        /\ \A t \in TabId : r.layout[t] \subseteq m.layout[t]
        /\ r.pruneQueued = m.pruneQueued
        /\ exited \cup late \subseteq PaneId
        /\ Untidy(r, exited \cup late) =>
             r.removals # {} \/ waiters \cap (exited \cup late) # {}
    BY PruneIs
  <2> QED BY <2>1, <2>3, <2>4
<1> QED BY <1>1, <1>2

\* FreshIds survives whatever only takes panes, tabs and windows away.
LEMMA FreshIdsKept ==
    ASSUME FreshIds, next' = next, ops' \subseteq ops,
           mux'.tabs \subseteq mux.tabs, mux'.windows \subseteq mux.windows,
           \A t \in TabId : mux'.layout[t] \subseteq mux.layout[t]
    PROVE  FreshIds'
BY DEF FreshIds

\* A step that calls prune_dead_windows last, after taking something away.
LEMMA PruneStep ==
    ASSUME IInv, NEW m \in MuxState, OneHomeIn(m),
           m.tabs \subseteq mux.tabs, m.windows \subseteq mux.windows,
           \A t \in TabId : m.layout[t] \subseteq mux.layout[t],
           PruneDeadWindows(m, ActivityHeld),
           UNCHANGED <<next, waiters, readers, ops>>
    PROVE  IInv'
<1>1. /\ mux' \in MuxState
      /\ OneHomeIn(mux')
      /\ mux'.tabs \subseteq m.tabs /\ mux'.windows \subseteq m.windows
      /\ \A t \in TabId : mux'.layout[t] \subseteq m.layout[t]
      /\ exited' \subseteq PaneId
      /\ \/ ActivityHeld
         \/ Untidy(mux', exited') =>
               mux'.removals # {} \/ waiters \cap exited' # {}
  BY PruneDeadWindowsIs DEF IInv, TypeOK
<1>2. TypeOK'
  BY <1>1 DEF IInv, TypeOK
<1>3. OneHome'
  BY <1>1, Primed
<1>4. FreshIds'
  BY <1>1, FreshIdsKept DEF IInv
<1>5. NoLostPrune'
  BY <1>1, Primed DEF ActivityHeld
<1> QED BY <1>2, <1>3, <1>4, <1>5 DEF IInv

\* What is untidy depends on the trees and the panes, not on the queue.
LEMMA UntidyOf ==
    ASSUME NEW m, NEW r, NEW dead,
           r.panes = m.panes, r.windows = m.windows, r.tabsOf = m.tabsOf,
           r.layout = m.layout, Untidy(r, dead)
    PROVE  Untidy(m, dead)
BY DEF Untidy, Removable

\* A step that leaves panes, tabs and windows where they are.
LEMMA QueueStep ==
    ASSUME IInv, mux' \in MuxState, next' = next, exited' = exited,
           mux'.panes = mux.panes, mux'.tabs = mux.tabs,
           mux'.windows = mux.windows, mux'.tabsOf = mux.tabsOf,
           mux'.layout = mux.layout,
           waiters' \subseteq waiters, readers' \subseteq readers, ops' \subseteq ops,
           \/ mux'.pruneQueued \/ mux'.removals # {}
           \/ /\ mux'.pruneQueued = mux.pruneQueued
              /\ mux'.removals = mux.removals
              /\ waiters' = waiters
              /\ \A o \in ops \ ops' : o.activities = {}
    PROVE  IInv'
<1>1. TypeOK'
  BY DEF IInv, TypeOK
<1>2. OneHome'
  BY DEF IInv, OneHome, OneHomeIn
<1>3. FreshIds'
  BY FreshIdsKept DEF IInv
<1>4. NoLostPrune'
  <2> SUFFICES ASSUME Untidy(mux', exited)
               PROVE  \/ mux'.pruneQueued \/ mux'.removals # {}
                      \/ waiters' \cap exited # {}
                      \/ \E o \in ops' : o.activities # {}
    BY Primed
  <2>1. Untidy(mux, exited)
    BY UntidyOf
  <2> QED BY <2>1 DEF IInv, NoLostPrune, PrunePending, ActivityHeld
<1> QED BY <1>1, <1>2, <1>3, <1>4 DEF IInv

(***************************************************************************)
(* One lemma per action that does more than queue a closure or prune.      *)
(***************************************************************************)
LEMMA InitInv == Init => IInv
<1> SUFFICES ASSUME Init PROVE IInv
  OBVIOUS
<1>1. TypeOK
  BY IdTypes, BoundsAssumption DEF Init, TypeOK, MuxState, PaneId, TabId, WindowId
<1>2. OneHome /\ FreshIds
  BY DEF Init, OneHome, OneHomeIn, FreshIds
<1>3. NoLostPrune
  BY DEF Init, NoLostPrune, Untidy
<1> QED BY <1>1, <1>2, <1>3 DEF IInv

LEMMA StartSpawnTabInv ==
    ASSUME IInv, NEW w \in WindowId, NEW gui \in BOOLEAN, StartSpawnTab(w, gui)
    PROVE  IInv'
<1> DEFINE o == [kind |-> "spawn", pane |-> next.pane, window |-> w,
                 activities |-> IF gui THEN {"gui"} ELSE {}]
<1>1. o \in Op /\ o.pane = next.pane
  BY BoundsAssumption DEF Op, PaneId, ActivityKind, IInv, TypeOK, StartSpawnTab
<1>2. /\ ops' = ops \cup {o} /\ next' = [next EXCEPT !.pane = @ + 1]
      /\ mux' = mux /\ exited' = exited /\ waiters' = waiters /\ readers' = readers
      /\ next.pane <= MaxPane
  BY DEF StartSpawnTab
<1> HIDE DEF o
<1>3. TypeOK'
  BY <1>1, <1>2, BoundsAssumption DEF IInv, TypeOK
<1>4. OneHome'
  BY <1>2 DEF IInv, OneHome, OneHomeIn
<1>5. FreshIds'
  <2>1. /\ next.pane \in Nat /\ next'.pane = next.pane + 1
        /\ next'.tab = next.tab /\ next'.window = next.window
    BY <1>2, BoundsAssumption DEF IInv, TypeOK
  <2>2. /\ \A x \in ops : x.pane \in Nat
        /\ \A t \in TabId : \A p \in mux.layout[t] : p \in Nat
    BY IdTypes DEF IInv, TypeOK, Op, MuxState
  <2> QED BY <1>1, <1>2, <2>1, <2>2 DEF IInv, FreshIds
<1>6. NoLostPrune'
  BY <1>2, Primed DEF IInv, NoLostPrune, PrunePending, ActivityHeld
<1> QED BY <1>3, <1>4, <1>5, <1>6 DEF IInv

LEMMA StartSplitInv ==
    ASSUME IInv, NEW q \in PaneId, NEW t \in TabId, NEW gui \in BOOLEAN,
           StartSplit(q, t, gui)
    PROVE  IInv'
<1> DEFINE o == [kind |-> "split", pane |-> next.pane, tab |-> t, at |-> q,
                 activities |-> IF gui THEN {"gui"} ELSE {}]
<1>1. o \in Op /\ o.pane = next.pane
  BY BoundsAssumption DEF Op, PaneId, ActivityKind, IInv, TypeOK, StartSplit
<1>2. /\ ops' = ops \cup {o} /\ next' = [next EXCEPT !.pane = @ + 1]
      /\ mux' = mux /\ exited' = exited /\ waiters' = waiters /\ readers' = readers
      /\ next.pane <= MaxPane
  BY DEF StartSplit
<1> HIDE DEF o
<1>3. TypeOK'
  BY <1>1, <1>2, BoundsAssumption DEF IInv, TypeOK
<1>4. OneHome'
  BY <1>2 DEF IInv, OneHome, OneHomeIn
<1>5. FreshIds'
  <2>1. /\ next.pane \in Nat /\ next'.pane = next.pane + 1
        /\ next'.tab = next.tab /\ next'.window = next.window
    BY <1>2, BoundsAssumption DEF IInv, TypeOK
  <2>2. /\ \A x \in ops : x.pane \in Nat
        /\ \A s \in TabId : \A p \in mux.layout[s] : p \in Nat
    BY IdTypes DEF IInv, TypeOK, Op, MuxState
  <2> QED BY <1>1, <1>2, <2>1, <2>2 DEF IInv, FreshIds
<1>6. NoLostPrune'
  BY <1>2, Primed DEF IInv, NoLostPrune, PrunePending, ActivityHeld
<1> QED BY <1>3, <1>4, <1>5, <1>6 DEF IInv

\* The new window is empty, but its builder is an Activity.
LEMMA StartSpawnWindowInv ==
    ASSUME IInv, NEW ws \in Workspaces, NEW gui \in BOOLEAN, StartSpawnWindow(ws, gui)
    PROVE  IInv'
<1> DEFINE o == [kind |-> "spawn", pane |-> next.pane, window |-> next.window,
                 activities |-> {"builder"} \cup IF gui THEN {"gui"} ELSE {}]
<1>1. /\ o \in Op /\ o.pane = next.pane /\ o.activities # {}
      /\ next.window \in WindowId
  BY BoundsAssumption
     DEF Op, PaneId, WindowId, ActivityKind, IInv, TypeOK, StartSpawnWindow
<1>2. /\ ops' = ops \cup {o}
      /\ next' = [next EXCEPT !.pane = @ + 1, !.window = @ + 1]
      /\ mux' = NewEmptyWindow(mux, next.window, ws)
      /\ exited' = exited /\ waiters' = waiters /\ readers' = readers
      /\ next.pane <= MaxPane /\ next.window <= MaxWindow
  BY DEF StartSpawnWindow
<1>3. /\ mux' \in MuxState
      /\ mux'.panes = mux.panes /\ mux'.tabs = mux.tabs
      /\ mux'.windows = mux.windows \cup {next.window}
      /\ mux'.tabsOf = mux.tabsOf /\ mux'.layout = mux.layout
  BY <1>1, <1>2, NewEmptyWindowIs DEF IInv, TypeOK
<1> HIDE DEF o
<1>4. TypeOK'
  <2>1. next' \in [pane : 1..(MaxPane + 1), tab : 1..(MaxTab + 1),
                   window : 1..(MaxWindow + 1)]
    <3>1. next.pane + 1 \in 1..(MaxPane + 1) /\ next.window + 1 \in 1..(MaxWindow + 1)
      BY <1>2, BoundsAssumption DEF IInv, TypeOK
    <3> QED BY <1>2, <3>1 DEF IInv, TypeOK
  <2> QED BY <1>1, <1>2, <1>3, <2>1 DEF IInv, TypeOK
<1>5. OneHome'
  BY <1>3, Primed DEF IInv, OneHome, OneHomeIn
<1>6. FreshIds'
  <2>1. /\ next.pane \in Nat /\ next'.pane = next.pane + 1
        /\ next'.tab = next.tab
        /\ next.window \in Nat /\ next'.window = next.window + 1
    BY <1>2, BoundsAssumption DEF IInv, TypeOK
  <2>2. /\ \A x \in ops : x.pane \in Nat
        /\ \A t \in TabId : \A p \in mux.layout[t] : p \in Nat
    BY IdTypes DEF IInv, TypeOK, Op, MuxState
  <2>3. \A w \in WindowId : w >= next.window + 1 => w \notin mux'.windows
    BY <1>3, <2>1, IdTypes DEF IInv, FreshIds
  <2> QED BY <1>1, <1>2, <1>3, <2>1, <2>2, <2>3 DEF IInv, FreshIds
<1>7. NoLostPrune'
  BY <1>1, <1>2, Primed
<1> QED BY <1>4, <1>5, <1>6, <1>7 DEF IInv

\* An operation returns: its Activity objects queue a prune.
LEMMA ReturnKeeps ==
    ASSUME IInv, NEW o \in ops, NEW m \in MuxState,
           mux' = DropActivities(m, o), ops' = ops \ {o},
           exited' = exited, waiters \subseteq waiters',
           m.pruneQueued = mux.pruneQueued, m.removals = mux.removals,
           Untidy(m, exited) => Untidy(mux, exited) \/ waiters' \cap exited # {}
    PROVE  NoLostPrune'
<1>1. /\ mux'.panes = m.panes /\ mux'.windows = m.windows
      /\ mux'.tabsOf = m.tabsOf /\ mux'.layout = m.layout
      /\ mux'.removals = m.removals
      /\ mux'.pruneQueued = (m.pruneQueued \/ o.activities # {})
  BY DropActivitiesIs
<1> SUFFICES ASSUME Untidy(mux', exited)
             PROVE  \/ mux'.pruneQueued \/ mux'.removals # {}
                    \/ waiters' \cap exited # {}
                    \/ \E x \in ops' : x.activities # {}
  BY Primed
<1>2. Untidy(m, exited)
  BY <1>1, UntidyOf
<1>3. Untidy(mux, exited) => PrunePending
  BY DEF IInv, NoLostPrune
<1>4. CASE o.activities # {}
  BY <1>1, <1>4
<1>5. CASE o.activities = {}
  <2>1. ActivityHeld => \E x \in ops' : x.activities # {}
    BY <1>5 DEF ActivityHeld
  <2> QED BY <1>1, <1>2, <1>3, <2>1 DEF PrunePending
<1> QED BY <1>4, <1>5

LEMMA FinishSpawnInv ==
    ASSUME IInv, NEW o \in ops, FinishSpawn(o)
    PROVE  IInv'
<1> DEFINE t == next.tab
           added == AddPane(mux, o.pane)
           tabbed == [added EXCEPT !.tabs = @ \cup {t}, !.layout[t] = {o.pane}]
           m == IF o.window \in mux.windows
                THEN AddTabToWindow(tabbed, t, o.window) ELSE tabbed
<1>1. /\ o.kind = "spawn" /\ t <= MaxTab
      /\ mux' = DropActivities(m, o)
      /\ next' = [next EXCEPT !.tab = @ + 1]
      /\ waiters' = waiters \cup {o.pane} /\ readers' = readers \cup {o.pane}
      /\ ops' = ops \ {o} /\ exited' = exited
  BY DEF FinishSpawn
<1>2. o.pane \in PaneId /\ o.window \in WindowId /\ t \in TabId
  BY <1>1, BoundsAssumption DEF IInv, TypeOK, Op, TabId
<1>3. /\ added \in MuxState
      /\ added.panes = mux.panes \cup {o.pane} /\ added.tabs = mux.tabs
      /\ added.windows = mux.windows
      /\ added.tabsOf = mux.tabsOf /\ added.layout = mux.layout
      /\ added.pruneQueued = mux.pruneQueued /\ added.removals = mux.removals
  BY <1>2, AddPaneIs DEF IInv, TypeOK
<1> HIDE DEF added
<1>4. /\ tabbed \in MuxState
      /\ tabbed.panes = added.panes /\ tabbed.tabs = added.tabs \cup {t}
      /\ tabbed.windows = added.windows /\ tabbed.tabsOf = added.tabsOf
      /\ tabbed.layout = [added.layout EXCEPT ![t] = {o.pane}]
      /\ tabbed.pruneQueued = added.pruneQueued /\ tabbed.removals = added.removals
  BY <1>2, <1>3 DEF MuxState
<1> HIDE DEF tabbed
<1>5. /\ m \in MuxState
      /\ m.panes = mux.panes \cup {o.pane} /\ m.tabs = mux.tabs \cup {t}
      /\ m.windows = mux.windows
      /\ m.layout = [mux.layout EXCEPT ![t] = {o.pane}]
      /\ m.pruneQueued = mux.pruneQueued /\ m.removals = mux.removals
      /\ \/ m.tabsOf = mux.tabsOf
         \/ /\ o.window \in mux.windows
            /\ m.tabsOf = [mux.tabsOf EXCEPT ![o.window] = @ \cup {t}]
  <2>1. CASE o.window \in mux.windows
    <3>1. m = AddTabToWindow(tabbed, t, o.window)
      BY <2>1
    <3> HIDE DEF m, t
    <3>2. /\ m \in MuxState
          /\ m.panes = tabbed.panes /\ m.tabs = tabbed.tabs
          /\ m.windows = tabbed.windows /\ m.layout = tabbed.layout
          /\ m.tabsOf = [tabbed.tabsOf EXCEPT ![o.window] = @ \cup {t}]
          /\ m.pruneQueued = tabbed.pruneQueued /\ m.removals = tabbed.removals
      BY <1>2, <1>4, <3>1, AddTabToWindowIs
    <3> QED BY <1>3, <1>4, <2>1, <3>2
  <2>2. CASE o.window \notin mux.windows
    BY <1>3, <1>4, <2>2
  <2> QED BY <2>1, <2>2
<1> HIDE DEF m
<1>6. /\ mux' \in MuxState
      /\ mux'.panes = m.panes /\ mux'.tabs = m.tabs
      /\ mux'.windows = m.windows /\ mux'.tabsOf = m.tabsOf /\ mux'.layout = m.layout
  BY <1>1, <1>5, DropActivitiesIs
<1>7. /\ mux.layout \in [TabId -> SUBSET PaneId]
      /\ mux.tabsOf \in [WindowId -> SUBSET TabId]
      /\ mux.windows \subseteq WindowId
  BY DEF IInv, TypeOK, MuxState
\* The tab is new, and so is the pane.
<1>8. /\ t \notin mux.tabs
      /\ \A s \in TabId : o.pane \notin mux.layout[s]
      /\ \A w \in WindowId : t \notin mux.tabsOf[w]
  <2>1. t \in Nat /\ t >= next.tab
    BY <1>2, BoundsAssumption DEF TabId
  <2>2. t \notin mux.tabs
    BY <1>2, <2>1 DEF IInv, FreshIds
  <2>3. \A s \in TabId : o.pane \notin mux.layout[s]
    BY DEF IInv, FreshIds
  <2>4. \A w \in WindowId : t \notin mux.tabsOf[w]
    BY <2>2 DEF IInv, OneHome, OneHomeIn
  <2> QED BY <2>2, <2>3, <2>4
<1>9. TypeOK'
  <2>1. next' \in [pane : 1..(MaxPane + 1), tab : 1..(MaxTab + 1),
                   window : 1..(MaxWindow + 1)]
    BY <1>1, BoundsAssumption DEF IInv, TypeOK
  <2> QED BY <1>1, <1>2, <1>6, <2>1 DEF IInv, TypeOK
<1>10. OneHome'
  <2> USE <1>2, <1>5, <1>6, <1>7, <1>8 DEF IInv, OneHome, OneHomeIn
  <2>1. \A w \in WindowId : mux'.tabsOf[w] # {} => w \in mux'.windows
    OBVIOUS
  <2>2. \A w \in WindowId : mux'.tabsOf[w] \subseteq mux'.tabs
    OBVIOUS
  <2>3. \A v, w \in WindowId : v # w => mux'.tabsOf[v] \cap mux'.tabsOf[w] = {}
    OBVIOUS
  <2>4. \A r, s \in TabId : r # s => mux'.layout[r] \cap mux'.layout[s] = {}
    OBVIOUS
  <2>5. \A s \in TabId : s \notin mux'.tabs => mux'.layout[s] = {}
    OBVIOUS
  <2> QED BY <2>1, <2>2, <2>3, <2>4, <2>5, Primed
<1>11. FreshIds'
  <2>1. /\ t \in Nat /\ next'.tab = t + 1
        /\ next'.pane = next.pane /\ next'.window = next.window
    BY <1>1, BoundsAssumption DEF IInv, TypeOK
  <2>2. \A s \in TabId : s >= next'.tab => s \notin mux'.tabs
    BY <1>5, <1>6, <2>1, IdTypes DEF IInv, FreshIds
  <2>3. \A w \in WindowId : w >= next'.window => w \notin mux'.windows
    BY <1>5, <1>6, <2>1 DEF IInv, FreshIds
  <2>4. \A s \in TabId : \A p \in mux'.layout[s] : p < next'.pane
    BY <1>2, <1>5, <1>6, <1>7, <2>1 DEF IInv, FreshIds
  <2>5. \A x \in ops' : x.pane < next'.pane
    BY <1>1, <2>1 DEF IInv, FreshIds
  <2>6. \A x \in ops', s \in TabId : x.pane \notin mux'.layout[s]
    BY <1>1, <1>2, <1>5, <1>6, <1>7 DEF IInv, FreshIds
  <2>7. \A x, y \in ops' : x.pane = y.pane => x = y
    BY <1>1 DEF IInv, FreshIds
  <2> QED BY <2>2, <2>3, <2>4, <2>5, <2>6, <2>7 DEF FreshIds
<1>12. ASSUME Untidy(m, exited)
       PROVE  Untidy(mux, exited) \/ waiters' \cap exited # {}
  <2>1. PICK w \in m.windows :
           \/ m.tabsOf[w] = {}
           \/ \E s \in m.tabsOf[w] :
                 m.layout[s] \subseteq exited \/ Removable(m, exited, s) # {}
    BY <1>12 DEF Untidy
  <2>2. CASE m.tabsOf[w] = {}
    BY <1>2, <1>5, <1>7, <2>1, <2>2 DEF Untidy
  <2>3. ASSUME NEW s \in m.tabsOf[w],
               m.layout[s] \subseteq exited \/ Removable(m, exited, s) # {}
        PROVE  Untidy(mux, exited) \/ waiters' \cap exited # {}
    <3>1. CASE s = t
      <4>1. m.layout[s] = {o.pane}
        BY <1>2, <1>5, <1>7, <3>1
      <4>2. o.pane \in exited
        BY <1>5, <2>3, <4>1 DEF Removable
      <4> QED BY <1>1, <4>2
    <3>2. CASE s # t
      <4>1. w \in mux.windows /\ s \in mux.tabsOf[w]
        BY <1>2, <1>5, <1>7, <2>1, <2>3, <3>2
      <4>2. m.layout[s] = mux.layout[s]
        BY <1>5, <1>7, <3>2, <4>1
      <4>3. Removable(m, exited, s) \subseteq Removable(mux, exited, s)
        BY <1>5, <4>2 DEF Removable
      <4> QED BY <2>3, <4>1, <4>2, <4>3 DEF Untidy
    <3> QED BY <3>1, <3>2
  <2> QED BY <2>1, <2>2, <2>3
<1>13. NoLostPrune'
  BY <1>1, <1>5, <1>12, ReturnKeeps
<1> QED BY <1>9, <1>10, <1>11, <1>13 DEF IInv

LEMMA FinishSplitInv ==
    ASSUME IInv, NEW o \in ops, NEW fits \in BOOLEAN, FinishSplit(o, fits)
    PROVE  IInv'
<1> DEFINE added == AddPane(mux, o.pane)
           m == SplitAndInsert(added, o.pane, o.at, o.tab, fits)
<1>1. /\ o.kind = "split"
      /\ mux' = DropActivities(m, o)
      /\ waiters' = waiters \cup {o.pane} /\ readers' = readers \cup {o.pane}
      /\ ops' = ops \ {o} /\ exited' = exited /\ next' = next
  BY DEF FinishSplit
<1>2. o.pane \in PaneId /\ o.tab \in TabId
  BY <1>1 DEF IInv, TypeOK, Op
<1>3. /\ added \in MuxState
      /\ added.panes = mux.panes \cup {o.pane} /\ added.tabs = mux.tabs
      /\ added.windows = mux.windows
      /\ added.tabsOf = mux.tabsOf /\ added.layout = mux.layout
      /\ added.pruneQueued = mux.pruneQueued /\ added.removals = mux.removals
  BY <1>2, AddPaneIs DEF IInv, TypeOK
<1> HIDE DEF added
<1>4. /\ m \in MuxState
      /\ m.panes = mux.panes \cup {o.pane} /\ m.tabs = mux.tabs
      /\ m.windows = mux.windows /\ m.tabsOf = mux.tabsOf
      /\ m.pruneQueued = mux.pruneQueued /\ m.removals = mux.removals
      /\ \/ m.layout = mux.layout
         \/ /\ mux.layout[o.tab] # {}
            /\ m.layout = [mux.layout EXCEPT ![o.tab] = @ \cup {o.pane}]
  <2>1. CASE fits /\ o.at \in mux.layout[o.tab]
    BY <1>2, <1>3, <2>1 DEF MuxState, SplitAndInsert
  <2>2. CASE ~(fits /\ o.at \in mux.layout[o.tab])
    BY <1>3, <2>2 DEF SplitAndInsert
  <2> QED BY <2>1, <2>2
<1> HIDE DEF m
<1>5. /\ mux' \in MuxState
      /\ mux'.panes = m.panes /\ mux'.tabs = m.tabs
      /\ mux'.windows = m.windows /\ mux'.tabsOf = m.tabsOf /\ mux'.layout = m.layout
  BY <1>1, <1>4, DropActivitiesIs
<1>6. /\ mux.layout \in [TabId -> SUBSET PaneId]
      /\ \A w \in WindowId : mux.tabsOf[w] \subseteq TabId
      /\ mux.windows \subseteq WindowId
  BY DEF IInv, TypeOK, MuxState
<1>7. \A s \in TabId : o.pane \notin mux.layout[s]
  BY DEF IInv, FreshIds
<1>8. TypeOK'
  BY <1>1, <1>2, <1>5 DEF IInv, TypeOK
<1>9. OneHome'
  <2> USE <1>2, <1>4, <1>5, <1>6, <1>7 DEF IInv, OneHome, OneHomeIn
  <2>1. \A r, s \in TabId : r # s => mux'.layout[r] \cap mux'.layout[s] = {}
    OBVIOUS
  <2>2. \A s \in TabId : s \notin mux'.tabs => mux'.layout[s] = {}
    OBVIOUS
  <2> QED BY <2>1, <2>2, Primed
<1>10. FreshIds'
  <2> USE DEF IInv, FreshIds
  <2>1. /\ \A s \in TabId : s >= next'.tab => s \notin mux'.tabs
        /\ \A w \in WindowId : w >= next'.window => w \notin mux'.windows
    BY <1>1, <1>4, <1>5
  <2>2. \A s \in TabId : \A p \in mux'.layout[s] : p < next'.pane
    BY <1>1, <1>2, <1>4, <1>5, <1>6
  <2>3. \A x \in ops', s \in TabId : x.pane \notin mux'.layout[s]
    BY <1>1, <1>2, <1>4, <1>5, <1>6
  <2>4. /\ \A x \in ops' : x.pane < next'.pane
        /\ \A x, y \in ops' : x.pane = y.pane => x = y
    BY <1>1
  <2> QED BY <2>1, <2>2, <2>3, <2>4
<1>11. ASSUME Untidy(m, exited)
       PROVE  Untidy(mux, exited) \/ waiters' \cap exited # {}
  <2> SUFFICES ASSUME o.pane \notin exited
               PROVE  Untidy(mux, exited)
    BY <1>1
  <2>1. PICK w \in m.windows :
           \/ m.tabsOf[w] = {}
           \/ \E s \in m.tabsOf[w] :
                 m.layout[s] \subseteq exited \/ Removable(m, exited, s) # {}
    BY <1>11 DEF Untidy
  <2>2. CASE m.tabsOf[w] = {}
    BY <1>4, <2>1, <2>2 DEF Untidy
  <2>3. ASSUME NEW s \in m.tabsOf[w],
               m.layout[s] \subseteq exited \/ Removable(m, exited, s) # {}
        PROVE  Untidy(mux, exited)
    <3>1. w \in mux.windows /\ s \in mux.tabsOf[w] /\ s \in TabId
      BY <1>4, <1>6, <2>1, <2>3
    <3>2. mux.layout[s] \subseteq m.layout[s] /\ m.layout[s] \subseteq mux.layout[s] \cup {o.pane}
      BY <1>2, <1>4, <1>6, <3>1
    <3>3. Removable(m, exited, s) \subseteq Removable(mux, exited, s)
      BY <1>4, <3>2 DEF Removable
    <3> QED BY <2>3, <3>1, <3>2, <3>3 DEF Untidy
  <2> QED BY <2>1, <2>2, <2>3
<1>12. NoLostPrune'
  BY <1>1, <1>4, <1>11, ReturnKeeps
<1> QED BY <1>8, <1>9, <1>10, <1>12 DEF IInv

LEMMA KillPaneInTabInv ==
    ASSUME IInv, NEW p \in PaneId, NEW t \in TabId, KillPaneInTab(p, t)
    PROVE  IInv'
<1>1. /\ mux' \in MuxState
      /\ mux'.tabs = mux.tabs /\ mux'.windows = mux.windows
      /\ mux'.tabsOf = mux.tabsOf
      /\ mux'.layout = [mux.layout EXCEPT ![t] = @ \ {p}]
      /\ mux'.removals = mux.removals \cup {p}
      /\ UNCHANGED <<next, exited, waiters, readers, ops>>
  BY DEF KillPaneInTab, QueueRemovals, IInv, TypeOK, MuxState
<1>2. \A s \in TabId : mux'.layout[s] \subseteq mux.layout[s]
  BY <1>1 DEF IInv, TypeOK, MuxState
<1>3. TypeOK'
  BY <1>1 DEF IInv, TypeOK
<1>4. OneHome'
  <2>1. \A r, s \in TabId : r # s => mux'.layout[r] \cap mux'.layout[s] = {}
    BY <1>2 DEF IInv, OneHome, OneHomeIn
  <2>2. \A s \in TabId : s \notin mux'.tabs => mux'.layout[s] = {}
    BY <1>1, <1>2 DEF IInv, OneHome, OneHomeIn
  <2> QED BY <1>1, <2>1, <2>2, Primed DEF IInv, OneHome, OneHomeIn
<1>5. FreshIds'
  BY <1>1, <1>2, FreshIdsKept DEF IInv
<1>6. NoLostPrune'
  BY <1>1, Primed
<1> QED BY <1>3, <1>4, <1>5, <1>6 DEF IInv

\* A pane that turns dead has a waiting thread, or was forgotten by the mux and
\* then its tab was untidy already.
LEMMA ChildExitsInv ==
    ASSUME IInv, NEW p \in PaneId, ChildExits(p)
    PROVE  IInv'
<1>1. /\ mux' = mux /\ exited' = exited \cup {p}
      /\ UNCHANGED <<next, waiters, readers, ops>>
      /\ p \in mux.panes => p \in waiters
  BY DEF ChildExits, MayExit
<1>2. TypeOK' /\ OneHome' /\ FreshIds'
  BY <1>1 DEF IInv, TypeOK, OneHome, OneHomeIn, FreshIds
<1>3. NoLostPrune'
  <2> SUFFICES ASSUME Untidy(mux, exited \cup {p})
               PROVE  \/ mux.pruneQueued \/ mux.removals # {}
                      \/ waiters \cap (exited \cup {p}) # {}
                      \/ \E o \in ops : o.activities # {}
    BY <1>1, Primed
  <2>1. CASE p \in mux.panes
    BY <1>1, <2>1
  <2>2. CASE p \notin mux.panes
    <3>1. \A t : Removable(mux, exited \cup {p}, t) \subseteq Removable(mux, exited, t)
      BY <2>2 DEF Removable
    <3>2. \A t : mux.layout[t] \subseteq exited \cup {p} =>
                    mux.layout[t] \subseteq exited \/ Removable(mux, exited, t) # {}
      BY <2>2 DEF Removable
    <3>3. Untidy(mux, exited)
      BY <3>1, <3>2 DEF Untidy
    <3> QED BY <3>3 DEF IInv, NoLostPrune, PrunePending, ActivityHeld
  <2> QED BY <2>1, <2>2
<1> QED BY <1>2, <1>3 DEF IInv

\* Removing panes, tabs and windows leaves the rest where it is.
LEMMA RemovePaneHome ==
    ASSUME NEW m \in MuxState, NEW p, OneHomeIn(m)
    PROVE  OneHomeIn(RemovePaneInternal(m, p))
<1> DEFINE r == RemovePaneInternal(m, p)
<1>1. r.tabs = m.tabs /\ r.windows = m.windows /\ r.tabsOf = m.tabsOf /\ r.layout = m.layout
  BY RemovePaneIs
<1> HIDE DEF r
<1>2. OneHomeIn(r)
  BY <1>1 DEF OneHomeIn
<1> QED BY <1>2 DEF r

LEMMA RemoveTabsHome ==
    ASSUME NEW m \in MuxState, NEW T, OneHomeIn(m)
    PROVE  OneHomeIn(RemoveTabsInternal(m, T))
<1> DEFINE r == RemoveTabsInternal(m, T)
           gone == T \cap m.tabs
<1>1. /\ r.tabs = m.tabs \ gone /\ r.windows = m.windows
      /\ \A w \in WindowId : r.tabsOf[w] = m.tabsOf[w] \ gone
      /\ \A t \in TabId : r.layout[t] = IF t \in gone THEN {} ELSE m.layout[t]
  BY RemoveTabsIs
<1> HIDE DEF r, gone
<1>2. OneHomeIn(r)
  BY <1>1 DEF OneHomeIn
<1> QED BY <1>2 DEF r

LEMMA RemoveWindowsHome ==
    ASSUME NEW m \in MuxState, NEW W \in SUBSET WindowId, OneHomeIn(m)
    PROVE  OneHomeIn(RemoveWindowsInternal(m, W))
<1> DEFINE r == RemoveWindowsInternal(m, W)
           gone == (UNION {m.tabsOf[w] : w \in W \cap m.windows}) \cap m.tabs
<1>1. /\ r.tabs = m.tabs \ gone /\ r.windows = m.windows \ W
      /\ \A w \in WindowId : r.tabsOf[w] = IF w \in W THEN {} ELSE m.tabsOf[w] \ gone
      /\ \A t \in TabId : r.layout[t] = IF t \in gone THEN {} ELSE m.layout[t]
  BY RemoveWindowsIs
<1> HIDE DEF r, gone
<1>2. OneHomeIn(r)
  <2>1. \A w \in WindowId : r.tabsOf[w] # {} => w \in r.windows
    <3> TAKE w \in WindowId
    <3>1. m.tabsOf[w] # {} => w \in m.windows
      BY DEF OneHomeIn
    <3> QED BY <1>1, <3>1
  <2>2. \A w \in WindowId : r.tabsOf[w] \subseteq r.tabs
    <3> TAKE w \in WindowId
    <3>1. m.tabsOf[w] \subseteq m.tabs
      BY DEF OneHomeIn
    <3> QED BY <1>1, <3>1
  <2>3. \A v, w \in WindowId : v # w => r.tabsOf[v] \cap r.tabsOf[w] = {}
    BY <1>1 DEF OneHomeIn
  <2>4. \A s, t \in TabId : s # t => r.layout[s] \cap r.layout[t] = {}
    BY <1>1 DEF OneHomeIn
  <2>5. \A t \in TabId : t \notin r.tabs => r.layout[t] = {}
    BY <1>1 DEF OneHomeIn
  <2> QED BY <2>1, <2>2, <2>3, <2>4, <2>5 DEF OneHomeIn
<1> QED BY <1>2 DEF r

\* A pane that leaves tab src for a new tab t of window w.
LEMMA MovedIs ==
    ASSUME NEW m \in MuxState, NEW p \in PaneId, NEW src \in TabId,
           NEW t \in TabId, NEW w \in WindowId, OneHomeIn(m),
           src # t, t \notin m.tabs, p \in m.layout[src], w \in m.windows
    PROVE  LET r == ToNewTab(m, p, src, t, w) IN
           /\ r \in MuxState /\ OneHomeIn(r)
           /\ r.panes = m.panes \cup {p} /\ r.tabs = m.tabs \cup {t}
           /\ r.windows = m.windows
           /\ r.tabsOf = [m.tabsOf EXCEPT ![w] = @ \cup {t}]
           /\ \A s \in TabId : r.layout[s] = IF s = t THEN {p} ELSE m.layout[s] \ {p}
           /\ r.pruneQueued = m.pruneQueued /\ r.removals = m.removals
<1> DEFINE shifted == [m EXCEPT !.layout[src] = @ \ {p}, !.layout[t] = {p},
                                !.tabs = @ \cup {t}]
           tabbed == AddPane(shifted, p)
           moved == AddTabToWindow(tabbed, t, w)
<1>1. /\ m.layout \in [TabId -> SUBSET PaneId]
      /\ m.tabsOf \in [WindowId -> SUBSET TabId]
  BY DEF MuxState
<1>2. /\ shifted \in MuxState
      /\ shifted.panes = m.panes /\ shifted.tabs = m.tabs \cup {t}
      /\ shifted.windows = m.windows /\ shifted.tabsOf = m.tabsOf
      /\ shifted.layout = [[m.layout EXCEPT ![src] = @ \ {p}] EXCEPT ![t] = {p}]
      /\ shifted.pruneQueued = m.pruneQueued /\ shifted.removals = m.removals
  BY DEF MuxState
<1> HIDE DEF shifted
<1>3. /\ tabbed \in MuxState
      /\ tabbed.panes = shifted.panes \cup {p} /\ tabbed.tabs = shifted.tabs
      /\ tabbed.windows = shifted.windows /\ tabbed.tabsOf = shifted.tabsOf
      /\ tabbed.layout = shifted.layout
      /\ tabbed.pruneQueued = shifted.pruneQueued
      /\ tabbed.removals = shifted.removals
  BY <1>2, AddPaneIs
<1> HIDE DEF tabbed
<1>4. /\ moved \in MuxState
      /\ moved.panes = tabbed.panes /\ moved.tabs = tabbed.tabs
      /\ moved.windows = tabbed.windows
      /\ moved.tabsOf = [tabbed.tabsOf EXCEPT ![w] = @ \cup {t}]
      /\ moved.layout = tabbed.layout
      /\ moved.pruneQueued = tabbed.pruneQueued /\ moved.removals = tabbed.removals
  BY <1>3, AddTabToWindowIs
<1> HIDE DEF moved
<1>5. \A s \in TabId : moved.layout[s] = IF s = t THEN {p} ELSE m.layout[s] \ {p}
  <2>1. \A s \in TabId : s # src => p \notin m.layout[s]
    BY DEF OneHomeIn
  <2>2. moved.layout = [[m.layout EXCEPT ![src] = @ \ {p}] EXCEPT ![t] = {p}]
    BY <1>2, <1>3, <1>4
  <2> QED BY <1>1, <2>1, <2>2
<1>6. /\ moved.panes = m.panes \cup {p} /\ moved.tabs = m.tabs \cup {t}
      /\ moved.windows = m.windows
      /\ moved.tabsOf = [m.tabsOf EXCEPT ![w] = @ \cup {t}]
      /\ moved.pruneQueued = m.pruneQueued /\ moved.removals = m.removals
  BY <1>2, <1>3, <1>4
<1>7. OneHomeIn(moved)
  <2>1. \A v \in WindowId : moved.tabsOf[v] # {} => v \in moved.windows
    <3> TAKE v \in WindowId
    <3> QED BY <1>1, <1>6 DEF OneHomeIn
  <2>2. \A v \in WindowId : moved.tabsOf[v] \subseteq moved.tabs
    <3> TAKE v \in WindowId
    <3> QED BY <1>1, <1>6 DEF OneHomeIn
  <2>3. \A u, v \in WindowId : u # v => moved.tabsOf[u] \cap moved.tabsOf[v] = {}
    <3>1. \A v \in WindowId : t \notin m.tabsOf[v]
      BY DEF OneHomeIn
    <3> TAKE u, v \in WindowId
    <3> QED BY <1>1, <1>6, <3>1 DEF OneHomeIn
  <2>4. \A r, s \in TabId : r # s => moved.layout[r] \cap moved.layout[s] = {}
    <3> TAKE r, s \in TabId
    <3>1. r # s => m.layout[r] \cap m.layout[s] = {}
      BY DEF OneHomeIn
    <3> QED BY <1>5, <3>1
  <2>5. \A s \in TabId : s \notin moved.tabs => moved.layout[s] = {}
    <3> TAKE s \in TabId
    <3> QED BY <1>5, <1>6 DEF OneHomeIn
  <2> QED BY <2>1, <2>2, <2>3, <2>4, <2>5 DEF OneHomeIn
<1>8. moved = ToNewTab(m, p, src, t, w)
  BY DEF moved, tabbed, shifted, ToNewTab
<1> QED BY <1>4, <1>5, <1>6, <1>7, <1>8

\* move_pane_to_new_tab, with m either mux or mux with the new window.
LEMMA MovePaneInv ==
    ASSUME IInv, NEW m \in MuxState,
           m.panes = mux.panes, m.tabs = mux.tabs, m.tabsOf = mux.tabsOf,
           m.layout = mux.layout, m.removals = mux.removals,
           mux.windows \subseteq m.windows,
           \/ m.pruneQueued = TRUE
           \/ m.windows = mux.windows /\ m.pruneQueued = mux.pruneQueued,
           NEW p \in PaneId, NEW src \in TabId,
           NEW w \in WindowId, w \in m.windows,
           NEW held, held => ActivityHeld \/ m.pruneQueued = TRUE,
           ResolvesTo(mux, p, src), MovePane(m, p, src, w, held),
           next' \in [pane : 1..(MaxPane + 1), tab : 1..(MaxTab + 1),
                      window : 1..(MaxWindow + 1)],
           next'.pane = next.pane, next'.tab = next.tab + 1,
           \A v \in WindowId : v >= next'.window => v \notin m.windows
    PROVE  IInv'
<1>0. PICK t \in TabId : t = next.tab
  BY BoundsAssumption DEF IInv, TypeOK, TabId, MovePane
<1> DEFINE moved == ToNewTab(m, p, src, t, w)
<1>1. /\ t <= MaxTab
      /\ readers' \in {readers, readers \cup {p}}
      /\ waiters' = waiters /\ ops' = ops
      /\ IF moved.layout[src] \subseteq exited
         THEN PruneDeadWindows(RemoveTabsInternal(moved, {src}), held)
         ELSE mux' = moved /\ exited' = exited
  BY <1>0 DEF MovePane
<1>2. t \in Nat /\ t = next.tab
  BY <1>0, BoundsAssumption DEF TabId
<1>3. /\ mux.layout \in [TabId -> SUBSET PaneId]
      /\ mux.tabsOf \in [WindowId -> SUBSET TabId]
      /\ mux.tabs \subseteq TabId /\ mux.windows \subseteq WindowId
      /\ m.windows \subseteq WindowId
  BY DEF IInv, TypeOK, MuxState
<1>4. /\ src \in mux.tabs /\ p \in mux.layout[src]
      /\ \E v \in mux.windows : src \in mux.tabsOf[v]
  BY DEF ResolvesTo, WindowedTabs
<1>5. t \notin mux.tabs /\ src # t
  BY <1>2, <1>4 DEF IInv, FreshIds
<1>6. OneHomeIn(m)
  BY DEF IInv, OneHome, OneHomeIn
<1>7. /\ moved \in MuxState /\ OneHomeIn(moved)
      /\ moved.panes = m.panes \cup {p} /\ moved.tabs = m.tabs \cup {t}
      /\ moved.windows = m.windows
      /\ moved.tabsOf = [m.tabsOf EXCEPT ![w] = @ \cup {t}]
      /\ \A s \in TabId : moved.layout[s] = IF s = t THEN {p} ELSE m.layout[s] \ {p}
      /\ moved.pruneQueued = m.pruneQueued /\ moved.removals = m.removals
  <2>1. t \notin m.tabs /\ p \in m.layout[src]
    BY <1>4, <1>5
  <2> QED BY <1>5, <1>6, <2>1, MovedIs
<1> HIDE DEF moved
<1>8. moved \in MuxState
  BY <1>7
<1>9. /\ moved.panes = mux.panes \cup {p} /\ moved.tabs = mux.tabs \cup {t}
      /\ moved.windows = m.windows
      /\ moved.tabsOf = [mux.tabsOf EXCEPT ![w] = @ \cup {t}]
      /\ \A s \in TabId : moved.layout[s] =
            IF s = t THEN {p} ELSE mux.layout[s] \ {p}
      /\ moved.pruneQueued = m.pruneQueued /\ moved.removals = mux.removals
  BY <1>7
<1>10. OneHomeIn(moved)
  BY <1>7
<1> DEFINE cut == RemoveTabsInternal(moved, {src})
<1>11. /\ cut \in MuxState /\ OneHomeIn(cut)
       /\ cut.tabs \subseteq moved.tabs /\ cut.windows = moved.windows
       /\ \A s \in TabId : cut.layout[s] \subseteq moved.layout[s]
       /\ cut.pruneQueued = moved.pruneQueued
  BY <1>7, RemoveTabsIs, RemoveTabsHome
<1> HIDE DEF cut
\* What the step comes to, whether or not the source tab was left dead.
<1>12. /\ mux' \in MuxState /\ OneHomeIn(mux') /\ exited' \subseteq PaneId
       /\ mux'.tabs \subseteq moved.tabs /\ mux'.windows \subseteq moved.windows
       /\ \A s \in TabId : mux'.layout[s] \subseteq moved.layout[s]
       /\ mux'.pruneQueued = moved.pruneQueued
       /\ \/ held
          \/ mux' = moved /\ exited' = exited /\ ~(moved.layout[src] \subseteq exited)
          \/ Untidy(mux', exited') => mux'.removals # {} \/ waiters \cap exited' # {}
  <2>0. exited \subseteq PaneId
    BY DEF IInv, TypeOK
  <2>1. CASE moved.layout[src] \subseteq exited
    <3>1. PruneDeadWindows(cut, held)
      BY <1>1, <2>1 DEF cut
    <3>2. /\ mux' \in MuxState
          /\ OneHomeIn(mux')
          /\ mux'.tabs \subseteq cut.tabs /\ mux'.windows \subseteq cut.windows
          /\ \A s \in TabId : mux'.layout[s] \subseteq cut.layout[s]
          /\ mux'.pruneQueued = cut.pruneQueued
          /\ exited' \subseteq PaneId
          /\ \/ held
             \/ Untidy(mux', exited') =>
                   mux'.removals # {} \/ waiters \cap exited' # {}
      BY <1>11, <2>0, <3>1, PruneDeadWindowsIs
    <3> QED BY <1>11, <3>2
  <2>2. CASE ~(moved.layout[src] \subseteq exited)
    BY <1>1, <1>8, <1>10, <2>0, <2>2
  <2> QED BY <2>1, <2>2
<1>13. TypeOK'
  BY <1>1, <1>12 DEF IInv, TypeOK
<1>14. OneHome'
  BY <1>12, Primed
<1>15. FreshIds'
  <2> USE DEF IInv, FreshIds
  <2>1. \A s \in TabId : s >= next'.tab => s \notin mux'.tabs
    <3>1. t = next.tab /\ t \in Nat /\ next'.tab = t + 1
      BY <1>2
    <3> TAKE s \in TabId
    <3>2. s \in Nat
      BY IdTypes
    <3>3. s >= t + 1 => s >= t /\ s # t
      BY <3>1, <3>2
    <3> QED BY <1>9, <1>12, <3>1, <3>3
  <2>2. \A v \in WindowId : v >= next'.window => v \notin mux'.windows
    BY <1>9, <1>12
  <2> HIDE DEF FreshIds
  <2>0. \A s \in TabId : \A x \in mux'.layout[s] : \E r \in TabId : x \in mux.layout[r]
    <3> TAKE s \in TabId
    <3> TAKE x \in mux'.layout[s]
    <3>1. x = p \/ x \in mux.layout[s]
      BY <1>9, <1>12
    <3> QED BY <1>4, <3>1
  <2>3. \A s \in TabId : \A x \in mux'.layout[s] : x < next'.pane
    BY <2>0 DEF FreshIds
  <2>4. \A o \in ops', s \in TabId : o.pane \notin mux'.layout[s]
    BY <1>1, <2>0 DEF FreshIds
  <2> USE DEF FreshIds
  <2>5. /\ \A o \in ops' : o.pane < next'.pane
        /\ \A o1, o2 \in ops' : o1.pane = o2.pane => o1 = o2
    BY <1>1
  <2> QED BY <2>1, <2>2, <2>3, <2>4, <2>5
\* A dead or forgotten pane that moves was as untidy where it came from.
<1>16. ASSUME Untidy(moved, exited), m.windows = mux.windows,
              ~(moved.layout[src] \subseteq exited)
       PROVE  Untidy(mux, exited)
  <2>1. ASSUME p \in exited \/ p \notin mux.panes PROVE Untidy(mux, exited)
    <3>1. p \in Removable(mux, exited, src)
      BY <1>4, <2>1 DEF Removable
    <3> QED BY <1>4, <3>1 DEF Untidy
  <2>2. ASSUME p \notin exited, p \in mux.panes PROVE Untidy(mux, exited)
    <3>1. PICK v \in moved.windows :
             \/ moved.tabsOf[v] = {}
             \/ \E s \in moved.tabsOf[v] :
                   moved.layout[s] \subseteq exited \/ Removable(moved, exited, s) # {}
      BY <1>16 DEF Untidy
    <3>2. v \in mux.windows /\ v \in WindowId
      BY <1>3, <1>9, <1>16, <3>1
    <3>3. CASE moved.tabsOf[v] = {}
      BY <1>2, <1>3, <1>9, <3>2, <3>3 DEF Untidy
    <3>4. ASSUME NEW s \in moved.tabsOf[v],
                 moved.layout[s] \subseteq exited \/ Removable(moved, exited, s) # {}
          PROVE  Untidy(mux, exited)
      <4>1. s \in TabId /\ s # t /\ s \in mux.tabsOf[v]
        <5>1. CASE s = t
          <6>1. moved.layout[s] = {p}
            BY <1>2, <1>9, <5>1
          <6> QED BY <1>9, <2>2, <3>4, <6>1 DEF Removable
        <5>2. CASE s # t
          BY <1>2, <1>3, <1>9, <3>2, <3>4, <5>2
        <5> QED BY <5>1, <5>2
      <4>2. moved.layout[s] = mux.layout[s] \ {p}
        BY <1>9, <4>1
      <4>3. Removable(moved, exited, s) \subseteq Removable(mux, exited, s)
        BY <1>9, <4>2 DEF Removable
      <4>4. CASE s = src
        BY <1>16, <3>2, <3>4, <4>1, <4>3, <4>4 DEF Untidy
      <4>5. CASE s # src
        <5>1. p \notin mux.layout[s]
          BY <1>4, <4>1, <4>5 DEF IInv, OneHome, OneHomeIn
        <5>2. moved.layout[s] = mux.layout[s]
          BY <4>2, <5>1
        <5> QED BY <3>2, <3>4, <4>1, <4>3, <5>2 DEF Untidy
      <4> QED BY <4>4, <4>5
    <3> QED BY <3>1, <3>3, <3>4
  <2> QED BY <2>1, <2>2
<1>17. NoLostPrune'
  <2> SUFFICES ASSUME Untidy(mux', exited')
               PROVE  \/ mux'.pruneQueued \/ mux'.removals # {}
                      \/ waiters' \cap exited' # {}
                      \/ \E o \in ops' : o.activities # {}
    BY Primed
  <2>1. CASE m.pruneQueued = TRUE
    BY <1>9, <1>12, <2>1
  <2>2. CASE ~(m.pruneQueued = TRUE)
    <3>1. CASE held
      BY <1>1, <2>2, <3>1 DEF ActivityHeld
    <3>2. CASE mux' = moved /\ exited' = exited /\ ~(moved.layout[src] \subseteq exited)
      <4>1. Untidy(mux, exited)
        BY <1>16, <2>2, <3>2
      <4>2. PrunePending
        BY <4>1 DEF IInv, NoLostPrune
      <4> QED BY <1>1, <1>9, <2>2, <3>2, <4>2 DEF PrunePending, ActivityHeld
    <3>3. CASE Untidy(mux', exited') => mux'.removals # {} \/ waiters \cap exited' # {}
      BY <1>1, <3>3
    <3> QED BY <1>12, <3>1, <3>2, <3>3
  <2> QED BY <2>1, <2>2
<1> QED BY <1>13, <1>14, <1>15, <1>17 DEF IInv

\* split_and_insert of a pane that is in no tab: it makes a tab untidy only by
\* being dead or unknown itself.
LEMMA SplitAndInsertIs ==
    ASSUME NEW m \in MuxState, OneHomeIn(m), NEW p \in PaneId, NEW q,
           NEW t \in TabId, NEW fits, \A s \in TabId : p \notin m.layout[s]
    PROVE  LET r == SplitAndInsert(m, p, q, t, fits) IN
           /\ r \in MuxState /\ OneHomeIn(r)
           /\ r.tabs = m.tabs /\ r.windows = m.windows
           /\ \A s \in TabId : r.layout[s] \subseteq m.layout[s] \cup {p}
           /\ r.pruneQueued = m.pruneQueued /\ r.removals = m.removals
           /\ \A dead : Untidy(r, dead) =>
                  p \in dead \/ p \notin m.panes \/ Untidy(m, dead)
<1> DEFINE r == SplitAndInsert(m, p, q, t, fits)
<1>1. /\ r \in MuxState
      /\ r.panes = m.panes /\ r.tabs = m.tabs
      /\ r.windows = m.windows /\ r.tabsOf = m.tabsOf
      /\ r.pruneQueued = m.pruneQueued /\ r.removals = m.removals
      /\ \/ r.layout = m.layout
         \/ m.layout[t] # {} /\ r.layout = [m.layout EXCEPT ![t] = @ \cup {p}]
  <2>1. CASE fits /\ q \in m.layout[t]
    BY <2>1 DEF MuxState, SplitAndInsert
  <2>2. CASE ~(fits /\ q \in m.layout[t])
    BY <2>2 DEF SplitAndInsert
  <2> QED BY <2>1, <2>2
<1> HIDE DEF r
<1>2. /\ m.layout \in [TabId -> SUBSET PaneId]
      /\ m.windows \subseteq WindowId
      /\ m.tabsOf \in [WindowId -> SUBSET TabId]
  BY DEF MuxState
<1>3. \A s \in TabId : /\ m.layout[s] \subseteq r.layout[s]
                       /\ r.layout[s] \subseteq m.layout[s] \cup {p}
  BY <1>1, <1>2
<1>4. OneHomeIn(r)
  <2>1. \A s, u \in TabId : s # u => r.layout[s] \cap r.layout[u] = {}
    <3> TAKE s, u \in TabId
    <3>1. s # u => m.layout[s] \cap m.layout[u] = {}
      BY DEF OneHomeIn
    <3> QED BY <1>1, <1>2, <3>1
  <2>2. \A s \in TabId : s \notin r.tabs => r.layout[s] = {}
    <3> TAKE s \in TabId
    <3> QED BY <1>1, <1>2 DEF OneHomeIn
  <2> QED BY <1>1, <2>1, <2>2 DEF OneHomeIn
<1>5. ASSUME NEW dead, Untidy(r, dead), p \notin dead, p \in m.panes
      PROVE  Untidy(m, dead)
  <2>1. PICK w \in m.windows :
           \/ m.tabsOf[w] = {}
           \/ \E s \in m.tabsOf[w] :
                 r.layout[s] \subseteq dead \/ Removable(r, dead, s) # {}
    BY <1>1, <1>5 DEF Untidy
  <2>2. CASE m.tabsOf[w] = {}
    BY <2>2 DEF Untidy
  <2>3. ASSUME NEW s \in m.tabsOf[w],
               r.layout[s] \subseteq dead \/ Removable(r, dead, s) # {}
        PROVE  Untidy(m, dead)
    <3>1. s \in TabId
      BY <1>2
    <3>2. Removable(r, dead, s) \subseteq Removable(m, dead, s)
      BY <1>1, <1>3, <1>5, <3>1 DEF Removable
    <3> QED BY <1>3, <2>3, <3>1, <3>2 DEF Untidy
  <2> QED BY <2>1, <2>2, <2>3
<1>6. \A dead : Untidy(r, dead) => p \in dead \/ p \notin m.panes \/ Untidy(m, dead)
  BY <1>5
<1> QED BY <1>1, <1>3, <1>4, <1>6 DEF r

LEMMA SplitMoveInv ==
    ASSUME IInv, NEW p \in PaneId, NEW q \in PaneId, NEW src \in TabId,
           NEW dst \in TabId, NEW fits \in BOOLEAN, SplitMove(p, src, q, dst, fits)
    PROVE  IInv'
<1> DEFINE taken == [mux EXCEPT !.layout[src] = @ \ {p}]
           dead == taken.layout[src] \subseteq exited
           m == IF dead THEN RemoveTabsInternal(taken, {src}) ELSE taken
<1>1. /\ UNCHANGED <<next, waiters, readers, ops>>
      /\ src \in mux.tabs /\ p \in mux.layout[src]
      /\ \E v \in mux.windows : src \in mux.tabsOf[v]
  BY DEF SplitMove, ResolvesTo, WindowedTabs
<1>2. IF dead /\ ~ActivityHeld
      THEN \E late \in SUBSET MayExit(m) : \E mid \in SUBSET late :
              /\ mux' \in {SplitAndInsert(x, p, q, dst, fits) : x \in
                    PruneOutcomes(m, exited, exited \cup mid, exited \cup late)}
              /\ exited' = exited \cup late
      ELSE mux' = SplitAndInsert(m, p, q, dst, fits) /\ exited' = exited
  BY DEF SplitMove
<1>3. mux \in MuxState /\ OneHomeIn(mux) /\ exited \subseteq PaneId
  BY DEF IInv, TypeOK, OneHome
<1>4. /\ mux.layout \in [TabId -> SUBSET PaneId]
      /\ \A w \in WindowId : mux.tabsOf[w] \subseteq TabId
      /\ mux.windows \subseteq WindowId
  BY <1>3 DEF MuxState
<1>5. /\ taken \in MuxState
      /\ taken.panes = mux.panes /\ taken.tabs = mux.tabs
      /\ taken.windows = mux.windows /\ taken.tabsOf = mux.tabsOf
      /\ taken.layout = [mux.layout EXCEPT ![src] = @ \ {p}]
      /\ taken.pruneQueued = mux.pruneQueued /\ taken.removals = mux.removals
  BY <1>3 DEF MuxState
<1> HIDE DEF taken
<1>6. \A s \in TabId : taken.layout[s] = mux.layout[s] \ {p}
  <2>1. \A s \in TabId : s # src => p \notin mux.layout[s]
    BY <1>1, <1>3 DEF OneHomeIn
  <2> QED BY <1>4, <1>5, <2>1
<1>7. OneHomeIn(taken)
  BY <1>3, <1>5, <1>6 DEF OneHomeIn
<1>8. /\ m \in MuxState /\ OneHomeIn(m)
      /\ m.tabs \subseteq mux.tabs /\ m.windows = mux.windows
      /\ \A s \in TabId : m.layout[s] \subseteq mux.layout[s] \ {p}
      /\ p \in mux.panes => p \in m.panes
      /\ m.pruneQueued = mux.pruneQueued /\ m.removals = mux.removals
  <2>1. CASE dead
    <3> DEFINE c == RemoveTabsInternal(taken, {src})
    <3>0. taken \in MuxState
      BY <1>5
    <3>1. /\ c \in MuxState
          /\ c.tabs \subseteq taken.tabs /\ c.windows = taken.windows
          /\ \A s \in TabId : c.layout[s] \subseteq taken.layout[s]
          /\ c.pruneQueued = taken.pruneQueued /\ c.removals = taken.removals
      BY <3>0, RemoveTabsIs
    <3>2. OneHomeIn(c)
      BY <1>7, <3>0, RemoveTabsHome
    <3>4. p \in taken.panes => p \in c.panes
      <4>1. c.panes = taken.panes \ UNION {taken.layout[s] : s \in {src} \cap taken.tabs}
        BY <3>0, RemoveTabsIs
      <4>2. \A s \in {src} \cap taken.tabs : p \notin taken.layout[s]
        BY <1>6
      <4> HIDE DEF c
      <4> QED BY <4>1, <4>2
    <3>3. m = c
      BY <2>1
    <3> HIDE DEF c, m
    <3> QED BY <1>5, <1>6, <3>1, <3>2, <3>3, <3>4
  <2>2. CASE ~dead
    BY <1>5, <1>6, <1>7, <2>2
  <2> QED BY <2>1, <2>2
<1> HIDE DEF m
\* The Mux object just before split_and_insert.
<1>9. PICK x \in MuxState :
        /\ OneHomeIn(x) /\ mux' = SplitAndInsert(x, p, q, dst, fits)
        /\ x.tabs \subseteq mux.tabs /\ x.windows \subseteq mux.windows
        /\ \A s \in TabId : x.layout[s] \subseteq mux.layout[s] \ {p}
        /\ p \in mux.panes => p \in x.panes
        /\ x.pruneQueued = mux.pruneQueued /\ mux.removals \subseteq x.removals
        /\ exited \subseteq exited' /\ exited' \subseteq PaneId
        /\ p \in exited' => p \in exited
        /\ \/ ActivityHeld
           \/ ~dead /\ x = m /\ exited' = exited
           \/ Untidy(x, exited') => x.removals # {} \/ waiters \cap exited' # {}
  <2>1. CASE dead /\ ~ActivityHeld
    <3>1. PICK late \in SUBSET MayExit(m) : \E mid \in SUBSET late :
             /\ mux' \in {SplitAndInsert(x, p, q, dst, fits) : x \in
                   PruneOutcomes(m, exited, exited \cup mid, exited \cup late)}
             /\ exited' = exited \cup late
      BY <1>2, <2>1
    <3>2. PICK mid \in SUBSET late :
             mux' \in {SplitAndInsert(x, p, q, dst, fits) : x \in
                   PruneOutcomes(m, exited, exited \cup mid, exited \cup late)}
      BY <3>1
    <3>3. PICK x \in PruneOutcomes(m, exited, exited \cup mid, exited \cup late) :
             mux' = SplitAndInsert(x, p, q, dst, fits)
      BY <3>2
    <3>4. /\ x \in MuxState
          /\ OneHomeIn(x)
          /\ x.tabs \subseteq m.tabs /\ x.windows \subseteq m.windows
          /\ \A s \in TabId : x.layout[s] \subseteq m.layout[s]
          /\ m.panes \subseteq x.panes \cup UNION {m.layout[s] : s \in TabId}
          /\ x.pruneQueued = m.pruneQueued /\ m.removals \subseteq x.removals
          /\ exited \cup late \subseteq PaneId
          /\ Untidy(x, exited \cup late) =>
               x.removals # {} \/ waiters \cap (exited \cup late) # {}
      BY <1>3, <1>8, PruneIs
    <3>5. p \notin UNION {m.layout[s] : s \in TabId}
      BY <1>8
    <3>6. p \notin late
      <4>1. m.tabs \subseteq TabId
        BY <1>8 DEF MuxState
      <4> QED BY <3>5, <4>1 DEF MayExit
    <3> QED BY <1>8, <3>1, <3>3, <3>4, <3>5, <3>6
  <2>2. CASE ~(dead /\ ~ActivityHeld)
    <3>1. mux' = SplitAndInsert(m, p, q, dst, fits) /\ exited' = exited
      BY <1>2, <2>2
    <3>2. ActivityHeld \/ ~dead
      BY <2>2
    <3> HIDE DEF dead
    <3> QED BY <1>3, <1>8, <3>1, <3>2
  <2> QED BY <2>1, <2>2
<1>10. /\ mux' \in MuxState /\ OneHomeIn(mux')
       /\ mux'.tabs = x.tabs /\ mux'.windows = x.windows
       /\ \A s \in TabId : mux'.layout[s] \subseteq x.layout[s] \cup {p}
       /\ mux'.pruneQueued = x.pruneQueued /\ mux'.removals = x.removals
       /\ Untidy(mux', exited') =>
             p \in exited' \/ p \notin x.panes \/ Untidy(x, exited')
  <2>1. \A s \in TabId : p \notin x.layout[s]
    BY <1>9
  <2>2. LET r == SplitAndInsert(x, p, q, dst, fits) IN
        /\ r \in MuxState /\ OneHomeIn(r)
        /\ r.tabs = x.tabs /\ r.windows = x.windows
        /\ \A s \in TabId : r.layout[s] \subseteq x.layout[s] \cup {p}
        /\ r.pruneQueued = x.pruneQueued /\ r.removals = x.removals
        /\ \A d : Untidy(r, d) => p \in d \/ p \notin x.panes \/ Untidy(x, d)
    BY <1>9, <2>1, SplitAndInsertIs
  <2> QED BY <1>9, <2>2
<1>11. TypeOK'
  BY <1>1, <1>9, <1>10 DEF IInv, TypeOK
<1>12. OneHome'
  BY <1>10, Primed
<1>13. FreshIds'
  <2>1. \A s \in TabId : \A y \in mux'.layout[s] : \E r \in TabId : y \in mux.layout[r]
    <3> TAKE s \in TabId
    <3> TAKE y \in mux'.layout[s]
    <3>1. y = p \/ y \in mux.layout[s]
      BY <1>9, <1>10
    <3> QED BY <1>1, <3>1
  <2>2. mux'.tabs \subseteq mux.tabs /\ mux'.windows \subseteq mux.windows
    BY <1>9, <1>10
  <2>3. /\ \A t \in TabId : t >= next'.tab => t \notin mux'.tabs
        /\ \A w \in WindowId : w >= next'.window => w \notin mux'.windows
    BY <1>1, <2>2 DEF IInv, FreshIds
  <2>4. \A s \in TabId : \A y \in mux'.layout[s] : y < next'.pane
    BY <1>1, <2>1 DEF IInv, FreshIds
  <2>5. \A o \in ops', s \in TabId : o.pane \notin mux'.layout[s]
    BY <1>1, <2>1 DEF IInv, FreshIds
  <2>6. /\ \A o \in ops' : o.pane < next'.pane
        /\ \A o1, o2 \in ops' : o1.pane = o2.pane => o1 = o2
    BY <1>1 DEF IInv, FreshIds
  <2> QED BY <2>3, <2>4, <2>5, <2>6 DEF FreshIds
<1>14. ASSUME ~dead, x = m, Untidy(x, exited) PROVE Untidy(mux, exited)
  <2>1. x = taken
    BY <1>14 DEF m
  <2>2. PICK w \in mux.windows :
           \/ mux.tabsOf[w] = {}
           \/ \E s \in mux.tabsOf[w] :
                 taken.layout[s] \subseteq exited \/ Removable(taken, exited, s) # {}
    BY <1>5, <1>14, <2>1 DEF Untidy
  <2>3. CASE mux.tabsOf[w] = {}
    BY <2>3 DEF Untidy
  <2>4. ASSUME NEW s \in mux.tabsOf[w],
               taken.layout[s] \subseteq exited \/ Removable(taken, exited, s) # {}
        PROVE  Untidy(mux, exited)
    <3>1. s \in TabId
      BY <1>4
    <3>2. Removable(taken, exited, s) \subseteq Removable(mux, exited, s)
      BY <1>5, <1>6, <3>1 DEF Removable
    <3>3. taken.layout[s] \subseteq exited => s # src
      BY <1>14
    <3>4. s # src => taken.layout[s] = mux.layout[s]
      BY <1>4, <1>5, <3>1
    <3> QED BY <2>4, <3>2, <3>3, <3>4 DEF Untidy
  <2> QED BY <2>2, <2>3, <2>4
<1>15. NoLostPrune'
  <2> SUFFICES ASSUME Untidy(mux', exited'), ~ActivityHeld
               PROVE  mux'.pruneQueued \/ mux'.removals # {} \/ waiters \cap exited' # {}
    BY <1>1, Primed DEF ActivityHeld
  <2>1. ASSUME Untidy(mux, exited)
        PROVE  mux'.pruneQueued \/ mux'.removals # {} \/ waiters \cap exited' # {}
    <3>1. PrunePending
      BY <2>1 DEF IInv, NoLostPrune
    <3>2. mux'.pruneQueued = mux.pruneQueued /\ mux.removals \subseteq mux'.removals
      BY <1>9, <1>10
    <3> QED BY <1>9, <3>1, <3>2 DEF PrunePending
  <2>2. CASE p \in exited \/ p \notin mux.panes
    <3>1. p \in Removable(mux, exited, src)
      BY <1>1, <2>2 DEF Removable
    <3>2. Untidy(mux, exited)
      BY <1>1, <3>1 DEF Untidy
    <3> QED BY <2>1, <3>2
  <2>3. CASE p \notin exited /\ p \in mux.panes
    <3>1. Untidy(x, exited')
      BY <1>9, <1>10, <2>3
    <3>2. CASE ~dead /\ x = m /\ exited' = exited
      BY <1>14, <2>1, <3>1, <3>2
    <3>3. CASE Untidy(x, exited') => x.removals # {} \/ waiters \cap exited' # {}
      BY <1>10, <3>1, <3>3
    <3> QED BY <1>9, <3>2, <3>3
  <2> QED BY <2>2, <2>3
<1> QED BY <1>11, <1>12, <1>13, <1>15 DEF IInv

(***************************************************************************)
(* The theorems.                                                           *)
(***************************************************************************)
LEMMA NextInv == IInv /\ [Next]_vars => IInv'
<1> SUFFICES ASSUME IInv, [Next]_vars PROVE IInv'
  OBVIOUS
<1> USE DEF IInv
<1>0. mux \in MuxState /\ OneHomeIn(mux)
  BY DEF TypeOK, OneHome
<1> HIDE DEF IInv
<1>1. ASSUME NEW w \in WindowId, NEW gui \in BOOLEAN, StartSpawnTab(w, gui) PROVE IInv'
  BY <1>1, StartSpawnTabInv
<1>2. ASSUME NEW ws \in Workspaces, NEW gui \in BOOLEAN, StartSpawnWindow(ws, gui)
      PROVE  IInv'
  BY <1>2, StartSpawnWindowInv
<1>3. ASSUME NEW o \in ops, FinishSpawn(o) PROVE IInv'
  BY <1>3, FinishSpawnInv
<1>4. ASSUME NEW o \in ops, FailSpawn(o) PROVE IInv'
  <2>1. LET r == DropActivities(mux, o) IN
        /\ r \in MuxState
        /\ r.panes = mux.panes /\ r.tabs = mux.tabs /\ r.windows = mux.windows
        /\ r.tabsOf = mux.tabsOf /\ r.layout = mux.layout
        /\ r.removals = mux.removals
        /\ r.pruneQueued = (mux.pruneQueued \/ o.activities # {})
    BY <1>0, DropActivitiesIs
  <2>2. /\ mux' = DropActivities(mux, o) /\ ops' = ops \ {o}
        /\ UNCHANGED <<next, exited, waiters, readers>>
    BY <1>4 DEF FailSpawn
  <2>3. CASE o.activities = {}
    <3>1. mux' = mux
      BY <2>2, <2>3 DEF DropActivities
    <3> QED BY <1>0, <2>2, <2>3, <3>1, QueueStep
  <2>4. CASE o.activities # {}
    <3>1. mux'.pruneQueued
      BY <2>1, <2>2, <2>4
    <3> QED BY <2>1, <2>2, <3>1, QueueStep
  <2> QED BY <2>3, <2>4
<1>5. ASSUME NEW q \in PaneId, NEW t \in TabId, NEW gui \in BOOLEAN, StartSplit(q, t, gui)
      PROVE  IInv'
  BY <1>5, StartSplitInv
<1>6. ASSUME NEW o \in ops, NEW fits \in BOOLEAN, FinishSplit(o, fits) PROVE IInv'
  BY <1>6, FinishSplitInv
<1>7. ASSUME NEW w \in WindowId, KillWindow(w) PROVE IInv'
  <2> DEFINE m == RemoveWindowsInternal(mux, {w})
  <2>1. /\ m \in MuxState /\ OneHomeIn(m)
        /\ m.tabs \subseteq mux.tabs /\ m.windows \subseteq mux.windows
        /\ \A t \in TabId : m.layout[t] \subseteq mux.layout[t]
    BY <1>0, RemoveWindowsIs, RemoveWindowsHome
  <2>2. PruneDeadWindows(m, ActivityHeld) /\ UNCHANGED <<next, waiters, readers, ops>>
    BY <1>7 DEF KillWindow
  <2> HIDE DEF m
  <2> QED BY <2>1, <2>2, PruneStep
<1>8. ASSUME NEW t \in TabId, RemoveTab(t) PROVE IInv'
  <2> DEFINE m == RemoveTabsInternal(mux, {t})
  <2>1. /\ m \in MuxState /\ OneHomeIn(m)
        /\ m.tabs \subseteq mux.tabs /\ m.windows \subseteq mux.windows
        /\ \A s \in TabId : m.layout[s] \subseteq mux.layout[s]
    BY <1>0, RemoveTabsIs, RemoveTabsHome
  <2>2. PruneDeadWindows(m, ActivityHeld) /\ UNCHANGED <<next, waiters, readers, ops>>
    BY <1>8 DEF RemoveTab
  <2> HIDE DEF m
  <2> QED BY <2>1, <2>2, PruneStep
<1>9. ASSUME NEW p \in PaneId, RemovePane(p) PROVE IInv'
  <2> DEFINE m == RemovePaneInternal(mux, p)
  <2>1. /\ m \in MuxState /\ OneHomeIn(m)
        /\ m.tabs \subseteq mux.tabs /\ m.windows \subseteq mux.windows
        /\ \A s \in TabId : m.layout[s] \subseteq mux.layout[s]
    BY <1>0, RemovePaneIs, RemovePaneHome
  <2>2. PruneDeadWindows(m, ActivityHeld) /\ UNCHANGED <<next, waiters, readers, ops>>
    BY <1>9 DEF RemovePane
  <2> HIDE DEF m
  <2> QED BY <2>1, <2>2, PruneStep
<1>10. ASSUME NEW p \in PaneId, NEW t \in TabId, KillPaneInTab(p, t) PROVE IInv'
  BY <1>10, KillPaneInTabInv
<1>11. ASSUME NEW p \in PaneId, NEW t \in TabId, NEW w \in WindowId, MovePaneToTab(p, t, w)
       PROVE  IInv'
  <2>1. /\ ResolvesTo(mux, p, t) /\ w \in mux.windows
        /\ MovePane(mux, p, t, w, ActivityHeld) /\ next.tab <= MaxTab
        /\ next' = [next EXCEPT !.tab = @ + 1]
    BY <1>11 DEF MovePaneToTab, MovePane
  <2>2. /\ next' \in [pane : 1..(MaxPane + 1), tab : 1..(MaxTab + 1),
                      window : 1..(MaxWindow + 1)]
        /\ next'.pane = next.pane /\ next'.tab = next.tab + 1
        /\ next'.window = next.window
    BY <2>1, BoundsAssumption DEF IInv, TypeOK
  <2>3. \A v \in WindowId : v >= next'.window => v \notin mux.windows
    BY <2>2 DEF IInv, FreshIds
  <2> QED BY <1>0, <2>1, <2>2, <2>3, MovePaneInv
<1>12. ASSUME NEW p \in PaneId, NEW t \in TabId, NEW ws \in Workspaces,
              MovePaneToWindow(p, t, ws)
       PROVE  IInv'
  <2> DEFINE w == next.window
             fresh == NewEmptyWindow(mux, w, ws)
             m == QueuePrune(fresh)
  <2>1. /\ ResolvesTo(mux, p, t) /\ w <= MaxWindow
        /\ MovePane(m, p, t, w, TRUE) /\ next.tab <= MaxTab
        /\ next' = [next EXCEPT !.tab = @ + 1, !.window = @ + 1]
    BY <1>12 DEF MovePaneToWindow, MovePane
  <2>2. w \in WindowId /\ w \in Nat
    BY <2>1, BoundsAssumption DEF IInv, TypeOK, WindowId
  <2>3. /\ next' \in [pane : 1..(MaxPane + 1), tab : 1..(MaxTab + 1),
                      window : 1..(MaxWindow + 1)]
        /\ next'.pane = next.pane /\ next'.tab = next.tab + 1
        /\ next'.window = w + 1
    <3>1. next.tab + 1 \in 1..(MaxTab + 1) /\ next.window + 1 \in 1..(MaxWindow + 1)
      BY <2>1, BoundsAssumption DEF IInv, TypeOK
    <3> QED BY <2>1, <3>1 DEF IInv, TypeOK
  <2>4. PICK v \in WindowId : v = w
    BY <2>2
  <2>5. /\ fresh \in MuxState
        /\ fresh.panes = mux.panes /\ fresh.tabs = mux.tabs
        /\ fresh.windows = mux.windows \cup {w}
        /\ fresh.tabsOf = mux.tabsOf /\ fresh.layout = mux.layout
        /\ fresh.removals = mux.removals
    BY <1>0, <2>2, NewEmptyWindowIs
  <2> HIDE DEF fresh
  <2>6. /\ m \in MuxState
        /\ m.panes = mux.panes /\ m.tabs = mux.tabs /\ m.windows = mux.windows \cup {w}
        /\ m.tabsOf = mux.tabsOf /\ m.layout = mux.layout
        /\ m.removals = mux.removals /\ m.pruneQueued = TRUE
    BY <2>5 DEF QueuePrune, MuxState
  <2>7. \A u \in WindowId : u >= next'.window => u \notin m.windows
    <3> TAKE u \in WindowId
    <3>1. u \in Nat /\ (u >= w => u \notin mux.windows)
      BY IdTypes DEF IInv, FreshIds
    <3>2. u >= w + 1 => u >= w /\ u # w
      BY <2>2, <3>1
    <3> QED BY <2>3, <2>6, <3>1, <3>2
  <2>8. PICK n \in MuxState : n = m
    BY <2>6
  <2>9. MovePane(n, p, t, v, TRUE)
    BY <2>1, <2>4, <2>8
  <2> HIDE DEF m, w
  <2> QED BY <2>1, <2>3, <2>4, <2>6, <2>7, <2>8, <2>9, MovePaneInv
<1>13. ASSUME NEW p \in PaneId, NEW q \in PaneId, NEW src \in TabId, NEW dst \in TabId,
              NEW fits \in BOOLEAN, SplitMove(p, src, q, dst, fits)
       PROVE  IInv'
  BY <1>13, SplitMoveInv
<1>14. ASSUME NEW w \in WindowId, NEW ws \in Workspaces, SetWindowWorkspace(w, ws)
       PROVE  IInv'
  <2>1. /\ mux' \in MuxState
        /\ mux'.panes = mux.panes /\ mux'.tabs = mux.tabs
        /\ mux'.windows = mux.windows /\ mux'.tabsOf = mux.tabsOf
        /\ mux'.layout = mux.layout
        /\ mux'.pruneQueued = mux.pruneQueued /\ mux'.removals = mux.removals
        /\ UNCHANGED <<next, exited, waiters, readers, ops>>
    BY <1>0, <1>14 DEF SetWindowWorkspace, MuxState
  <2> QED BY <2>1, QueueStep
<1>15. ASSUME NEW old \in Workspaces, NEW new \in Workspaces, RenameWorkspace(old, new)
       PROVE  IInv'
  <2> DEFINE m == [mux EXCEPT !.workspaceOf = [w \in WindowId |->
                      IF w \in mux.windows /\ mux.workspaceOf[w] = old
                      THEN new ELSE mux.workspaceOf[w]]]
  <2>1. /\ m \in MuxState
        /\ m.panes = mux.panes /\ m.tabs = mux.tabs /\ m.windows = mux.windows
        /\ m.tabsOf = mux.tabsOf /\ m.layout = mux.layout
        /\ m.pruneQueued = mux.pruneQueued /\ m.removals = mux.removals
    BY <1>0 DEF MuxState
  <2>2. /\ mux' = RecomputePaneCount(m)
        /\ UNCHANGED <<next, exited, waiters, readers, ops>>
    BY <1>15 DEF RenameWorkspace
  <2> HIDE DEF m
  <2>3. /\ mux' \in MuxState
        /\ mux'.panes = m.panes /\ mux'.tabs = m.tabs /\ mux'.windows = m.windows
        /\ mux'.tabsOf = m.tabsOf /\ mux'.layout = m.layout
        /\ mux'.pruneQueued = m.pruneQueued /\ mux'.removals = m.removals
    BY <2>1, <2>2, RecomputeIs
  <2> QED BY <2>1, <2>2, <2>3, QueueStep
<1>16. ASSUME NEW p \in PaneId, ChildExits(p) PROVE IInv'
  BY <1>16, ChildExitsInv
<1>17. ASSUME NEW p \in PaneId, WaiterPosts(p) PROVE IInv'
  <2>1. /\ mux' \in MuxState
        /\ mux'.panes = mux.panes /\ mux'.tabs = mux.tabs
        /\ mux'.windows = mux.windows /\ mux'.tabsOf = mux.tabsOf
        /\ mux'.layout = mux.layout /\ mux'.pruneQueued
        /\ waiters' \subseteq waiters
        /\ UNCHANGED <<next, exited, readers, ops>>
    BY <1>0, <1>17 DEF WaiterPosts, QueuePrune, MuxState
  <2> QED BY <2>1, QueueStep
<1>18. ASSUME NEW p \in PaneId, ReaderPosts(p) PROVE IInv'
  <2>1. /\ mux' \in {QueuePrune(mux), QueueRemovals(mux, {p})}
        /\ readers' \subseteq readers
        /\ UNCHANGED <<next, exited, waiters, ops>>
    BY <1>18 DEF ReaderPosts
  <2>2. /\ mux' \in MuxState
        /\ mux'.panes = mux.panes /\ mux'.tabs = mux.tabs
        /\ mux'.windows = mux.windows /\ mux'.tabsOf = mux.tabsOf
        /\ mux'.layout = mux.layout
        /\ mux'.pruneQueued \/ mux'.removals # {}
    BY <1>0, <2>1, QueueIs
  <2> QED BY <2>1, <2>2, QueueStep
<1>19. ASSUME NEW more \in BOOLEAN, RunPrune(more) PROVE IInv'
  <2> DEFINE m == [mux EXCEPT !.pruneQueued = more]
  <2>1. /\ m \in MuxState
        /\ m.tabs = mux.tabs /\ m.windows = mux.windows
        /\ m.tabsOf = mux.tabsOf /\ m.layout = mux.layout
    BY <1>0 DEF MuxState
  <2>2. PruneDeadWindows(m, ActivityHeld) /\ UNCHANGED <<next, waiters, readers, ops>>
    BY <1>19 DEF RunPrune
  <2> HIDE DEF m
  <2>3. OneHomeIn(m)
    BY <1>0, <2>1 DEF OneHomeIn
  <2> QED BY <2>1, <2>2, <2>3, PruneStep
<1>20. ASSUME NEW p \in PaneId, NEW more \in BOOLEAN, RunRemovePane(p, more) PROVE IInv'
  <2> DEFINE n == [mux EXCEPT !.removals = IF more THEN @ ELSE @ \ {p}]
             m == RemovePaneInternal(n, p)
  <2>1. /\ n \in MuxState
        /\ n.tabs = mux.tabs /\ n.windows = mux.windows
        /\ n.tabsOf = mux.tabsOf /\ n.layout = mux.layout
    BY <1>0 DEF MuxState
  <2>2. PruneDeadWindows(m, ActivityHeld) /\ UNCHANGED <<next, waiters, readers, ops>>
    BY <1>20 DEF RunRemovePane
  <2> HIDE DEF n
  <2>3. OneHomeIn(n)
    BY <1>0, <2>1 DEF OneHomeIn
  <2>4. /\ m \in MuxState /\ OneHomeIn(m)
        /\ m.tabs = n.tabs /\ m.windows = n.windows /\ m.layout = n.layout
    BY <2>1, <2>3, RemovePaneIs, RemovePaneHome
  <2> HIDE DEF m
  <2> QED BY <2>1, <2>2, <2>4, PruneStep
<1>21. ASSUME UNCHANGED vars PROVE IInv'
  <2>1. /\ mux' = mux
        /\ UNCHANGED <<next, exited, waiters, readers, ops>>
    BY <1>21 DEF vars
  <2> QED BY <1>0, <2>1, QueueStep
<1> QED
  BY <1>1, <1>2, <1>3, <1>4, <1>5, <1>6, <1>7, <1>8, <1>9, <1>10, <1>11, <1>12,
     <1>13, <1>14, <1>15, <1>16, <1>17, <1>18, <1>19, <1>20, <1>21
  DEF Next

\* Every reachable state satisfies the inductive invariant.
THEOREM Invariance == Spec => []IInv
<1>1. Init => IInv
  BY InitInv
<1>2. IInv /\ [Next]_vars => IInv'
  BY NextInv
<1> QED BY <1>1, <1>2, PTL DEF Spec

\* The state of the mux has its type.
THEOREM TypeCorrect == Spec => []TypeOK
<1>1. IInv => TypeOK
  BY DEF IInv
<1> QED BY <1>1, Invariance, PTL

\* No spawn, split, move, kill, prune or exit ever leaves a pane in two tabs or
\* a tab in two windows, or a window with a tab that the mux does not know.
THEOREM HomesCorrect == Spec => []OneHome
<1>1. IInv => OneHome
  BY DEF IInv
<1> QED BY <1>1, Invariance, PTL

\* No pane, tab or window id is handed out twice.
THEOREM IdsCorrect == Spec => []FreshIds
<1>1. IInv => FreshIds
  BY DEF IInv
<1> QED BY <1>1, Invariance, PTL

\* Whatever a prune has to skip, another prune is on its way.
THEOREM PrunesCorrect == Spec => []NoLostPrune
<1>1. IInv => NoLostPrune
  BY DEF IInv
<1> QED BY <1>1, Invariance, PTL

(***************************************************************************)
(* The cache of the pane counts.  It is right, or a tab of some window has *)
(* lost its last pane: whoever takes that tab away refreshes the cache,    *)
(* and until then the tab is untidy, so that a prune is pending.           *)
(***************************************************************************)
Exact(m) == m.occupied = ActuallyOccupied(m)

Cached(m) == Exact(m) \/ \E w \in m.windows : \E t \in m.tabsOf[w] : m.layout[t] = {}

\* recompute_pane_count makes the cache right.
LEMMA RecomputeExact ==
    ASSUME NEW m \in MuxState
    PROVE  Exact(RecomputePaneCount(m))
<1> DEFINE r == RecomputePaneCount(m)
<1>1. r.occupied = ActuallyOccupied(m)
  BY DEF RecomputePaneCount, MuxState
<1>2. /\ r.windows = m.windows /\ r.tabsOf = m.tabsOf /\ r.workspaceOf = m.workspaceOf
      /\ r.layout = m.layout
  BY RecomputeIs
<1> HIDE DEF r
<1>3. ActuallyOccupied(r) = ActuallyOccupied(m)
  BY <1>2 DEF ActuallyOccupied
<1> QED BY <1>1, <1>3 DEF Exact, r

\* What the cache counts is which tabs of the windows have panes.
LEMMA SameCached ==
    ASSUME NEW m, NEW r, Cached(m),
           r.occupied = m.occupied, r.windows = m.windows, r.tabsOf = m.tabsOf,
           \A w \in m.windows : r.workspaceOf[w] = m.workspaceOf[w],
           \A w \in m.windows : \A t \in m.tabsOf[w] :
              r.layout[t] = {} <=> m.layout[t] = {}
    PROVE  Cached(r)
<1>1. ActuallyOccupied(r) = ActuallyOccupied(m)
  BY DEF ActuallyOccupied
<1> QED BY <1>1 DEF Cached, Exact

\* remove_pane ends with recompute_pane_count.
LEMMA RemovePaneCached ==
    ASSUME NEW m \in MuxState, Cached(m), NEW p
    PROVE  Cached(RemovePaneInternal(m, p))
<1>1. [m EXCEPT !.panes = @ \ {p}] \in MuxState
  BY DEF MuxState
<1> QED BY <1>1, RecomputeExact DEF RemovePaneInternal, Cached

\* So does add_pane.
LEMMA AddPaneCached ==
    ASSUME NEW m \in MuxState, Cached(m), NEW p \in PaneId
    PROVE  Cached(AddPane(m, p))
<1>1. [m EXCEPT !.panes = @ \cup {p}] \in MuxState
  BY DEF MuxState
<1> QED BY <1>1, RecomputeExact DEF AddPane, Cached

\* So does add_tab_to_window.
LEMMA AddTabToWindowExact ==
    ASSUME NEW m \in MuxState, NEW t \in TabId, NEW w \in WindowId
    PROVE  Exact(AddTabToWindow(m, t, w))
<1>1. [m EXCEPT !.tabsOf[w] = @ \cup {t}] \in MuxState
  BY DEF MuxState
<1> QED BY <1>1, RecomputeExact DEF AddTabToWindow

\* remove_tab recounts when there was a tab to remove, and else changes nothing.
LEMMA RemoveTabsExact ==
    ASSUME NEW m \in MuxState, NEW T
    PROVE  IF T \cap m.tabs = {} THEN RemoveTabsInternal(m, T) = m
           ELSE Exact(RemoveTabsInternal(m, T))
<1> DEFINE gone == T \cap m.tabs
           n == [m EXCEPT !.tabs = @ \ gone,
                          !.tabsOf = [w \in WindowId |-> m.tabsOf[w] \ gone],
                          !.layout = [t \in TabId |->
                                          IF t \in gone THEN {} ELSE m.layout[t]],
                          !.panes = @ \ UNION {m.layout[t] : t \in gone}]
<1>1. n \in MuxState
  BY DEF MuxState
<1>2. CASE gone = {}
  BY <1>2 DEF RemoveTabsInternal
<1>3. CASE gone # {}
  <2>1. RemoveTabsInternal(m, T) = RecomputePaneCount(n)
    BY <1>3 DEF RemoveTabsInternal
  <2> HIDE DEF n
  <2> QED BY <1>1, <1>3, <2>1, RecomputeExact
<1> QED BY <1>2, <1>3

\* The same of windows, with their tabs.
LEMMA RemoveWindowsExact ==
    ASSUME NEW m \in MuxState, NEW W \in SUBSET WindowId
    PROVE  IF W = {} THEN RemoveWindowsInternal(m, W) = m
           ELSE Exact(RemoveWindowsInternal(m, W))
<1> DEFINE closed == [m EXCEPT !.windows = @ \ W,
                               !.workspaceOf = [w \in WindowId |->
                                   IF w \in W THEN AnyWorkspace ELSE m.workspaceOf[w]],
                               !.tabsOf = [w \in WindowId |->
                                   IF w \in W THEN {} ELSE m.tabsOf[w]]]
           n == RemoveTabsInternal(closed, UNION {m.tabsOf[w] : w \in W \cap m.windows})
<1>1. closed \in MuxState
  BY IdTypes DEF MuxState
<1>2. n \in MuxState
  <2> HIDE DEF closed
  <2> QED BY <1>1, RemoveTabsIs
<1>3. CASE W # {}
  <2>1. RemoveWindowsInternal(m, W) = RecomputePaneCount(n)
    BY <1>3 DEF RemoveWindowsInternal
  <2> HIDE DEF n
  <2> QED BY <1>2, <1>3, <2>1, RecomputeExact
<1> QED BY <1>3 DEF RemoveWindowsInternal

\* A prune either takes a tab or a window away, which refreshes the cache, or
\* leaves a pane in every tab.
LEMMA PruneCached ==
    ASSUME NEW m \in MuxState, OneHomeIn(m), Cached(m), NEW dead,
           NEW later, NEW latest, later \subseteq latest,
           NEW r \in PruneOutcomes(m, dead, later, latest)
    PROVE  Cached(r)
<1>1. PICK gone \in PrunablePanes(m, dead) :
         r = ReapDead(PruneDeadTabs(TakeFromLayout(m, gone), later), latest)
  BY DEF PruneOutcomes
<1>2. gone \in SUBSET PaneId
  BY DEF PrunablePanes, Removable, WindowedTabs, MuxState
<1> DEFINE a == TakeFromLayout(m, gone)
           b == PruneDeadTabs(a, later)
           D == {t \in b.tabs : b.layout[t] \subseteq latest}
           W == {w \in b.windows : b.tabsOf[w] = {}}
<1>3. /\ a \in MuxState /\ a.tabs = m.tabs /\ a.windows = m.windows
      /\ a.tabsOf = m.tabsOf
      /\ \A t \in TabId : a.layout[t] \subseteq m.layout[t]
      /\ a.occupied = m.occupied /\ a.workspaceOf = m.workspaceOf
  <2>1. a.occupied = m.occupied /\ a.workspaceOf = m.workspaceOf
    BY DEF TakeFromLayout, QueueRemovals, MuxState
  <2>2. /\ a \in MuxState /\ a.tabs = m.tabs /\ a.windows = m.windows
        /\ a.tabsOf = m.tabsOf
        /\ \A t \in TabId : a.layout[t] = IF t \in WindowedTabs(m) THEN m.layout[t] \ gone
                                         ELSE m.layout[t]
    BY <1>2, TakeFromLayoutIs
  <2> QED BY <2>1, <2>2
<1> HIDE DEF a
<1>4. /\ b \in MuxState /\ b.tabs = a.tabs /\ b.windows = a.windows
      /\ b.layout = a.layout
      /\ \A w \in WindowId : b.tabsOf[w] =
            {t \in a.tabsOf[w] : t \in a.tabs /\ ~(a.layout[t] \subseteq later)}
      /\ b.occupied = a.occupied /\ b.workspaceOf = a.workspaceOf
  <2>1. b.occupied = a.occupied /\ b.workspaceOf = a.workspaceOf
    BY <1>3 DEF PruneDeadTabs, MuxState
  <2> QED BY <1>3, <2>1, PruneDeadTabsIs
<1> HIDE DEF b
<1> DEFINE n == RemoveTabsInternal(b, D)
<1>5. r = RemoveWindowsInternal(n, W)
  BY <1>1 DEF ReapDead, a, b
<1>6. n \in MuxState /\ W \in SUBSET WindowId /\ D \cap b.tabs = D
  BY <1>4, RemoveTabsIs DEF MuxState
<1>7. CASE W # {}
  <2> HIDE DEF n, W
  <2> QED BY <1>5, <1>6, <1>7, RemoveWindowsExact DEF Cached
<1>8. CASE W = {} /\ D # {}
  <2>1. Exact(n)
    BY <1>4, <1>6, <1>8, RemoveTabsExact
  <2>2. r = n
    <3> HIDE DEF n, W
    <3> QED BY <1>5, <1>6, <1>8, RemoveWindowsExact
  <2> QED BY <2>1, <2>2 DEF Cached
<1>9. CASE W = {} /\ D = {}
  <2>1. n = b
    BY <1>4, <1>6, <1>9, RemoveTabsExact
  <2>2. r = b
    <3> HIDE DEF n, W
    <3> QED BY <1>5, <1>6, <1>9, <2>1, RemoveWindowsExact
  <2>3. \A t \in m.tabs : b.layout[t] # {} /\ m.layout[t] # {} /\ ~(b.layout[t] \subseteq later)
    BY <1>3, <1>4, <1>9 DEF MuxState
  <2>4. b.tabsOf = m.tabsOf
    <3>1. ASSUME NEW w \in WindowId PROVE b.tabsOf[w] = m.tabsOf[w]
      <4>1. m.tabsOf[w] \subseteq m.tabs
        BY DEF OneHomeIn
      <4>2. b.tabsOf[w] = {t \in m.tabsOf[w] : t \in m.tabs /\ ~(b.layout[t] \subseteq later)}
        BY <1>3, <1>4
      <4> QED BY <2>3, <4>1, <4>2
    <3>2. b.tabsOf \in [WindowId -> SUBSET TabId] /\ m.tabsOf \in [WindowId -> SUBSET TabId]
      BY <1>4 DEF MuxState
    <3> QED BY <3>1, <3>2
  <2>5. \A w \in m.windows : m.tabsOf[w] \subseteq m.tabs
    BY DEF OneHomeIn, MuxState
  <2> QED BY <1>3, <1>4, <2>2, <2>3, <2>4, <2>5, SameCached
<1> QED BY <1>7, <1>8, <1>9

\* prune_dead_windows is a prune unless an Activity holds it back.
LEMMA PruneDeadWindowsCached ==
    ASSUME NEW m \in MuxState, OneHomeIn(m), Cached(m), NEW held, PruneDeadWindows(m, held)
    PROVE  Cached(mux')
<1>1. CASE held
  BY <1>1 DEF PruneDeadWindows
<1>2. CASE ~held
  <2>1. PICK late \in SUBSET MayExit(m) : \E mid \in SUBSET late :
           mux' \in PruneOutcomes(m, exited, exited \cup mid, exited \cup late)
    BY <1>2 DEF PruneDeadWindows
  <2>2. PICK mid \in SUBSET late :
           mux' \in PruneOutcomes(m, exited, exited \cup mid, exited \cup late)
    BY <2>1
  <2>3. exited \cup mid \subseteq exited \cup late
    OBVIOUS
  <2> QED BY <2>2, <2>3, PruneCached
<1> QED BY <1>1, <1>2

\* split_and_insert gives a pane to a tab that has one, or to none.
LEMMA SplitAndInsertCached ==
    ASSUME NEW m \in MuxState, Cached(m), NEW p, NEW q, NEW t \in TabId, NEW fits
    PROVE  Cached(SplitAndInsert(m, p, q, t, fits))
<1>1. CASE fits /\ q \in m.layout[t]
  <2> DEFINE r == [m EXCEPT !.layout[t] = @ \cup {p}]
  <2>1. /\ r.occupied = m.occupied /\ r.windows = m.windows /\ r.tabsOf = m.tabsOf
        /\ r.workspaceOf = m.workspaceOf /\ r.layout = [m.layout EXCEPT ![t] = @ \cup {p}]
    BY DEF MuxState
  <2>2. \A s \in TabId : r.layout[s] = {} <=> m.layout[s] = {}
    BY <1>1, <2>1 DEF MuxState
  <2>3. \A w \in m.windows : m.tabsOf[w] \subseteq TabId
    BY DEF MuxState
  <2>4. SplitAndInsert(m, p, q, t, fits) = r
    BY <1>1 DEF SplitAndInsert
  <2> HIDE DEF r
  <2> QED BY <2>1, <2>2, <2>3, <2>4, SameCached
<1>2. CASE ~(fits /\ q \in m.layout[t])
  BY <1>2 DEF SplitAndInsert
<1> QED BY <1>1, <1>2

\* Queuing closures leaves the cache, and what it counts, as they are.
LEMMA QueueCached ==
    ASSUME NEW m \in MuxState, Cached(m)
    PROVE  /\ Cached(QueuePrune(m))
           /\ \A P : Cached(QueueRemovals(m, P))
           /\ \A o : Cached(DropActivities(m, o))
           /\ \A b \in BOOLEAN : Cached([m EXCEPT !.pruneQueued = b])
           /\ \A P \in SUBSET PaneId : Cached([m EXCEPT !.removals = P])
<1>1. ASSUME NEW P PROVE Cached([m EXCEPT !.removals = P])
  <2> DEFINE r == [m EXCEPT !.removals = P]
  <2>1. r.occupied = m.occupied /\ r.windows = m.windows /\ r.tabsOf = m.tabsOf
        /\ r.workspaceOf = m.workspaceOf /\ r.layout = m.layout
    BY DEF MuxState
  <2> HIDE DEF r
  <2>2. Cached(r)
    BY <2>1, SameCached
  <2> QED BY <2>2 DEF r
<1>2. ASSUME NEW b PROVE Cached([m EXCEPT !.pruneQueued = b])
  <2> DEFINE r == [m EXCEPT !.pruneQueued = b]
  <2>1. r.occupied = m.occupied /\ r.windows = m.windows /\ r.tabsOf = m.tabsOf
        /\ r.workspaceOf = m.workspaceOf /\ r.layout = m.layout
    BY DEF MuxState
  <2> HIDE DEF r
  <2>2. Cached(r)
    BY <2>1, SameCached
  <2> QED BY <2>2 DEF r
<1>3. Cached(QueuePrune(m))
  BY <1>2 DEF QueuePrune
<1>4. \A o : Cached(DropActivities(m, o))
  BY <1>3 DEF DropActivities
<1>5. \A P : Cached(QueueRemovals(m, P))
  BY <1>1 DEF QueueRemovals
<1> QED BY <1>1, <1>2, <1>3, <1>4, <1>5

\* An empty window has no pane for the cache to count.
LEMMA NewEmptyWindowCached ==
    ASSUME NEW m \in MuxState, OneHomeIn(m), Cached(m), NEW w \in WindowId \ m.windows,
           NEW ws \in Workspaces
    PROVE  Cached(NewEmptyWindow(m, w, ws))
<1> DEFINE r == NewEmptyWindow(m, w, ws)
<1>1. /\ r.occupied = m.occupied /\ r.windows = m.windows \cup {w} /\ r.tabsOf = m.tabsOf
      /\ r.layout = m.layout
      /\ \A v \in m.windows : r.workspaceOf[v] = m.workspaceOf[v]
  BY DEF NewEmptyWindow, MuxState
<1>2. m.tabsOf[w] = {}
  BY DEF OneHomeIn
<1> HIDE DEF r
<1>3. ActuallyOccupied(r) = ActuallyOccupied(m)
  BY <1>1, <1>2 DEF ActuallyOccupied
<1>4. Cached(r)
  BY <1>1, <1>3 DEF Cached, Exact
<1> QED BY <1>4 DEF r

\* ToNewTab ends with add_tab_to_window.
LEMMA ToNewTabExact ==
    ASSUME NEW m \in MuxState, NEW p \in PaneId, NEW src \in TabId, NEW t \in TabId,
           NEW w \in WindowId
    PROVE  Exact(ToNewTab(m, p, src, t, w))
<1> DEFINE shifted == [m EXCEPT !.layout[src] = @ \ {p}, !.layout[t] = {p},
                                !.tabs = @ \cup {t}]
           tabbed == AddPane(shifted, p)
<1>1. shifted \in MuxState
  BY DEF MuxState
<1>2. tabbed \in MuxState
  <2> HIDE DEF shifted
  <2> QED BY <1>1, AddPaneIs
<1>3. ToNewTab(m, p, src, t, w) = AddTabToWindow(tabbed, t, w)
  BY DEF ToNewTab
<1> HIDE DEF tabbed
<1> QED BY <1>2, <1>3, AddTabToWindowExact

\* The tail of move_pane_to_new_tab.
LEMMA MovePaneCached ==
    ASSUME NEW m \in MuxState, OneHomeIn(m), NEW p \in PaneId, NEW src \in TabId,
           NEW w \in m.windows, NEW held, p \in m.layout[src], next.tab \in TabId,
           src # next.tab, next.tab \notin m.tabs, MovePane(m, p, src, w, held)
    PROVE  Cached(mux')
<1> DEFINE moved == ToNewTab(m, p, src, next.tab, w)
<1>1. w \in WindowId
  BY DEF MuxState
<1>2. moved \in MuxState /\ OneHomeIn(moved)
  BY <1>1, MovedIs
<1>3. Cached(moved)
  BY <1>1, ToNewTabExact DEF Cached
<1>4. IF moved.layout[src] \subseteq exited
      THEN PruneDeadWindows(RemoveTabsInternal(moved, {src}), held)
      ELSE mux' = moved
  BY DEF MovePane
<1> HIDE DEF moved
<1> DEFINE m2 == RemoveTabsInternal(moved, {src})
<1>5. m2 \in MuxState /\ OneHomeIn(m2) /\ Cached(m2)
  BY <1>2, <1>3, RemoveTabsIs, RemoveTabsHome, RemoveTabsExact DEF Cached
<1> HIDE DEF m2
<1>6. moved.layout[src] \subseteq exited => Cached(mux')
  BY <1>4, <1>5, PruneDeadWindowsCached DEF m2
<1> QED BY <1>3, <1>4, <1>6

\* A tab that was windowed is not the one that is about to be made.
LEMMA NewTabIsNew ==
    ASSUME IInv, NEW t \in mux.tabs, next.tab <= MaxTab
    PROVE  next.tab \in TabId /\ next.tab \notin mux.tabs /\ t # next.tab /\ t \in TabId
<1>1. next.tab \in TabId
  BY BoundsAssumption DEF IInv, TypeOK, TabId
<1>2. next.tab \notin mux.tabs
  BY <1>1 DEF IInv, FreshIds, TabId
<1> QED BY <1>1, <1>2 DEF IInv, TypeOK, MuxState

\* move_pane_to_new_tab into a window that exists, or into one of its own.
LEMMA MovesCached ==
    ASSUME IInv, Cached(mux), NEW p \in PaneId, NEW src \in TabId,
           \/ \E w \in WindowId : MovePaneToTab(p, src, w)
           \/ \E ws \in Workspaces : MovePaneToWindow(p, src, ws)
    PROVE  Cached(mux')
<1>1. mux \in MuxState /\ OneHomeIn(mux)
  BY DEF IInv, TypeOK, OneHome
<1>2. ASSUME NEW w \in WindowId, MovePaneToTab(p, src, w) PROVE Cached(mux')
  <2>1. /\ src \in mux.tabs /\ p \in mux.layout[src] /\ w \in mux.windows
        /\ MovePane(mux, p, src, w, ActivityHeld) /\ next.tab <= MaxTab
    BY <1>2 DEF MovePaneToTab, ResolvesTo, MovePane
  <2>2. next.tab \in TabId /\ next.tab \notin mux.tabs /\ src # next.tab
    BY <2>1, NewTabIsNew
  <2> QED BY <1>1, <2>1, <2>2, MovePaneCached
<1>3. ASSUME NEW ws \in Workspaces, MovePaneToWindow(p, src, ws) PROVE Cached(mux')
  <2> DEFINE w == next.window
             n == NewEmptyWindow(mux, w, ws)
             m == QueuePrune(n)
  <2>1. /\ src \in mux.tabs /\ p \in mux.layout[src] /\ w <= MaxWindow
        /\ MovePane(m, p, src, w, TRUE) /\ next.tab <= MaxTab
    BY <1>3 DEF MovePaneToWindow, ResolvesTo, MovePane
  <2>2. next.tab \in TabId /\ next.tab \notin mux.tabs /\ src # next.tab
    BY <2>1, NewTabIsNew
  <2>3. w \in WindowId
    BY <2>1, BoundsAssumption DEF IInv, TypeOK, WindowId
  <2>4. /\ n \in MuxState
        /\ n.panes = mux.panes /\ n.tabs = mux.tabs /\ n.windows = mux.windows \cup {w}
        /\ n.tabsOf = mux.tabsOf /\ n.layout = mux.layout
    BY <1>1, <2>3, NewEmptyWindowIs
  <2> HIDE DEF n
  <2>5. /\ m \in MuxState /\ m.tabs = mux.tabs /\ m.windows = mux.windows \cup {w}
        /\ m.tabsOf = mux.tabsOf /\ m.layout = mux.layout
    BY <2>4 DEF QueuePrune, MuxState
  <2> HIDE DEF m
  <2>6. OneHomeIn(m) /\ w \in m.windows /\ p \in m.layout[src] /\ next.tab \notin m.tabs
    BY <1>1, <2>1, <2>2, <2>5 DEF OneHomeIn
  <2> QED BY <2>1, <2>2, <2>5, <2>6, MovePaneCached
<1> QED BY <1>2, <1>3

\* split_pane that moves a pane.
LEMMA SplitMoveCached ==
    ASSUME IInv, Cached(mux), NEW p \in PaneId, NEW q \in PaneId, NEW src \in TabId,
           NEW dst \in TabId, NEW fits \in BOOLEAN, SplitMove(p, src, q, dst, fits)
    PROVE  Cached(mux')
<1> DEFINE taken == [mux EXCEPT !.layout[src] = @ \ {p}]
           dead == taken.layout[src] \subseteq exited
           m == IF dead THEN RemoveTabsInternal(taken, {src}) ELSE taken
<1>1. mux \in MuxState /\ OneHomeIn(mux) /\ exited \subseteq PaneId
  BY DEF IInv, TypeOK, OneHome
<1>2. IF dead /\ ~ActivityHeld
      THEN \E late \in SUBSET MayExit(m) : \E mid \in SUBSET late :
              mux' \in {SplitAndInsert(x, p, q, dst, fits) : x \in
                    PruneOutcomes(m, exited, exited \cup mid, exited \cup late)}
      ELSE mux' = SplitAndInsert(m, p, q, dst, fits)
  BY DEF SplitMove
<1>3. src \in mux.tabs
  BY DEF SplitMove, ResolvesTo
<1>4. /\ taken \in MuxState /\ taken.tabs = mux.tabs /\ taken.occupied = mux.occupied
      /\ taken.windows = mux.windows /\ taken.tabsOf = mux.tabsOf
      /\ taken.workspaceOf = mux.workspaceOf
      /\ taken.layout = [mux.layout EXCEPT ![src] = @ \ {p}]
  BY <1>1 DEF MuxState
<1> HIDE DEF taken
<1>5. OneHomeIn(taken)
  <2>1. mux.layout \in [TabId -> SUBSET PaneId]
    BY <1>1 DEF MuxState
  <2>2. \A s \in TabId : taken.layout[s] \subseteq mux.layout[s]
    BY <1>4, <2>1
  <2>3. \A s, t \in TabId : s # t => taken.layout[s] \cap taken.layout[t] = {}
    BY <1>1, <2>2 DEF OneHomeIn
  <2>4. \A t \in TabId : t \notin taken.tabs => taken.layout[t] = {}
    BY <1>1, <1>4, <2>2 DEF OneHomeIn
  <2> QED BY <1>1, <1>4, <2>3, <2>4 DEF OneHomeIn
<1>6. m \in MuxState /\ OneHomeIn(m) /\ Cached(m)
  <2>1. CASE dead
    <3>1. m = RemoveTabsInternal(taken, {src}) /\ {src} \cap taken.tabs # {}
      BY <1>3, <1>4, <2>1
    <3> QED BY <1>4, <1>5, <3>1, RemoveTabsIs, RemoveTabsHome, RemoveTabsExact DEF Cached
  <2>2. CASE ~dead
    <3>1. m = taken
      BY <2>2
    <3>2. \A t \in TabId : taken.layout[t] = {} <=> mux.layout[t] = {}
      BY <1>1, <1>4, <2>2 DEF MuxState
    <3>3. \A w \in mux.windows : mux.tabsOf[w] \subseteq TabId
      BY <1>1 DEF MuxState
    <3>4. Cached(taken)
      BY <1>4, <3>2, <3>3, SameCached
    <3> QED BY <1>4, <1>5, <3>1, <3>4
  <2> QED BY <2>1, <2>2
<1> HIDE DEF m, dead
<1>7. CASE dead /\ ~ActivityHeld
  <2>1. PICK late \in SUBSET MayExit(m) : \E mid \in SUBSET late :
           mux' \in {SplitAndInsert(x, p, q, dst, fits) : x \in
                    PruneOutcomes(m, exited, exited \cup mid, exited \cup late)}
    BY <1>2, <1>7
  <2>2. PICK mid \in SUBSET late :
           mux' \in {SplitAndInsert(x, p, q, dst, fits) : x \in
                    PruneOutcomes(m, exited, exited \cup mid, exited \cup late)}
    BY <2>1
  <2>3. PICK x \in PruneOutcomes(m, exited, exited \cup mid, exited \cup late) :
           mux' = SplitAndInsert(x, p, q, dst, fits)
    BY <2>2
  <2>4. exited \cup mid \subseteq exited \cup late
    OBVIOUS
  <2>5. Cached(x)
    BY <1>6, <2>4, PruneCached
  <2>6. x \in MuxState
    BY <1>1, <1>6, PruneIs
  <2> QED BY <2>3, <2>5, <2>6, SplitAndInsertCached
<1>8. CASE ~(dead /\ ~ActivityHeld)
  BY <1>2, <1>6, <1>8, SplitAndInsertCached
<1> QED BY <1>7, <1>8

\* A spawn or a split returns.
LEMMA FinishCached ==
    ASSUME IInv, Cached(mux), NEW o \in ops,
           FinishSpawn(o) \/ \E fits \in BOOLEAN : FinishSplit(o, fits)
    PROVE  Cached(mux')
<1>1. mux \in MuxState /\ OneHomeIn(mux)
  BY DEF IInv, TypeOK, OneHome
<1>2. o.pane \in PaneId
  BY DEF IInv, TypeOK, Op
<1> DEFINE added == AddPane(mux, o.pane)
<1>3. /\ added \in MuxState /\ Cached(added)
      /\ added.windows = mux.windows /\ added.tabsOf = mux.tabsOf
      /\ added.tabs = mux.tabs /\ added.layout = mux.layout
  BY <1>1, <1>2, AddPaneIs, AddPaneCached
<1> HIDE DEF added
<1>4. CASE FinishSpawn(o)
  <2> DEFINE t == next.tab
             tabbed == [added EXCEPT !.tabs = @ \cup {t}, !.layout[t] = {o.pane}]
             m == IF o.window \in mux.windows THEN AddTabToWindow(tabbed, t, o.window)
                  ELSE tabbed
  <2>1. mux' = DropActivities(m, o) /\ t <= MaxTab
    BY <1>4 DEF FinishSpawn, added
  <2>2. t \in TabId /\ t \notin mux.tabs
    <3>1. t \in TabId
      BY <2>1, BoundsAssumption DEF IInv, TypeOK, TabId
    <3> QED BY <3>1 DEF IInv, FreshIds, TabId
  <2>3. /\ tabbed \in MuxState /\ tabbed.occupied = added.occupied
        /\ tabbed.windows = added.windows /\ tabbed.tabsOf = added.tabsOf
        /\ tabbed.workspaceOf = added.workspaceOf
        /\ tabbed.layout = [added.layout EXCEPT ![t] = {o.pane}]
    BY <1>2, <1>3, <2>2 DEF MuxState
  <2> HIDE DEF tabbed
  <2>4. \A w \in added.windows : t \notin added.tabsOf[w] /\ added.tabsOf[w] \subseteq TabId
    BY <1>1, <1>3, <2>2 DEF OneHomeIn, MuxState
  <2>5. \A w \in added.windows : \A s \in added.tabsOf[w] : tabbed.layout[s] = added.layout[s]
    BY <1>3, <2>3, <2>4 DEF MuxState
  <2>6. Cached(tabbed)
    <3>1. \A w \in added.windows : \A s \in added.tabsOf[w] :
             tabbed.layout[s] = {} <=> added.layout[s] = {}
      BY <2>5
    <3> QED BY <1>3, <2>3, <3>1, SameCached
  <2>7. m \in MuxState /\ Cached(m)
    <3>1. CASE o.window \in mux.windows
      <4>1. o.window \in WindowId
        BY <1>1, <3>1 DEF MuxState
      <4>2. m = AddTabToWindow(tabbed, t, o.window)
        BY <3>1
      <4>3. AddTabToWindow(tabbed, t, o.window) \in MuxState
        BY <2>2, <2>3, <4>1, AddTabToWindowIs
      <4>4. Cached(AddTabToWindow(tabbed, t, o.window))
        BY <2>2, <2>3, <4>1, AddTabToWindowExact DEF Cached
      <4> QED BY <4>2, <4>3, <4>4
    <3>2. CASE o.window \notin mux.windows
      BY <2>3, <2>6, <3>2
    <3> QED BY <3>1, <3>2
  <2> HIDE DEF m
  <2> QED BY <2>1, <2>7, QueueCached
<1>5. ASSUME NEW fits \in BOOLEAN, FinishSplit(o, fits) PROVE Cached(mux')
  <2>1. mux' = DropActivities(SplitAndInsert(added, o.pane, o.at, o.tab, fits), o)
        /\ o.kind = "split"
    BY <1>5 DEF FinishSplit, added
  <2>2. o.tab \in TabId
    BY <2>1 DEF IInv, TypeOK, Op
  <2> DEFINE m == SplitAndInsert(added, o.pane, o.at, o.tab, fits)
  <2>3. Cached(m) /\ m \in MuxState
    <3>1. Cached(m)
      BY <1>3, <2>2, SplitAndInsertCached
    <3>2. m \in MuxState
      BY <1>2, <1>3, <2>2 DEF SplitAndInsert, MuxState
    <3> QED BY <3>1, <3>2
  <2> HIDE DEF m
  <2> QED BY <2>1, <2>3, QueueCached DEF m
<1> QED BY <1>4, <1>5

\* Every step but that of set_workspace keeps the cache right in this sense.
LEMMA NextCached ==
    ASSUME IInv, Cached(mux), [Next]_vars, "set_window_workspace" \notin Ops
    PROVE  Cached(mux')
<1>1. mux \in MuxState /\ OneHomeIn(mux)
  BY DEF IInv, TypeOK, OneHome
<1>2. ASSUME mux' = mux PROVE Cached(mux')
  BY <1>2
<1>3. ASSUME NEW ws \in Workspaces, NEW gui \in BOOLEAN, StartSpawnWindow(ws, gui)
      PROVE  Cached(mux')
  <2>1. mux' = NewEmptyWindow(mux, next.window, ws) /\ next.window <= MaxWindow
    BY <1>3 DEF StartSpawnWindow
  <2>2. next.window \in WindowId /\ next.window \notin mux.windows
    <3>1. next.window \in WindowId
      BY <2>1, BoundsAssumption DEF IInv, TypeOK, WindowId
    <3> QED BY <3>1 DEF IInv, FreshIds, WindowId
  <2> QED BY <1>1, <2>1, <2>2, NewEmptyWindowCached
<1>4. ASSUME NEW o \in ops, FailSpawn(o) PROVE Cached(mux')
  BY <1>1, <1>4, QueueCached DEF FailSpawn
<1>5. ASSUME NEW w \in WindowId, KillWindow(w) PROVE Cached(mux')
  <2> DEFINE m == RemoveWindowsInternal(mux, {w})
  <2>1. m \in MuxState /\ OneHomeIn(m) /\ Cached(m)
    BY <1>1, RemoveWindowsIs, RemoveWindowsHome, RemoveWindowsExact DEF Cached
  <2>2. PruneDeadWindows(m, ActivityHeld)
    BY <1>5 DEF KillWindow
  <2> HIDE DEF m
  <2> QED BY <2>1, <2>2, PruneDeadWindowsCached
<1>6. ASSUME NEW t \in TabId, RemoveTab(t) PROVE Cached(mux')
  <2> DEFINE m == RemoveTabsInternal(mux, {t})
  <2>1. m \in MuxState /\ OneHomeIn(m) /\ Cached(m)
    BY <1>1, RemoveTabsIs, RemoveTabsHome, RemoveTabsExact DEF Cached
  <2>2. PruneDeadWindows(m, ActivityHeld)
    BY <1>6 DEF RemoveTab
  <2> HIDE DEF m
  <2> QED BY <2>1, <2>2, PruneDeadWindowsCached
<1>7. ASSUME NEW p \in PaneId, RemovePane(p) PROVE Cached(mux')
  <2> DEFINE m == RemovePaneInternal(mux, p)
  <2>1. m \in MuxState /\ OneHomeIn(m) /\ Cached(m)
    BY <1>1, RemovePaneIs, RemovePaneHome, RemovePaneCached
  <2>2. PruneDeadWindows(m, ActivityHeld)
    BY <1>7 DEF RemovePane
  <2> HIDE DEF m
  <2> QED BY <2>1, <2>2, PruneDeadWindowsCached
<1>8. ASSUME NEW p \in PaneId, NEW t \in TabId, KillPaneInTab(p, t) PROVE Cached(mux')
  <2> DEFINE n == [mux EXCEPT !.layout[t] = @ \ {p}]
  <2>1. mux' = QueueRemovals(n, {p})
    BY <1>8 DEF KillPaneInTab
  <2>2. /\ n \in MuxState /\ n.occupied = mux.occupied /\ n.windows = mux.windows
        /\ n.tabsOf = mux.tabsOf /\ n.workspaceOf = mux.workspaceOf
        /\ n.layout = [mux.layout EXCEPT ![t] = @ \ {p}]
    BY <1>1 DEF MuxState
  <2> HIDE DEF n
  <2>3. PICK w \in mux.windows : t \in mux.tabsOf[w]
    BY <1>8 DEF KillPaneInTab, ResolvesTo, WindowedTabs
  <2>4. ASSUME n.layout[t] = {} PROVE Cached(n)
    BY <2>2, <2>3, <2>4 DEF Cached
  <2>5. ASSUME n.layout[t] # {} PROVE Cached(n)
    <3>1. \A s \in TabId : n.layout[s] = {} <=> mux.layout[s] = {}
      BY <1>1, <2>2, <2>5 DEF MuxState
    <3>2. \A v \in mux.windows : mux.tabsOf[v] \subseteq TabId
      BY <1>1 DEF MuxState
    <3> QED BY <2>2, <3>1, <3>2, SameCached
  <2>6. Cached(n)
    BY <2>4, <2>5
  <2> QED BY <2>1, <2>2, <2>6, QueueCached
<1>9. ASSUME NEW old \in Workspaces, NEW new \in Workspaces, RenameWorkspace(old, new)
      PROVE  Cached(mux')
  <2> DEFINE n == [mux EXCEPT !.workspaceOf = [w \in WindowId |->
                      IF w \in mux.windows /\ mux.workspaceOf[w] = old
                      THEN new ELSE mux.workspaceOf[w]]]
  <2>1. n \in MuxState
    BY <1>1 DEF MuxState
  <2>2. mux' = RecomputePaneCount(n)
    BY <1>9 DEF RenameWorkspace
  <2> HIDE DEF n
  <2> QED BY <2>1, <2>2, RecomputeExact DEF Cached
<1>10. ASSUME NEW p \in PaneId, ReaderPosts(p) \/ WaiterPosts(p) PROVE Cached(mux')
  <2>1. mux' = QueuePrune(mux) \/ mux' = QueueRemovals(mux, {p})
    BY <1>10 DEF ReaderPosts, WaiterPosts
  <2> QED BY <1>1, <2>1, QueueCached
<1>11. ASSUME NEW more \in BOOLEAN, RunPrune(more) PROVE Cached(mux')
  <2> DEFINE m == [mux EXCEPT !.pruneQueued = more]
  <2>1. m \in MuxState /\ Cached(m) /\ m.windows = mux.windows /\ m.tabs = mux.tabs
        /\ m.tabsOf = mux.tabsOf /\ m.layout = mux.layout
    BY <1>1, QueueCached DEF MuxState
  <2>2. PruneDeadWindows(m, ActivityHeld)
    BY <1>11 DEF RunPrune
  <2> HIDE DEF m
  <2>3. OneHomeIn(m)
    BY <1>1, <2>1 DEF OneHomeIn
  <2> QED BY <2>1, <2>2, <2>3, PruneDeadWindowsCached
<1>12. ASSUME NEW p \in PaneId, NEW more \in BOOLEAN, RunRemovePane(p, more) PROVE Cached(mux')
  <2> DEFINE P == IF more THEN mux.removals ELSE mux.removals \ {p}
             n == [mux EXCEPT !.removals = P]
             m == RemovePaneInternal(n, p)
  <2>1. P \in SUBSET PaneId
    BY <1>1 DEF MuxState
  <2>2. PruneDeadWindows(m, ActivityHeld)
    BY <1>12 DEF RunRemovePane
  <2> HIDE DEF P
  <2>3. n \in MuxState /\ Cached(n) /\ n.windows = mux.windows /\ n.tabs = mux.tabs
        /\ n.tabsOf = mux.tabsOf /\ n.layout = mux.layout
    BY <1>1, <2>1, QueueCached DEF MuxState
  <2> HIDE DEF n
  <2>4. OneHomeIn(n)
    BY <1>1, <2>3 DEF OneHomeIn
  <2>5. m \in MuxState /\ OneHomeIn(m) /\ Cached(m)
    BY <2>3, <2>4, RemovePaneIs, RemovePaneHome, RemovePaneCached
  <2> HIDE DEF m
  <2> QED BY <2>2, <2>5, PruneDeadWindowsCached
<1>13. ASSUME \/ \E w \in WindowId, gui \in BOOLEAN : StartSpawnTab(w, gui)
              \/ \E q \in PaneId, t \in TabId, gui \in BOOLEAN : StartSplit(q, t, gui)
              \/ \E p \in PaneId : ChildExits(p)
              \/ UNCHANGED vars
       PROVE  mux' = mux
  BY <1>13 DEF StartSpawnTab, StartSplit, ChildExits, vars
<1>14. ASSUME NEW w \in WindowId, NEW ws \in Workspaces, SetWindowWorkspace(w, ws) PROVE FALSE
  BY <1>14 DEF SetWindowWorkspace
<1>15. ASSUME NEW p \in PaneId, NEW t \in TabId,
              \/ \E w \in WindowId : MovePaneToTab(p, t, w)
              \/ \E ws \in Workspaces : MovePaneToWindow(p, t, ws)
       PROVE  Cached(mux')
  BY <1>15, MovesCached
<1>16. ASSUME NEW p \in PaneId, NEW q \in PaneId, NEW src \in TabId, NEW dst \in TabId,
              NEW fits \in BOOLEAN, SplitMove(p, src, q, dst, fits)
       PROVE  Cached(mux')
  BY <1>16, SplitMoveCached
<1>17. ASSUME NEW o \in ops, FinishSpawn(o) \/ \E fits \in BOOLEAN : FinishSplit(o, fits)
       PROVE  Cached(mux')
  BY <1>17, FinishCached
<1> QED
  BY <1>2, <1>3, <1>4, <1>5, <1>6, <1>7, <1>8, <1>9, <1>10, <1>11, <1>12, <1>13, <1>14,
     <1>15, <1>16, <1>17
  DEF Next

\* OccupancyExact: at rest the cached pane counts say which workspaces are occupied,
\* as long as windows change workspace through rename_workspace only.
THEOREM OccupancyCorrect ==
    ASSUME "set_window_workspace" \notin Ops
    PROVE  Spec => []OccupancyExact
<1>1. Init => Cached(mux)
  BY DEF Init, Cached, Exact, ActuallyOccupied
<1>2. IInv /\ Cached(mux) /\ [Next]_vars => Cached(mux)'
  <2>1. Cached(mux)' <=> Cached(mux')
    BY DEF Cached, Exact, ActuallyOccupied
  <2> QED BY <2>1, NextCached
<1>3. IInv /\ Cached(mux) => OccupancyExact
  BY DEF IInv, Cached, Exact, OccupancyExact, Quiescent, NoLostPrune, Untidy
<1> QED BY <1>1, <1>2, <1>3, Invariance, PTL DEF Spec

=============================================================================
