----------------------------- MODULE WindowTabs -----------------------------
(***************************************************************************)
(* The tabs of one window: mux/src/window.rs and the operations on them in *)
(* wezterm-gui/src/termwindow/mod.rs.  A window keeps its tabs in order,   *)
(* the index of the active one, and the id of the one that was active      *)
(* before.  Indices shift when a tab goes; ids do not.                     *)
(*                                                                         *)
(* Indices start at 0, as in the code; sequences start at 1.               *)
(***************************************************************************)
EXTENDS Integers, SequencesExt

CONSTANTS
    Tabs,           \* ids of tabs; each is added to the window at most once
    NoTab,          \* last_active_tab_id = None
    SwitchToLast,   \* config switch_to_last_active_tab_when_closing_tab
    Offsets         \* the arguments of the key assignments

ASSUME NoTabAssumption == NoTab \notin Tabs
ASSUME ConfigAssumption == SwitchToLast \in BOOLEAN /\ Offsets \subseteq Int

VARIABLES
    window,     \* [tabs, active, last]: the Window object
    dead,       \* tabs of the window whose is_dead() answers true
    unused      \* tabs that have not been created yet

vars == <<window, dead, unused>>

WindowState == [tabs : Seq(Tabs), active : Nat, last : Tabs \cup {NoTab}]

----------------------------------------------------------------------------
(* The methods of Window, on a window w.                                   *)

TabAt(w, i) == IF i < Len(w.tabs) THEN w.tabs[i + 1] ELSE NoTab
ActiveTab(w) == TabAt(w, w.active)
HasTab(w, t) == Contains(w.tabs, t)
IdxOf(w, t) == CHOOSE i \in 0..(Len(w.tabs) - 1) : w.tabs[i + 1] = t

SetActive(w, i) == [w EXCEPT !.active = i]
RememberAndSetActive(w, i) ==
    IF i = w.active THEN w ELSE SetActive([w EXCEPT !.last = ActiveTab(w)], i)
PushTab(w, t) == [w EXCEPT !.tabs = Append(@, t)]

\* Mutants: the index is left alone when the tabs to its left shift; it is left
\* alone when it points past the end.
KeepIndex(w, old) ==
    IF w.tabs # <<>> /\ w.active >= Len(w.tabs) THEN SetActive(w, Len(w.tabs) - 1) ELSE w
KeepPastEnd(w, old) == IF HasTab(w, old) THEN SetActive(w, IdxOf(w, old)) ELSE w

FixupActiveTabAfterRemoval(w, old) ==
    IF HasTab(w, old) THEN SetActive(w, IdxOf(w, old))
    ELSE IF w.tabs # <<>> /\ w.active >= Len(w.tabs)
    THEN SetActive(w, Len(w.tabs) - 1)
    ELSE w

\* do_remove_tab_idx: the index of the last active tab is taken before the tab
\* is removed, and not corrected for the removal.
RemoveTabIdx(w, i) ==
    LET old == ActiveTab(w)
        switched == IF old = TabAt(w, i) /\ SwitchToLast /\ HasTab(w, w.last)
                    THEN SetActive(w, IdxOf(w, w.last)) ELSE w
    IN  FixupActiveTabAfterRemoval([switched EXCEPT !.tabs = RemoveAt(@, i + 1)], old)

RemoveTabId(w, t) == IF HasTab(w, t) THEN RemoveTabIdx(w, IdxOf(w, t)) ELSE w

\* prune_dead_tabs, tab by tab: pruned[n] is the window after the first n of them.
\* Its second loop looks for tabs the mux does not know, and Mux!OneHome says that
\* there are none.
PruneDeadTabs(w, D) ==
    LET pruned[n \in 0..Len(w.tabs)] ==
            IF n = 0 THEN w
            ELSE IF w.tabs[n] \in D THEN RemoveTabId(pruned[n - 1], w.tabs[n])
            ELSE pruned[n - 1]
    IN  pruned[Len(w.tabs)]

\* move_tab: out with the active tab, back in at index i, and active again.
MoveTabTo(w, i) ==
    LET without == RemoveTabIdx(w, w.active)
    IN  SetActive([without EXCEPT !.tabs = InsertAt(@, i + 1, ActiveTab(w))], i)

----------------------------------------------------------------------------
(* Arithmetic of the key assignments.                                      *)

ClampIdx(i, max) == IF i < 0 THEN 0 ELSE IF i >= max THEN max - 1 ELSE i

\* "tab as usize % max", for an isize that may still be negative: 2^64 + i.
UsizeMod(i, max) ==
    LET q == 65536 % max IN (((q * q * q * q) % max) + i) % max

\* activate_tab: a negative argument counts from the end.
FromEnd(i, max) == IF i >= 0 THEN i ELSE IF -i > max THEN 0 ELSE max + i

RelativeIdx(w, delta, wrap) ==
    LET max == Len(w.tabs)
        i == w.active + delta
    IN  IF ~wrap THEN ClampIdx(i, max)
        ELSE IF i >= 0 THEN i % max
        ELSE IF max + i >= 0 THEN (max + i) % max
        ELSE UsizeMod(max + i, max)

----------------------------------------------------------------------------
Init ==
    /\ window = [tabs |-> <<>>, active |-> 0, last |-> NoTab]
    /\ dead = {}
    /\ unused = Tabs

\* add_tab_to_window for a client domain's tab, which is not made active.
AddTab(t) ==
    /\ t \in unused
    /\ window' = PushTab(window, t)
    /\ unused' = unused \ {t}
    /\ UNCHANGED dead

\* spawn_tab_or_window: add_tab_to_window, then activate and remember.
SpawnTab(t) ==
    /\ t \in unused
    /\ window' = RememberAndSetActive(PushTab(window, t), Len(window.tabs))
    /\ unused' = unused \ {t}
    /\ UNCHANGED dead

\* connect at startup: add_tab_to_window, then activate without remembering.
SpawnFirstTab(t) ==
    /\ t \in unused
    /\ window' = SetActive(PushTab(window, t), Len(window.tabs))
    /\ unused' = unused \ {t}
    /\ UNCHANGED dead

ActivateTab(i) ==
    LET idx == FromEnd(i, Len(window.tabs)) IN
    /\ idx < Len(window.tabs)
    /\ window' = RememberAndSetActive(window, idx)
    /\ UNCHANGED <<dead, unused>>

ActivateTabRelative(delta, wrap) ==
    /\ window.tabs # <<>>
    /\ window' = RememberAndSetActive(window, RelativeIdx(window, delta, wrap))
    /\ UNCHANGED <<dead, unused>>

ActivateLastTab ==
    /\ HasTab(window, window.last)
    /\ window' = RememberAndSetActive(window, IdxOf(window, window.last))
    /\ UNCHANGED <<dead, unused>>

MoveTab(i) ==
    /\ i \in 0..(Len(window.tabs) - 1)
    /\ window' = MoveTabTo(window, i)
    /\ UNCHANGED <<dead, unused>>

MoveTabRelative(delta) ==
    /\ window.tabs # <<>>
    /\ window' = MoveTabTo(window, ClampIdx(window.active + delta, Len(window.tabs)))
    /\ UNCHANGED <<dead, unused>>

\* close_current_tab, close_specific_tab and the close overlay: Mux::remove_tab.
CloseTab(t) ==
    /\ HasTab(window, t)
    /\ window' = RemoveTabId(window, t)
    /\ dead' = dead \ {t}
    /\ UNCHANGED unused

\* All the panes of the tab have exited.
TabDies(t) ==
    /\ HasTab(window, t) /\ t \notin dead
    /\ dead' = dead \cup {t}
    /\ UNCHANGED <<window, unused>>

Prune ==
    /\ dead # {}
    /\ window' = PruneDeadTabs(window, dead)
    /\ dead' = {}
    /\ UNCHANGED unused

Next ==
    \/ \E t \in Tabs : AddTab(t)
    \/ \E t \in Tabs : SpawnTab(t)
    \/ \E t \in Tabs : SpawnFirstTab(t)
    \/ \E i \in Offsets : ActivateTab(i)
    \/ \E delta \in Offsets, wrap \in BOOLEAN : ActivateTabRelative(delta, wrap)
    \/ ActivateLastTab
    \/ \E i \in Offsets : MoveTab(i)
    \/ \E delta \in Offsets : MoveTabRelative(delta)
    \/ \E t \in Tabs : CloseTab(t)
    \/ \E t \in Tabs : TabDies(t)
    \/ Prune

Spec == Init /\ [][Next]_vars

----------------------------------------------------------------------------
(* Properties.                                                             *)

\* The window holds a tab once (assert_tab_isnt_already_in_window would panic).
TypeOK ==
    /\ window \in WindowState
    /\ IsInjective(window.tabs)
    /\ dead \subseteq ToSet(window.tabs)
    /\ unused \subseteq Tabs \ ToSet(window.tabs)

\* "active_tab_idx is supposed to be always valid" (the FIXME in get_active_tab);
\* set_active_tab_idx_without_saving asserts as much.  An emptied window leaves
\* the index where a first tab makes it valid again.  Checked together with TypeOK.
ActiveValid ==
    /\ TypeOK
    /\ window.active < Len(window.tabs) \/ (window.tabs = <<>> /\ window.active = 0)

\* The tab the user looks at stays active as long as it is in the window,
\* whichever tabs are closed, die or are moved around it, and however many.
SurvivorStaysActive ==
    [][/\ ActiveTab(window) # NoTab /\ HasTab(window', ActiveTab(window))
       /\ Prune \/ (\E t \in Tabs : CloseTab(t)) \/ (\E i \in Offsets : MoveTab(i))
       => ActiveTab(window') = ActiveTab(window)]_vars

=============================================================================
