------------------------------- MODULE TabTree -------------------------------
(***************************************************************************)
(* The panes of one tab: TabInner of mux/src/tab.rs, over the tree and its *)
(* zipper of bintree/src/lib.rs.                                           *)
(*                                                                         *)
(* A tree is a function from paths: a path is a sequence of turns, 1 to    *)
(* the left and 2 to the right; a leaf is a pane, an inner node a split    *)
(* that divides one axis between its two children and a line of cells.     *)
(* Sizes are pairs of columns and rows; pixels and dpi follow from them.   *)
(*                                                                         *)
(* The index of a pane, which active and most callers refer to, is its     *)
(* place in the order of the leaves.                                       *)
(***************************************************************************)
EXTENDS Integers, Sequences, FiniteSets, SequencesExt

CONSTANTS
    Pane, None,     \* the panes there may be at a time
    Sizes,          \* sizes the window may be given
    Start,          \* the size of the tab at first
    Requests        \* the splits asked for

Cols == 1
Rows == 2
Axes == {Cols, Rows}
Other(a) == 3 - a
Size == [Axes -> Nat]
Nothing == [a \in Axes |-> 0]

ASSUME TabTreeAssumption ==
    /\ None \notin Pane
    /\ Start \in Sizes /\ Sizes \subseteq [Axes -> Nat \ {0}]
    /\ Requests \subseteq [dir : Axes, second : BOOLEAN, top : BOOLEAN,
                           portion : {"half", "cell"}]

VARIABLES
    tab,    \* [tree, size, before, active, zoomed, pty]: TabInner, before being the
            \* size before the zoom, if any, and pty the size each pane was last given
    asked,  \* the split whose command is being started, if any: a set
    hung,   \* history: a resize did not come to an end
    astray  \* history: what the code is known to lose track of, of "sizes", "focus", "zoom"

treeVars == <<tab, asked, hung, astray>>

Leaf(x) == [pane |-> x, dir |-> 0, first |-> Nothing, second |-> Nothing]
Split(dir, first, second) == [pane |-> None, dir |-> dir, first |-> first, second |-> second]
Node == [pane : Pane \cup {None}, dir : Axes \cup {0}, first : Size, second : Size]

TreeInit ==
    /\ \E first \in Pane :
        tab = [tree |-> [p \in {<<>>} |-> Leaf(first)], size |-> Start, before |-> Nothing,
               active |-> 0, zoomed |-> None,
               pty |-> [x \in Pane |-> IF x = first THEN Start ELSE Nothing]]
    /\ asked = {} /\ hung = FALSE /\ astray = {}

----------------------------------------------------------------------------
(* Positions: sequences of turns.                                          *)

Position == Seq({1, 2})
Up(p) == Front(p)
Sibling(p) == [p EXCEPT ![Len(p)] = 3 - @]

\* q is p or below it; it is below it; it is to the right of it.
Under(p, q) == Len(p) <= Len(q) /\ \A i \in 1..Len(p) : p[i] = q[i]
Above(p, q) == Under(p, q) /\ Len(p) < Len(q)
Before(p, q) ==
    \E i \in 1..Len(p) : i <= Len(q) /\ p[i] < q[i] /\ \A j \in 1..(i - 1) : p[j] = q[j]

\* A walk through the tree comes to q after p.
After(p, q) == Above(p, q) \/ Before(p, q)

----------------------------------------------------------------------------
(* Trees.                                                                  *)

IsLeaf(t, p) == t[p].pane # None
Leaves(t) == {p \in DOMAIN t : IsLeaf(t, p)}
Shown(t) == {t[p].pane : p \in Leaves(t)}
Count(t) == Cardinality(Shown(t))
LeafOf(t, x) == CHOOSE p \in Leaves(t) : t[p].pane = x

\* The index of a pane is the number of panes to its left.
Index(t, x) == Cardinality({o \in Shown(t) : Before(LeafOf(t, o), LeafOf(t, x))})
PaneAt(t, i) == CHOOSE x \in Shown(t) : Index(t, x) = i

\* A leaf becomes a split of two.
WithSplit(t, p, node, left, right) ==
    [q \in DOMAIN t \cup {Append(p, 1), Append(p, 2)} |->
        IF q = p THEN node
        ELSE IF q = Append(p, 1) THEN left
        ELSE IF q = Append(p, 2) THEN right
        ELSE t[q]]

\* The whole tree becomes one side of a split, and a leaf the other.
WithRoot(t, node, side, leaf) ==
    [q \in {<<>>, <<3 - side>>} \cup {<<side>> \o r : r \in DOMAIN t} |->
        IF q = <<>> THEN node ELSE IF q = <<3 - side>> THEN leaf ELSE t[Tail(q)]]

\* A leaf goes, and what was beside it takes the place of the two.
ClosedUp(t, p) ==
    LET n == Len(p)
        kept == {q \in DOMAIN t : ~Under(Up(p), q)}
        lifted == {RemoveAt(q, n) : q \in {r \in DOMAIN t : Under(Sibling(p), r)}}
    IN  [q \in kept \cup lifted |-> t[IF q \in kept THEN q ELSE InsertAt(q, n, 3 - p[n])]]

\* SplitDirectionAndSize::width and height.
NodeSize(node) ==
    [a \in Axes |-> IF a = node.dir THEN node.first[a] + node.second[a] + 1 ELSE node.first[a]]

\* The room of a position: the part its parent gives it, or the whole.
Room(t, p, whole) ==
    IF p = <<>> THEN whole
    ELSE IF p[Len(p)] = 1 THEN t[Up(p)].first ELSE t[Up(p)].second

Biggest(a, b) == IF a > b THEN a ELSE b

\* compute_min_size of each subtree along one axis, from the bottom up.
MinSizes(t, a) ==
    LET least[n \in Nat] ==
            [p \in DOMAIN t |->
                IF n = 0 \/ IsLeaf(t, p) THEN 1
                ELSE LET l == least[n - 1][Append(p, 1)]
                         r == least[n - 1][Append(p, 2)]
                     IN  IF t[p].dir = a THEN l + r + 1 ELSE Biggest(l, r)]
    IN  least[Cardinality(DOMAIN t)]

----------------------------------------------------------------------------
(* Resizing.                                                               *)
(*                                                                         *)
(* adjust_x_size and adjust_y_size hand d cells out, or take them away,    *)
(* one at a time in the splits that divide the axis, where they alternate  *)
(* between the two sides; a split that divides the other axis gives both   *)
(* its sides the same cells.  Here all of d goes cell by cell, from the    *)
(* root, each split being asked once per cell.  That comes to the same:    *)
(* only the topmost splits of the axis see more than one cell in a call,   *)
(* so that only they alternate, and a side with no cell to give has none   *)
(* later either.                                                           *)

\* Splits that divide the axis, with none above that does.
Topmost(t, p, a) == t[p].dir = a /\ ~\E r \in DOMAIN t : Above(r, p) /\ t[r].dir = a

\* Which side of a split the n-th of the cells goes to, or comes from (k = -1).
HasCell(part, a, k) == k > 0 \/ part[a] > 1
Side(t, p, a, k, n) ==
    IF n % 2 = 0 /\ Topmost(t, p, a)
    THEN IF HasCell(t[p].second, a, k) THEN 2 ELSE 1
    ELSE IF HasCell(t[p].first, a, k) THEN 1 ELSE 2

\* A split of the other axis stays as large as what is in it must be.
Yields(t, p, a, k) == t[p].first[a] + k >= MinSizes(t, a)[p]

\* The cell comes to p: the splits above pass it on.
Reached(t, p, a, k, n) ==
    \A r \in DOMAIN t : Above(r, p) =>
        IF t[r].dir = a THEN p[Len(r) + 1] = Side(t, r, a, k, n) ELSE Yields(t, r, a, k)

\* One cell, for all the splits it comes to; x is the tree, whether a split was found
\* with no cell on either side, where the loop does not end, and whether one was found
\* that could not give what it was asked for.
AdjustByCell(x, a, k, n) ==
    LET t == x.tree
        reached == {p \in DOMAIN t : ~IsLeaf(t, p) /\ Reached(t, p, a, k, n)}
        grown(p) ==
            LET node == t[p] IN
            IF node.dir # a
            THEN IF Yields(t, p, a, k)
                 THEN Split(node.dir, [node.first EXCEPT ![a] = @ + k],
                                      [node.second EXCEPT ![a] = node.first[a] + k])
                 ELSE node
            ELSE IF Side(t, p, a, k, n) = 1
            THEN Split(a, [node.first EXCEPT ![a] = @ + k], node.second)
            ELSE Split(a, node.first, [node.second EXCEPT ![a] = @ + k])
    IN  IF x.hung THEN x
        ELSE IF \E p \in reached : /\ t[p].dir = a
                                    /\ ~HasCell(t[p].first, a, k) /\ ~HasCell(t[p].second, a, k)
        THEN [x EXCEPT !.hung = TRUE]
        ELSE [x EXCEPT !.tree = [p \in DOMAIN t |-> IF p \in reached THEN grown(p) ELSE t[p]],
                       !.short = @ \/ \E p \in reached : t[p].dir # a /\ ~Yields(t, p, a, k)]

AdjustSize(x, a, d) ==
    LET k == IF d > 0 THEN 1 ELSE -1
        given[n \in Nat] == IF n = 0 THEN x ELSE AdjustByCell(given[n - 1], a, k, n)
    IN  given[k * d]

\* apply_sizes_from_splits.
ApplySizes(y) ==
    [y EXCEPT !.pty = [x \in Pane |->
        IF x \in Shown(y.tree) THEN Room(y.tree, LeafOf(y.tree, x), y.size) ELSE y.pty[x]]]

\* What becomes of a tab, whether the resize hangs, and what goes astray.
Strays(what, if) == IF if THEN {what} ELSE {}
Just(y) == [tab |-> y, hung |-> FALSE, astray |-> {}]

\* TabInner::resize.
Resize(y, size) ==
    IF y.zoomed # None THEN Just([y EXCEPT !.size = size, !.pty[y.zoomed] = size])
    ELSE LET new == [a \in Axes |-> Biggest(size[a], MinSizes(y.tree, a)[<<>>])]
             x == AdjustSize([tree |-> y.tree, hung |-> FALSE, short |-> FALSE], Cols,
                             new[Cols] - y.size[Cols])
             z == AdjustSize(x, Rows, new[Rows] - y.size[Rows])
         IN  [tab |-> ApplySizes([y EXCEPT !.tree = z.tree, !.size = new]),
              hung |-> z.hung, astray |-> Strays("sizes", z.short)]

ActivePane(y) ==
    IF y.zoomed # None THEN y.zoomed
    ELSE IF y.active < Count(y.tree) THEN PaneAt(y.tree, y.active) ELSE None

\* toggle_zoom.  A mutant forgets the size the tree was made for.
Zoom(y) ==
    LET x == ActivePane(y) IN
    Just(IF x = None THEN y ELSE [y EXCEPT !.before = y.size, !.zoomed = x, !.pty[x] = y.size])
ZoomForgetting(y) ==
    IF y.zoomed # None THEN Resize([y EXCEPT !.zoomed = None, !.before = Nothing], y.size)
    ELSE Zoom(y)
ToggleZoom(y) ==
    IF y.zoomed # None
    THEN Resize([y EXCEPT !.zoomed = None, !.size = y.before, !.before = Nothing], y.size)
    ELSE Zoom(y)

Unzoomed(y) == IF y.zoomed = None THEN Just(y) ELSE ToggleZoom(y)

\* apply_pane_size: the first child keeps its extent, the second takes the rest.
Fit(node, size) ==
    LET a == node.dir
        b == Other(a)
    IN  Split(a, [node.first EXCEPT ![b] = size[b]],
              [c \in Axes |-> IF c = b THEN size[b]
                              ELSE Biggest(0, size[a] - (1 + node.first[a]))])

\* Every split that a walk comes to after p is made to fit its room, those above first.
FitAfter(t, p) ==
    LET fitted[n \in Nat] ==
            IF n = 0 THEN t
            ELSE [q \in DOMAIN t |->
                    IF Len(q) = n /\ After(p, q) /\ ~IsLeaf(t, q)
                    THEN Fit(t[q], Room(fitted[n - 1], q, Nothing))
                    ELSE fitted[n - 1][q]]
    IN  [q \in DOMAIN t |-> fitted[Len(q)][q]]

\* cascade_size_from_cursor, and the part of remove_pane_if that does the same: what
\* comes after p is made to fit, and the panes are told.
Cascade(y, p) ==
    LET t == FitAfter(y.tree, p)
        leaf(x) == LeafOf(t, x)
    IN  [y EXCEPT !.tree = t,
                  !.pty = [x \in Pane |-> IF x \in Shown(t) /\ After(p, leaf(x))
                                          THEN Room(t, leaf(x), y.size) ELSE y.pty[x]]]

----------------------------------------------------------------------------
(* Splitting.                                                              *)

\* split_dimension: what the two sides get of dim cells.
Divide(dim, portion, second) ==
    LET target == Biggest(1, IF portion = "half" THEN dim \div 2 ELSE 1)
        remain == Biggest(0, dim - (target + 1))
    IN  IF second THEN <<remain, target>> ELSE <<target, remain>>

\* compute_split_size, of a room.
Divided(room, r) ==
    LET d == Divide(room[r.dir], r.portion, r.second)
        part(i) == [a \in Axes |-> IF a = r.dir THEN d[i] ELSE room[a]]
    IN  Split(r.dir, part(1), part(2))

HasSpace(y, info) ==
    /\ \A a \in Axes : info.first[a] > 0 /\ info.second[a] > 0
    /\ \A a \in Axes : NodeSize(info)[a] <= y.size[a]

\* split_and_insert of a pane into the leaf of another.
SplitLeaf(y, x, r, new) ==
    LET t == y.tree
        p == LeafOf(t, x)
        info == Divided(Room(t, p, y.size), r)
    IN  [y EXCEPT
            !.tree = IF r.second THEN WithSplit(t, p, info, t[p], Leaf(new))
                                 ELSE WithSplit(t, p, info, Leaf(new), t[p]),
            !.pty = [o \in Pane |->
                        IF o = new THEN IF r.second THEN info.second ELSE info.first
                        ELSE IF o = x THEN IF r.second THEN info.first ELSE info.second
                        ELSE y.pty[o]],
            !.active = IF r.second THEN Index(t, x) + 1 ELSE @]

\* And of a pane beside all the others: what is there is resized to make room, and the
\* size of the tab with it.  The new pane is told nothing: it keeps the size it came with,
\* which is not followed, and the sizes are astray from then on.
SplitWhole(y, r, new) ==
    LET info == Divided(y.size, r)
        fit == Resize(y, IF r.second THEN info.first ELSE info.second)
        tree == WithRoot(fit.tab.tree, info, IF r.second THEN 1 ELSE 2, Leaf(new))
    IN  [tab |-> [fit.tab EXCEPT !.tree = tree,
                                 !.active = IF r.second THEN Count(tree) - 1 ELSE 0],
         hung |-> fit.hung, astray |-> {"sizes"}]

\* split_and_insert for the pane at index i.
SplitAndInsert(y, i, r, new) ==
    LET x == PaneAt(y.tree, i)
        room == IF r.top THEN y.size ELSE Room(y.tree, LeafOf(y.tree, x), y.size)
    IN  IF y.zoomed # None \/ ~HasSpace(y, Divided(room, r)) THEN Just(y)
        ELSE IF r.top /\ Count(y.tree) > 1 THEN SplitWhole(y, r, new)
        ELSE Just(SplitLeaf(y, x, r, new))

----------------------------------------------------------------------------
(* Removing.                                                               *)

\* The pane of a leaf goes: what was beside it takes the place of the two, and what
\* comes after that is made to fit.
WithoutLeaf(y, p) ==
    LET t == y.tree
        z == [y EXCEPT !.zoomed = IF @ = t[p].pane THEN None ELSE @]
        size == NodeSize(t[Up(p)])
        shrunk == ClosedUp(t, p)
        moved == IF IsLeaf(shrunk, Up(p))
                 THEN [z EXCEPT !.tree = shrunk, !.pty[shrunk[Up(p)].pane] = size]
                 ELSE [z EXCEPT !.tree = [shrunk EXCEPT ![Up(p)] = Fit(@, size)]]
    IN  IF p = <<>> THEN [z EXCEPT !.tree = <<>>] ELSE Cascade(moved, Up(p))

\* The walk of remove_pane_if up to the next pane that is to go, w.at being where the
\* last one went: what takes the place of the two is stepped over.  Indices are counted
\* on the way.
RemoveNext(w, gone) ==
    LET t == w.tab.tree
        ahead == {q \in Leaves(t) : w.removed = {} \/ After(w.at, q)}
        found == {q \in ahead : t[q].pane \in gone}
        p == CHOOSE p \in found : \A q \in found \ {p} : Before(p, q)
        index == w.index + Cardinality({t[q].pane : q \in {r \in ahead : Before(r, p)}})
    IN  IF found = {} THEN w
        ELSE [tab |-> WithoutLeaf(w.tab, p), at |-> Up(p),
              index |-> index + 1, removed |-> w.removed \cup {index}]

RemoveWalk(y, gone) ==
    LET walk[n \in Nat] ==
            IF n = 0 THEN [tab |-> y, at |-> <<>>, index |-> 0, removed |-> {}]
            ELSE RemoveNext(walk[n - 1], gone)
    IN  walk[Cardinality(gone)]

\* Which index is active after a removal; a mutant that leaves out the active pane
\* itself, and one that shifts for the panes after it too.
FocusShiftedLess(active, removed) ==
    Biggest(0, active - Cardinality({i \in removed : i < active}))
FocusShiftedMore(active, removed) == Biggest(0, active - Cardinality(removed))
FocusAfter(active, removed) ==
    Biggest(0, active - Cardinality({i \in removed : i <= active}))

RemovePaneIf(y, gone) ==
    LET w == RemoveWalk(y, gone)
    IN  [w.tab EXCEPT !.active = FocusAfter(y.active, w.removed),
                      !.before = IF w.tab.zoomed = None THEN Nothing ELSE @,
                      !.pty = [x \in Pane |-> IF x \in Shown(w.tab.tree) THEN @[x] ELSE Nothing]]

----------------------------------------------------------------------------
(* Moving a split.                                                         *)

\* adjust_node_at_cursor.
MoveSplit(t, p, d) ==
    LET node == t[p]
        a == node.dir
        extent == NodeSize(node)[a]
        wanted == Biggest(node.first[a] + d, 1)
        first == IF wanted < extent - 2 THEN wanted ELSE extent - 2
    IN  [t EXCEPT ![p] = Split(a, [node.first EXCEPT ![a] = first],
                                  [node.second EXCEPT ![a] = Biggest(0, extent - (first + 1))])]

MoveSplitAndCascade(y, p, d) == Cascade([y EXCEPT !.tree = MoveSplit(y.tree, p, d)], p)

----------------------------------------------------------------------------
(* The operations.                                                         *)

\* (That x is quantified over has TLC work it out once.)
Becomes(y) == \E x \in {y} : tab' = x.tab /\ hung' = x.hung /\ astray' = astray \cup x.astray

\* What becomes of a tab whose resize does not end, whose sizes do not add up, or that
\* has no panes, is not modelled.
Working == ~hung /\ "sizes" \notin astray /\ DOMAIN tab.tree # {}

\* Domain::split_pane with a command, up to the start of the command, which is
\* waited for: unless the whole tab is split, compute_split_size unzooms it.
AskSplit(x, r) ==
    /\ Working /\ asked = {} /\ x \in Shown(tab.tree) /\ Shown(tab.tree) # Pane
    /\ Becomes(IF r.top THEN Just(tab) ELSE Unzoomed(tab))
    /\ asked' = {[pane |-> x, index |-> Index(tab.tree, x), request |-> r]}

\* The place the new pane goes to: looked up once more, or, in a mutant, as it was
\* when the split was asked for.
IndexAsAsked(t, ask) == IF ask.index < Count(t) THEN ask.index ELSE Index(t, ask.pane)
FinalIndex(t, ask) == Index(t, ask.pane)

\* The rest of Domain::split_pane, which fails if the pane to split has gone.
FinishSplit(ask, new) ==
    /\ Working /\ ask \in asked /\ new \in Pane \ Shown(tab.tree)
    /\ IF ask.pane \in Shown(tab.tree)
       THEN Becomes(SplitAndInsert(tab, FinalIndex(tab.tree, ask), ask.request, new))
       ELSE UNCHANGED <<tab, hung, astray>>
    /\ asked' = {}

\* Domain::split_pane with a pane of the same tab, which is taken out first.
MovePane(src, x, r) ==
    /\ Working /\ {src, x} \subseteq Shown(tab.tree)
    /\ \E u \in {IF r.top THEN Just(tab) ELSE Unzoomed(tab)} :
       \E y \in {RemovePaneIf(u.tab, {src})} :
       \E s \in {IF x \in Shown(y.tree) THEN SplitAndInsert(y, Index(y.tree, x), r, src)
                 ELSE Just(y)} :
           IF u.hung THEN Becomes(u)
           ELSE Becomes([s EXCEPT !.astray = @ \cup u.astray
                            \cup Strays("sizes", u.tab.zoomed = src /\ tab.size # tab.before)
                            \cup Strays("zoom", u.tab.zoomed # None)])
    /\ UNCHANGED asked

\* remove_pane, kill_pane, kill_panes_in_domain and prune_dead_panes.
RemovePanes(gone) ==
    /\ Working /\ gone # {} /\ gone \subseteq Shown(tab.tree)
    /\ tab' = RemovePaneIf(tab, gone)
    /\ astray' = astray \cup Strays("sizes", tab.zoomed \in gone /\ tab.size # tab.before)
                        \cup Strays("focus", Cardinality(gone) > 1)
                        \cup Strays("zoom", tab.zoomed # None)
    /\ UNCHANGED <<asked, hung>>

ResizeTab(size) ==
    /\ Working
    /\ Becomes(Resize(tab, size))
    /\ UNCHANGED asked

ToggleZoomState ==
    /\ Working
    /\ Becomes(ToggleZoom(tab))
    /\ UNCHANGED asked

\* set_active_pane, unzoom_on_switch_pane being set.
SetActivePane(x) ==
    /\ Working /\ x \in Shown(tab.tree) /\ x # ActivePane(tab)
    /\ LET u == Unzoomed(tab) IN Becomes([u EXCEPT !.tab.active = Index(tab.tree, x)])
    /\ UNCHANGED asked

\* ActivatePaneByIndex: the one pane there is to see when one is zoomed has index 0.
ActivateByIndex(i) ==
    /\ Working
    /\ i < (IF tab.zoomed = None THEN Count(tab.tree) ELSE 1)
    /\ tab' = [tab EXCEPT !.active = i]
    /\ astray' = astray \cup Strays("focus", tab.zoomed # None)
    /\ UNCHANGED <<asked, hung>>

\* rotate_clockwise and rotate_counter_clockwise: by places to the right.
Rotated(t, by) ==
    LET n == Count(t)
        from(x) == LET i == Index(t, x) - by
                   IN  PaneAt(t, IF i < 0 THEN n - 1 ELSE IF i = n THEN 0 ELSE i)
    IN  [p \in DOMAIN t |-> IF IsLeaf(t, p) THEN Leaf(from(t[p].pane)) ELSE t[p]]

RotatePanes(by) ==
    /\ Working
    /\ tab' = ApplySizes([tab EXCEPT !.tree = Rotated(tab.tree, by)])
    /\ astray' = astray \cup Strays("focus", tab.zoomed # None)
                        \cup Strays("zoom", tab.zoomed # None)
    /\ UNCHANGED <<asked, hung>>

\* Two leaves swapped.
Swapped(t, here, there) == [t EXCEPT ![here] = t[there], ![there] = t[here]]

\* swap_active_with_index: the selector unzooms the tab before it shows anything.
SwapActive(i, keep) ==
    /\ Working /\ tab.zoomed = None /\ i < Count(tab.tree) /\ tab.active < Count(tab.tree)
    /\ LET t == tab.tree
           place(n) == LeafOf(t, PaneAt(t, n))
           new == Swapped(t, place(i), place(tab.active))
       IN  tab' = [ApplySizes([tab EXCEPT !.tree = new]) EXCEPT !.active = IF keep THEN i ELSE @]
    /\ UNCHANGED <<asked, hung, astray>>

\* A split of fewer than three cells, which only a pane of no cells makes possible,
\* is left alone here: the code wraps below zero.
Movable(p) == ~IsLeaf(tab.tree, p) /\ NodeSize(tab.tree[p])[tab.tree[p].dir] >= 3

MovesSplit(p, d) ==
    /\ tab' = MoveSplitAndCascade(tab, p, d)
    /\ astray' = astray \cup Strays("sizes", \E q \in DOMAIN tab'.tree : \E a \in Axes :
                                ~IsLeaf(tab'.tree, q) /\ tab'.tree[q].second[a] = 0)
    /\ UNCHANGED <<asked, hung>>

\* resize_split_by: a split is dragged.
ResizeSplitBy(p, d) ==
    /\ Working /\ tab.zoomed = None /\ p \in DOMAIN tab.tree /\ Movable(p)
    /\ MovesSplit(p, d)

\* adjust_pane_size: the nearest split around the active pane that divides the axis.
AdjustPaneSize(a, d) ==
    /\ Working /\ tab.zoomed = None /\ tab.active < Count(tab.tree)
    /\ LET here == LeafOf(tab.tree, PaneAt(tab.tree, tab.active))
           around == {p \in DOMAIN tab.tree : Above(p, here) /\ tab.tree[p].dir = a}
       IN  \E p \in around :
            /\ \A q \in around : Len(q) <= Len(p)
            /\ Movable(p) /\ MovesSplit(p, d)

Indices == 0..(Cardinality(Pane) - 1)

TreeNext ==
    \/ \E x \in Pane, r \in Requests : AskSplit(x, r)
    \/ \E ask \in asked, new \in Pane : FinishSplit(ask, new)
    \/ \E src, x \in Pane, r \in Requests : MovePane(src, x, r)
    \/ \E gone \in SUBSET Pane : RemovePanes(gone)
    \/ \E size \in Sizes : ResizeTab(size)
    \/ ToggleZoomState
    \/ \E x \in Pane : SetActivePane(x)
    \/ \E i \in Indices : ActivateByIndex(i)
    \/ \E by \in {-1, 1} : RotatePanes(by)
    \/ \E i \in Indices, keep \in BOOLEAN : SwapActive(i, keep)
    \/ \E p \in DOMAIN tab.tree, d \in {-1, 1} : ResizeSplitBy(p, d)
    \/ \E a \in Axes, d \in {-1, 1} : AdjustPaneSize(a, d)

TreeSpec == TreeInit /\ [][TreeNext]_treeVars

----------------------------------------------------------------------------
\* Every split has both its parts, what is above a node is a split, and no pane is
\* in the tree twice.
Shape(t) ==
    /\ DOMAIN t \subseteq Position /\ t \in [DOMAIN t -> Node]
    /\ \A p \in DOMAIN t : IF IsLeaf(t, p) THEN t[p] = Leaf(t[p].pane) ELSE t[p].dir \in Axes
    /\ DOMAIN t # {} => <<>> \in DOMAIN t
    /\ \A p \in DOMAIN t : ~IsLeaf(t, p) => {Append(p, 1), Append(p, 2)} \subseteq DOMAIN t
    /\ \A p \in DOMAIN t : \A n \in 0..(Len(p) - 1) :
          SubSeq(p, 1, n) \in DOMAIN t /\ ~IsLeaf(t, SubSeq(p, 1, n))
    /\ \A p, q \in Leaves(t) : t[p].pane = t[q].pane => p = q
    /\ IsFiniteSet(DOMAIN t)

TabState(y) ==
    /\ Shape(y.tree)
    /\ y \in [tree : {y.tree}, size : Size, before : Size, active : Nat,
              zoomed : {None} \cup Shown(y.tree), pty : [Pane -> Size]]

\* The types of the state, and the shape of the tree.
TreeTypeOK ==
    /\ TabState(tab)
    /\ asked \subseteq [pane : Pane, index : Nat, request : Requests]
    /\ \A ask, other \in asked : ask = other
    /\ hung \in BOOLEAN /\ astray \subseteq {"sizes", "focus", "zoom"}

\* The active index is that of a pane, and a zoomed pane is the active one: through
\* splits, removals, rotations, swaps and zooms, in any order.
FocusIsShown ==
    "focus" \notin astray /\ DOMAIN tab.tree # {} /\ ~hung =>
        /\ tab.active < Count(tab.tree)
        /\ tab.zoomed # None => tab.zoomed = PaneAt(tab.tree, tab.active)

\* The two parts of every split of a tree that has a room of that size fill the room
\* that the split has.
Fits(t, whole) ==
    \A p \in DOMAIN t \ Leaves(t) :
        /\ NodeSize(t[p]) = Room(t, p, whole)
        /\ t[p].first[Other(t[p].dir)] = t[p].second[Other(t[p].dir)]

\* The two parts of every split fill the room that it has, and every pane was last
\* told the size of the room that it is drawn in.  Checked together with TreeTypeOK.
SizesAddUp == TreeTypeOK /\ (
    "sizes" \notin astray /\ ~hung =>
        LET t == tab.tree
            whole == IF tab.zoomed = None THEN tab.size ELSE tab.before
        IN  /\ Fits(t, whole)
            /\ \A p \in Leaves(t) : t[p].pane # tab.zoomed => tab.pty[t[p].pane] = Room(t, p, whole)
            /\ tab.zoomed # None /\ "zoom" \notin astray => tab.pty[tab.zoomed] = tab.size)

\* A pane that leaves alone takes the focus with it only if it had it.
RemovalKeepsFocus ==
    [][\A x \in Shown(tab.tree) \ {ActivePane(tab)} :
        /\ Shown(tab'.tree) = Shown(tab.tree) \ {x} /\ ~hung'
        /\ "focus" \notin astray'
        => ActivePane(tab') = ActivePane(tab)]_treeVars

\* A new pane is put next to the pane it was asked for, on the side asked for, however
\* the panes were moved while its command was started.
SplitsWhatWasAsked ==
    [][\A ask \in asked \ asked', new \in Shown(tab'.tree) \ Shown(tab.tree) :
        ~ask.request.top =>
            LET q == LeafOf(tab'.tree, new) IN
            /\ q[Len(q)] = (IF ask.request.second THEN 2 ELSE 1)
            /\ tab'.tree[Sibling(q)].pane = ask.pane]_treeVars
=============================================================================
