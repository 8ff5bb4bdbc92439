------------------------------ MODULE TabProofs ------------------------------
(***************************************************************************)
(* Proofs about WindowTabs, for any number of tabs, any arguments of the   *)
(* key assignments, and both settings of the option; and about TabTree,    *)
(* for any panes, any sizes and any splits.                                *)
(***************************************************************************)
EXTENDS WindowTabs, TabTree, SequenceTheorems, FiniteSetTheorems, WellFoundedInduction, TLAPS
----------------------------------------------------------------------------
(* The inductive invariant, of a window.                                   *)

\* The window holds each tab once, and its active index is that of a tab.
Valid(w) ==
    /\ w \in WindowState /\ IsInjective(w.tabs)
    /\ w.active < Len(w.tabs) \/ (w.tabs = <<>> /\ w.active = 0)

Members(w) == {w.tabs[k] : k \in 1..Len(w.tabs)}

\* Some tabs are gone, and if the active one is not among them it is still active.
Kept(w, v, gone) ==
    /\ Valid(v) /\ Members(v) = Members(w) \ gone
    /\ ActiveTab(w) \in Members(v) => ActiveTab(v) = ActiveTab(w)

----------------------------------------------------------------------------
(* Sequences.                                                              *)

\* What Rust's Vec::remove leaves.
LEMMA RemoveAtIs ==
    ASSUME NEW S, NEW s \in Seq(S), NEW i \in 1..Len(s)
    PROVE  /\ RemoveAt(s, i) \in Seq(S) /\ Len(RemoveAt(s, i)) = Len(s) - 1
           /\ \A j \in 1..(Len(s) - 1) :
                 RemoveAt(s, i)[j] = IF j < i THEN s[j] ELSE s[j + 1]
<1> DEFINE a == SubSeq(s, 1, i - 1)
           b == SubSeq(s, i + 1, Len(s))
<1>1. Len(s) \in Nat
  OBVIOUS
<1>2. /\ a \in Seq(S) /\ Len(a) = i - 1 /\ \A j \in 1..(i - 1) : a[j] = s[j]
  BY <1>1
<1>3. /\ b \in Seq(S) /\ Len(b) = Len(s) - i
      /\ \A j \in 1..(Len(s) - i) : b[j] = s[i + j]
  BY <1>1
<1>4. RemoveAt(s, i) = a \o b
  BY DEF RemoveAt
<1> HIDE DEF a, b
<1>5. /\ a \o b \in Seq(S) /\ Len(a \o b) = Len(a) + Len(b)
      /\ \A j \in 1..(Len(a) + Len(b)) :
            (a \o b)[j] = IF j <= Len(a) THEN a[j] ELSE b[j - Len(a)]
  BY <1>2, <1>3, ConcatProperties
<1>6. ASSUME NEW j \in 1..(Len(s) - 1)
      PROVE  (a \o b)[j] = IF j < i THEN s[j] ELSE s[j + 1]
  <2>1. CASE j < i
    BY <1>1, <1>2, <1>3, <1>5, <2>1
  <2>2. CASE ~(j < i)
    <3>1. j - Len(a) \in 1..(Len(s) - i) /\ i + (j - Len(a)) = j + 1
      BY <1>1, <1>2, <2>2
    <3>2. (a \o b)[j] = b[j - Len(a)]
      BY <1>1, <1>2, <1>3, <1>5, <2>2
    <3> QED BY <1>3, <2>2, <3>1, <3>2
  <2> QED BY <2>1, <2>2
<1> QED BY <1>1, <1>2, <1>3, <1>4, <1>5, <1>6

\* r is s with e put in at place i.
InsertedAt(S, r, s, i, e) ==
    /\ r \in Seq(S) /\ Len(r) = Len(s) + 1
    /\ \A j \in 1..(Len(s) + 1) : r[j] = IF j < i THEN s[j] ELSE IF j = i THEN e ELSE s[j - 1]

\* What Rust's Vec::insert makes.
LEMMA InsertAtIs ==
    ASSUME NEW S, NEW s \in Seq(S), NEW i \in 1..(Len(s) + 1), NEW e \in S
    PROVE  InsertedAt(S, InsertAt(s, i, e), s, i, e)
<1> DEFINE a == SubSeq(s, 1, i - 1)
           b == SubSeq(s, i, Len(s))
           c == a \o <<e>>
<1>1. Len(s) \in Nat
  OBVIOUS
<1>2. /\ a \in Seq(S) /\ Len(a) = i - 1 /\ \A j \in 1..(i - 1) : a[j] = s[j]
  BY <1>1
<1>3. /\ b \in Seq(S) /\ Len(b) = (Len(s) - i) + 1
      /\ \A j \in 1..((Len(s) - i) + 1) : b[j] = s[(i + j) - 1]
  BY <1>1
<1>4. InsertAt(s, i, e) = c \o b
  BY DEF InsertAt
<1> HIDE DEF a, b
<1>5. /\ c \in Seq(S) /\ Len(c) = i /\ \A j \in 1..(i - 1) : c[j] = s[j]
      /\ c[i] = e
  BY <1>1, <1>2
<1> HIDE DEF c
<1>6. /\ c \o b \in Seq(S) /\ Len(c \o b) = Len(c) + Len(b)
      /\ \A j \in 1..(Len(c) + Len(b)) :
            (c \o b)[j] = IF j <= Len(c) THEN c[j] ELSE b[j - Len(c)]
  BY <1>3, <1>5, ConcatProperties
<1>7. ASSUME NEW j \in 1..(Len(s) + 1)
      PROVE  (c \o b)[j] = IF j < i THEN s[j] ELSE IF j = i THEN e ELSE s[j - 1]
  <2>1. CASE j <= i
    BY <1>1, <1>3, <1>5, <1>6, <2>1
  <2>2. CASE ~(j <= i)
    <3> DEFINE k == j - i
    <3>1. k \in 1..((Len(s) - i) + 1) /\ (i + k) - 1 = j - 1
      BY <1>1, <2>2
    <3>2. (c \o b)[j] = b[k]
      BY <1>1, <1>3, <1>5, <1>6, <2>2
    <3> HIDE DEF k
    <3>3. b[k] = s[j - 1]
      BY <1>3, <3>1
    <3> QED BY <2>2, <3>2, <3>3
  <2> QED BY <2>1, <2>2
<1> QED BY <1>1, <1>3, <1>4, <1>5, <1>6, <1>7 DEF InsertedAt

\* Where a tab is in the window.
LEMMA IdxIs ==
    ASSUME NEW w \in WindowState, NEW t, HasTab(w, t)
    PROVE  /\ IdxOf(w, t) \in 0..(Len(w.tabs) - 1) /\ w.tabs[IdxOf(w, t) + 1] = t
           /\ TabAt(w, IdxOf(w, t)) = t /\ t \in Tabs /\ t \in Members(w)
<1>1. w.tabs \in Seq(Tabs) /\ Len(w.tabs) \in Nat
  BY DEF WindowState
<1>2. PICK k \in 1..Len(w.tabs) : w.tabs[k] = t
  BY DEF HasTab, Contains
<1>3. k - 1 \in 0..(Len(w.tabs) - 1) /\ (k - 1) + 1 = k
  BY <1>1
<1>4. \E i \in 0..(Len(w.tabs) - 1) : w.tabs[i + 1] = t
  BY <1>2, <1>3
<1>5. IdxOf(w, t) \in 0..(Len(w.tabs) - 1) /\ w.tabs[IdxOf(w, t) + 1] = t
  BY <1>4 DEF IdxOf
<1> QED BY <1>1, <1>2, <1>5 DEF TabAt, Members

\* A window has the tabs among its members.
LEMMA HasIs ==
    ASSUME NEW w \in WindowState, NEW t
    PROVE  HasTab(w, t) <=> t \in Members(w)
BY DEF HasTab, Contains, Members

----------------------------------------------------------------------------
(* Removal.                                                                *)

\* Without its i-th tab a window holds the others, each once.
LEMMA WithoutIs ==
    ASSUME NEW w \in WindowState, IsInjective(w.tabs), NEW i \in 0..(Len(w.tabs) - 1),
           NEW v \in WindowState, v.tabs = RemoveAt(w.tabs, i + 1)
    PROVE  /\ IsInjective(v.tabs) /\ Len(v.tabs) = Len(w.tabs) - 1
           /\ Members(v) = Members(w) \ {w.tabs[i + 1]}
<1>1. w.tabs \in Seq(Tabs) /\ Len(w.tabs) \in Nat /\ DOMAIN w.tabs = 1..Len(w.tabs)
  BY DEF WindowState
<1>2. i + 1 \in 1..Len(w.tabs)
  BY <1>1
<1>3. /\ v.tabs \in Seq(Tabs) /\ Len(v.tabs) = Len(w.tabs) - 1
      /\ \A j \in 1..(Len(w.tabs) - 1) :
            v.tabs[j] = IF j < i + 1 THEN w.tabs[j] ELSE w.tabs[j + 1]
  BY <1>1, <1>2, RemoveAtIs
<1>4. DOMAIN v.tabs = 1..(Len(w.tabs) - 1)
  BY <1>1, <1>3
<1>5. \A j, k \in 1..Len(w.tabs) : w.tabs[j] = w.tabs[k] => j = k
  BY <1>1 DEF IsInjective
<1>6. ASSUME NEW j \in DOMAIN v.tabs, NEW k \in DOMAIN v.tabs, v.tabs[j] = v.tabs[k]
      PROVE  j = k
  <2> DEFINE was(n) == IF n < i + 1 THEN n ELSE n + 1
  <2>1. \A n \in 1..(Len(w.tabs) - 1) : was(n) \in 1..Len(w.tabs) /\ v.tabs[n] = w.tabs[was(n)]
    <3> DEFINE m == Len(w.tabs)
    <3>1. m \in Nat /\ i \in Nat
      BY <1>1
    <3>2. ASSUME NEW n \in 1..(m - 1)
          PROVE  v.tabs[n] = w.tabs[was(n)]
      <4>1. v.tabs[n] = IF n < i + 1 THEN w.tabs[n] ELSE w.tabs[n + 1]
        BY <1>3
      <4> QED BY <4>1
    <3> HIDE DEF m
    <3>3. \A n \in 1..(m - 1) : was(n) \in 1..m
      BY <3>1
    <3> QED BY <3>2, <3>3 DEF m
  <2>2. was(j) = was(k)
    <3> HIDE DEF was
    <3> QED BY <1>4, <1>5, <1>6, <2>1
  <2> QED BY <1>1, <1>2, <1>4, <2>2
<1>7. ASSUME NEW j \in 1..(Len(w.tabs) - 1)
      PROVE  v.tabs[j] \in Members(w) \ {w.tabs[i + 1]}
  BY <1>1, <1>2, <1>3, <1>5 DEF Members
<1>8. ASSUME NEW k \in 1..Len(w.tabs), w.tabs[k] # w.tabs[i + 1]
      PROVE  \E j \in 1..(Len(w.tabs) - 1) : v.tabs[j] = w.tabs[k]
  <2>1. CASE k < i + 1
    <3>1. k \in 1..(Len(w.tabs) - 1)
      BY <1>1, <1>2, <2>1
    <3> QED BY <1>3, <2>1, <3>1
  <2>2. CASE k > i + 1
    <3>1. k - 1 \in 1..(Len(w.tabs) - 1) /\ ~(k - 1 < i + 1) /\ (k - 1) + 1 = k
      BY <1>1, <1>2, <2>2
    <3> QED BY <1>3, <3>1
  <2>3. k # i + 1
    BY <1>8
  <2> QED BY <1>1, <1>2, <2>1, <2>2, <2>3
<1>9. IsInjective(v.tabs)
  BY <1>6 DEF IsInjective
<1>10. Members(v) = Members(w) \ {w.tabs[i + 1]}
  <2>1. Members(v) = {v.tabs[j] : j \in 1..(Len(w.tabs) - 1)}
    BY <1>3 DEF Members
  <2>2. Members(v) \subseteq Members(w) \ {w.tabs[i + 1]}
    BY <1>7, <2>1
  <2>3. ASSUME NEW t \in Members(w) \ {w.tabs[i + 1]} PROVE t \in Members(v)
    <3>1. PICK k \in 1..Len(w.tabs) : t = w.tabs[k] /\ w.tabs[k] # w.tabs[i + 1]
      BY DEF Members
    <3> QED BY <1>8, <2>1, <3>1
  <2> QED BY <2>2, <2>3
<1> QED BY <1>3, <1>9, <1>10

\* fixup_active_tab_after_removal puts the index on the tab that was active, or
\* on the last one if it points past the end.
LEMMA FixupIs ==
    ASSUME NEW v \in WindowState, IsInjective(v.tabs), NEW old, v.active <= Len(v.tabs)
    PROVE  LET r == FixupActiveTabAfterRemoval(v, old) IN
           /\ Valid(r) /\ r.tabs = v.tabs
           /\ old \in Members(v) => ActiveTab(r) = old
<1>1. v.tabs \in Seq(Tabs) /\ Len(v.tabs) \in Nat /\ v.active \in Nat
  BY DEF WindowState
<1>2. ASSUME NEW i \in 0..(Len(v.tabs) - 1)
      PROVE  /\ Valid(SetActive(v, i)) /\ SetActive(v, i).tabs = v.tabs
             /\ ActiveTab(SetActive(v, i)) = v.tabs[i + 1]
  BY <1>1 DEF Valid, SetActive, WindowState, ActiveTab, TabAt
<1>3. CASE HasTab(v, old)
  BY <1>2, <1>3, IdxIs DEF FixupActiveTabAfterRemoval
<1>4. CASE ~HasTab(v, old) /\ v.tabs # <<>> /\ v.active >= Len(v.tabs)
  <2>1. Len(v.tabs) - 1 \in 0..(Len(v.tabs) - 1)
    BY <1>1, <1>4
  <2> QED BY <1>2, <1>4, <2>1, HasIs DEF FixupActiveTabAfterRemoval
<1>5. CASE ~HasTab(v, old) /\ ~(v.tabs # <<>> /\ v.active >= Len(v.tabs))
  <2>1. v.active < Len(v.tabs) \/ (v.tabs = <<>> /\ v.active = 0)
    BY <1>1, <1>5
  <2> QED BY <1>5, <2>1, HasIs DEF FixupActiveTabAfterRemoval, Valid
<1> QED BY <1>3, <1>4, <1>5

\* do_remove_tab_idx: one tab goes; the active one stays active if it is another.
LEMMA RemoveIdxKeeps ==
    ASSUME NEW w, Valid(w), NEW i \in 0..(Len(w.tabs) - 1)
    PROVE  /\ Kept(w, RemoveTabIdx(w, i), {w.tabs[i + 1]})
           /\ Len(RemoveTabIdx(w, i).tabs) = Len(w.tabs) - 1
<1> DEFINE old == ActiveTab(w)
           back == old = TabAt(w, i) /\ SwitchToLast /\ HasTab(w, w.last)
           a == IF back THEN SetActive(w, IdxOf(w, w.last)) ELSE w
           v == [a EXCEPT !.tabs = RemoveAt(@, i + 1)]
           r == FixupActiveTabAfterRemoval(v, old)
<1>1. RemoveTabIdx(w, i) = r
  BY DEF RemoveTabIdx
<1>2. /\ w \in WindowState /\ w.tabs \in Seq(Tabs) /\ Len(w.tabs) \in Nat /\ w.active \in Nat
      /\ w.active < Len(w.tabs)
  BY DEF Valid, WindowState
<1>3. a \in WindowState /\ a.tabs = w.tabs /\ a.active < Len(w.tabs)
  <2>1. CASE back
    <3>1. IdxOf(w, w.last) \in 0..(Len(w.tabs) - 1)
      BY <1>2, <2>1, IdxIs
    <3>2. a = [w EXCEPT !.active = IdxOf(w, w.last)]
      BY <2>1 DEF SetActive
    <3> HIDE DEF a, back
    <3> QED BY <1>2, <3>1, <3>2 DEF WindowState
  <2>2. CASE ~back
    <3>1. a = w
      BY <2>2
    <3> HIDE DEF a, back
    <3> QED BY <1>2, <3>1
  <2> QED BY <2>1, <2>2
<1> HIDE DEF a
<1>4. RemoveAt(w.tabs, i + 1) \in Seq(Tabs) /\ Len(RemoveAt(w.tabs, i + 1)) = Len(w.tabs) - 1
  <2>1. i + 1 \in 1..Len(w.tabs)
    BY <1>2
  <2> QED BY <1>2, <2>1, RemoveAtIs
<1>5. v \in WindowState /\ v.tabs = RemoveAt(w.tabs, i + 1) /\ v.active = a.active
  BY <1>3, <1>4 DEF WindowState
<1> HIDE DEF v, old
<1>6. /\ IsInjective(v.tabs) /\ Len(v.tabs) = Len(w.tabs) - 1
      /\ Members(v) = Members(w) \ {w.tabs[i + 1]}
  BY <1>2, <1>5, WithoutIs DEF Valid
<1>7. v.active <= Len(v.tabs)
  <2>1. a.active \in Nat
    BY <1>3 DEF WindowState
  <2> QED BY <1>2, <1>3, <1>5, <1>6, <2>1
<1>8. /\ Valid(r) /\ r.tabs = v.tabs
      /\ old \in Members(v) => ActiveTab(r) = old
  BY <1>5, <1>6, <1>7, FixupIs
<1>9. Members(r) = Members(v) /\ Len(r.tabs) = Len(v.tabs)
  BY <1>8 DEF Members
<1> QED BY <1>1, <1>6, <1>8, <1>9 DEF Kept, old

\* remove_tab_id.
LEMMA RemoveIdKeeps ==
    ASSUME NEW w, Valid(w), NEW t
    PROVE  Kept(w, RemoveTabId(w, t), {t})
<1>1. w \in WindowState
  BY DEF Valid
<1>2. CASE HasTab(w, t)
  BY <1>1, <1>2, IdxIs, RemoveIdxKeeps DEF RemoveTabId
<1>3. CASE ~HasTab(w, t)
  <2>1. t \notin Members(w) /\ RemoveTabId(w, t) = w
    BY <1>1, <1>3, HasIs DEF RemoveTabId
  <2> QED BY <2>1 DEF Kept
<1> QED BY <1>2, <1>3

----------------------------------------------------------------------------
(* Induction, for the loop over the tabs.                                  *)

\* Numbers are well-founded.
LEMMA NatLess == IsWellFoundedOn({ss \in Nat \X Nat : ss[1] < ss[2]}, Nat)
BY NatLessThanWellFounded DEF OpToRel

\* A set with 0 and with the successor of each of its members has all numbers.
LEMMA SetInduction ==
    ASSUME NEW T \in SUBSET Nat, 0 \in T, \A n \in T : n + 1 \in T
    PROVE  T = Nat
<1> DEFINE R == {ss \in Nat \X Nat : ss[1] < ss[2]}
           U == Nat \ T
<1>1. \A x, y \in Nat : <<x, y>> \in R <=> x < y
  OBVIOUS
<1>2. IsWellFoundedOn(R, Nat)
  BY NatLess
<1> HIDE DEF R
<1>3. SUFFICES ASSUME U # {} PROVE FALSE
  OBVIOUS
<1>4. U \subseteq Nat
  OBVIOUS
<1> HIDE DEF U
<1>5. PICK x \in U : \A y \in U : ~(<<y, x>> \in R)
  BY <1>2, <1>3, <1>4, WFMin
<1>6. x \in Nat /\ x # 0 /\ x \notin T
  BY <1>5 DEF U
<1>7. x - 1 \in Nat /\ x - 1 < x
  BY <1>6
<1>8. x - 1 \notin U
  BY <1>1, <1>4, <1>5, <1>7
<1>9. x - 1 \in T
  BY <1>7, <1>8 DEF U
<1>10. (x - 1) + 1 = x
  BY <1>6
<1> QED BY <1>6, <1>9, <1>10

\* One turn of the loop of prune_dead_tabs.
Turn(w, D, n, v) == IF w.tabs[n] \in D THEN RemoveTabId(v, w.tabs[n]) ELSE v

\* The first m turns: f[n] is the window after n of them.
Loop(w, D, m, f) == f = [n \in 0..m |-> IF n = 0 THEN w ELSE Turn(w, D, n, f[n - 1])]

\* The loop can make any number of turns.
LEMMA LoopRuns == ASSUME NEW w, NEW D, NEW m \in Nat PROVE \E f : Loop(w, D, m, f)
<1> DEFINE T == {k \in Nat : \E f : Loop(w, D, k, f)}
<1>1. 0 \in T
  <2> DEFINE f == [n \in 0..0 |-> w]
  <2>1. Loop(w, D, 0, f)
    BY DEF Loop
  <2> QED BY <2>1
<1>2. ASSUME NEW k \in T PROVE k + 1 \in T
  <2>1. PICK f : Loop(w, D, k, f)
    OBVIOUS
  <2> DEFINE g == [n \in 0..(k + 1) |-> IF n = k + 1 THEN Turn(w, D, n, f[k]) ELSE f[n]]
  <2>2. \A n \in 0..k : f[n] = IF n = 0 THEN w ELSE Turn(w, D, n, f[n - 1])
    BY <2>1 DEF Loop
  <2>3. ASSUME NEW n \in 0..(k + 1)
        PROVE  g[n] = IF n = 0 THEN w ELSE Turn(w, D, n, g[n - 1])
    <3>1. CASE n = k + 1
      <4>1. n - 1 = k /\ n - 1 \in 0..(k + 1) /\ n - 1 # k + 1 /\ n # 0
        BY <3>1
      <4> QED BY <3>1, <4>1
    <3>2. CASE n \in 1..k
      <4>1. n - 1 \in 0..(k + 1) /\ n - 1 # k + 1 /\ n # k + 1 /\ n # 0
        BY <3>2
      <4> QED BY <2>2, <3>2, <4>1
    <3>3. CASE n = 0
      BY <2>2, <3>3
    <3> QED BY <3>1, <3>2, <3>3
  <2>4. g = [n \in 0..(k + 1) |-> IF n = 0 THEN w ELSE Turn(w, D, n, g[n - 1])]
    BY <2>3
  <2>5. Loop(w, D, k + 1, g)
    <3> HIDE DEF g
    <3> QED BY <2>4 DEF Loop
  <2> QED BY <2>5
<1>3. T = Nat
  <2> HIDE DEF T
  <2>1. T \subseteq Nat
    BY DEF T
  <2> QED BY <1>1, <1>2, <2>1, SetInduction
<1> QED BY <1>3

\* Loop, as PruneDeadTabs says it.
LEMMA PruneIs ==
    ASSUME NEW w, Len(w.tabs) \in Nat, NEW D
    PROVE  \E f : Loop(w, D, Len(w.tabs), f) /\ PruneDeadTabs(w, D) = f[Len(w.tabs)]
<1> DEFINE m == Len(w.tabs)
           P(f) == f = [n \in 0..m |-> IF n = 0 THEN w
                                       ELSE IF w.tabs[n] \in D THEN RemoveTabId(f[n - 1], w.tabs[n])
                                       ELSE f[n - 1]]
           pruned == CHOOSE f : P(f)
<1>1. PruneDeadTabs(w, D) = pruned[m]
  BY DEF PruneDeadTabs
<1>2. \A f : P(f) <=> Loop(w, D, m, f)
  BY DEF Loop, Turn
<1>3. \E f : Loop(w, D, m, f)
  BY LoopRuns
<1> HIDE DEF P
<1>4. P(pruned)
  BY <1>2, <1>3
<1> QED BY <1>1, <1>2, <1>4

\* prune_dead_tabs: the dead tabs go; the active one stays active if it lives.
LEMMA PruneKeeps ==
    ASSUME NEW w, Valid(w), NEW D
    PROVE  Kept(w, PruneDeadTabs(w, D), D)
<1>1. w \in WindowState /\ w.tabs \in Seq(Tabs) /\ Len(w.tabs) \in Nat
  BY DEF Valid, WindowState
<1> DEFINE m == Len(w.tabs)
           upTo(n) == {w.tabs[k] : k \in 1..n} \cap D
<1>2. PICK f : Loop(w, D, m, f) /\ PruneDeadTabs(w, D) = f[m]
  BY <1>1, PruneIs
<1> DEFINE T == {n \in Nat : n <= m => Kept(w, f[n], upTo(n))}
<1>3. \A n \in 0..m : f[n] = IF n = 0 THEN w ELSE Turn(w, D, n, f[n - 1])
  BY <1>2 DEF Loop
<1>4. 0 \in T
  <2>1. f[0] = w /\ upTo(0) = {}
    BY <1>1, <1>3
  <2>2. Kept(w, f[0], upTo(0))
    BY <2>1 DEF Kept
  <2> QED BY <2>2
<1>5. ASSUME NEW k \in T PROVE k + 1 \in T
  <2> SUFFICES ASSUME k + 1 <= m PROVE Kept(w, f[k + 1], upTo(k + 1))
    OBVIOUS
  <2>1. k \in Nat /\ k + 1 \in 1..m /\ (k + 1) - 1 = k /\ Kept(w, f[k], upTo(k))
    BY <1>1
  <2> DEFINE t == w.tabs[k + 1]
  <2>2. f[k + 1] = IF t \in D THEN RemoveTabId(f[k], t) ELSE f[k]
    BY <1>1, <1>3, <2>1 DEF Turn
  <2>3. upTo(k + 1) = upTo(k) \cup ({t} \cap D)
    <3>1. 1..(k + 1) = 1..k \cup {k + 1}
      BY <2>1
    <3> QED BY <3>1
  <2> HIDE DEF upTo, t, T
  <2>4. CASE t \in D
    <3> DEFINE r == RemoveTabId(f[k], t)
    <3>1. Kept(f[k], r, {t})
      BY <2>1, RemoveIdKeeps DEF Kept
    <3> HIDE DEF r
    <3>2. f[k + 1] = r
      BY <2>2, <2>4 DEF r
    <3> QED BY <2>1, <2>3, <2>4, <3>1, <3>2 DEF Kept
  <2>5. CASE t \notin D
    <3>1. upTo(k + 1) = upTo(k) /\ f[k + 1] = f[k]
      BY <2>2, <2>3, <2>5
    <3> QED BY <2>1, <3>1
  <2> QED BY <2>4, <2>5
<1>6. T = Nat
  <2> HIDE DEF T
  <2>1. T \subseteq Nat
    BY DEF T
  <2> QED BY <1>4, <1>5, <2>1, SetInduction
<1>7. Kept(w, f[m], upTo(m))
  <2>1. m \in T
    BY <1>1, <1>6
  <2> HIDE DEF upTo
  <2> QED BY <1>1, <2>1
<1>8. Members(w) \ upTo(m) = Members(w) \ D
  BY DEF Members
<1> QED BY <1>2, <1>7, <1>8 DEF Kept

----------------------------------------------------------------------------
(* The other operations.                                                   *)

\* push_tab adds a tab that the window does not have.
LEMMA PushKeeps ==
    ASSUME NEW w, Valid(w), NEW t \in Tabs, t \notin Members(w)
    PROVE  LET v == PushTab(w, t) IN
           /\ Valid(v) /\ Members(v) = Members(w) \cup {t}
           /\ v.last = w.last /\ Len(v.tabs) = Len(w.tabs) + 1
<1> DEFINE v == PushTab(w, t)
<1>1. w \in WindowState /\ w.tabs \in Seq(Tabs) /\ Len(w.tabs) \in Nat /\ w.active \in Nat
  BY DEF Valid, WindowState
<1>2. /\ v \in WindowState /\ v.tabs = Append(w.tabs, t) /\ v.active = w.active /\ v.last = w.last
  BY <1>1 DEF PushTab, WindowState
<1> HIDE DEF v
<1>3. /\ Len(v.tabs) = Len(w.tabs) + 1 /\ DOMAIN v.tabs = 1..(Len(w.tabs) + 1)
      /\ \A k \in 1..Len(w.tabs) : v.tabs[k] = w.tabs[k]
      /\ v.tabs[Len(w.tabs) + 1] = t
  BY <1>1, <1>2
<1>4. \A j, k \in 1..Len(w.tabs) : w.tabs[j] = w.tabs[k] => j = k
  BY <1>1 DEF Valid, IsInjective
<1>5. \A k \in 1..Len(w.tabs) : w.tabs[k] # t
  BY DEF Members
<1>6. ASSUME NEW j \in DOMAIN v.tabs, NEW k \in DOMAIN v.tabs, v.tabs[j] = v.tabs[k]
      PROVE  j = k
  <2>1. j = Len(w.tabs) + 1 <=> k = Len(w.tabs) + 1
    <3>1. \A m \in DOMAIN v.tabs : m = Len(w.tabs) + 1 \/ m \in 1..Len(w.tabs)
      BY <1>1, <1>3
    <3>2. \A m \in DOMAIN v.tabs : v.tabs[m] = t => m = Len(w.tabs) + 1
      BY <1>3, <1>5, <3>1
    <3> QED BY <1>3, <1>6, <3>2
  <2>2. j # Len(w.tabs) + 1 => j \in 1..Len(w.tabs) /\ k \in 1..Len(w.tabs)
    BY <1>1, <1>3, <2>1
  <2> QED BY <1>3, <1>4, <1>6, <2>1, <2>2
<1>7. Members(v) = Members(w) \cup {t}
  <2>1. Members(v) = {v.tabs[k] : k \in 1..(Len(w.tabs) + 1)}
    BY <1>3 DEF Members
  <2>2. 1..(Len(w.tabs) + 1) = 1..Len(w.tabs) \cup {Len(w.tabs) + 1}
    BY <1>1
  <2>3. Members(v) = {v.tabs[k] : k \in 1..Len(w.tabs)} \cup {t}
    BY <1>3, <2>1, <2>2
  <2>4. {v.tabs[k] : k \in 1..Len(w.tabs)} = Members(w)
    BY <1>3 DEF Members
  <2> QED BY <2>3, <2>4
<1>8. v.active < Len(v.tabs)
  BY <1>1, <1>2, <1>3 DEF Valid
<1>9. IsInjective(v.tabs)
  BY <1>6 DEF IsInjective
<1> QED BY <1>2, <1>3, <1>7, <1>8, <1>9 DEF v, Valid

\* To activate a tab, with or without remembering the one before.
LEMMA ActivateKeeps ==
    ASSUME NEW w, Valid(w), NEW i \in 0..(Len(w.tabs) - 1)
    PROVE  /\ Valid(SetActive(w, i)) /\ Members(SetActive(w, i)) = Members(w)
           /\ Valid(RememberAndSetActive(w, i))
           /\ Members(RememberAndSetActive(w, i)) = Members(w)
<1>1. /\ w \in WindowState /\ w.tabs \in Seq(Tabs) /\ Len(w.tabs) \in Nat /\ w.active \in Nat
      /\ IsInjective(w.tabs) /\ i \in Nat /\ i < Len(w.tabs)
  BY DEF Valid, WindowState
<1>2. ActiveTab(w) \in Tabs \cup {NoTab}
  BY <1>1 DEF ActiveTab, TabAt
<1>3. ASSUME NEW v \in WindowState, v.tabs = w.tabs
      PROVE  Valid(SetActive(v, i)) /\ Members(SetActive(v, i)) = Members(w)
  BY <1>1, <1>3 DEF SetActive, Valid, WindowState, Members
<1> DEFINE v == [w EXCEPT !.last = ActiveTab(w)]
<1>4. v \in WindowState /\ v.tabs = w.tabs
  BY <1>1, <1>2 DEF WindowState
<1>5. RememberAndSetActive(w, i) = w \/ RememberAndSetActive(w, i) = SetActive(v, i)
  BY DEF RememberAndSetActive
<1> HIDE DEF v
<1> QED BY <1>1, <1>3, <1>4, <1>5

\* A tab put back in at index i, and made active.
LEMMA InsertKeeps ==
    ASSUME NEW u, Valid(u), NEW t \in Tabs, t \notin Members(u), NEW i \in 0..Len(u.tabs),
           NEW r, r = SetActive([u EXCEPT !.tabs = InsertAt(@, i + 1, t)], i)
    PROVE  Valid(r) /\ Members(r) = Members(u) \cup {t} /\ ActiveTab(r) = t
<1>1. /\ u \in WindowState /\ u.tabs \in Seq(Tabs) /\ Len(u.tabs) \in Nat /\ i \in Nat
      /\ \A j, k \in 1..Len(u.tabs) : u.tabs[j] = u.tabs[k] => j = k
  BY DEF Valid, WindowState, IsInjective
<1>2. PICK q \in Seq(Tabs) : q = u.tabs
  BY <1>1
<1>3. PICK n \in 1..(Len(q) + 1) : n = i + 1
  BY <1>1, <1>2
<1>4. PICK s : s = InsertAt(q, n, t)
  OBVIOUS
<1>5. q \in Seq(Tabs) /\ Len(q) \in Nat /\ n \in 1..(Len(q) + 1)
  BY <1>1, <1>2, <1>3
<1>6. /\ s \in Seq(Tabs) /\ Len(s) = Len(q) + 1
      /\ \A j \in 1..(Len(q) + 1) :
            s[j] = IF j < n THEN q[j] ELSE IF j = n THEN t ELSE q[j - 1]
  <2>1. InsertedAt(Tabs, s, q, n, t)
    BY <1>4, InsertAtIs
  <2> QED BY <2>1 DEF InsertedAt
<1>7. r \in WindowState /\ r.tabs = s /\ r.active = i
  <2>1. PICK x : x = [u EXCEPT !.tabs = s]
    OBVIOUS
  <2>2. x \in WindowState /\ x.tabs = s
    BY <1>1, <1>6, <2>1 DEF WindowState
  <2>3. r = [x EXCEPT !.active = i]
    BY <1>2, <1>3, <1>4, <2>1 DEF SetActive
  <2> QED BY <1>1, <2>2, <2>3 DEF WindowState
<1>8. /\ \A k \in 1..Len(q) : q[k] # t
      /\ \A j, k \in 1..Len(q) : q[j] = q[k] => j = k
      /\ Members(u) = {q[k] : k \in 1..Len(q)}
  BY <1>1, <1>2 DEF Members
<1>9. DOMAIN s = 1..(Len(q) + 1) /\ s[n] = t
  BY <1>5, <1>6
<1> DEFINE was(j) == IF j < n THEN j ELSE j - 1
<1>10. \A j \in 1..(Len(q) + 1) : j # n => was(j) \in 1..Len(q) /\ s[j] = q[was(j)]
  <2> TAKE j \in 1..(Len(q) + 1)
  <2>1. CASE j < n
    BY <1>5, <1>6, <2>1
  <2>2. CASE j > n
    BY <1>5, <1>6, <2>2
  <2> QED BY <1>5, <2>1, <2>2
<1>11. ASSUME NEW j \in DOMAIN s, NEW k \in DOMAIN s, s[j] = s[k] PROVE j = k
  <2>1. j = n <=> k = n
    <3> HIDE DEF was
    <3> QED BY <1>8, <1>9, <1>10, <1>11
  <2>2. j # n => was(j) = was(k)
    <3> HIDE DEF was
    <3> QED BY <1>8, <1>9, <1>10, <1>11, <2>1
  <2> QED BY <1>5, <1>9, <2>1, <2>2
<1>12. Members(r) = Members(u) \cup {t}
  <2>1. Members(r) = {s[j] : j \in 1..(Len(q) + 1)}
    BY <1>6, <1>7 DEF Members
  <2>2. \A j \in 1..(Len(q) + 1) : s[j] = t \/ s[j] \in Members(u)
    <3> HIDE DEF was
    <3> QED BY <1>8, <1>9, <1>10
  <2>3. ASSUME NEW k \in 1..Len(q) PROVE \E j \in 1..(Len(q) + 1) : s[j] = q[k]
    <3>1. CASE k < n
      <4>1. k \in 1..(Len(q) + 1)
        BY <1>5
      <4> QED BY <1>6, <3>1, <4>1
    <3>2. CASE ~(k < n)
      <4>1. k + 1 \in 1..(Len(q) + 1) /\ ~(k + 1 < n) /\ k + 1 # n /\ (k + 1) - 1 = k
        BY <1>5, <3>2
      <4> QED BY <1>6, <4>1
    <3> QED BY <3>1, <3>2
  <2>4. t \in Members(r)
    BY <1>5, <1>9, <2>1
  <2>5. Members(r) \subseteq Members(u) \cup {t}
    BY <2>1, <2>2
  <2>6. \A k \in 1..Len(q) : q[k] \in Members(r)
    BY <2>1, <2>3
  <2>7. Members(u) \subseteq Members(r)
    BY <1>8, <2>6
  <2> QED BY <2>4, <2>5, <2>7
<1>13. IsInjective(s)
  BY <1>11 DEF IsInjective
<1>14. i < Len(s) /\ s[i + 1] = t
  BY <1>1, <1>3, <1>5, <1>6, <1>9
<1> QED BY <1>7, <1>12, <1>13, <1>14 DEF Valid, ActiveTab, TabAt

\* move_tab: the tabs stay, and the active one is the one that was moved.
LEMMA MoveKeeps ==
    ASSUME NEW w, Valid(w), NEW i \in 0..(Len(w.tabs) - 1)
    PROVE  /\ Valid(MoveTabTo(w, i)) /\ Members(MoveTabTo(w, i)) = Members(w)
           /\ ActiveTab(MoveTabTo(w, i)) = ActiveTab(w)
<1>1. PICK t, u, r : /\ t = ActiveTab(w) /\ u = RemoveTabIdx(w, w.active)
                     /\ r = SetActive([u EXCEPT !.tabs = InsertAt(@, i + 1, t)], i)
  OBVIOUS
<1>2. /\ w.tabs \in Seq(Tabs) /\ Len(w.tabs) \in Nat /\ w.active \in 0..(Len(w.tabs) - 1)
  BY DEF Valid, WindowState
<1>3. t = w.tabs[w.active + 1] /\ t \in Tabs /\ t \in Members(w)
  BY <1>1, <1>2 DEF ActiveTab, TabAt, Members
<1>4. /\ Valid(u) /\ Members(u) = Members(w) \ {t} /\ Len(u.tabs) = Len(w.tabs) - 1
  BY <1>1, <1>2, <1>3, RemoveIdxKeeps DEF Kept
<1>5. i \in 0..Len(u.tabs) /\ t \notin Members(u)
  BY <1>2, <1>4
<1>6. Valid(r) /\ Members(r) = Members(u) \cup {t} /\ ActiveTab(r) = t
  BY <1>1, <1>3, <1>4, <1>5, InsertKeeps
<1>7. MoveTabTo(w, i) = r
  BY <1>1 DEF MoveTabTo
<1> QED BY <1>1, <1>3, <1>4, <1>6, <1>7

\* A remainder is smaller than the divisor.
LEMMA ModIs == ASSUME NEW m \in Nat, m > 0 PROVE \A j \in Int : j % m \in 0..(m - 1)
OBVIOUS

\* activate_tab_relative and move_tab_relative stay among the tabs.
LEMMA RelativeIs ==
    ASSUME NEW w, Valid(w), w.tabs # <<>>, NEW delta \in Int, NEW wrap \in BOOLEAN
    PROVE  /\ RelativeIdx(w, delta, wrap) \in 0..(Len(w.tabs) - 1)
           /\ ClampIdx(w.active + delta, Len(w.tabs)) \in 0..(Len(w.tabs) - 1)
<1> DEFINE max == Len(w.tabs)
           i == w.active + delta
<1>1. max \in Nat /\ max > 0 /\ i \in Int
  BY DEF Valid, WindowState
<1>2. \A j \in Int : j % max \in 0..(max - 1)
  <2> HIDE DEF max
  <2> QED BY <1>1, ModIs
<1>3. \A j \in Int : ClampIdx(j, max) \in 0..(max - 1)
  BY <1>1 DEF ClampIdx
<1>4. UsizeMod(max + i, max) \in 0..(max - 1)
  <2> DEFINE q == 65536 % max
             p == (q * q * q * q) % max
  <2>1. q \in Int
    BY <1>2
  <2>2. p \in Int
    <3> HIDE DEF q
    <3>1. q * q * q * q \in Int
      BY <2>1
    <3> QED BY <1>2, <3>1
  <2>3. UsizeMod(max + i, max) = (p + (max + i)) % max
    BY DEF UsizeMod
  <2> HIDE DEF p
  <2>4. p + (max + i) \in Int
    BY <1>1, <2>2
  <2> QED BY <1>2, <2>3, <2>4
<1>5. RelativeIdx(w, delta, wrap) \in {ClampIdx(i, max), i % max, (max + i) % max, UsizeMod(max + i, max)}
  BY DEF RelativeIdx
<1> HIDE DEF max, i
<1>6. i % max \in 0..(max - 1) /\ (max + i) % max \in 0..(max - 1) /\ ClampIdx(i, max) \in 0..(max - 1)
  BY <1>1, <1>2, <1>3
<1> QED BY <1>4, <1>5, <1>6 DEF max, i

----------------------------------------------------------------------------
(* The theorems.                                                           *)

\* What SequencesExt calls ToSet.
LEMMA MembersAre == ASSUME NEW w \in WindowState PROVE ToSet(w.tabs) = Members(w)
BY DEF ToSet, Members, WindowState

\* The invariant in terms of the window.
LEMMA ActiveValidIs ==
    ActiveValid <=> /\ Valid(window) /\ dead \subseteq Members(window)
                    /\ unused \subseteq Tabs \ Members(window)
BY MembersAre DEF ActiveValid, TypeOK, Valid
\* It is kept if the window is valid and dead and unused follow its tabs.
LEMMA ActiveValidKept ==
    ASSUME Valid(window'), dead' \subseteq Members(window'), unused' \subseteq Tabs \ Members(window')
    PROVE  ActiveValid'
<1>1. ToSet(window'.tabs) = Members(window')
  BY MembersAre DEF Valid
<1> QED BY <1>1 DEF ActiveValid, TypeOK, Valid

\* Every action keeps it.
LEMMA NextKeeps == ActiveValid /\ [Next]_vars => ActiveValid'
<1> SUFFICES ASSUME ActiveValid, [Next]_vars PROVE ActiveValid'
  OBVIOUS
<1>1. PICK w, d, u : w = window /\ d = dead /\ u = unused
  OBVIOUS
<1>2. /\ Valid(w) /\ d \subseteq Members(w) /\ u \subseteq Tabs \ Members(w)
      /\ w \in WindowState /\ Len(w.tabs) \in Nat
  BY <1>1, ActiveValidIs DEF Valid, WindowState
<1>3. PICK v : v = window'
  OBVIOUS
<1>4. ASSUME NEW t \in Tabs, AddTab(t) \/ SpawnTab(t) \/ SpawnFirstTab(t) PROVE ActiveValid'
  <2> DEFINE p == PushTab(w, t)
  <2>1. /\ t \in u /\ unused' = u \ {t} /\ dead' = d
        /\ v \in {p, RememberAndSetActive(p, Len(w.tabs)), SetActive(p, Len(w.tabs))}
    BY <1>1, <1>3, <1>4 DEF AddTab, SpawnTab, SpawnFirstTab
  <2>2. Valid(p) /\ Members(p) = Members(w) \cup {t} /\ Len(p.tabs) = Len(w.tabs) + 1
    BY <1>2, <2>1, PushKeeps
  <2> HIDE DEF p
  <2>3. Len(w.tabs) \in 0..(Len(p.tabs) - 1)
    BY <1>2, <2>2
  <2>4. Valid(v) /\ Members(v) = Members(p)
    BY <2>1, <2>2, <2>3, ActivateKeeps
  <2> QED BY <1>2, <1>3, <2>1, <2>2, <2>4, ActiveValidKept
<1>5. ASSUME NEW i \in 0..(Len(w.tabs) - 1), UNCHANGED <<dead, unused>>,
             v \in {RememberAndSetActive(w, i), MoveTabTo(w, i)}
      PROVE  ActiveValid'
  <2>1. Valid(v) /\ Members(v) = Members(w)
    BY <1>2, <1>5, ActivateKeeps, MoveKeeps
  <2> QED BY <1>1, <1>2, <1>3, <1>5, <2>1, ActiveValidKept
<1>6. ASSUME NEW i \in Offsets, ActivateTab(i) PROVE ActiveValid'
  <2>1. FromEnd(i, Len(w.tabs)) \in 0..(Len(w.tabs) - 1)
    <3>1. i \in Int /\ FromEnd(i, Len(w.tabs)) < Len(w.tabs)
      BY <1>1, <1>6, ConfigAssumption DEF ActivateTab
    <3> QED BY <1>2, <3>1 DEF FromEnd
  <2> QED BY <1>1, <1>3, <1>5, <1>6, <2>1 DEF ActivateTab
<1>7. ASSUME NEW delta \in Offsets, NEW wrap \in BOOLEAN,
             ActivateTabRelative(delta, wrap) \/ MoveTabRelative(delta)
      PROVE  ActiveValid'
  <2>1. /\ w.tabs # <<>> /\ UNCHANGED <<dead, unused>>
        /\ \/ v = RememberAndSetActive(w, RelativeIdx(w, delta, wrap))
           \/ v = MoveTabTo(w, ClampIdx(w.active + delta, Len(w.tabs)))
    BY <1>1, <1>3, <1>7 DEF ActivateTabRelative, MoveTabRelative
  <2>2. delta \in Int
    BY ConfigAssumption
  <2>3. /\ RelativeIdx(w, delta, wrap) \in 0..(Len(w.tabs) - 1)
        /\ ClampIdx(w.active + delta, Len(w.tabs)) \in 0..(Len(w.tabs) - 1)
    BY <1>2, <2>1, <2>2, RelativeIs
  <2> QED BY <1>5, <2>1, <2>3
<1>8. CASE ActivateLastTab
  <2>1. HasTab(w, w.last) /\ v = RememberAndSetActive(w, IdxOf(w, w.last)) /\ UNCHANGED <<dead, unused>>
    BY <1>1, <1>3, <1>8 DEF ActivateLastTab
  <2> QED BY <1>2, <1>5, <2>1, IdxIs
<1>9. ASSUME NEW i \in Offsets, MoveTab(i) PROVE ActiveValid'
  BY <1>1, <1>3, <1>5, <1>9 DEF MoveTab
<1>10. ASSUME NEW t \in Tabs, CloseTab(t) PROVE ActiveValid'
  <2>1. v = RemoveTabId(w, t) /\ dead' = d \ {t} /\ unused' = u
    BY <1>1, <1>3, <1>10 DEF CloseTab
  <2>2. Valid(v) /\ Members(v) = Members(w) \ {t}
    BY <1>2, <2>1, RemoveIdKeeps DEF Kept
  <2> QED BY <1>2, <1>3, <2>1, <2>2, ActiveValidKept
<1>11. ASSUME NEW t \in Tabs, TabDies(t) PROVE ActiveValid'
  <2>1. HasTab(w, t) /\ v = w /\ dead' = d \cup {t} /\ unused' = u
    BY <1>1, <1>3, <1>11 DEF TabDies
  <2>2. t \in Members(w)
    BY <1>2, <2>1, HasIs
  <2> QED BY <1>2, <1>3, <2>1, <2>2, ActiveValidKept
<1>12. CASE Prune
  <2>1. v = PruneDeadTabs(w, d) /\ dead' = {} /\ unused' = u
    BY <1>1, <1>3, <1>12 DEF Prune
  <2>2. Valid(v) /\ Members(v) = Members(w) \ d
    BY <1>2, <2>1, PruneKeeps DEF Kept
  <2> QED BY <1>2, <1>3, <2>1, <2>2, ActiveValidKept
<1>13. CASE UNCHANGED vars
  <2>1. v = w /\ dead' = d /\ unused' = u
    BY <1>1, <1>3, <1>13 DEF vars
  <2> QED BY <1>2, <1>3, <2>1, ActiveValidKept
<1> QED BY <1>4, <1>6, <1>7, <1>8, <1>9, <1>10, <1>11, <1>12, <1>13 DEF Next

\* ActiveValid: the index of the active tab is always that of a tab, and the window
\* holds each tab once.  It is inductive as it stands.
THEOREM ActiveCorrect == Spec => []ActiveValid
<1>1. Init => ActiveValid
  <2> SUFFICES ASSUME Init PROVE ActiveValid
    OBVIOUS
  <2>1. Valid(window) /\ Members(window) = {}
    BY DEF Init, Valid, WindowState, IsInjective, Members
  <2> QED BY <2>1, ActiveValidIs DEF Init
<1> QED BY <1>1, NextKeeps, PTL DEF Spec

\* SurvivorStaysActive: whichever tabs are closed, die or are moved, the tab that was
\* active is active as long as the window has it.
THEOREM SurvivorCorrect == Spec => SurvivorStaysActive
<1> DEFINE Stays == /\ ActiveTab(window) # NoTab /\ HasTab(window', ActiveTab(window))
                    /\ Prune \/ (\E t \in Tabs : CloseTab(t)) \/ (\E i \in Offsets : MoveTab(i))
                    => ActiveTab(window') = ActiveTab(window)
<1>1. ActiveValid /\ [Next]_vars => [Stays]_vars
  <2> SUFFICES ASSUME ActiveValid, HasTab(window', ActiveTab(window)), Valid(window'),
                      Prune \/ (\E t \in Tabs : CloseTab(t)) \/ (\E i \in Offsets : MoveTab(i))
               PROVE  ActiveTab(window') = ActiveTab(window)
    <3>1. ActiveValid /\ [Next]_vars => Valid(window')
      BY NextKeeps, MembersAre DEF ActiveValid, TypeOK, Valid
    <3> QED BY <3>1
  <2>1. PICK w, v : w = window /\ v = window'
    OBVIOUS
  <2>2. Valid(w) /\ ActiveTab(w) \in Members(v)
    BY <2>1, ActiveValidIs, HasIs DEF Valid
  <2>3. CASE Prune
    <3>1. v = PruneDeadTabs(w, dead)
      BY <2>1, <2>3 DEF Prune
    <3> QED BY <2>1, <2>2, <3>1, PruneKeeps DEF Kept
  <2>4. ASSUME NEW t \in Tabs, CloseTab(t) PROVE ActiveTab(v) = ActiveTab(w)
    <3>1. v = RemoveTabId(w, t)
      BY <2>1, <2>4 DEF CloseTab
    <3> QED BY <2>2, <3>1, RemoveIdKeeps DEF Kept
  <2>5. ASSUME NEW i \in Offsets, MoveTab(i) PROVE ActiveTab(v) = ActiveTab(w)
    <3>1. v = MoveTabTo(w, i) /\ i \in 0..(Len(w.tabs) - 1)
      BY <2>1, <2>5 DEF MoveTab
    <3> QED BY <2>2, <3>1, MoveKeeps
  <2> QED BY <2>1, <2>3, <2>4, <2>5
<1> QED BY <1>1, ActiveCorrect, PTL DEF Spec, SurvivorStaysActive

(* A loop that goes on for ever, from v, G giving the state after its n-th turn. *)

\* The first k turns.
Turns(V, v, G, k, f) ==
    f \in [0..k -> V] /\ \A n \in 0..k : f[n] = IF n = 0 THEN v ELSE G[<<n, f[n - 1]>>]

\* Any number of turns can be made.
LEMMA TurnsExist ==
    ASSUME NEW V, NEW v \in V, NEW G \in [Nat \X V -> V], NEW m \in Nat
    PROVE  \E f : Turns(V, v, G, m, f)
<1> DEFINE T == {k \in Nat : \E f : Turns(V, v, G, k, f)}
<1>1. 0 \in T
  <2> DEFINE f == [n \in 0..0 |-> v]
  <2>1. Turns(V, v, G, 0, f)
    BY DEF Turns
  <2> QED BY <2>1
<1>2. ASSUME NEW k \in T PROVE k + 1 \in T
  <2>1. PICK f : Turns(V, v, G, k, f)
    OBVIOUS
  <2>2. k \in Nat /\ f \in [0..k -> V] /\ f[k] \in V
    BY <2>1 DEF Turns
  <2> DEFINE g == [n \in 0..(k + 1) |-> IF n = k + 1 THEN G[<<n, f[k]>>] ELSE f[n]]
  <2>3. g \in [0..(k + 1) -> V]
    <3>1. ASSUME NEW n \in 0..(k + 1) PROVE (IF n = k + 1 THEN G[<<n, f[k]>>] ELSE f[n]) \in V
      BY <2>2
    <3> QED BY <3>1
  <2>4. ASSUME NEW n \in 0..(k + 1) PROVE g[n] = IF n = 0 THEN v ELSE G[<<n, g[n - 1]>>]
    <3>1. CASE n = k + 1
      <4>1. n - 1 = k /\ n - 1 \in 0..(k + 1) /\ n - 1 # k + 1 /\ n # 0
        BY <2>2, <3>1
      <4>2. g[n - 1] = f[k] /\ g[n] = G[<<n, f[k]>>]
        BY <3>1, <4>1
      <4> QED BY <4>1, <4>2
    <3>2. CASE n \in 0..k
      <4>1. n # k + 1 /\ (n # 0 => n - 1 \in 0..(k + 1) /\ n - 1 # k + 1)
        BY <2>2, <3>2
      <4>2. f[n] = IF n = 0 THEN v ELSE G[<<n, f[n - 1]>>]
        BY <2>1, <3>2 DEF Turns
      <4> QED BY <4>1, <4>2
    <3> QED BY <2>2, <3>1, <3>2
  <2>5. Turns(V, v, G, k + 1, g)
    <3> HIDE DEF g
    <3> QED BY <2>3, <2>4 DEF Turns
  <2> QED BY <2>2, <2>5
<1>3. T = Nat
  <2> HIDE DEF T
  <2>1. T \subseteq Nat
    BY DEF T
  <2> QED BY <1>1, <1>2, <2>1, SetInduction
<1> QED BY <1>3

\* However many are made, the state after the m-th is the same.
LEMMA TurnsAgree ==
    ASSUME NEW V, NEW v \in V, NEW G, NEW m \in Nat,
           NEW k \in Nat, NEW l \in Nat, m <= k, m <= l,
           NEW f, Turns(V, v, G, k, f), NEW g, Turns(V, v, G, l, g)
    PROVE  f[m] = g[m]
<1> DEFINE T == {n \in Nat : n <= k /\ n <= l => f[n] = g[n]}
<1>1. 0 \in T
  <2>1. 0 \in 0..k /\ 0 \in 0..l
    OBVIOUS
  <2>2. f[0] = v /\ g[0] = v
    BY <2>1 DEF Turns
  <2> QED BY <2>2
<1>2. ASSUME NEW n \in T PROVE n + 1 \in T
  <2>1. SUFFICES ASSUME n + 1 <= k, n + 1 <= l PROVE f[n + 1] = g[n + 1]
    OBVIOUS
  <2>2. n + 1 \in 0..k /\ n + 1 \in 0..l /\ n + 1 # 0 /\ (n + 1) - 1 = n
    BY <2>1
  <2>3. f[n] = g[n]
    BY <2>1
  <2> QED BY <2>2, <2>3 DEF Turns
<1>3. T = Nat
  <2> HIDE DEF T
  <2>1. T \subseteq Nat
    BY DEF T
  <2> QED BY <1>1, <1>2, <2>1, SetInduction
<1> QED BY <1>3

\* So there is a function that gives the state after every turn.
Endless(V, v, G, f) ==
    f \in [Nat -> V] /\ \A n \in Nat : f[n] = IF n = 0 THEN v ELSE G[<<n, f[n - 1]>>]

\* A recursion over the natural numbers describes a function.
LEMMA Iterates ==
    ASSUME NEW V, NEW v \in V, NEW G \in [Nat \X V -> V]
    PROVE  \E f : Endless(V, v, G, f)
<1> DEFINE run(n) == CHOOSE f : Turns(V, v, G, n, f)
           F == [n \in Nat |-> run(n)[n]]
<1>1. ASSUME NEW n \in Nat PROVE Turns(V, v, G, n, run(n))
  BY TurnsExist
<1> HIDE DEF run
<1>2. ASSUME NEW n \in Nat PROVE F[n] \in V /\ F[n] = IF n = 0 THEN v ELSE G[<<n, F[n - 1]>>]
  <2>1. F[n] = run(n)[n] /\ n \in 0..n
    OBVIOUS
  <2>2. F[n] \in V /\ F[n] = IF n = 0 THEN v ELSE G[<<n, run(n)[n - 1]>>]
    BY <1>1, <2>1 DEF Turns
  <2>3. CASE n # 0
    <3>1. n - 1 \in Nat /\ n - 1 <= n - 1 /\ n - 1 <= n
      BY <2>3
    <3>2. run(n - 1)[n - 1] = run(n)[n - 1]
      BY <1>1, <3>1, TurnsAgree
    <3>3. F[n - 1] = run(n)[n - 1]
      BY <3>1, <3>2
    <3> QED BY <2>2, <3>3
  <2> QED BY <2>2, <2>3
<1> HIDE DEF F
<1>3. DOMAIN F = Nat /\ F = [n \in Nat |-> F[n]]
  BY DEF F
<1>4. F \in [Nat -> V]
  BY <1>2, <1>3
<1> QED BY <1>2, <1>4 DEF Endless

(* Positions in a tree.                                                    *)

\* The types of what is read from a position.
LEMMA PositionIs ==
    ASSUME NEW p \in Position
    PROVE  /\ Len(p) \in Nat /\ DOMAIN p = 1..Len(p)
           /\ \A i \in 1..Len(p) : p[i] \in {1, 2} /\ p[i] \in Nat
BY DEF Position

\* Positions of the same turns are the same.
LEMMA SamePosition ==
    ASSUME NEW p \in Position, NEW q \in Position, Len(p) = Len(q),
           \A i \in 1..Len(p) : p[i] = q[i]
    PROVE  p = q
BY SeqEqual DEF Position

\* The root.
LEMMA RootIs == <<>> \in Position /\ Len(<<>>) = 0 /\ \A p \in Position : Len(p) = 0 => p = <<>>
BY DEF Position

\* The two positions below p.
LEMMA ChildIs ==
    ASSUME NEW p \in Position, NEW s \in {1, 2}
    PROVE  /\ Append(p, s) \in Position /\ Len(Append(p, s)) = Len(p) + 1
           /\ \A i \in 1..Len(p) : Append(p, s)[i] = p[i]
           /\ Append(p, s)[Len(p) + 1] = s
           /\ Append(p, s) # p /\ Append(p, s) # <<>>
<1>1. p \in Seq({1, 2}) /\ Len(p) \in Nat
  BY DEF Position
<1>2. /\ Append(p, s) \in Seq({1, 2}) /\ Len(Append(p, s)) = Len(p) + 1
      /\ \A i \in 1..Len(p) : Append(p, s)[i] = p[i]
      /\ Append(p, s)[Len(p) + 1] = s
  BY <1>1, AppendProperties
<1>3. Append(p, s) # p /\ Append(p, s) # <<>>
  BY <1>1, <1>2
<1> QED BY <1>2, <1>3 DEF Position

\* The first n turns.
LEMMA CutIs ==
    ASSUME NEW p \in Position, NEW n \in 0..Len(p)
    PROVE  /\ SubSeq(p, 1, n) \in Position /\ Len(SubSeq(p, 1, n)) = n
           /\ \A i \in 1..n : SubSeq(p, 1, n)[i] = p[i]
BY DEF Position

\* The position above, and the one beside.
LEMMA UpIs ==
    ASSUME NEW p \in Position, p # <<>>
    PROVE  /\ Up(p) = SubSeq(p, 1, Len(p) - 1) /\ Up(p) \in Position
           /\ Len(p) \in Nat \ {0} /\ Len(Up(p)) = Len(p) - 1
           /\ \A i \in 1..(Len(p) - 1) : Up(p)[i] = p[i]
           /\ p[Len(p)] \in {1, 2}
           /\ p = Append(Up(p), p[Len(p)])
<1>1. Len(p) \in Nat \ {0} /\ p[Len(p)] \in {1, 2} /\ Len(p) - 1 \in 0..Len(p)
  BY RootIs, PositionIs
<1>2. Up(p) = SubSeq(p, 1, Len(p) - 1)
  BY DEF Up, Front
<1>3. /\ Up(p) \in Position /\ Len(Up(p)) = Len(p) - 1
      /\ \A i \in 1..(Len(p) - 1) : Up(p)[i] = p[i]
  <2>1. PICK n : n = Len(p) - 1
    OBVIOUS
  <2>2. n \in 0..Len(p)
    BY <1>1, <2>1
  <2>3. /\ SubSeq(p, 1, n) \in Position /\ Len(SubSeq(p, 1, n)) = n
        /\ \A i \in 1..n : SubSeq(p, 1, n)[i] = p[i]
    BY <2>2, CutIs
  <2> QED BY <1>2, <2>1, <2>3, Zenon
<1> HIDE DEF Up
<1>4. p = Append(Up(p), p[Len(p)])
  <2> DEFINE r == Append(Up(p), p[Len(p)])
  <2>1. /\ r \in Position /\ Len(r) = Len(p) /\ r[Len(p)] = p[Len(p)]
        /\ \A i \in 1..(Len(p) - 1) : r[i] = Up(p)[i]
    BY <1>1, <1>3, ChildIs
  <2> HIDE DEF r
  <2>2. \A i \in 1..Len(p) : p[i] = r[i]
    BY <1>1, <1>3, <2>1
  <2>3. p = r
    BY <2>1, <2>2, SamePosition
  <2> QED BY <2>3 DEF r
<1> QED BY <1>1, <1>2, <1>3, <1>4

\* The sibling of a position differs from it in its last turn.
LEMMA SiblingIs ==
    ASSUME NEW p \in Position, p # <<>>
    PROVE  /\ Sibling(p) \in Position /\ Len(Sibling(p)) = Len(p)
           /\ \A i \in 1..(Len(p) - 1) : Sibling(p)[i] = p[i]
           /\ Sibling(p)[Len(p)] = 3 - p[Len(p)]
           /\ Sibling(p) = Append(Up(p), 3 - p[Len(p)])
<1>1. Len(p) \in Nat \ {0} /\ p[Len(p)] \in {1, 2}
  BY UpIs
<1>2. /\ Sibling(p) \in Position /\ Len(Sibling(p)) = Len(p)
      /\ \A i \in 1..(Len(p) - 1) : Sibling(p)[i] = p[i]
      /\ Sibling(p)[Len(p)] = 3 - p[Len(p)]
  BY <1>1, PositionIs DEF Sibling, Position
<1> HIDE DEF Sibling
<1> DEFINE r == Append(Up(p), 3 - p[Len(p)])
<1>3. /\ r \in Position /\ Len(r) = Len(p) /\ r[Len(p)] = 3 - p[Len(p)]
      /\ \A i \in 1..(Len(p) - 1) : r[i] = p[i]
  <2>1. 3 - p[Len(p)] \in {1, 2}
    BY <1>1
  <2>2. /\ Up(p) \in Position /\ Len(Up(p)) + 1 = Len(p) /\ Len(Up(p)) = Len(p) - 1
        /\ \A i \in 1..(Len(p) - 1) : Up(p)[i] = p[i]
    BY <1>1, UpIs
  <2>3. PICK u, s : u = Up(p) /\ s = 3 - p[Len(p)]
    OBVIOUS
  <2>4. /\ Append(u, s) \in Position /\ Len(Append(u, s)) = Len(u) + 1
        /\ \A i \in 1..Len(u) : Append(u, s)[i] = u[i]
        /\ Append(u, s)[Len(u) + 1] = s
    BY <2>1, <2>2, <2>3, ChildIs
  <2>5. r = Append(u, s)
    BY <2>3
  <2> HIDE DEF r
  <2> QED BY <1>1, <2>2, <2>3, <2>4, <2>5
<1> HIDE DEF r
<1>4. \A i \in 1..Len(p) : Sibling(p)[i] = r[i]
  BY <1>1, <1>2, <1>3
<1>5. Sibling(p) = r
  BY <1>2, <1>3, <1>4, SamePosition
<1> QED BY <1>2, <1>5 DEF r

----------------------------------------------------------------------------
(* The order of positions.                                                 *)

\* A nonempty set of numbers has a least one.
LEMMA Least == ASSUME NEW U, U \subseteq Nat, U # {} PROVE \E n \in U : \A m \in U : n <= m
<1> DEFINE R == {ss \in Nat \X Nat : ss[1] < ss[2]}
<1>1. \A x, y \in Nat : <<x, y>> \in R <=> x < y
  OBVIOUS
<1>2. IsWellFoundedOn(R, Nat)
  BY NatLess
<1> HIDE DEF R
<1>3. PICK x \in U : \A y \in U : ~(<<y, x>> \in R)
  BY <1>2, WFMin
<1>4. ASSUME NEW y \in U PROVE x <= y
  <2>1. x \in Nat /\ y \in Nat /\ ~(y < x)
    BY <1>1, <1>3
  <2> QED BY <2>1
<1> QED BY <1>3, <1>4

\* Of two positions one is above the other, or they part somewhere.
LEMMA Parting ==
    ASSUME NEW p \in Position, NEW q \in Position
    PROVE  Under(p, q) \/ Under(q, p) \/ Before(p, q) \/ Before(q, p)
<1> DEFINE U == {i \in Nat : i \in 1..Len(p) /\ i <= Len(q) /\ p[i] # q[i]}
<1>1. /\ Len(p) \in Nat /\ Len(q) \in Nat
      /\ \A i \in 1..Len(p) : p[i] \in {1, 2}
      /\ \A i \in 1..Len(q) : q[i] \in {1, 2}
  BY PositionIs
<1>2. CASE U = {}
  <2>1. \A i \in 1..Len(p) : i <= Len(q) => p[i] = q[i]
    BY <1>1, <1>2
  <2> HIDE DEF U
  <2> QED BY <1>1, <2>1 DEF Under
<1>3. CASE U # {}
  <2>1. U \subseteq Nat
    OBVIOUS
  <2> HIDE DEF U
  <2>2. PICK i \in U : \A j \in U : i <= j
    BY <1>3, <2>1, Least
  <2>3. i \in 1..Len(p) /\ i \in 1..Len(q) /\ p[i] # q[i]
    BY <1>1, <2>2 DEF U
  <2>4. ASSUME NEW j \in 1..(i - 1) PROVE p[j] = q[j] /\ q[j] = p[j]
    <3>1. j \notin U /\ j \in 1..Len(p) /\ j <= Len(q) /\ j \in Nat
      BY <1>1, <2>2, <2>3
    <3> QED BY <3>1 DEF U
  <2>5. p[i] < q[i] \/ q[i] < p[i]
    BY <1>1, <2>3
  <2> QED BY <1>1, <2>3, <2>4, <2>5 DEF Before
<1> QED BY <1>2, <1>3

\* Being to the left is a strict order, and positions one of which is above the other
\* do not have it.
LEMMA BeforeStrict ==
    ASSUME NEW p \in Position, NEW q \in Position, Before(p, q)
    PROVE  ~Before(q, p) /\ ~Under(p, q) /\ ~Under(q, p) /\ p # q
<1>1. PICK i \in 1..Len(p) : i <= Len(q) /\ p[i] < q[i] /\ \A j \in 1..(i - 1) : p[j] = q[j]
  BY DEF Before
<1>2. /\ Len(p) \in Nat /\ Len(q) \in Nat /\ i \in Nat
      /\ i \in 1..Len(q) /\ p[i] \in Nat /\ q[i] \in Nat /\ p[i] # q[i]
  BY <1>1, PositionIs
<1>3. ASSUME NEW k \in 1..Len(q), k <= Len(p), q[k] < p[k], \A j \in 1..(k - 1) : q[j] = p[j]
      PROVE  FALSE
  <2>0. q[k] \in Nat /\ p[k] \in Nat
    BY <1>2, <1>3, PositionIs
  <2>1. CASE k = i
    BY <1>1, <1>2, <1>3, <2>1
  <2>2. CASE k < i
    BY <1>1, <1>2, <1>3, <2>0, <2>2
  <2>3. CASE i < k
    BY <1>1, <1>2, <1>3, <2>3
  <2> QED BY <1>2, <2>1, <2>2, <2>3
<1>4. ~Before(q, p)
  BY <1>3 DEF Before
<1> QED BY <1>1, <1>2, <1>4 DEF Under

\* To the left of what is to the left.
LEMMA BeforeTransitive ==
    ASSUME NEW p \in Position, NEW q \in Position, NEW r \in Position,
           Before(p, q), Before(q, r)
    PROVE  Before(p, r)
<1>1. PICK i \in 1..Len(p) : i <= Len(q) /\ p[i] < q[i] /\ \A j \in 1..(i - 1) : p[j] = q[j]
  BY DEF Before
<1>2. PICK k \in 1..Len(q) : k <= Len(r) /\ q[k] < r[k] /\ \A j \in 1..(k - 1) : q[j] = r[j]
  BY DEF Before
<1>3. /\ Len(p) \in Nat /\ Len(q) \in Nat /\ Len(r) \in Nat /\ i \in Nat /\ k \in Nat
      /\ p[i] \in Nat /\ q[i] \in Nat /\ q[k] \in Nat /\ r[k] \in Nat
  BY <1>1, <1>2, PositionIs
<1>4. CASE i <= k
  <2>1. i <= Len(r) /\ p[i] < r[i] /\ r[i] \in Nat
    <3>1. CASE i = k
      BY <1>1, <1>2, <1>3, <3>1
    <3>2. CASE i < k
      BY <1>1, <1>2, <1>3, <3>2
    <3> QED BY <1>3, <1>4, <3>1, <3>2
  <2>2. \A j \in 1..(i - 1) : p[j] = r[j]
    BY <1>1, <1>2, <1>3, <1>4
  <2> QED BY <2>1, <2>2 DEF Before
<1>5. CASE k < i
  <2>1. k \in 1..Len(p) /\ p[k] < r[k]
    BY <1>1, <1>2, <1>3, <1>5
  <2>2. \A j \in 1..(k - 1) : p[j] = r[j]
    BY <1>1, <1>2, <1>3, <1>5
  <2> QED BY <1>2, <2>1, <2>2 DEF Before
<1> QED BY <1>3, <1>4, <1>5

(* Ranks: how many elements of a set a strict order R has before one.      *)

\* What an order R puts before x in S, and how many they are.
Preceding(S, R, x) == {o \in S : <<o, x>> \in R}
Rank(S, R, x) == Cardinality(Preceding(S, R, x))

\* R puts all of S in one line.
Orders(R, S) ==
    /\ \A x \in S : <<x, x>> \notin R
    /\ \A x, y, z \in S : <<x, y>> \in R /\ <<y, z>> \in R => <<x, z>> \in R
    /\ \A x, y \in S : x = y \/ <<x, y>> \in R \/ <<y, x>> \in R

\* A strict order numbers the elements of a finite set from 0.
LEMMA RankIs ==
    ASSUME NEW S, IsFiniteSet(S), NEW R, Orders(R, S)
    PROVE  /\ \A x \in S : Rank(S, R, x) \in 0..(Cardinality(S) - 1)
           /\ \A x, y \in S : <<x, y>> \in R => Rank(S, R, x) < Rank(S, R, y)
           /\ \A x, y \in S : Rank(S, R, x) = Rank(S, R, y) => x = y
           /\ \A i \in 0..(Cardinality(S) - 1) : \E x \in S : Rank(S, R, x) = i
<1>0. Cardinality(S) \in Nat
  BY FS_CardinalityType
<1>1. ASSUME NEW x \in S
      PROVE  /\ IsFiniteSet(Preceding(S, R, x)) /\ Rank(S, R, x) \in Nat
             /\ Rank(S, R, x) < Cardinality(S)
  <2>1. Preceding(S, R, x) \in SUBSET S /\ Preceding(S, R, x) # S
    BY DEF Preceding, Orders
  <2>2. /\ IsFiniteSet(Preceding(S, R, x))
        /\ Cardinality(Preceding(S, R, x)) <= Cardinality(S)
        /\ Cardinality(Preceding(S, R, x)) # Cardinality(S)
    BY <2>1, FS_Subset
  <2>3. Cardinality(Preceding(S, R, x)) \in Nat
    BY <2>2, FS_CardinalityType
  <2> QED BY <1>0, <2>2, <2>3 DEF Rank
<1>2. ASSUME NEW x \in S, NEW y \in S, <<x, y>> \in R PROVE Rank(S, R, x) < Rank(S, R, y)
  <2>1. Preceding(S, R, x) \in SUBSET Preceding(S, R, y)
    BY <1>2 DEF Preceding, Orders
  <2>2. Preceding(S, R, x) # Preceding(S, R, y)
    BY <1>2 DEF Preceding, Orders
  <2>3. /\ Cardinality(Preceding(S, R, x)) <= Cardinality(Preceding(S, R, y))
        /\ Cardinality(Preceding(S, R, x)) # Cardinality(Preceding(S, R, y))
    BY <1>1, <2>1, <2>2, FS_Subset
  <2> QED BY <1>1, <2>3 DEF Rank
<1>3. ASSUME NEW x \in S, NEW y \in S, Rank(S, R, x) = Rank(S, R, y) PROVE x = y
  <2>1. Rank(S, R, x) \in Nat /\ Rank(S, R, y) \in Nat
    BY <1>1
  <2>2. <<x, y>> \notin R /\ <<y, x>> \notin R
    BY <1>2, <1>3, <2>1
  <2> QED BY <2>2 DEF Orders
<1> DEFINE N == 0..(Cardinality(S) - 1)
           f == [x \in S |-> Rank(S, R, x)]
<1>4. IsFiniteSet(N) /\ Cardinality(N) = Cardinality(S)
  <2>1. Cardinality(S) - 1 \in Int /\ 0 \in Int
    BY <1>0
  <2>2. IsFiniteSet(N) /\ Cardinality(N) = IF 0 > Cardinality(S) - 1 THEN 0 ELSE Cardinality(S) - 1 - 0 + 1
    BY <2>1, FS_Interval
  <2> HIDE DEF N
  <2> QED BY <1>0, <2>2
<1>5. \A x \in S : Rank(S, R, x) \in N
  BY <1>0, <1>1
<1>6. f \in Injection(S, N)
  <2>1. f \in [S -> N]
    BY <1>5
  <2>2. \A a, b \in S : f[a] = f[b] => a = b
    BY <1>3
  <2> HIDE DEF f, N
  <2> QED BY <2>1, <2>2 DEF Injection, IsInjective
<1>7. f \in Surjection(S, N)
  <2> HIDE DEF f, N
  <2> QED BY <1>4, <1>6, FS_Injection
<1>8. \A i \in N : \E x \in S : f[x] = i
  <2> HIDE DEF f, N
  <2> QED BY <1>7 DEF Surjection
<1>9. \A i \in N : \E x \in S : Rank(S, R, x) = i
  BY <1>8
<1> QED BY <1>2, <1>3, <1>5, <1>9

----------------------------------------------------------------------------
(* The leaves of a tree in order.                                          *)

\* Nothing is above a leaf but splits, and nothing below it.
LEMMA LeavesApart ==
    ASSUME NEW t, Shape(t), NEW p \in Leaves(t), NEW q \in DOMAIN t, Under(p, q)
    PROVE  p = q
<1>1. p \in DOMAIN t /\ p \in Position /\ q \in Position /\ IsLeaf(t, p)
  BY DEF Shape, Leaves
<1>2. /\ Len(p) \in Nat /\ Len(q) \in Nat /\ Len(p) <= Len(q)
      /\ \A i \in 1..Len(p) : p[i] = q[i]
  BY <1>1, PositionIs DEF Under
<1>3. CASE Len(p) = Len(q)
  BY <1>1, <1>2, <1>3, SamePosition
<1>4. CASE Len(p) < Len(q)
  <2>1. Len(p) \in 0..(Len(q) - 1) /\ Len(p) \in 0..Len(q)
    BY <1>2, <1>4
  <2>2. ~IsLeaf(t, SubSeq(q, 1, Len(p)))
    BY <2>1 DEF Shape
  <2>3. SubSeq(q, 1, Len(p)) = p
    <3>1. /\ SubSeq(q, 1, Len(p)) \in Position /\ Len(SubSeq(q, 1, Len(p))) = Len(p)
          /\ \A i \in 1..Len(p) : SubSeq(q, 1, Len(p))[i] = q[i]
      BY <1>1, <2>1, CutIs
    <3> QED BY <1>1, <1>2, <3>1, SamePosition
  <2> QED BY <1>1, <2>2, <2>3
<1> QED BY <1>2, <1>3, <1>4

\* The values of a function of finite domain, and the panes of a tree.
LEMMA FiniteValues ==
    ASSUME NEW S, IsFiniteSet(S), NEW T, NEW f \in [S -> T]
    PROVE  IsFiniteSet({f[x] : x \in S})
<1> DEFINE U == {f[x] : x \in S}
           g == [x \in S |-> f[x]]
<1>1. g \in Surjection(S, U)
  BY DEF Surjection
<1> HIDE DEF g, U
<1>2. IsFiniteSet(U)
  BY <1>1, FS_Surjection
<1> QED BY <1>2 DEF U

\* A tree shows finitely many panes.
LEMMA FiniteShown == ASSUME NEW t, Shape(t) PROVE IsFiniteSet(Shown(t))
<1>1. IsFiniteSet(Leaves(t))
  <2>1. Leaves(t) \in SUBSET DOMAIN t /\ IsFiniteSet(DOMAIN t)
    BY DEF Leaves, Shape
  <2> QED BY <2>1, FS_Subset
<1> DEFINE f == [p \in Leaves(t) |-> t[p].pane]
           T == Shown(t)
<1>2. f \in [Leaves(t) -> T]
  BY DEF Shown
<1>3. {f[p] : p \in Leaves(t)} = T
  BY DEF Shown
<1> HIDE DEF f
<1> QED BY <1>1, <1>2, <1>3, FiniteValues

\* Every pane of the tree has one leaf.
LEMMA LeafOfIs ==
    ASSUME NEW t, Shape(t)
    PROVE  /\ \A x \in Shown(t) : LeafOf(t, x) \in Leaves(t) /\ t[LeafOf(t, x)].pane = x
           /\ \A p \in Leaves(t) : t[p].pane \in Shown(t) /\ LeafOf(t, t[p].pane) = p
           /\ Leaves(t) \subseteq DOMAIN t /\ Leaves(t) \subseteq Position
           /\ Shown(t) \subseteq Pane /\ None \notin Shown(t)
<1>1. ASSUME NEW x \in Shown(t) PROVE LeafOf(t, x) \in Leaves(t) /\ t[LeafOf(t, x)].pane = x
  BY DEF Shown, LeafOf
<1>2. ASSUME NEW p \in Leaves(t) PROVE t[p].pane \in Shown(t) /\ LeafOf(t, t[p].pane) = p
  <2>1. t[p].pane \in Shown(t)
    BY DEF Shown
  <2>2. LeafOf(t, t[p].pane) \in Leaves(t) /\ t[LeafOf(t, t[p].pane)].pane = t[p].pane
    BY <1>1, <2>1
  <2> QED BY <2>1, <2>2 DEF Shape
<1>3. Leaves(t) \subseteq DOMAIN t /\ Leaves(t) \subseteq Position
  BY DEF Leaves, Shape
<1>4. ASSUME NEW p \in Leaves(t) PROVE t[p].pane \in Pane
  BY DEF Leaves, IsLeaf, Shape, Node
<1>5. Shown(t) \subseteq Pane /\ None \notin Shown(t)
  BY <1>4, TabTreeAssumption DEF Shown
<1> QED BY <1>1, <1>2, <1>3, <1>5

\* The pairs of panes of which the one is to the left of the other.
LeftOf(t) ==
    {pair \in Shown(t) \X Shown(t) : Before(LeafOf(t, pair[1]), LeafOf(t, pair[2]))}

\* The panes of a tree are ordered from left to right.
LEMMA LeavesOrdered == ASSUME NEW t, Shape(t) PROVE Orders(LeftOf(t), Shown(t))
<1>1. \A x, y \in Shown(t) : <<x, y>> \in LeftOf(t) <=> Before(LeafOf(t, x), LeafOf(t, y))
  BY DEF LeftOf
<1>2. \A x \in Shown(t) : LeafOf(t, x) \in Leaves(t) /\ LeafOf(t, x) \in Position
                         /\ LeafOf(t, x) \in DOMAIN t /\ t[LeafOf(t, x)].pane = x
  BY LeafOfIs
<1>3. \A x \in Shown(t) : <<x, x>> \notin LeftOf(t)
  BY <1>1, <1>2, BeforeStrict
<1>4. \A x, y, z \in Shown(t) : <<x, y>> \in LeftOf(t) /\ <<y, z>> \in LeftOf(t) => <<x, z>> \in LeftOf(t)
  BY <1>1, <1>2, BeforeTransitive
<1>5. ASSUME NEW x \in Shown(t), NEW y \in Shown(t)
      PROVE  x = y \/ <<x, y>> \in LeftOf(t) \/ <<y, x>> \in LeftOf(t)
  <2>1. Under(LeafOf(t, x), LeafOf(t, y)) => x = y
    BY <1>2, LeavesApart
  <2>2. Under(LeafOf(t, y), LeafOf(t, x)) => x = y
    BY <1>2, LeavesApart
  <2> QED BY <1>1, <1>2, <2>1, <2>2, Parting
<1> QED BY <1>3, <1>4, <1>5 DEF Orders

\* Index and PaneAt number the panes of a tree from 0.
LEMMA IndexIs ==
    ASSUME NEW t, Shape(t)
    PROVE  /\ Count(t) \in Nat
           /\ \A x \in Shown(t) : Index(t, x) \in 0..(Count(t) - 1) /\ PaneAt(t, Index(t, x)) = x
           /\ \A i \in 0..(Count(t) - 1) : PaneAt(t, i) \in Shown(t) /\ Index(t, PaneAt(t, i)) = i
           /\ \A x, y \in Shown(t) : Index(t, x) = Index(t, y) => x = y
           /\ \A x, y \in Shown(t) :
                 Before(LeafOf(t, x), LeafOf(t, y)) <=> Index(t, x) < Index(t, y)
<1> DEFINE S == Shown(t)
           R == LeftOf(t)
<1>1. IsFiniteSet(S) /\ Orders(R, S) /\ Count(t) = Cardinality(S) /\ Count(t) \in Nat
  BY FiniteShown, LeavesOrdered, FS_CardinalityType DEF Count
<1>2. ASSUME NEW x \in S PROVE Index(t, x) = Rank(S, R, x)
  <2>1. {o \in Shown(t) : Before(LeafOf(t, o), LeafOf(t, x))} = Preceding(S, R, x)
    BY DEF Preceding, LeftOf
  <2> QED BY <2>1 DEF Index, Rank
<1>6. \A x, y \in S : <<x, y>> \in R <=> Before(LeafOf(t, x), LeafOf(t, y))
  BY DEF LeftOf
<1> HIDE DEF R
<1>3. /\ \A x \in S : Index(t, x) \in 0..(Count(t) - 1)
      /\ \A x, y \in S : Index(t, x) = Index(t, y) => x = y
      /\ \A i \in 0..(Count(t) - 1) : \E x \in S : Index(t, x) = i
  BY <1>1, <1>2, RankIs
<1>4. ASSUME NEW i \in 0..(Count(t) - 1) PROVE PaneAt(t, i) \in S /\ Index(t, PaneAt(t, i)) = i
  BY <1>3 DEF PaneAt
<1>5. ASSUME NEW x \in S PROVE PaneAt(t, Index(t, x)) = x
  BY <1>3, <1>4
<1>7. ASSUME NEW x \in S, NEW y \in S
      PROVE  Before(LeafOf(t, x), LeafOf(t, y)) <=> Index(t, x) < Index(t, y)
  <2>1. <<x, y>> \in R => Index(t, x) < Index(t, y)
    BY <1>1, <1>2, RankIs
  <2>2. <<y, x>> \in R => Index(t, y) < Index(t, x)
    BY <1>1, <1>2, RankIs
  <2>3. x = y \/ <<x, y>> \in R \/ <<y, x>> \in R
    BY <1>1 DEF Orders
  <2>4. Index(t, x) \in Nat /\ Index(t, y) \in Nat
    BY <1>1, <1>3
  <2>5. <<x, x>> \notin R
    BY <1>1 DEF Orders
  <2> QED BY <1>6, <2>1, <2>2, <2>3, <2>4, <2>5
<1> QED BY <1>1, <1>3, <1>4, <1>5, <1>7

\* The same tree, but for the sizes of its splits.
Alike(t, u) ==
    /\ u \in [DOMAIN t -> Node]
    /\ \A p \in DOMAIN t : /\ u[p].pane = t[p].pane /\ u[p].dir = t[p].dir
                           /\ IsLeaf(t, p) => u[p] = t[p]

\* The order of the panes they share is the same in two trees.
SameOrder(t, u) ==
    \A x, y \in Shown(t) \cap Shown(u) :
        Before(LeafOf(u, x), LeafOf(u, y)) <=> Before(LeafOf(t, x), LeafOf(t, y))

\* The index of a pane depends on the panes and their order alone.
LEMMA SameIndex ==
    ASSUME NEW t, Shape(t), NEW u, Shape(u), Shown(u) = Shown(t), SameOrder(t, u)
    PROVE  /\ Count(u) = Count(t)
           /\ \A x \in Shown(t) : Index(u, x) = Index(t, x)
           /\ \A i \in 0..(Count(t) - 1) : PaneAt(u, i) = PaneAt(t, i)
<1>1. Count(u) = Count(t)
  BY DEF Count
<1>2. ASSUME NEW x \in Shown(t) PROVE Index(u, x) = Index(t, x)
  <2>1. {o \in Shown(u) : Before(LeafOf(u, o), LeafOf(u, x))}
            = {o \in Shown(t) : Before(LeafOf(t, o), LeafOf(t, x))}
    BY DEF SameOrder
  <2> QED BY <2>1 DEF Index
<1>3. ASSUME NEW i \in 0..(Count(t) - 1) PROVE PaneAt(u, i) = PaneAt(t, i)
  <2>1. PaneAt(t, i) \in Shown(t) /\ Index(t, PaneAt(t, i)) = i
    BY IndexIs
  <2>2. PaneAt(u, i) \in Shown(t) /\ Index(u, PaneAt(u, i)) = i
    BY <1>1, IndexIs
  <2> QED BY <1>2, <2>1, <2>2, IndexIs
<1> QED BY <1>1, <1>2, <1>3

\* Without one pane the index of those to its right is one less.
LEMMA IndexWithout ==
    ASSUME NEW t, Shape(t), NEW u, Shape(u), NEW x \in Shown(t),
           Shown(u) = Shown(t) \ {x}, SameOrder(t, u)
    PROVE  /\ Count(u) = Count(t) - 1
           /\ \A y \in Shown(u) :
                 Index(u, y) = IF Index(t, x) < Index(t, y) THEN Index(t, y) - 1 ELSE Index(t, y)
<1>1. IsFiniteSet(Shown(t)) /\ IsFiniteSet(Shown(u)) /\ Count(t) \in Nat
  BY FiniteShown, FS_CardinalityType DEF Count
<1>2. Count(u) = Count(t) - 1
  BY <1>1, FS_RemoveElement DEF Count
<1>3. ASSUME NEW y \in Shown(u)
      PROVE  Index(u, y) = IF Index(t, x) < Index(t, y) THEN Index(t, y) - 1 ELSE Index(t, y)
  <2> DEFINE left == {o \in Shown(t) : Before(LeafOf(t, o), LeafOf(t, y))}
  <2>1. {o \in Shown(u) : Before(LeafOf(u, o), LeafOf(u, y))} = left \ {x}
    BY DEF SameOrder
  <2>2. left \in SUBSET Shown(t)
    OBVIOUS
  <2>3. x \in left <=> Index(t, x) < Index(t, y)
    BY IndexIs
  <2>4. Index(t, y) = Cardinality(left) /\ Index(u, y) = Cardinality(left \ {x})
    BY <2>1 DEF Index
  <2> HIDE DEF left
  <2>5. IsFiniteSet(left)
    BY <1>1, <2>2, FS_Subset
  <2>6. Cardinality(left \ {x}) = IF x \in left THEN Cardinality(left) - 1 ELSE Cardinality(left)
    BY <2>5, FS_RemoveElement
  <2> QED BY <2>3, <2>4, <2>6
<1> QED BY <1>2, <1>3

\* What Shape says, without the sizes, is the same for trees that are alike.
LEMMA AlikeIs ==
    ASSUME NEW t, Shape(t), NEW u, Alike(t, u)
    PROVE  /\ Shape(u) /\ Leaves(u) = Leaves(t) /\ Shown(u) = Shown(t)
           /\ \A x \in Shown(t) : LeafOf(u, x) = LeafOf(t, x) /\ Index(u, x) = Index(t, x)
           /\ Count(u) = Count(t)
           /\ \A i \in 0..(Count(t) - 1) : PaneAt(u, i) = PaneAt(t, i)
           /\ \A p \in DOMAIN t : IsLeaf(u, p) <=> IsLeaf(t, p)
<1>1. \A p \in DOMAIN t : IsLeaf(u, p) <=> IsLeaf(t, p)
  BY DEF Alike, IsLeaf
<1>2. Leaves(u) = Leaves(t)
  BY <1>1 DEF Alike, Leaves
<1>3. Shown(u) = Shown(t)
  BY <1>2 DEF Shown, Leaves, Alike
<1>4. Shape(u)
  <2>1. ASSUME NEW p \in DOMAIN u
        PROVE  IF IsLeaf(u, p) THEN u[p] = Leaf(u[p].pane) ELSE u[p].dir \in Axes
    BY <1>1 DEF Alike, Shape
  <2>2. \A p \in DOMAIN u : ~IsLeaf(u, p) => {Append(p, 1), Append(p, 2)} \subseteq DOMAIN u
    BY <1>1 DEF Alike, Shape
  <2>3. ASSUME NEW p \in DOMAIN u, NEW n \in 0..(Len(p) - 1)
        PROVE  SubSeq(p, 1, n) \in DOMAIN u /\ ~IsLeaf(u, SubSeq(p, 1, n))
    BY <1>1 DEF Alike, Shape
  <2>4. \A p, q \in Leaves(u) : u[p].pane = u[q].pane => p = q
    BY <1>2 DEF Alike, Shape, Leaves
  <2>5. DOMAIN u \subseteq Position /\ u \in [DOMAIN u -> Node] /\ (DOMAIN u # {} => <<>> \in DOMAIN u) /\ IsFiniteSet(DOMAIN u)
    BY <1>3 DEF Alike, Shape
  <2> QED BY <2>1, <2>2, <2>3, <2>4, <2>5 DEF Shape
<1>5. ASSUME NEW x \in Shown(t) PROVE LeafOf(u, x) = LeafOf(t, x)
  <2>1. LeafOf(t, x) \in Leaves(t) /\ t[LeafOf(t, x)].pane = x
    BY LeafOfIs
  <2>2. LeafOf(t, x) \in Leaves(u) /\ u[LeafOf(t, x)].pane = x
    BY <1>2, <2>1 DEF Alike, Leaves
  <2> QED BY <1>4, <2>2, LeafOfIs
<1>6. SameOrder(t, u)
  BY <1>3, <1>5 DEF SameOrder
<1> QED BY <1>1, <1>2, <1>3, <1>4, <1>5, <1>6, SameIndex

(* Closing up.                                                             *)

\* Being to the left is inherited by what is below.
LEMMA BeforeUnder ==
    ASSUME NEW p \in Position, NEW q \in Position, Before(p, q),
           NEW r \in Position, Under(p, r), NEW s \in Position, Under(q, s)
    PROVE  Before(r, s)
<1>1. PICK i \in 1..Len(p) : i <= Len(q) /\ p[i] < q[i] /\ \A j \in 1..(i - 1) : p[j] = q[j]
  BY DEF Before
<1>2. /\ Len(p) \in Nat /\ Len(q) \in Nat /\ Len(r) \in Nat /\ Len(s) \in Nat /\ i \in Nat
      /\ Len(p) <= Len(r) /\ Len(q) <= Len(s)
      /\ \A j \in 1..Len(p) : p[j] = r[j]
      /\ \A j \in 1..Len(q) : q[j] = s[j]
  BY <1>1, PositionIs DEF Under
<1>3. i \in 1..Len(r) /\ i <= Len(s) /\ i \in 1..Len(q) /\ r[i] < s[i]
  BY <1>1, <1>2
<1>4. ASSUME NEW j \in 1..(i - 1) PROVE r[j] = s[j]
  <2>1. j \in 1..Len(p) /\ j \in 1..Len(q)
    BY <1>1, <1>2
  <2> QED BY <1>1, <1>2, <2>1
<1> QED BY <1>3, <1>4 DEF Before

\* Below what is below.
LEMMA UnderTransitive ==
    ASSUME NEW p \in Position, NEW q \in Position, NEW r \in Position, Under(p, q), Under(q, r)
    PROVE  Under(p, r)
<1>1. Len(p) \in Nat /\ Len(q) \in Nat /\ Len(r) \in Nat
  BY PositionIs
<1> QED BY <1>1 DEF Under

\* The position r under the sibling of p, with the turn left out that parts the two.
Lift(p, r) == RemoveAt(r, Len(p))

\* What is below the sibling of a leaf that goes moves up by one turn.
LEMMA LiftIs ==
    ASSUME NEW p \in Position, p # <<>>, NEW r \in Position, Under(Sibling(p), r)
    PROVE  /\ Lift(p, r) \in Position /\ Len(Lift(p, r)) = Len(r) - 1 /\ Len(p) <= Len(r)
           /\ \A j \in 1..(Len(r) - 1) :
                 Lift(p, r)[j] = IF j < Len(p) THEN r[j] ELSE r[j + 1]
           /\ r[Len(p)] = 3 - p[Len(p)]
           /\ \A j \in 1..(Len(p) - 1) : r[j] = p[j]
           /\ Under(Up(p), Lift(p, r)) /\ Under(Up(p), r)
           /\ InsertAt(Lift(p, r), Len(p), 3 - p[Len(p)]) = r
<1> DEFINE n == Len(p)
           s == Sibling(p)
           u == Up(p)
<1>1. /\ n \in Nat \ {0} /\ p[n] \in {1, 2} /\ u \in Position /\ Len(u) = n - 1
      /\ \A i \in 1..(n - 1) : u[i] = p[i]
  BY UpIs
<1>2. /\ Len(s) = n /\ s[n] = 3 - p[n] /\ \A i \in 1..(n - 1) : s[i] = p[i]
  BY SiblingIs
<1> HIDE DEF u, s
<1>3. Len(r) \in Nat /\ n <= Len(r) /\ \A i \in 1..n : s[i] = r[i]
  BY <1>2, PositionIs DEF Under, s
<1>4. r[n] = 3 - p[n] /\ \A j \in 1..(n - 1) : r[j] = p[j]
  <2>1. n \in 1..n
    BY <1>1
  <2>2. \A j \in 1..(n - 1) : j \in 1..n
    BY <1>1
  <2> QED BY <1>2, <1>3, <2>1, <2>2
<1>5. /\ Lift(p, r) \in Position /\ Len(Lift(p, r)) = Len(r) - 1
      /\ \A j \in 1..(Len(r) - 1) : Lift(p, r)[j] = IF j < n THEN r[j] ELSE r[j + 1]
  <2>1. r \in Seq({1, 2}) /\ n \in 1..Len(r)
    BY <1>1, <1>3 DEF Position
  <2> QED BY <2>1, RemoveAtIs DEF Lift, Position
<1> DEFINE L == Lift(p, r)
           back == InsertAt(L, n, 3 - p[n])
<1>6. Under(u, L) /\ Under(u, r)
  BY <1>1, <1>3, <1>4, <1>5 DEF Under
<1>7. back = r
  <2>1. L \in Seq({1, 2}) /\ n \in 1..(Len(L) + 1) /\ 3 - p[n] \in {1, 2}
    BY <1>1, <1>3, <1>5 DEF Position
  <2>2. InsertedAt({1, 2}, back, L, n, 3 - p[n])
    BY <2>1, InsertAtIs
  <2>3. /\ back \in Position /\ Len(back) = Len(L) + 1
        /\ \A j \in 1..(Len(L) + 1) : back[j] = IF j < n THEN L[j] ELSE IF j = n THEN 3 - p[n] ELSE L[j - 1]
    BY <2>2 DEF InsertedAt, Position
  <2> HIDE DEF back, L
  <2>4. Len(back) = Len(r) /\ Len(L) = Len(r) - 1
    BY <1>3, <1>5, <2>3 DEF L
  <2>5. ASSUME NEW j \in 1..Len(back) PROVE back[j] = r[j]
    <3>1. j \in 1..(Len(L) + 1) /\ j \in Nat
      BY <1>3, <2>4
    <3>2. CASE j < n
      <4>1. j \in 1..(Len(r) - 1)
        BY <1>3, <3>1, <3>2
      <4> QED BY <1>5, <2>3, <3>1, <3>2, <4>1 DEF L
    <3>3. CASE j = n
      BY <1>4, <2>3, <3>1, <3>3
    <3>4. CASE n < j
      <4>1. j - 1 \in 1..(Len(r) - 1) /\ ~(j - 1 < n) /\ (j - 1) + 1 = j
        BY <1>1, <1>3, <2>4, <3>1, <3>4
      <4>2. back[j] = L[j - 1]
        BY <1>1, <2>3, <3>1, <3>4
      <4>3. L[j - 1] = r[(j - 1) + 1]
        BY <1>5, <4>1 DEF L
      <4> QED BY <4>1, <4>2, <4>3
    <3> QED BY <1>1, <3>1, <3>2, <3>3, <3>4
  <2> QED BY <2>3, <2>4, <2>5, SamePosition
<1> QED BY <1>3, <1>4, <1>5, <1>6, <1>7 DEF u

\* The parts that ClosedUp makes a tree of.
KeptOf(t, p) == {q \in DOMAIN t : ~Under(Up(p), q)}
\* What is below the sibling of p, and where it moves to.
BesideOf(t, p) == {q \in DOMAIN t : Under(Sibling(p), q)}
LiftedOf(t, p) == {Lift(p, r) : r \in BesideOf(t, p)}

\* v is what is kept, and what is lifted.
ClosesTo(t, p, v) ==
    /\ DOMAIN v = KeptOf(t, p) \cup LiftedOf(t, p)
    /\ \A q \in KeptOf(t, p) : v[q] = t[q]
    /\ \A r \in BesideOf(t, p) : v[Lift(p, r)] = t[r] /\ Lift(p, r) \notin KeptOf(t, p)

\* What is above a node is a split that has both its parts.
LEMMA AboveIs ==
    ASSUME NEW t, Shape(t), NEW p \in DOMAIN t, p # <<>>
    PROVE  /\ p \in Position /\ Up(p) \in DOMAIN t /\ ~IsLeaf(t, Up(p)) /\ Sibling(p) \in DOMAIN t
           /\ <<>> \in DOMAIN t
<1>1. p \in Position
  BY DEF Shape
<1>2. /\ Up(p) = SubSeq(p, 1, Len(p) - 1) /\ Len(p) \in Nat \ {0}
      /\ p[Len(p)] \in {1, 2}
  BY <1>1, UpIs
<1>3. Len(p) - 1 \in 0..(Len(p) - 1)
  BY <1>2
<1>4. Up(p) \in DOMAIN t /\ ~IsLeaf(t, Up(p))
  BY <1>2, <1>3 DEF Shape
<1>5. 3 - p[Len(p)] \in {1, 2}
  BY <1>2
<1>6. {Append(Up(p), 1), Append(Up(p), 2)} \subseteq DOMAIN t
  BY <1>4 DEF Shape
<1>7. Sibling(p) = Append(Up(p), 3 - p[Len(p)])
  BY <1>1, SiblingIs
<1> HIDE DEF Up, Sibling
<1>8. Sibling(p) \in DOMAIN t
  BY <1>5, <1>6, <1>7
<1> QED BY <1>1, <1>4, <1>8 DEF Shape

\* A node is kept, goes with the leaf, or is beside it.
LEMMA PartsOf ==
    ASSUME NEW t, Shape(t), NEW p \in Leaves(t), p # <<>>
    PROVE  /\ \A q \in DOMAIN t : \/ q \in KeptOf(t, p) \/ q \in BesideOf(t, p)
                                  \/ q = p \/ q = Up(p)
           /\ p \notin KeptOf(t, p) /\ p \notin BesideOf(t, p)
           /\ Up(p) \notin KeptOf(t, p) /\ Up(p) \notin BesideOf(t, p)
           /\ KeptOf(t, p) \cap BesideOf(t, p) = {}
           /\ Sibling(p) \in BesideOf(t, p)
<1> DEFINE n == Len(p)
           s == Sibling(p)
           u == Up(p)
<1>1. p \in DOMAIN t /\ p \in Position
  BY DEF Leaves, Shape
<1>2. /\ n \in Nat \ {0} /\ p[n] \in {1, 2} /\ u \in Position /\ Len(u) = n - 1
      /\ \A i \in 1..(n - 1) : u[i] = p[i]
  BY <1>1, UpIs
<1>3. /\ s \in Position /\ Len(s) = n /\ s[n] = 3 - p[n] /\ \A i \in 1..(n - 1) : s[i] = p[i]
  BY <1>1, SiblingIs
<1>4. s \in DOMAIN t
  BY <1>1, AboveIs
<1> HIDE DEF u, s
<1>5. ASSUME NEW q \in DOMAIN t, Under(u, q), q # u, q # p PROVE Under(s, q)
  <2>1. q \in Position /\ Len(q) \in Nat
    BY PositionIs DEF Shape
  <2>2. n - 1 <= Len(q) /\ \A i \in 1..(n - 1) : q[i] = u[i]
    BY <1>2, <1>5 DEF Under
  <2>3. Len(q) # n - 1
    BY <1>2, <1>5, <2>1, <2>2, SamePosition
  <2>4. n <= Len(q) /\ q[n] \in {1, 2}
    BY <1>2, <2>1, <2>2, <2>3, PositionIs
  <2>5. CASE q[n] = p[n]
    <3>1. Under(p, q)
      BY <1>2, <2>2, <2>4, <2>5 DEF Under
    <3>2. p = q
      BY <3>1, LeavesApart
    <3> QED BY <1>5, <3>2
  <2>6. CASE q[n] = 3 - p[n]
    BY <1>2, <1>3, <2>2, <2>4, <2>6 DEF Under
  <2> QED BY <1>2, <2>4, <2>5, <2>6
<1>6. Under(u, u) /\ Under(u, p) /\ ~Under(s, u) /\ ~Under(s, p) /\ Under(s, s)
  BY <1>2, <1>3 DEF Under
<1>7. \A q \in DOMAIN t : Under(s, q) => Under(u, q)
  <2>1. Under(u, s)
    BY <1>2, <1>3 DEF Under
  <2> QED BY <1>2, <1>3, <2>1, UnderTransitive DEF Shape
<1> QED BY <1>1, <1>4, <1>5, <1>6, <1>7 DEF KeptOf, BesideOf, u, s

\* The tree that is closed up, part by part.
LEMMA ClosedUpIs ==
    ASSUME NEW t, Shape(t), NEW p \in Leaves(t), p # <<>>
    PROVE  ClosesTo(t, p, ClosedUp(t, p)) /\ Lift(p, Sibling(p)) = Up(p)
<1> DEFINE v == ClosedUp(t, p)
<1>1. p \in Position /\ \A r \in BesideOf(t, p) : r \in Position /\ Under(Sibling(p), r)
  BY DEF Leaves, Shape, BesideOf
<1>2. /\ DOMAIN v = KeptOf(t, p) \cup LiftedOf(t, p)
      /\ \A q \in DOMAIN v :
            v[q] = t[IF q \in KeptOf(t, p) THEN q ELSE InsertAt(q, Len(p), 3 - p[Len(p)])]
  BY DEF ClosedUp, KeptOf, BesideOf, LiftedOf, Lift
<1> HIDE DEF v
<1>3. \A q \in KeptOf(t, p) : v[q] = t[q]
  BY <1>2
<1>4. ASSUME NEW r \in BesideOf(t, p)
      PROVE  v[Lift(p, r)] = t[r] /\ Lift(p, r) \notin KeptOf(t, p)
  <2>1. Under(Up(p), Lift(p, r)) /\ InsertAt(Lift(p, r), Len(p), 3 - p[Len(p)]) = r
    BY <1>1, LiftIs
  <2>2. Lift(p, r) \notin KeptOf(t, p) /\ Lift(p, r) \in DOMAIN v
    BY <1>2, <2>1 DEF KeptOf, LiftedOf
  <2> QED BY <1>2, <2>1, <2>2
<1>5. Lift(p, Sibling(p)) = Up(p)
  <2> DEFINE s == Sibling(p)
             L == Lift(p, s)
  <2>1. s \in Position /\ Len(s) = Len(p)
    BY <1>1, SiblingIs
  <2>2. Under(s, s)
    BY DEF Under
  <2>3. L \in Position /\ Len(L) = Len(s) - 1 /\ Under(Up(p), L)
    BY <1>1, <2>1, <2>2, LiftIs
  <2>4. Up(p) \in Position /\ Len(Up(p)) = Len(p) - 1
    BY <1>1, UpIs
  <2> HIDE DEF s, L
  <2>5. \A i \in 1..Len(Up(p)) : Up(p)[i] = L[i]
    BY <2>3 DEF Under
  <2>6. L = Up(p)
    BY <2>1, <2>3, <2>4, <2>5, SamePosition
  <2> QED BY <2>6 DEF L, s
<1>6. ClosesTo(t, p, v)
  BY <1>2, <1>3, <1>4 DEF ClosesTo
<1> QED BY <1>5, <1>6 DEF v

\* The children and what is above of what is lifted.
LEMMA LiftChild ==
    ASSUME NEW p \in Position, p # <<>>, NEW r \in Position, Under(Sibling(p), r),
           NEW i \in {1, 2}
    PROVE  Under(Sibling(p), Append(r, i)) /\ Lift(p, Append(r, i)) = Append(Lift(p, r), i)
<1> DEFINE c == Append(r, i)
           n == Len(p)
           L == Lift(p, r)
           M == Lift(p, c)
           N == Append(L, i)
<1>1. Len(r) \in Nat /\ n \in Nat \ {0} /\ Sibling(p) \in Position
  BY PositionIs, UpIs, SiblingIs
<1>2. /\ c \in Position /\ Len(c) = Len(r) + 1 /\ c[Len(r) + 1] = i
      /\ \A j \in 1..Len(r) : c[j] = r[j]
  BY ChildIs
<1> HIDE DEF c
<1>3. Under(Sibling(p), c)
  <2>1. Under(r, c)
    BY <1>1, <1>2 DEF Under
  <2> QED BY <1>1, <1>2, <2>1, UnderTransitive
<1>4. /\ L \in Position /\ Len(L) = Len(r) - 1 /\ n <= Len(r)
      /\ \A j \in 1..(Len(r) - 1) : L[j] = IF j < n THEN r[j] ELSE r[j + 1]
  BY LiftIs
<1>5. /\ M \in Position /\ Len(M) = Len(c) - 1
      /\ \A j \in 1..(Len(c) - 1) : M[j] = IF j < n THEN c[j] ELSE c[j + 1]
  BY <1>2, <1>3, LiftIs
<1> HIDE DEF L, M
<1>6. /\ N \in Position /\ Len(N) = Len(L) + 1 /\ N[Len(L) + 1] = i
      /\ \A j \in 1..Len(L) : N[j] = L[j]
  BY <1>4, ChildIs
<1> HIDE DEF N
<1>7. Len(M) = Len(r) /\ Len(N) = Len(r)
  BY <1>1, <1>2, <1>4, <1>5, <1>6
<1>8. ASSUME NEW j \in 1..Len(M) PROVE M[j] = N[j]
  <2>1. j \in 1..(Len(c) - 1) /\ j \in 1..Len(r)
    BY <1>1, <1>2, <1>7
  <2>2. CASE j = Len(r)
    <3>1. M[j] = c[j + 1] /\ N[j] = i
      BY <1>1, <1>4, <1>5, <1>6, <2>1, <2>2
    <3> QED BY <1>2, <2>2, <3>1
  <2>3. CASE j # Len(r)
    <3>1. j \in 1..(Len(r) - 1) /\ j \in 1..Len(L) /\ j + 1 \in 1..Len(r)
      BY <1>1, <1>4, <2>1, <2>3
    <3>2. M[j] = IF j < n THEN r[j] ELSE r[j + 1]
      BY <1>2, <1>5, <2>1, <3>1
    <3> QED BY <1>4, <1>6, <3>1, <3>2
  <2> QED BY <2>2, <2>3
<1>9. M = N
  BY <1>5, <1>6, <1>7, <1>8, SamePosition
<1> QED BY <1>3, <1>9 DEF M, N, c, L

\* A part of a lifted position is above the place of the leaf, or was lifted itself.
LEMMA LiftCut ==
    ASSUME NEW p \in Position, p # <<>>, NEW r \in Position, Under(Sibling(p), r),
           NEW m \in 0..(Len(r) - 2)
    PROVE  /\ m < Len(p) - 1 => SubSeq(Lift(p, r), 1, m) = SubSeq(r, 1, m)
           /\ m >= Len(p) - 1 => /\ Under(Sibling(p), SubSeq(r, 1, m + 1))
                                 /\ SubSeq(Lift(p, r), 1, m) = Lift(p, SubSeq(r, 1, m + 1))
<1> DEFINE n == Len(p)
           L == Lift(p, r)
           C == SubSeq(L, 1, m)
<1>1. Len(r) \in Nat /\ n \in Nat \ {0} /\ Sibling(p) \in Position /\ Len(Sibling(p)) = n /\ m \in Nat
  BY PositionIs, UpIs, SiblingIs
<1>2. /\ L \in Position /\ Len(L) = Len(r) - 1 /\ n <= Len(r)
      /\ \A j \in 1..(Len(r) - 1) : L[j] = IF j < n THEN r[j] ELSE r[j + 1]
  BY LiftIs
<1> HIDE DEF L
<1>3. m \in 0..Len(L) /\ m \in 0..Len(r) /\ m + 1 \in 0..Len(r)
  BY <1>1, <1>2
<1>4. C \in Position /\ Len(C) = m /\ \A j \in 1..m : C[j] = L[j]
  BY <1>2, <1>3, CutIs
<1> HIDE DEF C
<1>5. ASSUME m < n - 1 PROVE C = SubSeq(r, 1, m)
  <2> DEFINE D == SubSeq(r, 1, m)
  <2>1. D \in Position /\ Len(D) = m /\ \A j \in 1..m : D[j] = r[j]
    BY <1>3, CutIs
  <2> HIDE DEF D
  <2>2. ASSUME NEW j \in 1..m PROVE C[j] = D[j]
    BY <1>1, <1>2, <1>4, <1>5, <2>1
  <2>3. C = D
    BY <1>4, <2>1, <2>2, SamePosition
  <2> QED BY <2>3 DEF D
<1>6. ASSUME m >= n - 1
      PROVE  Under(Sibling(p), SubSeq(r, 1, m + 1)) /\ C = Lift(p, SubSeq(r, 1, m + 1))
  <2> DEFINE D == SubSeq(r, 1, m + 1)
             M == Lift(p, D)
  <2>1. D \in Position /\ Len(D) = m + 1 /\ \A j \in 1..(m + 1) : D[j] = r[j]
    BY <1>3, CutIs
  <2> HIDE DEF D
  <2>2. Under(Sibling(p), D)
    BY <1>1, <1>6, <2>1 DEF Under
  <2>3. /\ M \in Position /\ Len(M) = Len(D) - 1
        /\ \A j \in 1..(Len(D) - 1) : M[j] = IF j < n THEN D[j] ELSE D[j + 1]
    BY <2>1, <2>2, LiftIs
  <2> HIDE DEF M
  <2>4. Len(M) = m
    BY <1>1, <2>1, <2>3
  <2>5. ASSUME NEW j \in 1..m PROVE C[j] = M[j]
    <3>1. j \in 1..(Len(r) - 1) /\ j \in 1..(Len(D) - 1) /\ j + 1 \in 1..(m + 1) /\ j \in 1..(m + 1)
      BY <1>1, <2>1
    <3>2. M[j] = IF j < n THEN r[j] ELSE r[j + 1]
      BY <2>1, <2>3, <3>1
    <3> QED BY <1>2, <1>4, <3>1, <3>2
  <2>6. C = M
    BY <1>4, <2>3, <2>4, <2>5, SamePosition
  <2> QED BY <2>2, <2>6 DEF M, D
<1> QED BY <1>5, <1>6 DEF C, L

\* What stays of a tree that is closed up, and where it goes.
Stays(t, p) == KeptOf(t, p) \cup BesideOf(t, p)
\* Where a position goes when the leaf p does.
Place(t, p, q) == IF q \in KeptOf(t, p) THEN q ELSE Lift(p, q)

\* Everything stays but the leaf and the split above it, each at a place of its own.
LEMMA PlacesAre ==
    ASSUME NEW t, Shape(t), NEW p \in Leaves(t), p # <<>>, NEW v, v = ClosedUp(t, p)
    PROVE  /\ Stays(t, p) = DOMAIN t \ {p, Up(p)}
           /\ \A q \in Stays(t, p) :
                 /\ Place(t, p, q) \in DOMAIN v /\ Place(t, p, q) \in Position
                 /\ v[Place(t, p, q)] = t[q]
                 /\ IsLeaf(v, Place(t, p, q)) <=> IsLeaf(t, q)
           /\ \A r \in DOMAIN v : \E q \in Stays(t, p) : r = Place(t, p, q)
           /\ \A q, r \in Stays(t, p) : Place(t, p, q) = Place(t, p, r) => q = r
<1>1. /\ DOMAIN v = KeptOf(t, p) \cup LiftedOf(t, p)
      /\ \A q \in KeptOf(t, p) : v[q] = t[q]
      /\ \A r \in BesideOf(t, p) : v[Lift(p, r)] = t[r] /\ Lift(p, r) \notin KeptOf(t, p)
  BY ClosedUpIs DEF ClosesTo
<1>2. /\ \A q \in DOMAIN t : q \in KeptOf(t, p) \/ q \in BesideOf(t, p) \/ q = p \/ q = Up(p)
      /\ p \notin KeptOf(t, p) /\ p \notin BesideOf(t, p)
      /\ Up(p) \notin KeptOf(t, p) /\ Up(p) \notin BesideOf(t, p)
      /\ KeptOf(t, p) \cap BesideOf(t, p) = {}
  BY PartsOf
<1>3. Stays(t, p) = DOMAIN t \ {p, Up(p)}
  BY <1>2 DEF Stays, KeptOf, BesideOf
<1>4. p \in Position /\ DOMAIN t \subseteq Position
  BY DEF Leaves, Shape
<1>5. ASSUME NEW q \in BesideOf(t, p)
      PROVE  /\ Lift(p, q) \in Position
             /\ InsertAt(Lift(p, q), Len(p), 3 - p[Len(p)]) = q
  <2>1. q \in Position /\ Under(Sibling(p), q)
    BY <1>4 DEF BesideOf
  <2> QED BY <1>4, <2>1, LiftIs
<1>6. ASSUME NEW q \in Stays(t, p)
      PROVE  /\ Place(t, p, q) \in DOMAIN v /\ Place(t, p, q) \in Position
             /\ v[Place(t, p, q)] = t[q]
             /\ IsLeaf(v, Place(t, p, q)) <=> IsLeaf(t, q)
  <2>1. CASE q \in KeptOf(t, p)
    BY <1>1, <1>4, <2>1 DEF Place, KeptOf, IsLeaf
  <2>2. CASE q \in BesideOf(t, p)
    <3>1. Place(t, p, q) = Lift(p, q)
      BY <1>2, <2>2 DEF Place
    <3> QED BY <1>1, <1>5, <2>2, <3>1 DEF IsLeaf, LiftedOf
  <2> QED BY <2>1, <2>2 DEF Stays
<1>7. ASSUME NEW r \in DOMAIN v PROVE \E q \in Stays(t, p) : r = Place(t, p, q)
  BY <1>1, <1>2 DEF Place, Stays, LiftedOf
<1>8. ASSUME NEW q \in Stays(t, p), NEW r \in Stays(t, p), Place(t, p, q) = Place(t, p, r)
      PROVE  q = r
  BY <1>1, <1>2, <1>5, <1>8 DEF Place, Stays
<1> QED BY <1>3, <1>6, <1>7, <1>8

\* What is at or below a child of q, of q itself or the child.
LEMMA UnderChild ==
    ASSUME NEW u \in Position, NEW q \in Position, NEW i \in {1, 2}, Under(u, Append(q, i))
    PROVE  Under(u, q) \/ u = Append(q, i)
<1> DEFINE c == Append(q, i)
<1>1. /\ Len(u) \in Nat /\ Len(q) \in Nat /\ c \in Position /\ Len(c) = Len(q) + 1
      /\ \A j \in 1..Len(q) : c[j] = q[j]
  BY PositionIs, ChildIs
<1>2. Len(u) <= Len(c) /\ \A j \in 1..Len(u) : u[j] = c[j]
  BY DEF Under
<1> HIDE DEF c
<1>3. CASE Len(u) = Len(c)
  <2>1. u = c
    BY <1>1, <1>2, <1>3, SamePosition
  <2> QED BY <2>1 DEF c
<1>4. CASE Len(u) # Len(c)
  <2>1. Len(u) <= Len(q) /\ \A j \in 1..Len(u) : u[j] = q[j]
    BY <1>1, <1>2, <1>4
  <2> QED BY <2>1 DEF Under
<1> QED BY <1>3, <1>4

\* What is above a node of the closed-up tree.
LEMMA ClosedUpAbove ==
    ASSUME NEW t, Shape(t), NEW p \in Leaves(t), p # <<>>, NEW v, v = ClosedUp(t, p),
           NEW r \in DOMAIN v, NEW m \in 0..(Len(r) - 1)
    PROVE  SubSeq(r, 1, m) \in DOMAIN v /\ ~IsLeaf(v, SubSeq(r, 1, m))
<1>1. /\ DOMAIN v = KeptOf(t, p) \cup LiftedOf(t, p)
      /\ \A q \in KeptOf(t, p) : v[q] = t[q]
      /\ \A s \in BesideOf(t, p) : v[Lift(p, s)] = t[s]
  BY ClosedUpIs DEF ClosesTo
<1>2. p \in Position /\ Up(p) \in Position /\ Len(p) \in Nat \ {0} /\ Len(Up(p)) = Len(p) - 1
  BY UpIs DEF Leaves, Shape
<1>3. CASE r \in KeptOf(t, p)
  <2>1. r \in DOMAIN t /\ r \in Position /\ Len(r) \in Nat /\ ~Under(Up(p), r)
    BY <1>3, PositionIs DEF KeptOf, Shape
  <2>2. SubSeq(r, 1, m) \in DOMAIN t /\ ~IsLeaf(t, SubSeq(r, 1, m))
    BY <2>1 DEF Shape
  <2>3. ~Under(Up(p), SubSeq(r, 1, m))
    <3> DEFINE c == SubSeq(r, 1, m)
    <3>1. m \in 0..Len(r)
      BY <2>1
    <3>2. c \in Position /\ Len(c) = m /\ \A i \in 1..m : c[i] = r[i]
      BY <2>1, <3>1, CutIs
    <3> HIDE DEF c
    <3>3. Under(c, r)
      BY <3>1, <3>2, <2>1 DEF Under
    <3>4. ~Under(Up(p), c)
      BY <1>2, <2>1, <3>2, <3>3, UnderTransitive
    <3> QED BY <3>4 DEF c
  <2> QED BY <1>1, <2>2, <2>3 DEF KeptOf, IsLeaf
<1>4. ASSUME NEW s \in BesideOf(t, p), r = Lift(p, s)
      PROVE  SubSeq(r, 1, m) \in DOMAIN v /\ ~IsLeaf(v, SubSeq(r, 1, m))
  <2>1. s \in DOMAIN t /\ s \in Position /\ Len(s) \in Nat /\ Under(Sibling(p), s)
    BY PositionIs DEF BesideOf, Shape
  <2>2. Len(r) = Len(s) - 1 /\ Len(p) <= Len(s)
    BY <1>2, <1>4, <2>1, LiftIs
  <2>3. m \in 0..(Len(s) - 2)
    BY <2>1, <2>2
  <2>4. CASE m < Len(p) - 1
    <3>1. SubSeq(r, 1, m) = SubSeq(s, 1, m)
      BY <1>2, <1>4, <2>1, <2>3, <2>4, LiftCut
    <3>2. SubSeq(s, 1, m) \in DOMAIN t /\ ~IsLeaf(t, SubSeq(s, 1, m))
      <4>1. m \in 0..(Len(s) - 1)
        BY <2>1, <2>3
      <4> QED BY <2>1, <4>1 DEF Shape
    <3>3. ~Under(Up(p), SubSeq(s, 1, m))
      <4>1. m \in 0..Len(s)
        BY <2>1, <2>3
      <4>2. Len(SubSeq(s, 1, m)) = m
        BY <2>1, <4>1, CutIs
      <4> QED BY <1>2, <2>3, <2>4, <4>2 DEF Under
    <3> QED BY <1>1, <3>1, <3>2, <3>3 DEF KeptOf, IsLeaf
  <2>5. CASE m >= Len(p) - 1
    <3>1. /\ Under(Sibling(p), SubSeq(s, 1, m + 1))
          /\ SubSeq(r, 1, m) = Lift(p, SubSeq(s, 1, m + 1))
      BY <1>2, <1>4, <2>1, <2>3, <2>5, LiftCut
    <3>2. SubSeq(s, 1, m + 1) \in DOMAIN t /\ ~IsLeaf(t, SubSeq(s, 1, m + 1))
      <4>1. m + 1 \in 0..(Len(s) - 1)
        BY <2>1, <2>3
      <4> QED BY <2>1, <4>1 DEF Shape
    <3> QED BY <1>1, <3>1, <3>2 DEF BesideOf, IsLeaf, LiftedOf
  <2> QED BY <1>2, <2>3, <2>4, <2>5
<1> QED BY <1>1, <1>3, <1>4 DEF LiftedOf

\* What is below a split of the closed-up tree.
LEMMA ClosedUpBelow ==
    ASSUME NEW t, Shape(t), NEW p \in Leaves(t), p # <<>>, NEW v, v = ClosedUp(t, p),
           NEW r \in DOMAIN v, ~IsLeaf(v, r), NEW i \in {1, 2}
    PROVE  Append(r, i) \in DOMAIN v
<1>1. /\ DOMAIN v = KeptOf(t, p) \cup LiftedOf(t, p)
      /\ \A q \in KeptOf(t, p) : v[q] = t[q]
      /\ \A s \in BesideOf(t, p) : v[Lift(p, s)] = t[s]
      /\ Lift(p, Sibling(p)) = Up(p)
  BY ClosedUpIs DEF ClosesTo
<1>2. p \in Position /\ Up(p) \in Position /\ Sibling(p) \in BesideOf(t, p)
  BY UpIs, PartsOf DEF Leaves, Shape
<1>3. CASE r \in KeptOf(t, p)
  <2>1. r \in DOMAIN t /\ r \in Position /\ ~Under(Up(p), r) /\ ~IsLeaf(t, r)
    BY <1>1, <1>3 DEF KeptOf, Shape, IsLeaf
  <2>2. Append(r, i) \in DOMAIN t
    BY <2>1 DEF Shape
  <2>3. CASE Under(Up(p), Append(r, i))
    <3>1. Up(p) = Append(r, i)
      BY <1>2, <2>1, <2>3, UnderChild
    <3> QED BY <1>1, <1>2, <3>1 DEF LiftedOf
  <2> QED BY <1>1, <2>2, <2>3 DEF KeptOf
<1>4. ASSUME NEW s \in BesideOf(t, p), r = Lift(p, s) PROVE Append(r, i) \in DOMAIN v
  <2>1. s \in DOMAIN t /\ s \in Position /\ Under(Sibling(p), s) /\ ~IsLeaf(t, s)
    BY <1>1, <1>4 DEF BesideOf, Shape, IsLeaf
  <2>2. Append(s, i) \in DOMAIN t
    BY <2>1 DEF Shape
  <2>3. Under(Sibling(p), Append(s, i)) /\ Lift(p, Append(s, i)) = Append(r, i)
    BY <1>2, <1>4, <2>1, LiftChild
  <2> QED BY <1>1, <2>2, <2>3 DEF BesideOf, LiftedOf
<1> QED BY <1>1, <1>3, <1>4 DEF LiftedOf

\* The tree is in shape after it closes up, and one pane is gone.
LEMMA ClosedUpShape ==
    ASSUME NEW t, Shape(t), NEW p \in Leaves(t), p # <<>>, NEW v, v = ClosedUp(t, p)
    PROVE  /\ Shape(v) /\ Shown(v) = Shown(t) \ {t[p].pane}
           /\ \A q \in Leaves(t) \ {p} :
                 Place(t, p, q) \in Leaves(v) /\ LeafOf(v, t[q].pane) = Place(t, p, q)
<1>1. /\ Stays(t, p) = DOMAIN t \ {p, Up(p)}
      /\ \A q \in Stays(t, p) :
            /\ Place(t, p, q) \in DOMAIN v /\ Place(t, p, q) \in Position
            /\ v[Place(t, p, q)] = t[q]
            /\ IsLeaf(v, Place(t, p, q)) <=> IsLeaf(t, q)
      /\ \A r \in DOMAIN v : \E q \in Stays(t, p) : r = Place(t, p, q)
      /\ \A q, r \in Stays(t, p) : Place(t, p, q) = Place(t, p, r) => q = r
  BY PlacesAre
<1>2. p \in DOMAIN t /\ IsLeaf(t, p) /\ ~IsLeaf(t, Up(p)) /\ <<>> \in DOMAIN t /\ p \in Position
  BY AboveIs DEF Leaves
<1>3. \A q \in Leaves(t) \ {p} : q \in Stays(t, p) /\ Place(t, p, q) \in Leaves(v)
  BY <1>1, <1>2 DEF Leaves
<1>4. \A r \in Leaves(v) : \E q \in Leaves(t) \ {p} : r = Place(t, p, q)
  BY <1>1, <1>2 DEF Leaves
<1>5. Shown(v) = Shown(t) \ {t[p].pane}
  <2>1. ASSUME NEW x \in Shown(v) PROVE x \in Shown(t) \ {t[p].pane}
    <3>1. PICK r \in Leaves(v) : x = v[r].pane
      BY DEF Shown
    <3>2. PICK q \in Leaves(t) \ {p} : r = Place(t, p, q)
      BY <1>4, <3>1
    <3>3. x = t[q].pane
      BY <1>1, <1>3, <3>1, <3>2
    <3> QED BY <3>2, <3>3 DEF Shape, Shown
  <2>2. ASSUME NEW x \in Shown(t) \ {t[p].pane} PROVE x \in Shown(v)
    <3>1. PICK q \in Leaves(t) : x = t[q].pane
      BY DEF Shown
    <3>2. q \in Leaves(t) \ {p}
      BY <3>1
    <3> QED BY <1>1, <1>3, <3>1, <3>2 DEF Shown
  <2> QED BY <2>1, <2>2
<1>6. Shape(v)
  <2>1. DOMAIN v \subseteq Position /\ v \in [DOMAIN v -> Node]
    <3>1. v = [q \in DOMAIN v |-> v[q]]
      BY DEF ClosedUp
    <3>2. \A q \in DOMAIN v : v[q] \in Node /\ q \in Position
      BY <1>1 DEF Shape
    <3> QED BY <3>1, <3>2
  <2>2. ASSUME NEW r \in DOMAIN v
        PROVE  IF IsLeaf(v, r) THEN v[r] = Leaf(v[r].pane) ELSE v[r].dir \in Axes
    BY <1>1 DEF Shape
  <2>3. <<>> \in DOMAIN v
    <3>1. Up(p) \in DOMAIN v
      <4>1. Sibling(p) \in BesideOf(t, p) /\ Lift(p, Sibling(p)) = Up(p)
        BY PartsOf, ClosedUpIs
      <4>2. DOMAIN v = KeptOf(t, p) \cup LiftedOf(t, p)
        BY ClosedUpIs DEF ClosesTo
      <4> QED BY <4>1, <4>2 DEF LiftedOf
    <3>2. CASE Up(p) # <<>>
      <4>1. Up(p) \in Position /\ <<>> \in Position
        BY <1>2, UpIs, RootIs
      <4>2. Len(Up(p)) # 0 /\ Len(Up(p)) \in Nat
        BY <3>2, <4>1, RootIs, PositionIs
      <4>3. ~Under(Up(p), <<>>)
        BY <4>2 DEF Under
      <4> QED BY <1>2, <4>3, ClosedUpIs DEF KeptOf, ClosesTo
    <3> QED BY <3>1, <3>2
  <2>4. \A r \in DOMAIN v : ~IsLeaf(v, r) => {Append(r, 1), Append(r, 2)} \subseteq DOMAIN v
    BY ClosedUpBelow
  <2>5. \A r \in DOMAIN v : \A n \in 0..(Len(r) - 1) :
            SubSeq(r, 1, n) \in DOMAIN v /\ ~IsLeaf(v, SubSeq(r, 1, n))
    BY ClosedUpAbove
  <2>6. ASSUME NEW q \in Leaves(v), NEW r \in Leaves(v), v[q].pane = v[r].pane PROVE q = r
    <3>1. PICK q1 \in Leaves(t) \ {p} : q = Place(t, p, q1)
      BY <1>4
    <3>2. PICK r1 \in Leaves(t) \ {p} : r = Place(t, p, r1)
      BY <1>4
    <3>3. t[q1].pane = t[r1].pane
      BY <1>1, <1>3, <2>6, <3>1, <3>2
    <3> QED BY <3>1, <3>2, <3>3 DEF Shape
  <2>7. IsFiniteSet(DOMAIN v)
    <3>1. IsFiniteSet(DOMAIN t) /\ Stays(t, p) \in SUBSET DOMAIN t
      BY <1>1 DEF Shape
    <3>2. IsFiniteSet(Stays(t, p))
      BY <3>1, FS_Subset
    <3> DEFINE f == [q \in Stays(t, p) |-> Place(t, p, q)]
    <3>3. f \in [Stays(t, p) -> DOMAIN v]
      BY <1>1
    <3>4. ASSUME NEW r \in DOMAIN v PROVE \E q \in Stays(t, p) : f[q] = r
      <4>1. PICK q \in Stays(t, p) : r = Place(t, p, q)
        BY <1>1
      <4> QED BY <4>1
    <3> HIDE DEF f
    <3>5. f \in Surjection(Stays(t, p), DOMAIN v)
      BY <3>3, <3>4 DEF Surjection
    <3> QED BY <3>2, <3>5, FS_Surjection
  <2> QED BY <2>1, <2>2, <2>3, <2>4, <2>5, <2>6, <2>7 DEF Shape
<1>7. ASSUME NEW q \in Leaves(t) \ {p} PROVE LeafOf(v, t[q].pane) = Place(t, p, q)
  <2>1. Place(t, p, q) \in Leaves(v) /\ v[Place(t, p, q)].pane = t[q].pane
    BY <1>1, <1>3
  <2> QED BY <1>6, <2>1, LeafOfIs
<1> QED BY <1>3, <1>5, <1>6, <1>7

\* Two positions beside the leaf keep their order.
LEMMA LiftBefore ==
    ASSUME NEW p \in Position, p # <<>>,
           NEW q \in Position, Under(Sibling(p), q), NEW r \in Position, Under(Sibling(p), r),
           Before(q, r)
    PROVE  Before(Lift(p, q), Lift(p, r))
<1> DEFINE n == Len(p)
           L == Lift(p, q)
           M == Lift(p, r)
<1>1. /\ Len(L) = Len(q) - 1 /\ n <= Len(q) /\ q[n] = 3 - p[n]
      /\ \A j \in 1..(Len(q) - 1) : L[j] = IF j < n THEN q[j] ELSE q[j + 1]
      /\ \A j \in 1..(n - 1) : q[j] = p[j]
  BY LiftIs
<1>2. /\ Len(M) = Len(r) - 1 /\ n <= Len(r) /\ r[n] = 3 - p[n]
      /\ \A j \in 1..(Len(r) - 1) : M[j] = IF j < n THEN r[j] ELSE r[j + 1]
      /\ \A j \in 1..(n - 1) : r[j] = p[j]
  BY LiftIs
<1>3. n \in Nat \ {0} /\ Len(q) \in Nat /\ Len(r) \in Nat /\ p[n] \in {1, 2}
  BY UpIs, PositionIs
<1> HIDE DEF L, M
<1>4. PICK i \in 1..Len(q) : i <= Len(r) /\ q[i] < r[i] /\ \A j \in 1..(i - 1) : q[j] = r[j]
  BY DEF Before
<1>5. i \in Nat /\ q[i] \in Nat /\ r[i] \in Nat
  <2>1. i \in 1..Len(r)
    BY <1>3, <1>4
  <2> QED BY <1>4, <2>1, PositionIs
<1>6. n < i
  <2>1. i # n
    BY <1>1, <1>2, <1>3, <1>4, <1>5
  <2>2. ~(i < n)
    <3>1. ASSUME i < n PROVE FALSE
      <4>1. i \in 1..(n - 1)
        BY <1>3, <1>4, <3>1
      <4> QED BY <1>1, <1>2, <1>4, <1>5, <4>1
    <3> QED BY <3>1
  <2> QED BY <1>3, <1>5, <2>1, <2>2
<1> DEFINE k == i - 1
<1>7. k \in 1..Len(L) /\ k <= Len(M) /\ L[k] = q[i] /\ M[k] = r[i]
  <2>1. k \in 1..(Len(q) - 1) /\ k \in 1..(Len(r) - 1) /\ ~(k < n) /\ k + 1 = i
    BY <1>3, <1>4, <1>5, <1>6
  <2> QED BY <1>1, <1>2, <1>3, <2>1
<1>8. ASSUME NEW j \in 1..(k - 1) PROVE L[j] = M[j]
  <2>1. j \in 1..(Len(q) - 1) /\ j \in 1..(Len(r) - 1) /\ j \in 1..(i - 1) /\ j + 1 \in 1..(i - 1)
    BY <1>3, <1>4, <1>5
  <2> QED BY <1>1, <1>2, <1>4, <2>1
<1>9. \E kk \in 1..Len(L) : /\ kk <= Len(M) /\ L[kk] < M[kk]
                            /\ \A j \in 1..(kk - 1) : L[j] = M[j]
  <2>1. L[k] < M[k]
    BY <1>4, <1>7
  <2> HIDE DEF k
  <2> QED BY <1>7, <1>8, <2>1
<1> QED BY <1>9 DEF Before, L, M

\* So do all the leaves that stay.
LEMMA PlaceBefore ==
    ASSUME NEW t, Shape(t), NEW p \in Leaves(t), p # <<>>,
           NEW q \in Leaves(t) \ {p}, NEW r \in Leaves(t) \ {p}, Before(q, r)
    PROVE  Before(Place(t, p, q), Place(t, p, r))
<1> DEFINE u == Up(p)
<1>1. p \in Position /\ u \in Position /\ q \in Position /\ r \in Position
  BY UpIs DEF Leaves, Shape
<1>2. q \in Stays(t, p) /\ r \in Stays(t, p)
  <2>1. q \in DOMAIN t /\ r \in DOMAIN t /\ q # p /\ r # p /\ q # Up(p) /\ r # Up(p)
    BY AboveIs DEF Leaves
  <2>2. Stays(t, p) = DOMAIN t \ {p, Up(p)}
    BY PlacesAre
  <2> QED BY <2>1, <2>2
<1>3. \A s \in BesideOf(t, p) : s \in DOMAIN t /\ s \in Position /\ Under(Sibling(p), s) /\ s \notin KeptOf(t, p)
  BY PartsOf DEF BesideOf, Shape
<1>4. \A s \in BesideOf(t, p) : /\ Place(t, p, s) = Lift(p, s) /\ Under(u, s)
                                /\ Under(u, Lift(p, s)) /\ Lift(p, s) \in Position
  <2>1. \A s \in BesideOf(t, p) : Place(t, p, s) = Lift(p, s)
    BY <1>3 DEF Place
  <2>2. ASSUME NEW s \in BesideOf(t, p)
        PROVE  Under(u, s) /\ Under(u, Lift(p, s)) /\ Lift(p, s) \in Position
    BY <1>1, <1>3, LiftIs
  <2> QED BY <2>1, <2>2
<1> HIDE DEF u
<1>5. \A s \in KeptOf(t, p) : Place(t, p, s) = s /\ ~Under(u, s)
  BY DEF Place, KeptOf, u
<1>6. ASSUME NEW s \in BesideOf(t, p), s \in Leaves(t), NEW o \in KeptOf(t, p), o \in Leaves(t)
      PROVE  /\ Before(o, u) \/ Before(u, o)
             /\ Before(o, s) => Before(o, Lift(p, s))
             /\ Before(s, o) => Before(Lift(p, s), o)
  <2>1. o \in Position /\ s \in Position /\ s \in DOMAIN t
    BY <1>3 DEF KeptOf, Shape
  <2>2. ~Under(o, u)
    <3>1. ASSUME Under(o, u) PROVE FALSE
      <4>1. Under(o, s)
        BY <1>1, <1>4, <2>1, <3>1, UnderTransitive
      <4>2. o = s
        BY <1>6, <2>1, <4>1, LeavesApart
      <4> QED BY <1>3, <4>2
    <3> QED BY <3>1
  <2>3. Before(o, u) \/ Before(u, o)
    BY <1>1, <1>5, <2>1, <2>2, Parting
  <2>4. Under(o, o)
    BY DEF Under
  <2>5. Before(o, u) => Before(o, s) /\ Before(o, Lift(p, s))
    BY <1>1, <1>4, <2>1, <2>4, BeforeUnder
  <2>6. Before(u, o) => Before(s, o) /\ Before(Lift(p, s), o)
    BY <1>1, <1>4, <2>1, <2>4, BeforeUnder
  <2>7. ~(Before(o, s) /\ Before(s, o))
    BY <2>1, BeforeStrict
  <2> QED BY <2>3, <2>5, <2>6, <2>7
<1>7. CASE q \in KeptOf(t, p) /\ r \in KeptOf(t, p)
  BY <1>5, <1>7
<1>8. CASE q \in KeptOf(t, p) /\ r \in BesideOf(t, p)
  BY <1>4, <1>5, <1>6, <1>8
<1>9. CASE q \in BesideOf(t, p) /\ r \in KeptOf(t, p)
  BY <1>4, <1>5, <1>6, <1>9
<1>10. CASE q \in BesideOf(t, p) /\ r \in BesideOf(t, p)
  <2>1. Before(Lift(p, q), Lift(p, r))
    BY <1>1, <1>3, <1>10, LiftBefore
  <2> QED BY <1>4, <1>10, <2>1
<1> QED BY <1>2, <1>7, <1>8, <1>9, <1>10 DEF Stays

\* Closing up keeps the order of the panes that stay.
LEMMA ClosedUpOrder ==
    ASSUME NEW t, Shape(t), NEW p \in Leaves(t), p # <<>>
    PROVE  SameOrder(t, ClosedUp(t, p))
<1> DEFINE v == ClosedUp(t, p)
<1>1. /\ Shape(v) /\ Shown(v) = Shown(t) \ {t[p].pane}
      /\ \A q \in Leaves(t) \ {p} :
            Place(t, p, q) \in Leaves(v) /\ LeafOf(v, t[q].pane) = Place(t, p, q)
  BY ClosedUpShape
<1> HIDE DEF v
<1>2. ASSUME NEW x \in Shown(v), NEW y \in Shown(v)
      PROVE  Before(LeafOf(t, x), LeafOf(t, y)) => Before(LeafOf(v, x), LeafOf(v, y))
  <2>1. /\ LeafOf(t, x) \in Leaves(t) /\ t[LeafOf(t, x)].pane = x
        /\ LeafOf(t, y) \in Leaves(t) /\ t[LeafOf(t, y)].pane = y
    BY <1>1, LeafOfIs
  <2>2. LeafOf(t, x) # p /\ LeafOf(t, y) # p
    BY <1>1, <2>1
  <2>3. LeafOf(v, x) = Place(t, p, LeafOf(t, x)) /\ LeafOf(v, y) = Place(t, p, LeafOf(t, y))
    BY <1>1, <2>1, <2>2
  <2> QED BY <2>1, <2>2, <2>3, PlaceBefore
<1>3. ASSUME NEW x \in Shown(t) \cap Shown(v), NEW y \in Shown(t) \cap Shown(v)
      PROVE  Before(LeafOf(v, x), LeafOf(v, y)) <=> Before(LeafOf(t, x), LeafOf(t, y))
  <2>1. CASE x = y
    <3>1. LeafOf(t, x) \in Position /\ LeafOf(v, x) \in Position
      BY <1>1, LeafOfIs
    <3>2. ~Before(LeafOf(t, x), LeafOf(t, x)) /\ ~Before(LeafOf(v, x), LeafOf(v, x))
      BY <3>1, BeforeStrict
    <3> QED BY <2>1, <3>2
  <2>2. CASE x # y
    <3>1. /\ LeafOf(t, x) \in Position /\ LeafOf(t, y) \in Position
          /\ LeafOf(v, x) \in Position /\ LeafOf(v, y) \in Position
      BY <1>1, LeafOfIs
    <3>2. Before(LeafOf(t, x), LeafOf(t, y)) \/ Before(LeafOf(t, y), LeafOf(t, x))
      <4>1. Index(t, x) # Index(t, y) /\ Index(t, x) \in Nat /\ Index(t, y) \in Nat
        BY <2>2, IndexIs
      <4>2. Index(t, x) < Index(t, y) \/ Index(t, y) < Index(t, x)
        BY <4>1
      <4> QED BY <4>2, IndexIs
    <3> QED BY <1>2, <3>1, <3>2, BeforeStrict
  <2> QED BY <2>1, <2>2
<1>4. SameOrder(t, v)
  BY <1>3 DEF SameOrder
<1> QED BY <1>4 DEF v

(* The loops over a tree.                                                  *)

\* Every node needs at least one cell.
LEMMA MinSizesAre ==
    ASSUME NEW t, Shape(t), NEW a
    PROVE  MinSizes(t, a) \in [DOMAIN t -> Nat \ {0}]
<1> DEFINE V == [DOMAIN t -> Nat \ {0}]
           ones == [p \in DOMAIN t |-> 1]
           next(f) == [p \in DOMAIN t |->
                          IF IsLeaf(t, p) THEN 1
                          ELSE IF t[p].dir = a THEN f[Append(p, 1)] + f[Append(p, 2)] + 1
                               ELSE Biggest(f[Append(p, 1)], f[Append(p, 2)])]
           G == [z \in Nat \X V |-> next(z[2])]
           least == CHOOSE f : f = [n \in Nat |->
                       [p \in DOMAIN t |->
                           IF n = 0 \/ IsLeaf(t, p) THEN 1
                           ELSE LET l == f[n - 1][Append(p, 1)]
                                    r == f[n - 1][Append(p, 2)]
                                IN  IF t[p].dir = a THEN l + r + 1 ELSE Biggest(l, r)]]
<1>1. ones \in V
  OBVIOUS
<1>2. ASSUME NEW f \in V PROVE next(f) \in V
  <2>1. ASSUME NEW p \in DOMAIN t
        PROVE  (IF IsLeaf(t, p) THEN 1
                ELSE IF t[p].dir = a THEN f[Append(p, 1)] + f[Append(p, 2)] + 1
                     ELSE Biggest(f[Append(p, 1)], f[Append(p, 2)])) \in Nat \ {0}
    <3>1. CASE IsLeaf(t, p)
      BY <3>1
    <3>2. CASE ~IsLeaf(t, p)
      <4>1. Append(p, 1) \in DOMAIN t /\ Append(p, 2) \in DOMAIN t
        BY <3>2 DEF Shape
      <4>2. f[Append(p, 1)] \in Nat \ {0} /\ f[Append(p, 2)] \in Nat \ {0}
        BY <4>1
      <4> QED BY <3>2, <4>2 DEF Biggest
    <3> QED BY <3>1, <3>2
  <2> QED BY <2>1
<1>3. G \in [Nat \X V -> V]
  <2> HIDE DEF next, V
  <2> QED BY <1>2
<1>4. PICK f : Endless(V, ones, G, f)
  <2> HIDE DEF V, G, ones
  <2> QED BY <1>1, <1>3, Iterates
<1>5. ASSUME NEW n \in Nat
      PROVE  f[n] = [p \in DOMAIN t |->
                        IF n = 0 \/ IsLeaf(t, p) THEN 1
                        ELSE LET l == f[n - 1][Append(p, 1)]
                                 r == f[n - 1][Append(p, 2)]
                             IN  IF t[p].dir = a THEN l + r + 1 ELSE Biggest(l, r)]
  <2>1. CASE n = 0
    BY <1>4, <2>1 DEF Endless
  <2>2. CASE n # 0
    <3>1. n - 1 \in Nat
      BY <2>2
    <3>2. f[n - 1] \in V
      BY <1>4, <3>1 DEF Endless
    <3>3. f[n] = G[<<n, f[n - 1]>>]
      <4> HIDE DEF G, V
      <4> QED BY <1>4, <2>2 DEF Endless
    <3>4. f[n] = next(f[n - 1])
      <4> HIDE DEF V, next
      <4> QED BY <3>2, <3>3
    <3> QED BY <2>2, <3>4
  <2> QED BY <2>1, <2>2
<1>6. f = [n \in Nat |->
              [p \in DOMAIN t |->
                  IF n = 0 \/ IsLeaf(t, p) THEN 1
                  ELSE LET l == f[n - 1][Append(p, 1)]
                           r == f[n - 1][Append(p, 2)]
                       IN  IF t[p].dir = a THEN l + r + 1 ELSE Biggest(l, r)]]
  <2>1. f = [n \in Nat |-> f[n]]
    BY <1>4 DEF Endless
  <2> QED BY <1>5, <2>1
<1>7. least = [n \in Nat |->
              [p \in DOMAIN t |->
                  IF n = 0 \/ IsLeaf(t, p) THEN 1
                  ELSE LET l == least[n - 1][Append(p, 1)]
                           r == least[n - 1][Append(p, 2)]
                       IN  IF t[p].dir = a THEN l + r + 1 ELSE Biggest(l, r)]]
  BY <1>6
<1> HIDE DEF least
<1> DEFINE T == {n \in Nat : least[n] \in V}
<1>8. 0 \in T
  <2>1. least[0] = ones
    BY <1>7
  <2> HIDE DEF ones, V
  <2> QED BY <1>1, <2>1
<1>9. ASSUME NEW n \in T PROVE n + 1 \in T
  <2>1. n \in Nat /\ n + 1 \in Nat /\ n + 1 # 0 /\ (n + 1) - 1 = n /\ least[n] \in V
    OBVIOUS
  <2>2. least[n + 1] = next(least[n])
    BY <1>7, <2>1
  <2> HIDE DEF next, V
  <2> QED BY <1>2, <2>1, <2>2
<1>10. T = Nat
  <2>1. T \subseteq Nat
    OBVIOUS
  <2> HIDE DEF T
  <2> QED BY <1>8, <1>9, <2>1, SetInduction
<1>11. Cardinality(DOMAIN t) \in Nat
  BY FS_CardinalityType DEF Shape
<1>12. MinSizes(t, a) = least[Cardinality(DOMAIN t)]
  BY DEF MinSizes, least
<1> QED BY <1>10, <1>11, <1>12

\* The fields of nodes.
LEMMA SplitIs ==
    ASSUME NEW dir \in Axes, NEW first \in Size, NEW second \in Size
    PROVE  /\ Split(dir, first, second) \in Node /\ Split(dir, first, second).pane = None
           /\ Split(dir, first, second).dir = dir
           /\ Split(dir, first, second).first = first
           /\ Split(dir, first, second).second = second
BY DEF Split, Node

\* The parts of a node.
LEMMA NodeIs ==
    ASSUME NEW t, Shape(t), NEW p \in DOMAIN t
    PROVE  /\ t[p].first \in Size /\ t[p].second \in Size /\ t[p].pane \in Pane \cup {None}
           /\ \A a \in Axes : t[p].first[a] \in Nat /\ t[p].second[a] \in Nat
           /\ ~IsLeaf(t, p) => t[p].pane = None /\ t[p].dir \in Axes
BY DEF Shape, Node, IsLeaf, Size

\* There are two axes.
LEMMA AxesAre == /\ Axes = {1, 2} /\ \A a \in Axes : a \in Nat /\ Other(a) \in Axes /\ Other(a) # a
                 /\ \A a, b \in Axes : b = a \/ b = Other(a)
BY DEF Axes, Cols, Rows, Other

\* A tree is like itself, and likeness goes on from tree to tree.
LEMMA AlikeSelf == ASSUME NEW t, Shape(t) PROVE Alike(t, t)
BY DEF Alike, Shape

\* Of likeness, the second half.
LEMMA AlikeTransitive ==
    ASSUME NEW t, NEW u, NEW v, Alike(t, u), Alike(u, v)
    PROVE  Alike(t, v)
<1>1. DOMAIN u = DOMAIN t
  BY DEF Alike
<1>2. \A p \in DOMAIN t : IsLeaf(t, p) => IsLeaf(u, p)
  BY DEF Alike, IsLeaf
<1> QED BY <1>1, <1>2 DEF Alike

\* What the loop that hands out cells goes through, for a tree t at first.
Resized(t) ==
    [tree : {u \in [DOMAIN t -> Node] : Alike(t, u)}, hung : BOOLEAN, short : BOOLEAN]

\* One cell is a change of the sizes alone, which stay numbers.
LEMMA ByCellKeeps ==
    ASSUME NEW t, Shape(t), NEW x \in Resized(t), NEW a \in Axes, NEW k \in {1, -1}, NEW n \in Nat
    PROVE  AdjustByCell(x, a, k, n) \in Resized(t)
<1> DEFINE u == x.tree
           reached == {p \in DOMAIN u : ~IsLeaf(u, p) /\ Reached(u, p, a, k, n)}
           grown(p) ==
               LET node == u[p] IN
               IF node.dir # a
               THEN IF Yields(u, p, a, k)
                    THEN Split(node.dir, [node.first EXCEPT ![a] = @ + k],
                                         [node.second EXCEPT ![a] = node.first[a] + k])
                    ELSE node
               ELSE IF Side(u, p, a, k, n) = 1
               THEN Split(a, [node.first EXCEPT ![a] = @ + k], node.second)
               ELSE Split(a, node.first, [node.second EXCEPT ![a] = @ + k])
           stuck == \E p \in reached : /\ u[p].dir = a
                                       /\ ~HasCell(u[p].first, a, k) /\ ~HasCell(u[p].second, a, k)
           new == [p \in DOMAIN u |-> IF p \in reached THEN grown(p) ELSE u[p]]
           short == x.short \/ \E p \in reached : u[p].dir # a /\ ~Yields(u, p, a, k)
<1>1. u \in [DOMAIN t -> Node] /\ Alike(t, u) /\ x.hung \in BOOLEAN /\ x.short \in BOOLEAN
  BY DEF Resized
<1>2. Shape(u) /\ DOMAIN u = DOMAIN t
  BY <1>1, AlikeIs DEF Alike
<1>3. AdjustByCell(x, a, k, n) = IF x.hung THEN x
                                 ELSE IF stuck THEN [x EXCEPT !.hung = TRUE]
                                 ELSE [x EXCEPT !.tree = new, !.short = short]
  BY DEF AdjustByCell
<1>4. ASSUME NEW p \in reached, ~stuck
      PROVE  grown(p) \in Node /\ grown(p).pane = u[p].pane /\ grown(p).dir = u[p].dir
  <2>1. p \in DOMAIN u /\ ~IsLeaf(u, p)
    OBVIOUS
  <2>2. /\ u[p].first \in Size /\ u[p].second \in Size /\ u[p].pane = None /\ u[p].dir \in Axes
        /\ u[p].first[a] \in Nat /\ u[p].second[a] \in Nat /\ u[p] \in Node
    BY <1>1, <1>2, <2>1, NodeIs
  <2>3. ASSUME NEW s \in Size, NEW m \in Nat PROVE [s EXCEPT ![a] = m] \in Size
    BY DEF Size
  <2>4. CASE u[p].dir # a /\ Yields(u, p, a, k)
    <3>1. MinSizes(u, a)[p] \in Nat \ {0}
      BY <1>2, <2>1, MinSizesAre
    <3>2. u[p].first[a] + k \in Nat
      BY <2>2, <2>4, <3>1 DEF Yields
    <3>3. grown(p) = Split(u[p].dir, [u[p].first EXCEPT ![a] = u[p].first[a] + k],
                                     [u[p].second EXCEPT ![a] = u[p].first[a] + k])
      BY <2>4
    <3> HIDE DEF grown
    <3> QED BY <2>2, <2>3, <3>2, <3>3, SplitIs
  <2>5. CASE u[p].dir # a /\ ~Yields(u, p, a, k)
    BY <2>2, <2>5
  <2>6. CASE u[p].dir = a
    <3>1. HasCell(u[p].first, a, k) \/ HasCell(u[p].second, a, k)
      BY <1>4, <2>6
    <3>2. CASE Side(u, p, a, k, n) = 1
      <4>1. HasCell(u[p].first, a, k)
        BY <3>1, <3>2 DEF Side
      <4>2. u[p].first[a] + k \in Nat
        BY <2>2, <4>1 DEF HasCell
      <4>3. grown(p) = Split(a, [u[p].first EXCEPT ![a] = u[p].first[a] + k], u[p].second)
        BY <2>6, <3>2
      <4> HIDE DEF grown
      <4> QED BY <2>2, <2>3, <2>6, <4>2, <4>3, SplitIs
    <3>3. CASE Side(u, p, a, k, n) # 1
      <4>1. HasCell(u[p].second, a, k)
        BY <3>1, <3>3 DEF Side
      <4>2. u[p].second[a] + k \in Nat
        BY <2>2, <4>1 DEF HasCell
      <4>3. grown(p) = Split(a, u[p].first, [u[p].second EXCEPT ![a] = u[p].second[a] + k])
        BY <2>6, <3>3
      <4> HIDE DEF grown
      <4> QED BY <2>2, <2>3, <2>6, <4>2, <4>3, SplitIs
    <3> QED BY <3>2, <3>3
  <2> QED BY <2>4, <2>5, <2>6
<1>5. \A p \in reached : p \in DOMAIN u /\ ~IsLeaf(u, p)
  OBVIOUS
<1>6. short \in BOOLEAN
  BY <1>1
<1> HIDE DEF reached, grown, stuck, short
<1>7. ASSUME ~stuck PROVE Alike(u, new)
  <2>1. new \in [DOMAIN u -> Node]
    BY <1>1, <1>2, <1>4, <1>7
  <2>2. \A p \in DOMAIN u : new[p] = IF p \in reached THEN grown(p) ELSE u[p]
    OBVIOUS
  <2> HIDE DEF new, u
  <2> QED BY <1>4, <1>5, <1>7, <2>1, <2>2 DEF Alike
<1> HIDE DEF new
<1>8. ASSUME ~stuck PROVE new \in [DOMAIN t -> Node] /\ Alike(t, new)
  <2>1. Alike(t, new)
    BY <1>1, <1>7, <1>8, AlikeTransitive
  <2> QED BY <2>1 DEF Alike
<1> HIDE DEF u
<1>9. CASE x.hung
  BY <1>3, <1>9
<1>10. CASE ~x.hung /\ stuck
  BY <1>3, <1>10 DEF Resized
<1>11. CASE ~x.hung /\ ~stuck
  BY <1>3, <1>6, <1>8, <1>11 DEF Resized
<1> QED BY <1>9, <1>10, <1>11

\* The cells are handed out one after the other.
OneUp(d) == IF d > 0 THEN 1 ELSE -1
\* f follows AdjustSize cell by cell.
HandsOut(t, x, a, d, f) ==
    /\ f \in [Nat -> Resized(t)] /\ f[0] = x
    /\ \A n \in Nat : f[n + 1] = AdjustByCell(f[n], a, OneUp(d), n + 1)
    /\ AdjustSize(x, a, d) = f[OneUp(d) * d]

\* Such a sequence of trees there is.
LEMMA AdjustSteps ==
    ASSUME NEW t, Shape(t), NEW x \in Resized(t), NEW a \in Axes, NEW d \in Int
    PROVE  \E f : HandsOut(t, x, a, d, f)
<1> DEFINE k == OneUp(d)
           V == Resized(t)
           G == [z \in Nat \X V |-> AdjustByCell(z[2], a, k, z[1])]
           given == CHOOSE f : f = [n \in Nat |->
                       IF n = 0 THEN x ELSE AdjustByCell(f[n - 1], a, k, n)]
<1>1. k \in {1, -1}
  BY DEF OneUp
<1>2. G \in [Nat \X V -> V]
  BY <1>1, ByCellKeeps
<1>3. PICK f : Endless(V, x, G, f)
  <2> HIDE DEF V, G
  <2>1. x \in V
    BY DEF V
  <2> QED BY <1>2, <2>1, Iterates
<1>4. ASSUME NEW n \in Nat PROVE f[n] = IF n = 0 THEN x ELSE AdjustByCell(f[n - 1], a, k, n)
  <2>1. CASE n = 0
    BY <1>3, <2>1 DEF Endless
  <2>2. CASE n # 0
    <3>1. n - 1 \in Nat
      BY <2>2
    <3>2. f[n - 1] \in V
      BY <1>3, <3>1 DEF Endless
    <3>3. f[n] = G[<<n, f[n - 1]>>]
      <4> HIDE DEF G, V
      <4> QED BY <1>3, <2>2 DEF Endless
    <3>4. f[n] = AdjustByCell(f[n - 1], a, k, n)
      <4> HIDE DEF V
      <4> QED BY <3>2, <3>3
    <3> QED BY <2>2, <3>4
  <2> QED BY <2>1, <2>2
<1>5. f = [n \in Nat |-> IF n = 0 THEN x ELSE AdjustByCell(f[n - 1], a, k, n)]
  <2>1. f = [n \in Nat |-> f[n]]
    BY <1>3 DEF Endless
  <2> QED BY <1>4, <2>1
<1>6. given = [n \in Nat |-> IF n = 0 THEN x ELSE AdjustByCell(given[n - 1], a, k, n)]
  BY <1>5
<1>7. AdjustSize(x, a, d) = given[k * d]
  BY DEF AdjustSize, OneUp
<1> HIDE DEF given, k
<1> DEFINE T == {n \in Nat : given[n] \in V}
<1>8. given[0] = x /\ \A n \in Nat : given[n + 1] = AdjustByCell(given[n], a, k, n + 1)
  <2>1. ASSUME NEW n \in Nat PROVE given[n + 1] = AdjustByCell(given[n], a, k, n + 1)
    <3>1. n + 1 \in Nat /\ n + 1 # 0 /\ (n + 1) - 1 = n
      OBVIOUS
    <3> QED BY <1>6, <3>1
  <2> QED BY <1>6, <2>1
<1>9. 0 \in T /\ \A n \in T : n + 1 \in T
  <2>1. 0 \in T
    BY <1>8
  <2>2. ASSUME NEW n \in T PROVE n + 1 \in T
    <3>1. AdjustByCell(given[n], a, k, n + 1) \in V
      BY <1>1, ByCellKeeps
    <3> QED BY <1>8, <3>1
  <2> QED BY <2>1, <2>2
<1>10. T = Nat
  <2>1. T \subseteq Nat
    OBVIOUS
  <2> HIDE DEF T
  <2> QED BY <1>9, <2>1, SetInduction
<1>11. given \in [Nat -> V]
  <2>1. given = [n \in Nat |-> given[n]]
    BY <1>6
  <2>2. \A n \in Nat : given[n] \in V
    BY <1>10
  <2> HIDE DEF V
  <2> QED BY <2>1, <2>2
<1>12. HandsOut(t, x, a, d, given)
  BY <1>7, <1>8, <1>11 DEF HandsOut, k
<1> QED BY <1>12

\* So only sizes change.
LEMMA AdjustSizeKeeps ==
    ASSUME NEW t, Shape(t), NEW x \in Resized(t), NEW a \in Axes, NEW d \in Int
    PROVE  AdjustSize(x, a, d) \in Resized(t)
<1>1. PICK f : HandsOut(t, x, a, d, f)
  BY AdjustSteps
<1>2. OneUp(d) * d \in Nat
  <2>1. CASE d > 0
    BY <2>1 DEF OneUp
  <2>2. CASE ~(d > 0)
    BY <2>2 DEF OneUp
  <2> QED BY <2>1, <2>2
<1> QED BY <1>1, <1>2 DEF HandsOut

\* The size of a tab with a tree that is in shape, and what its panes are told.
LEMMA RoomIs ==
    ASSUME NEW t, Shape(t), NEW p \in DOMAIN t, NEW whole \in Size
    PROVE  Room(t, p, whole) \in Size
<1>1. CASE p = <<>>
  BY <1>1 DEF Room
<1>2. CASE p # <<>>
  BY <1>2, AboveIs, NodeIs DEF Room
<1> QED BY <1>1, <1>2

\* What changes of a tab when only sizes change.
SizedAnew(y, z) ==
    /\ Alike(y.tree, z.tree) /\ TabState(z)
    /\ z.active = y.active /\ z.zoomed = y.zoomed

\* apply_sizes_from_splits touches only what the panes are told.
LEMMA ApplySizesIs ==
    ASSUME NEW y, TabState(y)
    PROVE  SizedAnew(y, ApplySizes(y)) /\ ApplySizes(y).tree = y.tree
<1> DEFINE pty == [x \in Pane |-> IF x \in Shown(y.tree)
                                  THEN Room(y.tree, LeafOf(y.tree, x), y.size) ELSE y.pty[x]]
           z == ApplySizes(y)
<1>1. /\ Shape(y.tree) /\ y.size \in Size /\ y.pty \in [Pane -> Size]
      /\ y \in [tree : {y.tree}, size : Size, before : Size, active : Nat,
                zoomed : {None} \cup Shown(y.tree), pty : [Pane -> Size]]
  BY DEF TabState
<1>2. pty \in [Pane -> Size]
  <2>1. ASSUME NEW x \in Shown(y.tree) PROVE Room(y.tree, LeafOf(y.tree, x), y.size) \in Size
    BY <1>1, RoomIs, LeafOfIs DEF Leaves
  <2> QED BY <1>1, <2>1
<1>3. z = [y EXCEPT !.pty = pty]
  BY DEF ApplySizes
<1> HIDE DEF pty, z
<1>4. z.tree = y.tree /\ z.active = y.active /\ z.zoomed = y.zoomed
  BY <1>1, <1>3
<1>5. TabState(z)
  BY <1>1, <1>2, <1>3 DEF TabState
<1>6. Alike(y.tree, z.tree)
  BY <1>1, <1>4, AlikeSelf
<1> QED BY <1>4, <1>5, <1>6 DEF SizedAnew, z

\* A tab stays one when its tree and its sizes change.
LEMMA TabStateWith ==
    ASSUME NEW y, TabState(y), NEW u, Shape(u), Shown(u) = Shown(y.tree),
           NEW size \in Size, NEW before \in Size, NEW active \in Nat
    PROVE  TabState([y EXCEPT !.tree = u, !.size = size, !.before = before, !.active = active])
BY DEF TabState

\* A split that is made to fit is a split of the same axis.
LEMMA FitIs ==
    ASSUME NEW t, Shape(t), NEW p \in DOMAIN t, ~IsLeaf(t, p), NEW size \in Size
    PROVE  /\ Fit(t[p], size) \in Node /\ Fit(t[p], size).pane = t[p].pane
           /\ Fit(t[p], size).dir = t[p].dir
           /\ \A c \in Axes :
                 /\ Fit(t[p], size).first[c] = IF c = t[p].dir THEN t[p].first[c] ELSE size[c]
                 /\ Fit(t[p], size).second[c] =
                       IF c = t[p].dir THEN Biggest(0, size[c] - (1 + t[p].first[c])) ELSE size[c]
<1> DEFINE node == t[p]
           a == node.dir
           b == Other(a)
           first == [node.first EXCEPT ![b] = size[b]]
           second == [c \in Axes |-> IF c = b THEN size[b]
                                     ELSE Biggest(0, size[a] - (1 + node.first[a]))]
<1>1. /\ a \in Axes /\ b \in Axes /\ a # b /\ node.pane = None
      /\ node.first \in Size /\ \A c \in Axes : node.first[c] \in Nat /\ size[c] \in Nat
      /\ \A c \in Axes : c = a \/ c = b
  BY NodeIs, AxesAre DEF Size
<1>2. Fit(node, size) = Split(a, first, second)
  BY DEF Fit
<1>3. first \in Size /\ second \in Size
  <2>1. Biggest(0, size[a] - (1 + node.first[a])) \in Nat
    BY <1>1 DEF Biggest
  <2> QED BY <1>1, <2>1 DEF Size
<1>4. \A c \in Axes : /\ first[c] = IF c = a THEN node.first[c] ELSE size[c]
                      /\ second[c] = IF c = a THEN Biggest(0, size[c] - (1 + node.first[c]))
                                     ELSE size[c]
  BY <1>1 DEF Size
<1> HIDE DEF first, second
<1>5. /\ Split(a, first, second) \in Node /\ Split(a, first, second).pane = None
      /\ Split(a, first, second).dir = a
      /\ Split(a, first, second).first = first /\ Split(a, first, second).second = second
  BY <1>1, <1>3, SplitIs
<1> QED BY <1>1, <1>2, <1>4, <1>5

\* u is t with what comes after p made to fit.
FittedAfter(t, p, u) ==
    /\ Alike(t, u)
    /\ \A q \in DOMAIN t :
          u[q] = IF After(p, q) /\ ~IsLeaf(t, q) THEN Fit(t[q], Room(u, q, Nothing)) ELSE t[q]

\* A walk of fits is what FittedAfter says.
LEMMA FitAfterIs ==
    ASSUME NEW t, Shape(t), NEW p \in Position
    PROVE  FittedAfter(t, p, FitAfter(t, p))
<1> DEFINE V == {w \in [DOMAIN t -> Node] : Alike(t, w)}
           next(w, n) == [q \in DOMAIN t |->
                             IF Len(q) = n /\ After(p, q) /\ ~IsLeaf(t, q)
                             THEN Fit(t[q], Room(w, q, Nothing)) ELSE w[q]]
           G == [z \in Nat \X V |-> next(z[2], z[1])]
           fitted == CHOOSE f : f = [n \in Nat |->
                       IF n = 0 THEN t
                       ELSE [q \in DOMAIN t |->
                               IF Len(q) = n /\ After(p, q) /\ ~IsLeaf(t, q)
                               THEN Fit(t[q], Room(f[n - 1], q, Nothing)) ELSE f[n - 1][q]]]
<1>1. t \in V
  BY AlikeSelf DEF Alike
<1>2. Nothing \in Size
  BY DEF Nothing, Size
<1>3. ASSUME NEW w \in V, NEW n \in Nat PROVE next(w, n) \in V
  <2>1. w \in [DOMAIN t -> Node] /\ Alike(t, w) /\ Shape(w) /\ DOMAIN w = DOMAIN t
    BY AlikeIs
  <2>2. ASSUME NEW q \in DOMAIN t, ~IsLeaf(t, q)
        PROVE  /\ Fit(t[q], Room(w, q, Nothing)) \in Node
               /\ Fit(t[q], Room(w, q, Nothing)).pane = t[q].pane
               /\ Fit(t[q], Room(w, q, Nothing)).dir = t[q].dir
    <3>1. Room(w, q, Nothing) \in Size
      BY <1>2, <2>1, RoomIs
    <3> QED BY <2>2, <3>1, FitIs
  <2>3. next(w, n) \in [DOMAIN t -> Node]
    BY <2>1, <2>2
  <2>4. Alike(t, next(w, n))
    BY <2>1, <2>2, <2>3 DEF Alike
  <2> HIDE DEF next
  <2> QED BY <2>3, <2>4
<1>4. G \in [Nat \X V -> V]
  <2> HIDE DEF V, next
  <2> QED BY <1>3
<1>5. PICK f : Endless(V, t, G, f)
  <2> HIDE DEF V, G
  <2> QED BY <1>1, <1>4, Iterates
<1>6. ASSUME NEW n \in Nat
      PROVE  f[n] = IF n = 0 THEN t
                    ELSE [q \in DOMAIN t |->
                            IF Len(q) = n /\ After(p, q) /\ ~IsLeaf(t, q)
                            THEN Fit(t[q], Room(f[n - 1], q, Nothing)) ELSE f[n - 1][q]]
  <2>1. CASE n = 0
    BY <1>5, <2>1 DEF Endless
  <2>2. CASE n # 0
    <3>1. n - 1 \in Nat
      BY <2>2
    <3>2. f[n - 1] \in V
      <4> HIDE DEF V
      <4> QED BY <1>5, <3>1 DEF Endless
    <3>3. f[n] = G[<<n, f[n - 1]>>]
      <4> HIDE DEF G, V
      <4> QED BY <1>5, <2>2 DEF Endless
    <3>4. f[n] = next(f[n - 1], n)
      <4> HIDE DEF V, next
      <4> QED BY <3>2, <3>3
    <3> QED BY <2>2, <3>4
  <2> QED BY <2>1, <2>2
<1>7. f = [n \in Nat |->
             IF n = 0 THEN t
             ELSE [q \in DOMAIN t |->
                     IF Len(q) = n /\ After(p, q) /\ ~IsLeaf(t, q)
                     THEN Fit(t[q], Room(f[n - 1], q, Nothing)) ELSE f[n - 1][q]]]
  <2>1. f = [n \in Nat |-> f[n]]
    BY <1>5 DEF Endless
  <2> HIDE DEF V, G, next
  <2> QED BY <1>6, <2>1
<1>8. fitted = [n \in Nat |->
             IF n = 0 THEN t
             ELSE [q \in DOMAIN t |->
                     IF Len(q) = n /\ After(p, q) /\ ~IsLeaf(t, q)
                     THEN Fit(t[q], Room(fitted[n - 1], q, Nothing)) ELSE fitted[n - 1][q]]]
  BY <1>7
<1> DEFINE u == FitAfter(t, p)
<1>9. u = [q \in DOMAIN t |-> fitted[Len(q)][q]]
  BY DEF FitAfter
<1> HIDE DEF fitted, u, V
<1>10. fitted[0] = t /\ \A n \in Nat : fitted[n + 1] = next(fitted[n], n + 1)
  <2>1. fitted[0] = t
    BY <1>8
  <2>2. ASSUME NEW n \in Nat PROVE fitted[n + 1] = next(fitted[n], n + 1)
    <3>1. n + 1 \in Nat /\ n + 1 # 0 /\ (n + 1) - 1 = n
      OBVIOUS
    <3> QED BY <1>8, <3>1
  <2> QED BY <2>1, <2>2
<1> DEFINE T == {n \in Nat : fitted[n] \in V /\ \A q \in DOMAIN t : Len(q) > n => fitted[n][q] = t[q]}
<1>11. 0 \in T
  BY <1>1, <1>10
<1>12. ASSUME NEW n \in T PROVE n + 1 \in T
  <2>1. n \in Nat /\ fitted[n] \in V /\ n + 1 \in Nat
        /\ \A q \in DOMAIN t : Len(q) > n => fitted[n][q] = t[q]
    OBVIOUS
  <2>2. fitted[n + 1] \in V
    <3> HIDE DEF next
    <3> QED BY <1>3, <1>10, <2>1
  <2>3. ASSUME NEW q \in DOMAIN t, Len(q) > n + 1 PROVE fitted[n + 1][q] = t[q]
    <3>1. Len(q) \in Nat
      BY PositionIs DEF Shape
    <3>2. Len(q) > n /\ Len(q) # n + 1
      BY <2>1, <2>3, <3>1
    <3>3. next(fitted[n], n + 1)[q] = fitted[n][q]
      BY <3>2
    <3> QED BY <1>10, <2>1, <3>2, <3>3
  <2> QED BY <2>1, <2>2, <2>3
<1>13. T = Nat
  <2>1. T \subseteq Nat
    OBVIOUS
  <2> HIDE DEF T
  <2> QED BY <1>11, <1>12, <2>1, SetInduction
<1>14. \A n \in Nat : fitted[n] \in V /\ \A q \in DOMAIN t : Len(q) > n => fitted[n][q] = t[q]
  BY <1>13
<1> HIDE DEF T
<1>15. ASSUME NEW q \in DOMAIN t
       PROVE  /\ u[q] \in Node /\ u[q].pane = t[q].pane /\ u[q].dir = t[q].dir
              /\ IsLeaf(t, q) => u[q] = t[q]
  <2>1. Len(q) \in Nat /\ u[q] = fitted[Len(q)][q]
    BY <1>9, PositionIs DEF Shape
  <2>2. fitted[Len(q)] \in [DOMAIN t -> Node] /\ Alike(t, fitted[Len(q)])
    BY <1>14, <2>1 DEF V
  <2> QED BY <2>1, <2>2 DEF Alike
<1>16. Alike(t, u)
  <2>1. u \in [DOMAIN t -> Node]
    BY <1>9, <1>15
  <2> QED BY <1>15, <2>1 DEF Alike
<1>17. ASSUME NEW q \in DOMAIN t
       PROVE  u[q] = IF After(p, q) /\ ~IsLeaf(t, q) THEN Fit(t[q], Room(u, q, Nothing)) ELSE t[q]
  <2>1. q \in Position /\ Len(q) \in Nat /\ u[q] = fitted[Len(q)][q] /\ Len(p) \in Nat
    BY <1>9, PositionIs DEF Shape
  <2>2. CASE q = <<>>
    <3>1. ~After(p, q)
      <4>1. Len(q) = 0
        BY <2>2, RootIs
      <4> QED BY <2>1, <4>1 DEF After, Above, Before
    <3>2. u[q] = t[q]
      BY <1>10, <2>1, <2>2, RootIs
    <3> QED BY <3>1, <3>2
  <2>3. CASE q # <<>>
    <3>1. Len(q) \in Nat \ {0} /\ Len(Up(q)) = Len(q) - 1 /\ Up(q) \in DOMAIN t
      BY <2>1, <2>3, UpIs, AboveIs
    <3>2. PICK n \in Nat : Len(q) = n + 1 /\ Len(Up(q)) = n
      <4>1. Len(q) - 1 \in Nat /\ Len(q) = (Len(q) - 1) + 1
        BY <3>1
      <4> QED BY <3>1, <4>1
    <3>3. u[q] = IF After(p, q) /\ ~IsLeaf(t, q)
                 THEN Fit(t[q], Room(fitted[n], q, Nothing)) ELSE fitted[n][q]
      <4>1. u[q] = fitted[n + 1][q] /\ fitted[n + 1] = next(fitted[n], n + 1)
        BY <1>10, <2>1, <3>2
      <4>2. next(fitted[n], n + 1)[q] = IF Len(q) = n + 1 /\ After(p, q) /\ ~IsLeaf(t, q)
                                        THEN Fit(t[q], Room(fitted[n], q, Nothing))
                                        ELSE fitted[n][q]
        OBVIOUS
      <4> HIDE DEF next
      <4> QED BY <3>2, <4>1, <4>2
    <3>4. fitted[n][q] = t[q]
      BY <1>14, <3>2
    <3>5. Room(fitted[n], q, Nothing) = Room(u, q, Nothing)
      <4>1. u[Up(q)] = fitted[n][Up(q)]
        BY <1>9, <3>1, <3>2
      <4> QED BY <2>3, <4>1 DEF Room
    <3> QED BY <3>3, <3>4, <3>5
  <2> QED BY <2>2, <2>3
<1> QED BY <1>16, <1>17 DEF FittedAfter, u

\* What is made to fit of a tab.
LEMMA CascadeIs ==
    ASSUME NEW y, TabState(y), NEW p \in Position
    PROVE  SizedAnew(y, Cascade(y, p)) /\ Cascade(y, p).tree = FitAfter(y.tree, p)
<1> DEFINE t == FitAfter(y.tree, p)
           pty == [x \in Pane |-> IF x \in Shown(t) /\ After(p, LeafOf(t, x))
                                  THEN Room(t, LeafOf(t, x), y.size) ELSE y.pty[x]]
           z == Cascade(y, p)
<1>1. /\ Shape(y.tree) /\ y.size \in Size /\ y.pty \in [Pane -> Size]
      /\ y \in [tree : {y.tree}, size : Size, before : Size, active : Nat,
                zoomed : {None} \cup Shown(y.tree), pty : [Pane -> Size]]
  BY DEF TabState
<1>2. Alike(y.tree, t) /\ Shape(t) /\ Shown(t) = Shown(y.tree)
  BY <1>1, FitAfterIs, AlikeIs DEF FittedAfter
<1>3. z = [y EXCEPT !.tree = t, !.pty = pty]
  BY DEF Cascade
<1> HIDE DEF t
<1>4. pty \in [Pane -> Size]
  <2>1. ASSUME NEW x \in Shown(t) PROVE Room(t, LeafOf(t, x), y.size) \in Size
    BY <1>1, <1>2, RoomIs, LeafOfIs DEF Leaves
  <2> QED BY <1>1, <2>1
<1> HIDE DEF pty, z
<1>5. z.tree = t /\ z.active = y.active /\ z.zoomed = y.zoomed
  BY <1>1, <1>3
<1>6. TabState(z)
  BY <1>1, <1>2, <1>3, <1>4 DEF TabState
<1> QED BY <1>2, <1>5, <1>6 DEF SizedAnew, z, t

(* Resizing and zooming.                                                   *)

\* What a tab is.
LEMMA TabIs ==
    ASSUME NEW y, TabState(y)
    PROVE  /\ Shape(y.tree) /\ y.size \in Size /\ y.before \in Size /\ y.active \in Nat
           /\ y.zoomed \in {None} \cup Shown(y.tree) /\ y.pty \in [Pane -> Size]
           /\ Shown(y.tree) \subseteq Pane /\ None \notin Pane
           /\ y \in [tree : {y.tree}, size : Size, before : Size, active : Nat,
                     zoomed : {None} \cup Shown(y.tree), pty : [Pane -> Size]]
BY LeafOfIs, TabTreeAssumption DEF TabState

\* What comes of an operation that changes sizes alone.
Resizes(y, z) == SizedAnew(y, z.tab) /\ z.hung \in BOOLEAN /\ z.astray \subseteq {"sizes"}

\* A tab is resized.
LEMMA ResizeKeeps ==
    ASSUME NEW y, TabState(y), DOMAIN y.tree # {}, NEW size \in Size
    PROVE  Resizes(y, Resize(y, size))
<1> DEFINE w == Resize(y, size)
<1>1. /\ Shape(y.tree) /\ y.size \in Size /\ y.before \in Size /\ y.active \in Nat
      /\ y.zoomed \in {None} \cup Shown(y.tree) /\ y.pty \in [Pane -> Size]
      /\ Shown(y.tree) \subseteq Pane /\ None \notin Pane
      /\ y \in [tree : {y.tree}, size : Size, before : Size, active : Nat,
                zoomed : {None} \cup Shown(y.tree), pty : [Pane -> Size]]
  BY TabIs
<1>2. CASE y.zoomed # None
  <2> DEFINE z == [y EXCEPT !.size = size, !.pty[y.zoomed] = size]
  <2>1. w = Just(z)
    BY <1>2 DEF Resize
  <2>2. TabState(z) /\ z.tree = y.tree /\ z.active = y.active /\ z.zoomed = y.zoomed
    BY <1>1, <1>2 DEF TabState
  <2> HIDE DEF z
  <2>3. Alike(y.tree, z.tree)
    BY <1>1, <2>2, AlikeSelf
  <2>4. w.tab = z /\ w.hung = FALSE /\ w.astray = {}
    BY <2>1 DEF Just
  <2> HIDE DEF w
  <2>5. Resizes(y, w)
    BY <2>2, <2>3, <2>4 DEF Resizes, SizedAnew
  <2> QED BY <2>5 DEF w
<1>3. CASE y.zoomed = None
  <2> DEFINE new == [a \in Axes |-> Biggest(size[a], MinSizes(y.tree, a)[<<>>])]
             v == [tree |-> y.tree, hung |-> FALSE, short |-> FALSE]
             x == AdjustSize(v, Cols, new[Cols] - y.size[Cols])
             z == AdjustSize(x, Rows, new[Rows] - y.size[Rows])
             s == [y EXCEPT !.tree = z.tree, !.size = new]
  <2>1. w = [tab |-> ApplySizes(s), hung |-> z.hung, astray |-> Strays("sizes", z.short)]
    BY <1>3 DEF Resize
  <2>2. new \in Size
    <3>1. \A a \in Axes : size[a] \in Nat /\ MinSizes(y.tree, a)[<<>>] \in Nat
      <4>1. <<>> \in DOMAIN y.tree
        BY <1>1 DEF Shape
      <4> QED BY <1>1, <4>1, MinSizesAre DEF Size
    <3> QED BY <3>1 DEF Size, Biggest
  <2> HIDE DEF new
  <2>3. v \in Resized(y.tree)
    BY <1>1, AlikeSelf DEF Resized, Shape
  <2> HIDE DEF v
  <2>4. new[Cols] - y.size[Cols] \in Int /\ new[Rows] - y.size[Rows] \in Int
        /\ Cols \in Axes /\ Rows \in Axes
    BY <1>1, <2>2 DEF Size, Axes
  <2>5. x \in Resized(y.tree)
    BY <1>1, <2>3, <2>4, AdjustSizeKeeps
  <2> HIDE DEF x
  <2>6. z \in Resized(y.tree)
    BY <1>1, <2>4, <2>5, AdjustSizeKeeps
  <2> HIDE DEF z
  <2>7. Alike(y.tree, z.tree) /\ z.hung \in BOOLEAN /\ z.short \in BOOLEAN
    BY <2>6 DEF Resized
  <2>8. Shape(z.tree) /\ Shown(z.tree) = Shown(y.tree)
    BY <1>1, <2>7, AlikeIs
  <2>9. TabState(s) /\ s.tree = z.tree /\ s.active = y.active /\ s.zoomed = y.zoomed
    BY <1>1, <2>2, <2>8 DEF TabState
  <2> HIDE DEF s, w
  <2>10. SizedAnew(s, ApplySizes(s)) /\ ApplySizes(s).tree = s.tree
    BY <2>9, ApplySizesIs
  <2>11. SizedAnew(y, ApplySizes(s))
    BY <2>7, <2>9, <2>10 DEF SizedAnew
  <2>12. w.tab = ApplySizes(s) /\ w.hung = z.hung /\ w.astray = Strays("sizes", z.short)
    BY <2>1
  <2>13. Resizes(y, w)
    BY <2>7, <2>11, <2>12 DEF Resizes, Strays
  <2> QED BY <2>13 DEF w
<1> QED BY <1>2, <1>3

\* A tab that is unzoomed.
Unzooms(y, z) ==
    /\ Alike(y.tree, z.tab.tree) /\ TabState(z.tab)
    /\ z.tab.active = y.active /\ z.tab.zoomed = None
    /\ z.hung \in BOOLEAN /\ z.astray \subseteq {"sizes"}

\* Unzooming a tab keeps its panes in their places.
LEMMA UnzoomKeeps ==
    ASSUME NEW y, TabState(y), DOMAIN y.tree # {}
    PROVE  /\ y.zoomed # None => Unzooms(y, ToggleZoom(y))
           /\ Unzooms(y, Unzoomed(y))
<1>1. /\ Shape(y.tree) /\ y.size \in Size /\ y.before \in Size /\ y.active \in Nat
      /\ y.zoomed \in {None} \cup Shown(y.tree) /\ y.pty \in [Pane -> Size]
      /\ y \in [tree : {y.tree}, size : Size, before : Size, active : Nat,
                zoomed : {None} \cup Shown(y.tree), pty : [Pane -> Size]]
  BY TabIs
<1>2. ASSUME y.zoomed # None PROVE Unzooms(y, ToggleZoom(y))
  <2> DEFINE s == [y EXCEPT !.zoomed = None, !.size = y.before, !.before = Nothing]
             z == ToggleZoom(y)
  <2>1. z = Resize(s, y.size)
    BY <1>2 DEF ToggleZoom
  <2>2. TabState(s) /\ s.tree = y.tree /\ s.active = y.active /\ s.zoomed = None
    BY <1>1 DEF TabState, Nothing, Size
  <2> HIDE DEF s, z
  <2>3. Resizes(s, z)
    BY <1>1, <2>1, <2>2, ResizeKeeps
  <2>4. Unzooms(y, z)
    BY <2>2, <2>3 DEF Resizes, SizedAnew, Unzooms
  <2> QED BY <2>4 DEF z
<1>3. Unzooms(y, Unzoomed(y))
  <2>1. CASE y.zoomed = None
    <3>1. Unzoomed(y) = Just(y) /\ Just(y).tab = y /\ Just(y).hung = FALSE /\ Just(y).astray = {}
      BY <2>1 DEF Unzoomed, Just
    <3>2. Alike(y.tree, y.tree)
      BY <1>1, AlikeSelf
    <3> QED BY <2>1, <3>1, <3>2 DEF Unzooms
  <2>2. CASE y.zoomed # None
    BY <1>2, <2>2 DEF Unzoomed
  <2> QED BY <2>1, <2>2
<1> QED BY <1>2, <1>3

\* A tab that is zoomed: its active pane is, if it has one.
LEMMA ZoomKeeps ==
    ASSUME NEW y, TabState(y), y.zoomed = None
    PROVE  /\ ToggleZoom(y) = Just(ToggleZoom(y).tab)
           /\ TabState(ToggleZoom(y).tab) /\ ToggleZoom(y).tab.tree = y.tree
           /\ ToggleZoom(y).tab.active = y.active
           /\ ToggleZoom(y).tab.zoomed =
                 IF y.active < Count(y.tree) THEN PaneAt(y.tree, y.active) ELSE None
<1> DEFINE x == ActivePane(y)
           s == IF x = None THEN y ELSE [y EXCEPT !.before = y.size, !.zoomed = x, !.pty[x] = y.size]
<1>1. /\ Shape(y.tree) /\ y.size \in Size /\ y.before \in Size /\ y.active \in Nat
      /\ y.pty \in [Pane -> Size] /\ Shown(y.tree) \subseteq Pane /\ None \notin Pane
      /\ y \in [tree : {y.tree}, size : Size, before : Size, active : Nat,
                zoomed : {None} \cup Shown(y.tree), pty : [Pane -> Size]]
  BY TabIs
<1>2. ToggleZoom(y) = Just(s) /\ Just(s).tab = s
  BY DEF ToggleZoom, Zoom, Just
<1>3. x = IF y.active < Count(y.tree) THEN PaneAt(y.tree, y.active) ELSE None
  BY DEF ActivePane
<1>4. y.active < Count(y.tree) => x \in Shown(y.tree)
  <2>1. Count(y.tree) \in Nat
    BY <1>1, IndexIs
  <2>2. y.active < Count(y.tree) => y.active \in 0..(Count(y.tree) - 1)
    BY <1>1, <2>1
  <2> QED BY <1>1, <1>3, <2>2, IndexIs
<1> HIDE DEF x
<1>5. TabState(s) /\ s.tree = y.tree /\ s.active = y.active /\ s.zoomed = x
  <2>1. CASE x = None
    BY <2>1
  <2>2. CASE x # None
    <3>1. x \in Shown(y.tree) /\ x \in Pane
      BY <1>1, <1>3, <1>4, <2>2
    <3> QED BY <1>1, <2>2, <3>1 DEF TabState
  <2> QED BY <2>1, <2>2
<1> HIDE DEF s
<1> QED BY <1>2, <1>3, <1>5

\* A split is moved.
LEMMA MoveSplitIs ==
    ASSUME NEW t, Shape(t), NEW p \in DOMAIN t, ~IsLeaf(t, p),
           NodeSize(t[p])[t[p].dir] >= 3, NEW d \in Int
    PROVE  /\ Alike(t, MoveSplit(t, p, d))
           /\ \A q \in DOMAIN t : q # p => MoveSplit(t, p, d)[q] = t[q]
           /\ \A a \in Axes : /\ MoveSplit(t, p, d)[p].first[a] + MoveSplit(t, p, d)[p].second[a]
                                    = t[p].first[a] + t[p].second[a]
                              /\ a # t[p].dir => /\ MoveSplit(t, p, d)[p].first[a] = t[p].first[a]
                                                 /\ MoveSplit(t, p, d)[p].second[a] = t[p].second[a]
<1> DEFINE node == t[p]
           a == node.dir
           extent == NodeSize(node)[a]
           wanted == Biggest(node.first[a] + d, 1)
           m == IF wanted < extent - 2 THEN wanted ELSE extent - 2
           n == Biggest(0, extent - (m + 1))
           first == [node.first EXCEPT ![a] = m]
           second == [node.second EXCEPT ![a] = n]
           u == MoveSplit(t, p, d)
<1>1. /\ a \in Axes /\ node.pane = None /\ node.first \in Size /\ node.second \in Size
      /\ \A c \in Axes : node.first[c] \in Nat /\ node.second[c] \in Nat
  BY NodeIs
<1>2. extent = node.first[a] + node.second[a] + 1 /\ extent >= 3
  BY <1>1 DEF NodeSize
<1>3. u = [t EXCEPT ![p] = Split(a, first, second)]
  BY DEF MoveSplit
<1>4. m \in Nat /\ n \in Nat /\ m + n = node.first[a] + node.second[a]
  BY <1>1, <1>2 DEF Biggest
<1> HIDE DEF m, n, extent, wanted
<1>5. first \in Size /\ second \in Size
      /\ \A c \in Axes : /\ first[c] = IF c = a THEN m ELSE node.first[c]
                         /\ second[c] = IF c = a THEN n ELSE node.second[c]
  BY <1>1, <1>4 DEF Size
<1> HIDE DEF first, second
<1>6. /\ Split(a, first, second) \in Node /\ Split(a, first, second).pane = None
      /\ Split(a, first, second).dir = a
      /\ Split(a, first, second).first = first /\ Split(a, first, second).second = second
  BY <1>1, <1>5, SplitIs
<1>7. /\ u \in [DOMAIN t -> Node] /\ u[p] = Split(a, first, second)
      /\ \A q \in DOMAIN t : q # p => u[q] = t[q]
  BY <1>3, <1>6 DEF Shape
<1> HIDE DEF u
<1>8. Alike(t, u)
  BY <1>1, <1>6, <1>7 DEF Alike
<1>9. \A c \in Axes : /\ u[p].first[c] + u[p].second[c] = node.first[c] + node.second[c]
                      /\ c # a => u[p].first[c] = node.first[c] /\ u[p].second[c] = node.second[c]
  BY <1>1, <1>4, <1>5, <1>6, <1>7
<1> QED BY <1>7, <1>8, <1>9 DEF u

\* Moving a split keeps the panes in their places.
LEMMA MoveSplitKeeps ==
    ASSUME NEW y, TabState(y), NEW p \in DOMAIN y.tree, ~IsLeaf(y.tree, p),
           NodeSize(y.tree[p])[y.tree[p].dir] >= 3, NEW d \in Int
    PROVE  SizedAnew(y, MoveSplitAndCascade(y, p, d))
<1> DEFINE u == MoveSplit(y.tree, p, d)
           s == [y EXCEPT !.tree = u]
           z == Cascade(s, p)
<1>1. /\ Shape(y.tree) /\ p \in Position
      /\ y \in [tree : {y.tree}, size : Size, before : Size, active : Nat,
                zoomed : {None} \cup Shown(y.tree), pty : [Pane -> Size]]
  BY TabIs DEF Shape
<1>2. Alike(y.tree, u)
  BY <1>1, MoveSplitIs
<1> HIDE DEF u
<1>3. Shape(u) /\ Shown(u) = Shown(y.tree)
  BY <1>1, <1>2, AlikeIs
<1>4. TabState(s) /\ s.tree = u /\ s.active = y.active /\ s.zoomed = y.zoomed
  BY <1>1, <1>3 DEF TabState
<1> HIDE DEF s
<1>5. SizedAnew(s, z)
  BY <1>1, <1>4, CascadeIs
<1>6. Alike(y.tree, z.tree)
  BY <1>2, <1>4, <1>5, AlikeTransitive DEF SizedAnew
<1> HIDE DEF z
<1>7. SizedAnew(y, z)
  BY <1>4, <1>5, <1>6 DEF SizedAnew
<1> QED BY <1>7 DEF MoveSplitAndCascade, z, s, u

(* Splitting.                                                              *)

\* What is above the children of a position, and beside them.
LEMMA UpChild ==
    ASSUME NEW p \in Position, NEW i \in {1, 2}
    PROVE  /\ Up(Append(p, i)) = p /\ Sibling(Append(p, i)) = Append(p, 3 - i)
           /\ Append(p, i)[Len(Append(p, i))] = i
           /\ \A m \in 0..Len(p) : SubSeq(Append(p, i), 1, m) = SubSeq(p, 1, m)
           /\ \A q \in Position : \A j \in {1, 2} : Append(p, i) = Append(q, j) => p = q /\ i = j
<1> DEFINE c == Append(p, i)
<1>1. /\ c \in Position /\ Len(c) = Len(p) + 1 /\ c[Len(p) + 1] = i /\ c # <<>>
      /\ \A j \in 1..Len(p) : c[j] = p[j]
  BY ChildIs
<1>2. Len(p) \in Nat
  BY PositionIs
<1> HIDE DEF c
<1>3. Up(c) \in Position /\ Len(Up(c)) = Len(c) - 1 /\ \A j \in 1..(Len(c) - 1) : Up(c)[j] = c[j]
  BY <1>1, UpIs
<1>4. Up(c) = p
  BY <1>1, <1>2, <1>3, SamePosition
<1>5. Sibling(c) = Append(Up(c), 3 - c[Len(c)]) /\ c[Len(c)] = i
  BY <1>1, SiblingIs
<1>6. ASSUME NEW m \in 0..Len(p) PROVE SubSeq(c, 1, m) = SubSeq(p, 1, m)
  <2> DEFINE d == SubSeq(c, 1, m)
             e == SubSeq(p, 1, m)
  <2>1. m \in 0..Len(c)
    BY <1>1, <1>2
  <2>2. d \in Position /\ Len(d) = m /\ \A j \in 1..m : d[j] = c[j]
    BY <1>1, <2>1, CutIs
  <2>3. e \in Position /\ Len(e) = m /\ \A j \in 1..m : e[j] = p[j]
    BY CutIs
  <2> HIDE DEF d, e
  <2>4. \A j \in 1..m : d[j] = e[j]
    BY <1>1, <1>2, <2>2, <2>3
  <2>5. d = e
    BY <2>2, <2>3, <2>4, SamePosition
  <2> QED BY <2>5 DEF d, e
<1>7. ASSUME NEW q \in Position, NEW j \in {1, 2}, c = Append(q, j) PROVE p = q /\ i = j
  <2>1. /\ Len(c) = Len(q) + 1 /\ c[Len(q) + 1] = j
        /\ \A k \in 1..Len(q) : c[k] = q[k]
    BY <1>7, ChildIs
  <2>2. Len(q) \in Nat
    BY PositionIs
  <2> QED BY <1>1, <1>2, <2>1, <2>2, SamePosition
<1> QED BY <1>4, <1>5, <1>6, <1>7 DEF c

\* A leaf becomes a split of what it was and a new leaf, which is the i-th.
Splits(t, p, node, i, new, u) ==
    /\ DOMAIN u = DOMAIN t \cup {Append(p, 1), Append(p, 2)}
    /\ u[p] = node /\ u[Append(p, i)] = Leaf(new) /\ u[Append(p, 3 - i)] = t[p]
    /\ \A q \in DOMAIN t : q # p => u[q] = t[q]
    /\ u = [q \in DOMAIN u |-> u[q]]

\* A split in the place of a leaf, the new pane on either side.
LEMMA WithSplitIs ==
    ASSUME NEW t, Shape(t), NEW p \in Leaves(t), NEW node, NEW new
    PROVE  /\ Splits(t, p, node, 2, new, WithSplit(t, p, node, t[p], Leaf(new)))
           /\ Splits(t, p, node, 1, new, WithSplit(t, p, node, Leaf(new), t[p]))
           /\ Append(p, 1) \notin DOMAIN t /\ Append(p, 2) \notin DOMAIN t
<1>1. p \in DOMAIN t /\ p \in Position /\ IsLeaf(t, p)
  BY DEF Leaves, Shape
<1>2. ASSUME NEW i \in {1, 2} PROVE Append(p, i) \notin DOMAIN t
  <2>1. Append(p, i) # p
    BY <1>1, ChildIs
  <2>2. Under(p, Append(p, i))
    <3>1. Len(Append(p, i)) = Len(p) + 1 /\ Len(p) \in Nat /\ \A j \in 1..Len(p) : Append(p, i)[j] = p[j]
      BY <1>1, ChildIs, PositionIs
    <3> QED BY <3>1 DEF Under
  <2>3. ASSUME Append(p, i) \in DOMAIN t PROVE FALSE
    <3>1. PICK c : c = Append(p, i)
      OBVIOUS
    <3>2. c \in DOMAIN t /\ Under(p, c) /\ c # p
      BY <2>1, <2>2, <2>3, <3>1
    <3> QED BY <3>2, LeavesApart
  <2> QED BY <2>3
<1>3. Append(p, 1) # p /\ Append(p, 2) # p /\ Append(p, 1) # Append(p, 2)
  <2>1. Append(p, 1) = Append(p, 2) => 1 = 2
    BY <1>1, UpChild
  <2> QED BY <1>1, <2>1, ChildIs
<1>5. Splits(t, p, node, 2, new, WithSplit(t, p, node, t[p], Leaf(new)))
  <2> DEFINE u == WithSplit(t, p, node, t[p], Leaf(new))
  <2>1. /\ DOMAIN u = DOMAIN t \cup {Append(p, 1), Append(p, 2)}
        /\ u[p] = node /\ u[Append(p, 1)] = t[p] /\ u[Append(p, 2)] = Leaf(new)
        /\ \A q \in DOMAIN t : q # p => u[q] = t[q]
        /\ u = [q \in DOMAIN u |-> u[q]]
    BY <1>1, <1>2, <1>3 DEF WithSplit
  <2> HIDE DEF u
  <2>2. Splits(t, p, node, 2, new, u)
    BY <2>1 DEF Splits
  <2> QED BY <2>2 DEF u
<1>6. Splits(t, p, node, 1, new, WithSplit(t, p, node, Leaf(new), t[p]))
  <2> DEFINE u == WithSplit(t, p, node, Leaf(new), t[p])
  <2>1. /\ DOMAIN u = DOMAIN t \cup {Append(p, 1), Append(p, 2)}
        /\ u[p] = node /\ u[Append(p, 1)] = Leaf(new) /\ u[Append(p, 2)] = t[p]
        /\ \A q \in DOMAIN t : q # p => u[q] = t[q]
        /\ u = [q \in DOMAIN u |-> u[q]]
    BY <1>1, <1>2, <1>3 DEF WithSplit
  <2> HIDE DEF u
  <2>2. Splits(t, p, node, 1, new, u)
    BY <2>1 DEF Splits
  <2> QED BY <2>2 DEF u
<1> QED BY <1>2, <1>5, <1>6

\* The tree is in shape after it, with one pane more.
LEMMA SplitsKeeps ==
    ASSUME NEW t, Shape(t), NEW p \in Leaves(t), NEW node \in Node, node.pane = None,
           node.dir \in Axes, NEW i \in {1, 2}, NEW new \in Pane \ Shown(t),
           NEW u, Splits(t, p, node, i, new, u)
    PROVE  /\ Shape(u) /\ Shown(u) = Shown(t) \cup {new} /\ Count(u) = Count(t) + 1
           /\ LeafOf(u, new) = Append(p, i)
           /\ \A x \in Shown(t) :
                 LeafOf(u, x) = IF x = t[p].pane THEN Append(p, 3 - i) ELSE LeafOf(t, x)
<1>1. p \in DOMAIN t /\ p \in Position /\ IsLeaf(t, p) /\ 3 - i \in {1, 2}
  BY DEF Leaves, Shape
<1> DEFINE c == Append(p, i)
           s == Append(p, 3 - i)
<1>2. /\ c \in Position /\ s \in Position /\ c # p /\ s # p /\ c # s
      /\ c \notin DOMAIN t /\ s \notin DOMAIN t
  <2>1. Append(p, 1) \in Position /\ Append(p, 2) \in Position /\ Append(p, 1) # p /\ Append(p, 2) # p
    BY <1>1, ChildIs
  <2>2. Append(p, 1) # Append(p, 2)
    <3>1. Append(p, 1) = Append(p, 2) => 1 = 2
      BY <1>1, UpChild
    <3> QED BY <3>1
  <2>3. Append(p, 1) \notin DOMAIN t /\ Append(p, 2) \notin DOMAIN t
    BY WithSplitIs
  <2> QED BY <2>1, <2>2, <2>3
<1>3. {Append(p, 1), Append(p, 2)} = {c, s}
  OBVIOUS
<1>4. /\ DOMAIN u = DOMAIN t \cup {c, s}
      /\ u[p] = node /\ u[c] = Leaf(new) /\ u[s] = t[p]
      /\ \A q \in DOMAIN t : q # p => u[q] = t[q]
      /\ u = [q \in DOMAIN u |-> u[q]]
  BY <1>3 DEF Splits
<1>5. /\ new # None /\ Leaf(new) \in Node /\ Leaf(new).pane = new /\ new \notin Shown(t)
      /\ t[p].pane \in Shown(t) /\ t[p] = Leaf(t[p].pane) /\ t[p] \in Node
  <2>1. new # None
    BY TabTreeAssumption
  <2>2. Leaf(new) \in Node
    BY DEF Leaf, Node, Nothing, Size
  <2> QED BY <1>1, <2>1, <2>2, LeafOfIs DEF Leaf, Shape
<1> HIDE DEF c, s
<1>6. ~IsLeaf(u, p) /\ IsLeaf(u, c) /\ IsLeaf(u, s)
      /\ \A q \in DOMAIN t : q # p => (IsLeaf(u, q) <=> IsLeaf(t, q))
  BY <1>1, <1>4, <1>5 DEF IsLeaf
<1>7. Leaves(u) = (Leaves(t) \ {p}) \cup {c, s}
  BY <1>1, <1>2, <1>4, <1>6 DEF Leaves
<1>8. \A q \in DOMAIN t : ~IsLeaf(t, q) => ~IsLeaf(u, q) /\ q # p
  BY <1>1, <1>6
<1>9. Shape(u)
  <2>1. DOMAIN u \subseteq Position /\ u \in [DOMAIN u -> Node]
    <3>1. \A q \in DOMAIN u : q \in Position /\ u[q] \in Node
      BY <1>2, <1>4, <1>5 DEF Shape
    <3> QED BY <1>4, <3>1
  <2>2. ASSUME NEW q \in DOMAIN u
        PROVE  IF IsLeaf(u, q) THEN u[q] = Leaf(u[q].pane) ELSE u[q].dir \in Axes
    BY <1>4, <1>5, <1>6 DEF Shape
  <2>3. <<>> \in DOMAIN u /\ IsFiniteSet(DOMAIN u)
    <3>1. IsFiniteSet(DOMAIN t) /\ <<>> \in DOMAIN t
      BY <1>1 DEF Shape
    <3>2. IsFiniteSet((DOMAIN t \cup {c}) \cup {s})
      BY <3>1, FS_AddElement
    <3>3. DOMAIN u = (DOMAIN t \cup {c}) \cup {s}
      BY <1>4
    <3> QED BY <3>1, <3>2, <3>3
  <2>4. ASSUME NEW q \in DOMAIN u, ~IsLeaf(u, q) PROVE {Append(q, 1), Append(q, 2)} \subseteq DOMAIN u
    <3>1. CASE q = p
      BY <1>3, <1>4, <3>1
    <3>2. CASE q # p
      <4>1. q \in DOMAIN t /\ ~IsLeaf(t, q)
        BY <1>4, <1>6, <2>4, <3>2
      <4> QED BY <1>4, <4>1 DEF Shape
    <3> QED BY <3>1, <3>2
  <2>5. ASSUME NEW q \in DOMAIN u, NEW m \in 0..(Len(q) - 1)
        PROVE  SubSeq(q, 1, m) \in DOMAIN u /\ ~IsLeaf(u, SubSeq(q, 1, m))
    <3>1. CASE q \in DOMAIN t
      <4>1. SubSeq(q, 1, m) \in DOMAIN t /\ ~IsLeaf(t, SubSeq(q, 1, m))
        BY <3>1 DEF Shape
      <4> QED BY <1>4, <1>8, <4>1
    <3>2. CASE q \in {c, s}
      <4>1. /\ Len(q) = Len(p) + 1 /\ Len(p) \in Nat
            /\ \A k \in 0..Len(p) : SubSeq(q, 1, k) = SubSeq(p, 1, k)
        <5>1. ASSUME NEW j \in {1, 2}
              PROVE  /\ Len(Append(p, j)) = Len(p) + 1 /\ Len(p) \in Nat
                     /\ \A k \in 0..Len(p) : SubSeq(Append(p, j), 1, k) = SubSeq(p, 1, k)
          BY <1>1, ChildIs, UpChild, PositionIs
        <5> QED BY <1>1, <3>2, <5>1 DEF c, s
      <4>2. m \in 0..Len(p) /\ SubSeq(q, 1, m) = SubSeq(p, 1, m)
        BY <4>1
      <4>3. CASE m = Len(p)
        <5>1. SubSeq(p, 1, m) = p
          <6> DEFINE e == SubSeq(p, 1, m)
          <6>1. e \in Position /\ Len(e) = m /\ \A j \in 1..m : e[j] = p[j]
            BY <1>1, <4>2, CutIs
          <6> HIDE DEF e
          <6>2. e = p
            BY <1>1, <4>3, <6>1, SamePosition
          <6> QED BY <6>2 DEF e
        <5> QED BY <1>1, <1>4, <1>6, <4>2, <5>1
      <4>4. CASE m # Len(p)
        <5>1. m \in 0..(Len(p) - 1)
          BY <4>1, <4>2, <4>4
        <5>2. SubSeq(p, 1, m) \in DOMAIN t /\ ~IsLeaf(t, SubSeq(p, 1, m))
          BY <1>1, <5>1 DEF Shape
        <5> QED BY <1>4, <1>8, <4>2, <5>2
      <4> QED BY <4>3, <4>4
    <3> QED BY <1>4, <3>1, <3>2
  <2>6. ASSUME NEW q \in Leaves(u), NEW r \in Leaves(u), u[q].pane = u[r].pane PROVE q = r
    <3>1. \A o \in Leaves(t) \ {p} : /\ u[o] = t[o] /\ t[o].pane \in Shown(t)
                                     /\ t[o].pane # t[p].pane
      <4>1. p \in Leaves(t)
        OBVIOUS
      <4>2. \A o \in Leaves(t) : t[o].pane = t[p].pane => o = p
        BY <4>1 DEF Shape
      <4> QED BY <1>4, <4>2, LeafOfIs
    <3>2. \A o, o2 \in Leaves(t) : t[o].pane = t[o2].pane => o = o2
      BY DEF Shape
    <3> QED BY <1>4, <1>5, <1>7, <2>6, <3>1, <3>2
  <2> QED BY <2>1, <2>2, <2>3, <2>4, <2>5, <2>6 DEF Shape
<1>10. Shown(u) = Shown(t) \cup {new}
  <2>1. \A x \in Shown(u) : x \in Shown(t) \cup {new}
    <3>1. ASSUME NEW q \in Leaves(u) PROVE u[q].pane \in Shown(t) \cup {new}
      <4>1. CASE q \in Leaves(t) \ {p}
        <5>1. u[q] = t[q]
          BY <1>4, <4>1 DEF Leaves
        <5> QED BY <4>1, <5>1 DEF Shown
      <4>2. CASE q \in {c, s}
        BY <1>4, <1>5, <4>2
      <4> QED BY <1>7, <4>1, <4>2
    <3> QED BY <3>1 DEF Shown
  <2>2. ASSUME NEW x \in Shown(t) PROVE x \in Shown(u)
    <3>1. PICK q \in Leaves(t) : t[q].pane = x
      BY DEF Shown
    <3>2. CASE q = p
      <4>1. s \in Leaves(u) /\ u[s].pane = x
        BY <1>4, <1>7, <3>1, <3>2
      <4> QED BY <4>1 DEF Shown
    <3>3. CASE q # p
      <4>1. q \in Leaves(u) /\ u[q].pane = x
        BY <1>4, <1>7, <3>1, <3>3 DEF Leaves
      <4> QED BY <4>1 DEF Shown
    <3> QED BY <3>2, <3>3
  <2>3. new \in Shown(u)
    <3>1. c \in Leaves(u) /\ u[c].pane = new
      BY <1>4, <1>5, <1>7
    <3> QED BY <3>1 DEF Shown
  <2> QED BY <2>1, <2>2, <2>3
<1>11. Count(u) = Count(t) + 1
  <2>1. IsFiniteSet(Shown(t))
    BY FiniteShown
  <2>2. Cardinality(Shown(t) \cup {new}) = Cardinality(Shown(t)) + 1
    BY <1>5, <2>1, FS_AddElement
  <2> QED BY <1>10, <2>2 DEF Count
<1>12. LeafOf(u, new) = c
  <2>1. c \in Leaves(u) /\ u[c].pane = new
    BY <1>4, <1>5, <1>7
  <2> QED BY <1>9, <2>1, LeafOfIs
<1>13. ASSUME NEW x \in Shown(t) PROVE LeafOf(u, x) = IF x = t[p].pane THEN s ELSE LeafOf(t, x)
  <2>1. LeafOf(t, x) \in Leaves(t) /\ t[LeafOf(t, x)].pane = x
    BY LeafOfIs
  <2>2. CASE x = t[p].pane
    <3>1. s \in Leaves(u) /\ u[s].pane = x
      BY <1>4, <1>7, <2>2
    <3>2. LeafOf(u, x) = s
      BY <1>9, <3>1, LeafOfIs
    <3> QED BY <2>2, <3>2
  <2>3. CASE x # t[p].pane
    <3>1. PICK q : q = LeafOf(t, x)
      OBVIOUS
    <3>2. q \in Leaves(u) /\ u[q].pane = x
      BY <1>4, <1>7, <2>1, <2>3, <3>1 DEF Leaves
    <3>3. LeafOf(u, x) = q
      BY <1>9, <3>2, LeafOfIs
    <3> QED BY <2>3, <3>1, <3>3
  <2> QED BY <2>2, <2>3
<1> QED BY <1>9, <1>10, <1>11, <1>12, <1>13 DEF c, s

\* The position r of a tree that becomes side s of a split.
Below(s, r) == <<s>> \o r

\* A position, with one more turn at the root.
LEMMA BelowIs ==
    ASSUME NEW s \in {1, 2}, NEW r \in Position
    PROVE  /\ Below(s, r) \in Position /\ Len(Below(s, r)) = Len(r) + 1
           /\ Below(s, r)[1] = s /\ \A j \in 1..Len(r) : Below(s, r)[j + 1] = r[j]
           /\ Tail(Below(s, r)) = r
           /\ Below(s, r) # <<>> /\ Below(s, r) # <<3 - s>>
<1> DEFINE b == Below(s, r)
<1>1. /\ <<s>> \in Seq({1, 2}) /\ Len(<<s>>) = 1 /\ <<s>>[1] = s /\ r \in Seq({1, 2})
      /\ Len(r) \in Nat
  BY DEF Position
<1>2. /\ b \in Seq({1, 2}) /\ Len(b) = 1 + Len(r)
      /\ \A i \in 1..(1 + Len(r)) : b[i] = IF i <= 1 THEN <<s>>[i] ELSE r[i - 1]
  <2> DEFINE one == <<s>>
  <2>1. one \in Seq({1, 2}) /\ Len(one) = 1
    BY <1>1
  <2>2. b = one \o r
    BY DEF Below
  <2> HIDE DEF one, b
  <2>3. /\ one \o r \in Seq({1, 2}) /\ Len(one \o r) = Len(one) + Len(r)
        /\ \A i \in 1..(Len(one) + Len(r)) :
              (one \o r)[i] = IF i <= Len(one) THEN one[i] ELSE r[i - Len(one)]
    BY <1>1, <2>1, ConcatProperties
  <2> QED BY <2>1, <2>2, <2>3 DEF one
<1> HIDE DEF b
<1>3. /\ b \in Position /\ Len(b) = Len(r) + 1 /\ b[1] = s
      /\ \A j \in 1..Len(r) : b[j + 1] = r[j]
  <2>1. b[1] = s
    <3>1. 1 \in 1..(1 + Len(r))
      BY <1>1
    <3> QED BY <1>1, <1>2, <3>1
  <2>2. ASSUME NEW j \in 1..Len(r) PROVE b[j + 1] = r[j]
    <3>1. j + 1 \in 1..(1 + Len(r)) /\ ~(j + 1 <= 1) /\ (j + 1) - 1 = j
      BY <1>1
    <3> QED BY <1>2, <3>1
  <2> QED BY <1>1, <1>2, <2>1, <2>2 DEF Position
<1>4. Tail(b) = r
  <2> DEFINE c == Tail(b)
  <2>1. b \in Seq({1, 2}) /\ b # <<>>
    BY <1>1, <1>2
  <2>2. c \in Seq({1, 2}) /\ Len(c) = Len(b) - 1 /\ \A j \in 1..Len(c) : c[j] = b[j + 1]
    BY <2>1, HeadTailProperties
  <2> HIDE DEF c
  <2>3. c \in Position /\ Len(c) = Len(r) /\ \A j \in 1..Len(c) : c[j] = r[j]
    BY <1>1, <1>3, <2>2 DEF Position
  <2>4. c = r
    BY <2>3, SamePosition
  <2> QED BY <2>4 DEF c
<1>5. b # <<>> /\ b # <<3 - s>>
  BY <1>1, <1>3
<1> QED BY <1>3, <1>4, <1>5 DEF b

\* Its children, and what is above it.
LEMMA BelowChild ==
    ASSUME NEW s \in {1, 2}, NEW r \in Position, NEW i \in {1, 2}
    PROVE  Append(Below(s, r), i) = Below(s, Append(r, i))
<1> DEFINE b == Below(s, r)
           c == Append(r, i)
           d == Below(s, c)
           e == Append(b, i)
<1>1. Len(r) \in Nat
  BY PositionIs
<1>2. b \in Position /\ Len(b) = Len(r) + 1 /\ b[1] = s /\ \A j \in 1..Len(r) : b[j + 1] = r[j]
  BY BelowIs
<1>3. c \in Position /\ Len(c) = Len(r) + 1 /\ c[Len(r) + 1] = i /\ \A j \in 1..Len(r) : c[j] = r[j]
  BY ChildIs
<1> HIDE DEF b, c
<1>4. d \in Position /\ Len(d) = Len(c) + 1 /\ d[1] = s /\ \A j \in 1..Len(c) : d[j + 1] = c[j]
  BY <1>3, BelowIs
<1>5. e \in Position /\ Len(e) = Len(b) + 1 /\ e[Len(b) + 1] = i /\ \A j \in 1..Len(b) : e[j] = b[j]
  BY <1>2, ChildIs
<1> HIDE DEF d, e
<1>6. ASSUME NEW j \in 1..Len(e) PROVE e[j] = d[j]
  <2>1. CASE j = 1
    BY <1>1, <1>2, <1>4, <1>5, <2>1
  <2>2. CASE j # 1
    <3>1. PICK k \in Nat : j = k + 1 /\ k \in 1..(Len(r) + 1)
      <4>1. j - 1 \in Nat /\ j = (j - 1) + 1 /\ j - 1 \in 1..(Len(r) + 1)
        BY <1>1, <1>2, <1>5, <2>2
      <4> QED BY <4>1
    <3>2. d[j] = c[k]
      BY <1>3, <1>4, <3>1
    <3>3. CASE k = Len(r) + 1
      BY <1>1, <1>2, <1>3, <1>5, <3>1, <3>2, <3>3
    <3>4. CASE k # Len(r) + 1
      <4>1. k \in 1..Len(r) /\ j \in 1..Len(b)
        BY <1>1, <1>2, <3>1, <3>4
      <4> QED BY <1>2, <1>3, <1>5, <3>1, <3>2, <4>1
    <3> QED BY <3>3, <3>4
  <2> QED BY <2>1, <2>2
<1>7. Len(e) = Len(d)
  BY <1>1, <1>2, <1>3, <1>4, <1>5
<1>8. e = d
  BY <1>4, <1>5, <1>6, <1>7, SamePosition
<1> QED BY <1>8 DEF e, d, c, b

\* The positions above it.
LEMMA BelowCut ==
    ASSUME NEW s \in {1, 2}, NEW r \in Position, NEW m \in 0..Len(r)
    PROVE  SubSeq(Below(s, r), 1, m + 1) = Below(s, SubSeq(r, 1, m))
<1> DEFINE b == Below(s, r)
           c == SubSeq(r, 1, m)
           d == Below(s, c)
           e == SubSeq(b, 1, m + 1)
<1>1. Len(r) \in Nat /\ m \in Nat
  BY PositionIs
<1>2. b \in Position /\ Len(b) = Len(r) + 1 /\ b[1] = s /\ \A j \in 1..Len(r) : b[j + 1] = r[j]
  BY BelowIs
<1>3. c \in Position /\ Len(c) = m /\ \A j \in 1..m : c[j] = r[j]
  BY CutIs
<1> HIDE DEF b, c
<1>4. d \in Position /\ Len(d) = m + 1 /\ d[1] = s /\ \A j \in 1..m : d[j + 1] = c[j]
  BY <1>3, BelowIs
<1>5. e \in Position /\ Len(e) = m + 1 /\ \A j \in 1..(m + 1) : e[j] = b[j]
  <2>1. m + 1 \in 0..Len(b)
    BY <1>1, <1>2
  <2> QED BY <1>2, <2>1, CutIs
<1> HIDE DEF d, e
<1>6. ASSUME NEW j \in 1..(m + 1) PROVE e[j] = d[j]
  <2>1. CASE j = 1
    BY <1>1, <1>2, <1>4, <1>5, <2>1
  <2>2. CASE j # 1
    <3>1. PICK k \in Nat : j = k + 1 /\ k \in 1..m /\ k \in 1..Len(r)
      <4>1. j - 1 \in Nat /\ j = (j - 1) + 1 /\ j - 1 \in 1..m /\ j - 1 \in 1..Len(r)
        BY <1>1, <2>2
      <4> QED BY <4>1
    <3> QED BY <1>2, <1>3, <1>4, <1>5, <3>1
  <2> QED BY <2>1, <2>2
<1>7. e = d
  BY <1>4, <1>5, <1>6, SamePosition
<1> QED BY <1>7 DEF e, d, c, b

\* The whole tree becomes a side of a split, and a new leaf the other.
LEMMA WithRootKeeps ==
    ASSUME NEW t, Shape(t), NEW node \in Node, node.pane = None, node.dir \in Axes,
           NEW s \in {1, 2}, NEW new \in Pane \ Shown(t), DOMAIN t # {}
    PROVE  LET u == WithRoot(t, node, s, Leaf(new))
           IN  Shape(u) /\ Shown(u) = Shown(t) \cup {new} /\ Count(u) = Count(t) + 1
<1> DEFINE u == WithRoot(t, node, s, Leaf(new))
           D == {<<s>> \o r : r \in DOMAIN t}
           c == <<3 - s>>
<1>1. /\ \A r \in DOMAIN t : /\ r \in Position /\ Below(s, r) \in Position
                             /\ Tail(Below(s, r)) = r /\ Below(s, r) # <<>> /\ Below(s, r) # c
      /\ 3 - s \in {1, 2} /\ c \in Position /\ c # <<>> /\ <<>> \in Position
      /\ c = Append(<<>>, 3 - s)
  <2>1. ASSUME NEW r \in DOMAIN t
        PROVE  /\ r \in Position /\ Below(s, r) \in Position
               /\ Tail(Below(s, r)) = r /\ Below(s, r) # <<>> /\ Below(s, r) # c
    <3>1. r \in Position
      BY DEF Shape
    <3> HIDE DEF c
    <3> QED BY <3>1, BelowIs DEF c
  <2>2. 3 - s \in {1, 2} /\ c \in Position /\ c # <<>> /\ c = Append(<<>>, 3 - s)
    BY DEF Position
  <2> QED BY <2>1, <2>2, RootIs
<1>2. /\ DOMAIN u = {<<>>, c} \cup D
      /\ \A q \in DOMAIN u : u[q] = IF q = <<>> THEN node ELSE IF q = c THEN Leaf(new) ELSE t[Tail(q)]
      /\ u = [q \in DOMAIN u |-> u[q]]
  BY DEF WithRoot
<1>3. \A r \in DOMAIN t : Below(s, r) \in D
  BY DEF Below
<1>4. \A q \in D : \E r \in DOMAIN t : q = Below(s, r)
  BY DEF Below
<1> HIDE DEF u, D, c
<1>5. /\ u[<<>>] = node /\ u[c] = Leaf(new) /\ \A r \in DOMAIN t : u[Below(s, r)] = t[r]
      /\ <<>> \in DOMAIN u /\ c \in DOMAIN u /\ \A r \in DOMAIN t : Below(s, r) \in DOMAIN u
      /\ \A q \in DOMAIN u : q = <<>> \/ q = c \/ \E r \in DOMAIN t : q = Below(s, r)
  BY <1>1, <1>2, <1>3, <1>4
<1>6. /\ new # None /\ Leaf(new) \in Node /\ Leaf(new).pane = new
  <2>1. new # None
    BY TabTreeAssumption
  <2>2. Leaf(new) \in Node
    BY DEF Leaf, Node, Nothing, Size
  <2> QED BY <2>1, <2>2 DEF Leaf
<1>7. /\ ~IsLeaf(u, <<>>) /\ IsLeaf(u, c)
      /\ \A r \in DOMAIN t : IsLeaf(u, Below(s, r)) <=> IsLeaf(t, r)
  BY <1>5, <1>6 DEF IsLeaf
<1>8. /\ \A q \in Leaves(u) : q = c \/ \E r \in Leaves(t) : q = Below(s, r)
      /\ c \in Leaves(u) /\ \A r \in Leaves(t) : Below(s, r) \in Leaves(u)
  BY <1>5, <1>7 DEF Leaves
<1>9. Shape(u)
  <2>1. DOMAIN u \subseteq Position /\ u \in [DOMAIN u -> Node]
    <3>1. \A q \in DOMAIN u : q \in Position /\ u[q] \in Node
      <4>1. \A r \in DOMAIN t : t[r] \in Node
        BY DEF Shape
      <4>2. node \in Node
        OBVIOUS
      <4> QED BY <1>1, <1>5, <1>6, <4>1, <4>2
    <3> QED BY <1>2, <3>1
  <2>2. ASSUME NEW q \in DOMAIN u
        PROVE  IF IsLeaf(u, q) THEN u[q] = Leaf(u[q].pane) ELSE u[q].dir \in Axes
    BY <1>5, <1>6, <1>7 DEF Shape
  <2>3. <<>> \in DOMAIN u
    BY <1>5
  <2>4. ASSUME NEW q \in DOMAIN u, ~IsLeaf(u, q) PROVE {Append(q, 1), Append(q, 2)} \subseteq DOMAIN u
    <3>1. CASE q = <<>>
      <4>1. <<>> \in DOMAIN t
        BY DEF Shape
      <4>2. Below(s, <<>>) = Append(<<>>, s)
        BY DEF Below
      <4>3. {Append(<<>>, 1), Append(<<>>, 2)} = {Append(<<>>, s), Append(<<>>, 3 - s)}
        OBVIOUS
      <4> QED BY <1>1, <1>5, <3>1, <4>1, <4>2, <4>3
    <3>2. CASE q = c
      BY <1>7, <2>4, <3>2
    <3>3. ASSUME NEW r \in DOMAIN t, q = Below(s, r) PROVE {Append(q, 1), Append(q, 2)} \subseteq DOMAIN u
      <4>1. ~IsLeaf(t, r)
        BY <1>7, <2>4, <3>3
      <4>2. Append(r, 1) \in DOMAIN t /\ Append(r, 2) \in DOMAIN t
        BY <4>1 DEF Shape
      <4>3. Append(q, 1) = Below(s, Append(r, 1)) /\ Append(q, 2) = Below(s, Append(r, 2))
        BY <1>1, <3>3, BelowChild
      <4> QED BY <1>5, <4>2, <4>3
    <3> QED BY <1>5, <3>1, <3>2, <3>3
  <2>5. ASSUME NEW q \in DOMAIN u, NEW m \in 0..(Len(q) - 1)
        PROVE  SubSeq(q, 1, m) \in DOMAIN u /\ ~IsLeaf(u, SubSeq(q, 1, m))
    <3>0. q \in Position /\ Len(q) \in Nat
      BY <2>1, PositionIs
    <3>1. CASE m = 0
      <4>1. m \in 0..Len(q)
        BY <3>0
      <4>2. SubSeq(q, 1, m) \in Position /\ Len(SubSeq(q, 1, m)) = m
        BY <3>0, <4>1, CutIs
      <4>3. SubSeq(q, 1, m) = <<>>
        BY <3>1, <4>2, RootIs
      <4> QED BY <1>5, <1>7, <4>3
    <3>2. CASE m # 0
      <4>1. q # <<>> /\ q # c
        <5>1. Len(c) = 1
          BY DEF c
        <5>2. Len(q) # 0 /\ Len(q) # 1
          BY <3>0, <3>2
        <5> QED BY <5>1, <5>2, RootIs
      <4>2. PICK r \in DOMAIN t : q = Below(s, r)
        BY <1>5, <4>1
      <4>3. r \in Position /\ Len(r) \in Nat /\ Len(q) = Len(r) + 1
        BY <1>1, <4>2, BelowIs, PositionIs
      <4>4. PICK k \in 0..(Len(r) - 1) : m = k + 1
        <5>1. m - 1 \in 0..(Len(r) - 1) /\ m = (m - 1) + 1
          BY <3>2, <4>3
        <5> QED BY <5>1
      <4>5. k \in 0..Len(r)
        BY <4>3, <4>4
      <4>6. SubSeq(q, 1, m) = Below(s, SubSeq(r, 1, k))
        BY <4>2, <4>3, <4>4, <4>5, BelowCut
      <4>7. SubSeq(r, 1, k) \in DOMAIN t /\ ~IsLeaf(t, SubSeq(r, 1, k))
        BY <4>4 DEF Shape
      <4> QED BY <1>5, <1>7, <4>6, <4>7
    <3> QED BY <3>1, <3>2
  <2>6. ASSUME NEW q \in Leaves(u), NEW o \in Leaves(u), u[q].pane = u[o].pane PROVE q = o
    <3>1. \A r \in Leaves(t) : t[r].pane \in Shown(t) /\ r \in DOMAIN t
      BY LeafOfIs
    <3>2. \A r1, r2 \in Leaves(t) : t[r1].pane = t[r2].pane => r1 = r2
      BY DEF Shape
    <3>3. new \notin Shown(t)
      OBVIOUS
    <3> QED BY <1>5, <1>6, <1>8, <2>6, <3>1, <3>2, <3>3
  <2>7. IsFiniteSet(DOMAIN u)
    <3> DEFINE f == [r \in DOMAIN t |-> Below(s, r)]
    <3>1. f \in [DOMAIN t -> D]
      BY <1>3
    <3>2. ASSUME NEW q \in D PROVE \E r \in DOMAIN t : f[r] = q
      <4>1. PICK r \in DOMAIN t : q = Below(s, r)
        BY <1>4
      <4> QED BY <4>1
    <3> HIDE DEF f
    <3>3. f \in Surjection(DOMAIN t, D)
      BY <3>1, <3>2 DEF Surjection
    <3>4. IsFiniteSet(DOMAIN t)
      BY DEF Shape
    <3>5. IsFiniteSet(D)
      BY <3>3, <3>4, FS_Surjection
    <3>6. IsFiniteSet((D \cup {<<>>}) \cup {c})
      BY <3>5, FS_AddElement
    <3>7. DOMAIN u = (D \cup {<<>>}) \cup {c}
      BY <1>2
    <3> QED BY <3>6, <3>7
  <2> QED BY <2>1, <2>2, <2>3, <2>4, <2>5, <2>6, <2>7 DEF Shape
<1>10. Shown(u) = Shown(t) \cup {new}
  <2>1. ASSUME NEW q \in Leaves(u) PROVE u[q].pane \in Shown(t) \cup {new}
    <3>1. CASE q = c
      BY <1>5, <1>6, <3>1
    <3>2. ASSUME NEW r \in Leaves(t), q = Below(s, r) PROVE u[q].pane \in Shown(t)
      <4>1. u[q] = t[r]
        BY <1>5, <3>2 DEF Leaves
      <4> QED BY <4>1 DEF Shown
    <3> QED BY <1>8, <3>1, <3>2
  <2>2. ASSUME NEW r \in Leaves(t) PROVE t[r].pane \in Shown(u)
    <3>1. Below(s, r) \in Leaves(u) /\ u[Below(s, r)] = t[r]
      BY <1>5, <1>8 DEF Leaves
    <3> QED BY <3>1 DEF Shown
  <2>3. new \in Shown(u)
    <3>1. c \in Leaves(u) /\ u[c].pane = new
      BY <1>5, <1>6, <1>8
    <3> QED BY <3>1 DEF Shown
  <2>4. \A x \in Shown(u) : x \in Shown(t) \cup {new}
    BY <2>1 DEF Shown
  <2>5. \A x \in Shown(t) : x \in Shown(u)
    BY <2>2 DEF Shown
  <2> QED BY <2>3, <2>4, <2>5
<1>11. Count(u) = Count(t) + 1
  <2>1. IsFiniteSet(Shown(t)) /\ new \notin Shown(t)
    BY FiniteShown
  <2>2. Cardinality(Shown(t) \cup {new}) = Cardinality(Shown(t)) + 1
    BY <2>1, FS_AddElement
  <2> QED BY <1>10, <2>2 DEF Count
<1> QED BY <1>9, <1>10, <1>11 DEF u

(* Moving panes about.                                                     *)

\* The leaves of a tree are given other panes, all of them once.
LEMMA LeavesFilled ==
    ASSUME NEW t, Shape(t), NEW f, NEW u,
           u = [p \in DOMAIN t |-> IF IsLeaf(t, p) THEN Leaf(f[t[p].pane]) ELSE t[p]],
           \A x \in Shown(t) : f[x] \in Shown(t),
           \A x, y \in Shown(t) : f[x] = f[y] => x = y,
           \A y \in Shown(t) : \E x \in Shown(t) : f[x] = y
    PROVE  Shape(u) /\ Shown(u) = Shown(t) /\ Count(u) = Count(t)
<1>1. \A p \in Leaves(t) : /\ p \in DOMAIN t /\ t[p].pane \in Shown(t) /\ IsLeaf(t, p)
                           /\ f[t[p].pane] \in Pane \ {None}
  BY LeafOfIs, TabTreeAssumption DEF Leaves
<1>2. \A p \in DOMAIN t : /\ IsLeaf(t, p) => u[p] = Leaf(f[t[p].pane]) /\ u[p].pane = f[t[p].pane]
                          /\ ~IsLeaf(t, p) => u[p] = t[p]
                          /\ IsLeaf(u, p) <=> IsLeaf(t, p)
  BY <1>1 DEF IsLeaf, Leaf, Leaves
<1>3. Leaves(u) = Leaves(t) /\ DOMAIN u = DOMAIN t
  BY <1>2 DEF Leaves
<1>4. \A x \in Pane : Leaf(x) \in Node /\ Leaf(x).pane = x
  BY DEF Leaf, Node, Nothing, Size
<1>5. Shape(u)
  <2>1. u \in [DOMAIN t -> Node]
    <3>1. ASSUME NEW p \in DOMAIN t
          PROVE  (IF IsLeaf(t, p) THEN Leaf(f[t[p].pane]) ELSE t[p]) \in Node
      BY <1>1, <1>4 DEF Shape, Leaves
    <3> QED BY <3>1
  <2>2. ASSUME NEW p \in DOMAIN u
        PROVE  IF IsLeaf(u, p) THEN u[p] = Leaf(u[p].pane) ELSE u[p].dir \in Axes
    BY <1>2, <1>3 DEF Shape
  <2>3. \A p \in DOMAIN u : ~IsLeaf(u, p) => {Append(p, 1), Append(p, 2)} \subseteq DOMAIN u
    BY <1>2, <1>3 DEF Shape
  <2>4. ASSUME NEW p \in DOMAIN u, NEW n \in 0..(Len(p) - 1)
        PROVE  SubSeq(p, 1, n) \in DOMAIN u /\ ~IsLeaf(u, SubSeq(p, 1, n))
    BY <1>2, <1>3 DEF Shape
  <2>5. ASSUME NEW p \in Leaves(u), NEW q \in Leaves(u), u[p].pane = u[q].pane PROVE p = q
    <3>1. f[t[p].pane] = f[t[q].pane]
      BY <1>1, <1>2, <1>3, <2>5
    <3>2. t[p].pane = t[q].pane
      BY <1>1, <1>3, <3>1
    <3> QED BY <1>3, <3>2 DEF Shape
  <2>6. /\ DOMAIN u \subseteq Position /\ (DOMAIN u # {} => <<>> \in DOMAIN u)
        /\ IsFiniteSet(DOMAIN u)
    BY <1>3 DEF Shape
  <2> QED BY <1>3, <2>1, <2>2, <2>3, <2>4, <2>5, <2>6 DEF Shape
<1>6. Shown(u) = Shown(t)
  <2>1. \A y \in Shown(u) : y \in Shown(t)
    <3>1. \A p \in Leaves(u) : u[p].pane = f[t[p].pane] /\ t[p].pane \in Shown(t)
      BY <1>1, <1>2, <1>3
    <3>2. \A p \in Leaves(u) : u[p].pane \in Shown(t)
      BY <3>1
    <3> QED BY <3>2 DEF Shown
  <2>2. ASSUME NEW y \in Shown(t) PROVE y \in Shown(u)
    <3>1. PICK x \in Shown(t) : f[x] = y
      OBVIOUS
    <3>2. PICK p \in Leaves(t) : t[p].pane = x
      BY DEF Shown
    <3>3. p \in Leaves(u) /\ u[p].pane = y
      BY <1>1, <1>2, <1>3, <3>1, <3>2
    <3> QED BY <3>3 DEF Shown
  <2> QED BY <2>1, <2>2
<1> QED BY <1>5, <1>6 DEF Count

\* Rotation is that.
LEMMA RotatedKeeps ==
    ASSUME NEW t, Shape(t), NEW by \in {1, -1}
    PROVE  Shape(Rotated(t, by)) /\ Shown(Rotated(t, by)) = Shown(t)
           /\ Count(Rotated(t, by)) = Count(t)
<1> DEFINE n == Count(t)
           place(x) == LET i == Index(t, x) - by
                       IN  IF i < 0 THEN n - 1 ELSE IF i = n THEN 0 ELSE i
           f == [x \in Shown(t) |-> PaneAt(t, place(x))]
           u == Rotated(t, by)
<1>1. /\ n \in Nat
      /\ \A x \in Shown(t) : Index(t, x) \in 0..(n - 1) /\ PaneAt(t, Index(t, x)) = x
      /\ \A i \in 0..(n - 1) : PaneAt(t, i) \in Shown(t) /\ Index(t, PaneAt(t, i)) = i
      /\ \A x, y \in Shown(t) : Index(t, x) = Index(t, y) => x = y
  BY IndexIs
<1>2. \A x \in Shown(t) : place(x) \in 0..(n - 1)
  BY <1>1
<1>3. \A x, y \in Shown(t) : place(x) = place(y) => Index(t, x) = Index(t, y)
  BY <1>1
<1>4. ASSUME NEW i \in 0..(n - 1) PROVE \E j \in 0..(n - 1) : \A x \in Shown(t) : Index(t, x) = j => place(x) = i
  <2>1. CASE by = 1
    <3> DEFINE j == IF i = n - 1 THEN 0 ELSE i + 1
    <3>1. j \in 0..(n - 1) /\ \A x \in Shown(t) : Index(t, x) = j => place(x) = i
      BY <1>1, <2>1
    <3> HIDE DEF place, j
    <3> QED BY <3>1
  <2>2. CASE by = -1
    <3> DEFINE j == IF i = 0 THEN n - 1 ELSE i - 1
    <3>1. j \in 0..(n - 1) /\ \A x \in Shown(t) : Index(t, x) = j => place(x) = i
      BY <1>1, <2>2
    <3> HIDE DEF place, j
    <3> QED BY <3>1
  <2> QED BY <2>1, <2>2
<1>5. u = [p \in DOMAIN t |-> IF IsLeaf(t, p) THEN Leaf(f[t[p].pane]) ELSE t[p]]
  <2>1. \A p \in DOMAIN t : IsLeaf(t, p) => t[p].pane \in Shown(t)
    BY DEF Shown, Leaves
  <2> QED BY <2>1 DEF Rotated
<1> HIDE DEF place, u
<1>6. \A x \in Shown(t) : f[x] = PaneAt(t, place(x))
  OBVIOUS
<1> HIDE DEF f, n
<1>7. \A x \in Shown(t) : f[x] \in Shown(t) /\ Index(t, f[x]) = place(x)
  BY <1>1, <1>2, <1>6
<1>8. \A x, y \in Shown(t) : f[x] = f[y] => x = y
  BY <1>1, <1>3, <1>7
<1>9. ASSUME NEW y \in Shown(t) PROVE \E x \in Shown(t) : f[x] = y
  <2>1. PICK j \in 0..(n - 1) : \A x \in Shown(t) : Index(t, x) = j => place(x) = Index(t, y)
    BY <1>1, <1>4
  <2>2. PaneAt(t, j) \in Shown(t) /\ Index(t, PaneAt(t, j)) = j
    BY <1>1, <2>1
  <2>3. Index(t, f[PaneAt(t, j)]) = Index(t, y) /\ f[PaneAt(t, j)] \in Shown(t)
    BY <1>7, <2>1, <2>2
  <2> QED BY <1>1, <2>2, <2>3
<1> QED BY <1>5, <1>7, <1>8, <1>9, LeavesFilled DEF u

\* So is the swap of two leaves.
LEMMA SwappedKeeps ==
    ASSUME NEW t, Shape(t), NEW x \in Shown(t), NEW y \in Shown(t)
    PROVE  LET u == Swapped(t, LeafOf(t, x), LeafOf(t, y))
           IN  Shape(u) /\ Shown(u) = Shown(t) /\ Count(u) = Count(t)
<1> DEFINE f == [z \in Shown(t) |-> IF z = x THEN y ELSE IF z = y THEN x ELSE z]
           p == LeafOf(t, x)
           q == LeafOf(t, y)
           u == Swapped(t, p, q)
<1>1. /\ p \in Leaves(t) /\ t[p].pane = x /\ q \in Leaves(t) /\ t[q].pane = y
      /\ \A r \in Leaves(t) : /\ t[r].pane \in Shown(t) /\ r \in DOMAIN t /\ IsLeaf(t, r)
                              /\ t[r] = Leaf(t[r].pane)
                              /\ t[r].pane = x => r = p
                              /\ t[r].pane = y => r = q
  <2>1. p \in Leaves(t) /\ t[p].pane = x /\ q \in Leaves(t) /\ t[q].pane = y
    BY LeafOfIs
  <2> HIDE DEF p, q
  <2>2. ASSUME NEW r \in Leaves(t)
        PROVE  /\ t[r].pane \in Shown(t) /\ r \in DOMAIN t /\ IsLeaf(t, r)
               /\ t[r] = Leaf(t[r].pane)
               /\ t[r].pane = x => r = p
               /\ t[r].pane = y => r = q
    <3>1. t[r].pane \in Shown(t) /\ r \in DOMAIN t /\ IsLeaf(t, r) /\ t[r] = Leaf(t[r].pane)
      BY DEF Shown, Leaves, Shape
    <3>2. (t[r].pane = x => r = p) /\ (t[r].pane = y => r = q)
      BY <2>1 DEF Shape
    <3> QED BY <3>1, <3>2
  <2> QED BY <2>1, <2>2
<1>2. \A z \in Shown(t) : f[z] = IF z = x THEN y ELSE IF z = y THEN x ELSE z
  OBVIOUS
<1> HIDE DEF p, q
<1>3. u = [r \in DOMAIN t |-> IF IsLeaf(t, r) THEN Leaf(f[t[r].pane]) ELSE t[r]]
  <2>1. u = [r \in DOMAIN t |-> IF r = q THEN t[p] ELSE IF r = p THEN t[q] ELSE t[r]]
    BY DEF Swapped, Shape
  <2>2. ASSUME NEW r \in DOMAIN t
        PROVE  (IF r = q THEN t[p] ELSE IF r = p THEN t[q] ELSE t[r])
                = IF IsLeaf(t, r) THEN Leaf(f[t[r].pane]) ELSE t[r]
    <3>1. CASE ~IsLeaf(t, r)
      <4>1. r # p /\ r # q
        BY <1>1, <3>1
      <4> QED BY <3>1, <4>1
    <3>2. CASE IsLeaf(t, r)
      <4>1. r \in Leaves(t) /\ t[r].pane \in Shown(t)
        BY <1>1, <3>2 DEF Leaves
      <4>2. t[p] = Leaf(x) /\ t[q] = Leaf(y) /\ t[r] = Leaf(t[r].pane)
        BY <1>1, <4>1
      <4>3. CASE r = q
        <5>1. t[r].pane = y /\ f[y] = x
          BY <1>1, <1>2, <4>3
        <5> QED BY <3>2, <4>2, <4>3, <5>1
      <4>4. CASE r # q /\ r = p
        <5>1. t[r].pane = x /\ f[x] = y
          BY <1>1, <1>2, <4>4
        <5> QED BY <3>2, <4>2, <4>4, <5>1
      <4>5. CASE r # q /\ r # p
        <5>1. f[t[r].pane] = t[r].pane
          BY <1>1, <1>2, <4>1, <4>5
        <5> QED BY <3>2, <4>2, <4>5, <5>1
      <4> QED BY <4>3, <4>4, <4>5
    <3> QED BY <3>1, <3>2
  <2> HIDE DEF u, f
  <2> QED BY <2>1, <2>2
<1> HIDE DEF u, f
<1>4. /\ \A z \in Shown(t) : f[z] \in Shown(t)
      /\ \A z, w \in Shown(t) : f[z] = f[w] => z = w
  BY <1>2
<1>5. ASSUME NEW w \in Shown(t) PROVE \E z \in Shown(t) : f[z] = w
  BY <1>2
<1>6. Shape(u) /\ Shown(u) = Shown(t) /\ Count(u) = Count(t)
  BY <1>3, <1>4, <1>5, LeavesFilled
<1> QED BY <1>6 DEF u, p, q

(* Removing.                                                               *)

\* A tree of nothing.
LEMMA EmptyTree == /\ Shape(<<>>) /\ DOMAIN <<>> = {} /\ Shown(<<>>) = {}
<1>1. DOMAIN <<>> = {} /\ <<>> \in [{} -> Node]
  OBVIOUS
<1>2. IsFiniteSet({})
  BY FS_EmptySet
<1>3. Leaves(<<>>) = {}
  BY <1>1 DEF Leaves
<1>4. Shown(<<>>) = {}
  BY <1>3 DEF Shown
<1> QED BY <1>1, <1>2, <1>3, <1>4 DEF Shape

\* A tab with another tree, whose panes were told other sizes.
Told(y, u, pty) == [y EXCEPT !.tree = u, !.pty = pty]

\* A tab given another tree and other sizes to tell is well typed.
LEMMA TabStateTold ==
    ASSUME NEW y, TabState(y), NEW u, Shape(u), y.zoomed \in {None} \cup Shown(u),
           NEW pty \in [Pane -> Size]
    PROVE  /\ TabState(Told(y, u, pty)) /\ Told(y, u, pty).tree = u
           /\ Told(y, u, pty).active = y.active /\ Told(y, u, pty).zoomed = y.zoomed
           /\ Told(y, u, pty).size = y.size /\ Told(y, u, pty).before = y.before
           /\ Told(y, u, pty).pty = pty
BY DEF TabState, Told

\* A tab given another tree only.
LEMMA ToldTree ==
    ASSUME NEW y, TabState(y), NEW u
    PROVE  [y EXCEPT !.tree = u] = Told(y, u, y.pty)
BY DEF TabState, Told

\* The place of the leaf and of what was beside it, in the tree that has closed up.
LEMMA ClosedUpTop ==
    ASSUME NEW t, Shape(t), NEW p \in Leaves(t), p # <<>>
    PROVE  /\ Up(p) \in DOMAIN ClosedUp(t, p) /\ Up(p) \in DOMAIN t
           /\ ClosedUp(t, p)[Up(p)] = t[Sibling(p)]
           /\ NodeSize(t[Up(p)]) \in Size
<1>1. ClosesTo(t, p, ClosedUp(t, p)) /\ Lift(p, Sibling(p)) = Up(p) /\ Sibling(p) \in BesideOf(t, p)
  BY ClosedUpIs, PartsOf
<1>2. Up(p) \in DOMAIN t
  BY AboveIs DEF Leaves
<1>3. NodeSize(t[Up(p)]) \in Size
  <2>1. \A a \in Axes : t[Up(p)].first[a] \in Nat /\ t[Up(p)].second[a] \in Nat
    BY <1>2, NodeIs
  <2> QED BY <2>1 DEF NodeSize, Size
<1> QED BY <1>1, <1>2, <1>3 DEF ClosesTo, LiftedOf

\* The tab of which a pane has gone.
Leaves1(y, x, z) ==
    /\ TabState(z) /\ z.active = y.active /\ z.size = y.size /\ z.before = y.before
    /\ Shown(z.tree) = Shown(y.tree) \ {x} /\ SameOrder(y.tree, z.tree)
    /\ z.zoomed = IF y.zoomed = x THEN None ELSE y.zoomed

\* Removing a leaf takes its pane, and no other, out of the tab.
LEMMA WithoutLeafIs ==
    ASSUME NEW y, TabState(y), NEW p \in Leaves(y.tree)
    PROVE  Leaves1(y, y.tree[p].pane, WithoutLeaf(y, p))
<1> DEFINE t == y.tree
           x == t[p].pane
           z == [y EXCEPT !.zoomed = IF @ = x THEN None ELSE @]
           size == NodeSize(t[Up(p)])
           shrunk == ClosedUp(t, p)
           told == [z.pty EXCEPT ![shrunk[Up(p)].pane] = size]
           fit == [shrunk EXCEPT ![Up(p)] = Fit(@, size)]
           moved == IF IsLeaf(shrunk, Up(p))
                    THEN Told(z, shrunk, told) ELSE Told(z, fit, z.pty)
<1>1. /\ Shape(t) /\ y.size \in Size /\ y.before \in Size /\ y.active \in Nat
      /\ y.zoomed \in {None} \cup Shown(t) /\ y.pty \in [Pane -> Size]
      /\ Shown(t) \subseteq Pane /\ None \notin Pane
      /\ y \in [tree : {y.tree}, size : Size, before : Size, active : Nat,
                zoomed : {None} \cup Shown(y.tree), pty : [Pane -> Size]]
  BY TabIs
<1>2. /\ TabState(z) /\ z.tree = t /\ z.active = y.active /\ z.size = y.size
      /\ z.before = y.before /\ z.pty = y.pty
      /\ z.zoomed = IF y.zoomed = x THEN None ELSE y.zoomed
      /\ z.zoomed \in {None} \cup (Shown(t) \ {x})
  BY <1>1 DEF TabState
<1>3. WithoutLeaf(y, p) = IF p = <<>> THEN Told(z, <<>>, z.pty) ELSE Cascade(moved, Up(p))
  <2>1. CASE p = <<>>
    <3>1. WithoutLeaf(y, p) = [z EXCEPT !.tree = <<>>]
      BY <2>1 DEF WithoutLeaf
    <3> HIDE DEF z
    <3> QED BY <1>2, <2>1, <3>1, ToldTree
  <2>2. CASE p # <<>> /\ IsLeaf(shrunk, Up(p))
    <3>1. WithoutLeaf(y, p)
            = Cascade([z EXCEPT !.tree = shrunk, !.pty[shrunk[Up(p)].pane] = size], Up(p))
      BY <2>2 DEF WithoutLeaf
    <3>2. [z EXCEPT !.tree = shrunk, !.pty[shrunk[Up(p)].pane] = size] = Told(z, shrunk, told)
      <4> HIDE DEF z, shrunk, size
      <4> QED BY <1>2 DEF TabState, Told
    <3> HIDE DEF z, shrunk, size, told
    <3> QED BY <2>2, <3>1, <3>2
  <2>3. CASE p # <<>> /\ ~IsLeaf(shrunk, Up(p))
    <3>1. WithoutLeaf(y, p) = Cascade([z EXCEPT !.tree = fit], Up(p))
      BY <2>3 DEF WithoutLeaf
    <3>2. [z EXCEPT !.tree = fit] = Told(z, fit, z.pty)
      <4> HIDE DEF z, fit
      <4> QED BY <1>2, ToldTree
    <3> HIDE DEF z, shrunk, size, told, fit
    <3> QED BY <2>3, <3>1, <3>2
  <2> QED BY <2>1, <2>2, <2>3
<1> HIDE DEF x, z
<1>4. CASE p = <<>>
  <2> DEFINE u == <<>>
             w == Told(z, u, z.pty)
  <2>1. WithoutLeaf(y, p) = w
    BY <1>3, <1>4
  <2>2. Shown(t) = {x}
    <3>1. \A q \in Leaves(t) : q = p
      <4>1. ASSUME NEW q \in Leaves(t) PROVE q = p
        <5>1. Under(p, q) /\ q \in DOMAIN t
          BY <1>4, RootIs DEF Under, Leaves, Shape, Position
        <5> QED BY <1>1, <5>1, LeavesApart
      <4> QED BY <4>1
    <3> QED BY <3>1 DEF Shown, x
  <2>3. Shape(u) /\ Shown(u) = {}
    BY EmptyTree
  <2> HIDE DEF u
  <2>4. z.zoomed \in {None} \cup Shown(u)
    BY <1>2, <2>2
  <2>5. TabState(w) /\ w.tree = u /\ w.active = z.active /\ w.zoomed = z.zoomed
        /\ w.size = z.size /\ w.before = z.before
    BY <1>1, <1>2, <2>3, <2>4, TabStateTold
  <2> HIDE DEF w
  <2>7. SameOrder(t, u)
    BY <2>3 DEF SameOrder
  <2>8. Leaves1(y, x, w)
    BY <1>2, <2>2, <2>3, <2>5, <2>7 DEF Leaves1
  <2> QED BY <2>1, <2>8 DEF x
<1>5. CASE p # <<>>
  <2>1. Shape(shrunk) /\ Shown(shrunk) = Shown(t) \ {x} /\ SameOrder(t, shrunk)
    BY <1>1, <1>5, ClosedUpShape, ClosedUpOrder DEF x
  <2>2. Up(p) \in DOMAIN shrunk /\ size \in Size /\ Up(p) \in Position
    BY <1>1, <1>5, ClosedUpTop DEF Shape
  <2> HIDE DEF shrunk, size
  <2>3. TabState(moved) /\ Alike(shrunk, moved.tree) /\ moved.active = y.active
        /\ moved.zoomed = z.zoomed /\ moved.size = y.size /\ moved.before = y.before
    <3>1. CASE IsLeaf(shrunk, Up(p))
      <4>1. told \in [Pane -> Size]
        BY <1>1, <1>2, <2>2
      <4> HIDE DEF told
      <4>2. moved = Told(z, shrunk, told)
        BY <3>1
      <4> HIDE DEF moved
      <4>3. TabState(moved) /\ moved.tree = shrunk /\ moved.active = z.active
            /\ moved.zoomed = z.zoomed /\ moved.size = z.size /\ moved.before = z.before
        BY <1>2, <2>1, <4>1, <4>2, TabStateTold
      <4>5. Alike(shrunk, shrunk)
        BY <2>1, AlikeSelf
      <4> QED BY <1>2, <4>3, <4>5
    <3>2. CASE ~IsLeaf(shrunk, Up(p))
      <4>1. /\ Fit(shrunk[Up(p)], size) \in Node
            /\ Fit(shrunk[Up(p)], size).pane = shrunk[Up(p)].pane
            /\ Fit(shrunk[Up(p)], size).dir = shrunk[Up(p)].dir
        BY <2>1, <2>2, <3>2, FitIs
      <4>2. fit \in [DOMAIN shrunk -> Node] /\ fit[Up(p)] = Fit(shrunk[Up(p)], size)
            /\ \A q \in DOMAIN shrunk : q # Up(p) => fit[q] = shrunk[q]
        BY <2>1, <2>2, <4>1 DEF Shape
      <4> HIDE DEF fit
      <4>3. Alike(shrunk, fit)
        BY <3>2, <4>1, <4>2 DEF Alike
      <4>4. Shape(fit) /\ Shown(fit) = Shown(shrunk)
        BY <2>1, <4>3, AlikeIs
      <4>5. moved = Told(z, fit, z.pty)
        BY <3>2
      <4> HIDE DEF moved
      <4>6. TabState(moved) /\ moved.tree = fit /\ moved.active = z.active
            /\ moved.zoomed = z.zoomed /\ moved.size = z.size /\ moved.before = z.before
        BY <1>1, <1>2, <2>1, <4>4, <4>5, TabStateTold
      <4> QED BY <1>2, <4>3, <4>6
    <3> QED BY <3>1, <3>2
  <2> DEFINE w == Cascade(moved, Up(p))
  <2>4. SizedAnew(moved, w)
    <3> HIDE DEF moved
    <3> QED BY <2>2, <2>3, CascadeIs
  <2>5. w.size = moved.size /\ w.before = moved.before
    <3> HIDE DEF moved
    <3> QED BY <2>3 DEF Cascade, TabState
  <2>6. WithoutLeaf(y, p) = w
    BY <1>3, <1>5
  <2> HIDE DEF moved, w
  <2>7. Alike(shrunk, w.tree)
    BY <2>3, <2>4, AlikeTransitive DEF SizedAnew
  <2>8. Shown(w.tree) = Shown(shrunk)
        /\ \A q \in Shown(shrunk) : LeafOf(w.tree, q) = LeafOf(shrunk, q)
    BY <2>1, <2>7, AlikeIs
  <2>9. SameOrder(t, w.tree)
    BY <2>1, <2>8 DEF SameOrder
  <2>10. Leaves1(y, x, w)
    BY <1>2, <2>1, <2>3, <2>4, <2>5, <2>8, <2>9 DEF Leaves1, SizedAnew
  <2> QED BY <2>6, <2>10 DEF x
<1> QED BY <1>4, <1>5

\* Of any leaves one is to the left of the others.
LEMMA Leftmost ==
    ASSUME NEW t, Shape(t), NEW S, S \subseteq Leaves(t), S # {}
    PROVE  \E p \in S : \A q \in S \ {p} : Before(p, q)
<1> DEFINE U == {Index(t, t[q].pane) : q \in S}
<1>1. \A q \in S : /\ t[q].pane \in Shown(t) /\ LeafOf(t, t[q].pane) = q
                   /\ Index(t, t[q].pane) \in Nat
  <2>1. ASSUME NEW q \in S
        PROVE  t[q].pane \in Shown(t) /\ LeafOf(t, t[q].pane) = q /\ Index(t, t[q].pane) \in Nat
    <3>1. t[q].pane \in Shown(t) /\ LeafOf(t, t[q].pane) = q
      BY LeafOfIs
    <3> QED BY <3>1, IndexIs
  <2> QED BY <2>1
<1>2. U \subseteq Nat /\ U # {}
  BY <1>1
<1>3. PICK i \in U : \A j \in U : i <= j
  <2> HIDE DEF U
  <2> QED BY <1>2, Least
<1>4. PICK p \in S : Index(t, t[p].pane) = i
  BY <1>3
<1>5. ASSUME NEW q \in S \ {p} PROVE Before(p, q)
  <2>1. Index(t, t[p].pane) <= Index(t, t[q].pane)
    BY <1>3, <1>4
  <2>2. Index(t, t[p].pane) # Index(t, t[q].pane)
    <3>1. t[p].pane # t[q].pane
      BY <1>1
    <3> QED BY <1>1, <3>1, IndexIs
  <2>3. Index(t, t[p].pane) < Index(t, t[q].pane)
    BY <1>1, <2>1, <2>2
  <2>4. Before(LeafOf(t, t[p].pane), LeafOf(t, t[q].pane))
    BY <1>1, <2>3, IndexIs
  <2> QED BY <1>1, <2>4
<1> QED BY <1>5

\* The states of the walk that removes panes, of the tabs in Q.
Walks(Q) == [tab : Q, at : Position \cup {Up(<<>>)}, index : Nat, removed : SUBSET Nat]

\* Q has, with a tab, what is left of it when one of its panes goes.
Closed(Q, gone) ==
    \A y \in Q :
        /\ TabState(y)
        /\ \A p \in Leaves(y.tree) : y.tree[p].pane \in gone => WithoutLeaf(y, p) \in Q

\* A step of the walk stays in any set of tabs that removals do not leave.
LEMMA RemoveNextKeeps ==
    ASSUME NEW Q, NEW gone, Closed(Q, gone), NEW w \in Walks(Q)
    PROVE  RemoveNext(w, gone) \in Walks(Q)
<1> DEFINE t == w.tab.tree
           ahead == {q \in Leaves(t) : w.removed = {} \/ After(w.at, q)}
           found == {q \in ahead : t[q].pane \in gone}
           p == CHOOSE p \in found : \A q \in found \ {p} : Before(p, q)
           seen == {t[q].pane : q \in {r \in ahead : Before(r, p)}}
           index == w.index + Cardinality(seen)
           z == [tab |-> WithoutLeaf(w.tab, p), at |-> Up(p),
                 index |-> index + 1, removed |-> w.removed \cup {index}]
<1>1. RemoveNext(w, gone) = IF found = {} THEN w ELSE z
  BY DEF RemoveNext
<1>2. w.tab \in Q /\ TabState(w.tab) /\ Shape(t) /\ w.index \in Nat /\ w.removed \in SUBSET Nat
  BY DEF Walks, Closed, TabState
<1>3. CASE found = {}
  BY <1>1, <1>3
<1>4. CASE found # {}
  <2>1. found \subseteq Leaves(t) /\ \A q \in found : t[q].pane \in gone
    OBVIOUS
  <2>2. p \in found
    <3> HIDE DEF found
    <3>1. \E q \in found : \A r \in found \ {q} : Before(q, r)
      BY <1>2, <1>4, <2>1, Leftmost
    <3> QED BY <3>1
  <2>3. seen \subseteq Shown(t)
    BY DEF Shown
  <2> HIDE DEF ahead, found, p, seen
  <2>4. Cardinality(seen) \in Nat
    <3>1. IsFiniteSet(Shown(t))
      BY <1>2, FiniteShown
    <3>2. IsFiniteSet(seen)
      BY <2>3, <3>1, FS_Subset
    <3> QED BY <3>2, FS_CardinalityType
  <2>5. p \in Leaves(t) /\ t[p].pane \in gone
    BY <2>1, <2>2
  <2>6. WithoutLeaf(w.tab, p) \in Q
    BY <1>2, <2>5 DEF Closed
  <2>7. Up(p) \in Position \cup {Up(<<>>)}
    <3>1. p \in Position
      BY <1>2, <2>5 DEF Leaves, Shape
    <3>2. p # <<>> => Up(p) \in Position
      BY <3>1, UpIs
    <3>3. p = <<>> => Up(p) = Up(<<>>)
      OBVIOUS
    <3> HIDE DEF p
    <3> QED BY <3>2, <3>3
  <2>8. index \in Nat /\ w.removed \cup {index} \in SUBSET Nat
    BY <1>2, <2>4
  <2> HIDE DEF index
  <2>9. z \in Walks(Q)
    BY <2>6, <2>7, <2>8 DEF Walks
  <2> QED BY <1>1, <1>4, <2>9
<1> QED BY <1>3, <1>4

\* The walk.
WalkFrom(y) == [tab |-> y, at |-> <<>>, index |-> 0, removed |-> {}]

\* So does the walk; for a single pane it is one step.
LEMMA RemoveWalkIs ==
    ASSUME NEW Q, NEW gone, Closed(Q, gone), NEW y \in Q, gone \subseteq Shown(y.tree)
    PROVE  /\ RemoveWalk(y, gone) \in Walks(Q)
           /\ \A x : gone = {x} => RemoveWalk(y, gone) = RemoveNext(WalkFrom(y), gone)
<1> DEFINE V == Walks(Q)
           v == WalkFrom(y)
           G == [s \in Nat \X V |-> RemoveNext(s[2], gone)]
           walk == CHOOSE f : f = [n \in Nat |->
                      IF n = 0 THEN [tab |-> y, at |-> <<>>, index |-> 0, removed |-> {}]
                      ELSE RemoveNext(f[n - 1], gone)]
<1>1. v \in V
  BY RootIs DEF WalkFrom, Walks
<1>2. G \in [Nat \X V -> V]
  BY RemoveNextKeeps
<1>3. PICK f : Endless(V, v, G, f)
  <2> HIDE DEF V, v, G
  <2> QED BY <1>1, <1>2, Iterates
<1>4. ASSUME NEW n \in Nat PROVE f[n] = IF n = 0 THEN v ELSE RemoveNext(f[n - 1], gone)
  <2>1. CASE n = 0
    BY <1>3, <2>1 DEF Endless
  <2>2. CASE n # 0
    <3>1. n - 1 \in Nat
      BY <2>2
    <3>2. f[n - 1] \in V
      <4> HIDE DEF V
      <4> QED BY <1>3, <3>1 DEF Endless
    <3>3. f[n] = G[<<n, f[n - 1]>>]
      <4> HIDE DEF G, V
      <4> QED BY <1>3, <2>2 DEF Endless
    <3>4. f[n] = RemoveNext(f[n - 1], gone)
      <4> HIDE DEF V
      <4> QED BY <3>2, <3>3
    <3> QED BY <2>2, <3>4
  <2> QED BY <2>1, <2>2
<1>5. f = [n \in Nat |-> IF n = 0 THEN v ELSE RemoveNext(f[n - 1], gone)]
  <2>1. f = [n \in Nat |-> f[n]]
    BY <1>3 DEF Endless
  <2> HIDE DEF V, v, G
  <2> QED BY <1>4, <2>1
<1>6. walk = [n \in Nat |-> IF n = 0 THEN v ELSE RemoveNext(walk[n - 1], gone)]
  BY <1>5 DEF WalkFrom
<1>7. RemoveWalk(y, gone) = walk[Cardinality(gone)]
  BY DEF RemoveWalk
<1> HIDE DEF walk, v
<1> DEFINE T == {n \in Nat : walk[n] \in V}
<1>8. walk[0] = v /\ \A n \in Nat : walk[n + 1] = RemoveNext(walk[n], gone)
  <2>1. ASSUME NEW n \in Nat PROVE walk[n + 1] = RemoveNext(walk[n], gone)
    <3>1. n + 1 \in Nat /\ n + 1 # 0 /\ (n + 1) - 1 = n
      OBVIOUS
    <3> QED BY <1>6, <3>1
  <2> QED BY <1>6, <2>1
<1>9. 0 \in T /\ \A n \in T : n + 1 \in T
  <2>1. 0 \in T
    <3> HIDE DEF V
    <3> QED BY <1>1, <1>8
  <2>2. ASSUME NEW n \in T PROVE n + 1 \in T
    <3>1. RemoveNext(walk[n], gone) \in V
      BY RemoveNextKeeps
    <3> QED BY <1>8, <3>1
  <2> QED BY <2>1, <2>2
<1>10. T = Nat
  <2>1. T \subseteq Nat
    OBVIOUS
  <2> HIDE DEF T
  <2> QED BY <1>9, <2>1, SetInduction
<1>11. Cardinality(gone) \in Nat
  <2>1. Shape(y.tree)
    BY DEF Closed, TabState
  <2>2. IsFiniteSet(gone)
    BY <2>1, FiniteShown, FS_Subset
  <2> QED BY <2>2, FS_CardinalityType
<1>12. RemoveWalk(y, gone) \in V
  BY <1>7, <1>10, <1>11
<1>13. ASSUME NEW x, gone = {x} PROVE RemoveWalk(y, gone) = RemoveNext(v, gone)
  <2>1. Cardinality(gone) = 1
    BY <1>13, FS_Singleton
  <2>2. 0 \in Nat /\ 0 + 1 = 1
    OBVIOUS
  <2> QED BY <1>7, <1>8, <2>1, <2>2
<1> QED BY <1>12, <1>13 DEF v

\* A set with every tab.
AnyTree == UNION {[D -> Node] : D \in SUBSET Position}
\* All records of the form of a tab.
AnyTab == [tree : AnyTree, size : Size, before : Size, active : Nat,
           zoomed : Pane \cup {None}, pty : [Pane -> Size]]

\* A tab is one of them.
LEMMA TabInSet == ASSUME NEW y, TabState(y) PROVE y \in AnyTab
<1>1. /\ Shape(y.tree) /\ Shown(y.tree) \subseteq Pane
      /\ y \in [tree : {y.tree}, size : Size, before : Size, active : Nat,
                zoomed : {None} \cup Shown(y.tree), pty : [Pane -> Size]]
  BY TabIs
<1>2. y.tree \in AnyTree
  BY <1>1 DEF Shape, AnyTree
<1> QED BY <1>1, <1>2 DEF AnyTab

\* The active index after removals.
LEMMA FocusAfterIs ==
    ASSUME NEW a \in Nat, NEW removed \in SUBSET Nat
    PROVE  /\ FocusAfter(a, removed) \in Nat
           /\ \A i \in Nat : removed = {i} =>
                 FocusAfter(a, removed) = IF i <= a THEN Biggest(0, a - 1) ELSE a
<1> DEFINE S == {i \in removed : i <= a}
<1>1. Cardinality(S) \in Nat
  <2>1. S \in SUBSET (0..a)
    <3>1. ASSUME NEW i \in S PROVE i \in 0..a
      <4>1. i \in removed /\ i <= a
        OBVIOUS
      <4>2. i \in Nat
        BY <4>1
      <4> QED BY <4>1, <4>2
    <3> HIDE DEF S
    <3> QED BY <3>1
  <2>2. 0 \in Int /\ a \in Int
    OBVIOUS
  <2>3. IsFiniteSet(0..a)
    BY <2>2, FS_Interval
  <2> HIDE DEF S
  <2>4. IsFiniteSet(S)
    BY <2>1, <2>3, FS_Subset
  <2> QED BY <2>4, FS_CardinalityType
<1>2. FocusAfter(a, removed) = Biggest(0, a - Cardinality(S))
  BY DEF FocusAfter
<1>3. ASSUME NEW i \in Nat, removed = {i}
      PROVE  Cardinality(S) = IF i <= a THEN 1 ELSE 0
  <2>1. CASE i <= a
    <3>1. S = {i}
      BY <1>3, <2>1
    <3> HIDE DEF S
    <3> QED BY <2>1, <3>1, FS_Singleton
  <2>2. CASE ~(i <= a)
    <3>1. S = {}
      BY <1>3, <2>2
    <3> HIDE DEF S
    <3> QED BY <2>2, <3>1, FS_EmptySet
  <2> QED BY <2>1, <2>2
<1> HIDE DEF S
<1>4. FocusAfter(a, removed) \in Nat
  BY <1>1, <1>2 DEF Biggest
<1>5. ASSUME NEW i \in Nat, removed = {i}
      PROVE  FocusAfter(a, removed) = IF i <= a THEN Biggest(0, a - 1) ELSE a
  BY <1>2, <1>3, <1>5 DEF Biggest
<1> QED BY <1>4, <1>5

\* The last assignments of a removal.
Settled(w, a) ==
    [w.tab EXCEPT !.active = FocusAfter(a, w.removed),
                  !.before = IF w.tab.zoomed = None THEN Nothing ELSE @,
                  !.pty = [x \in Pane |-> IF x \in Shown(w.tab.tree) THEN @[x] ELSE Nothing]]

\* What is left to do after the walk touches the focus and the bookkeeping only.
LEMMA SettledIs ==
    ASSUME NEW w, TabState(w.tab), w.removed \in SUBSET Nat, NEW a \in Nat
    PROVE  /\ TabState(Settled(w, a)) /\ Settled(w, a).tree = w.tab.tree
           /\ Settled(w, a).zoomed = w.tab.zoomed /\ Settled(w, a).size = w.tab.size
           /\ Settled(w, a).active = FocusAfter(a, w.removed)
           /\ Settled(w, a).before = IF w.tab.zoomed = None THEN Nothing ELSE w.tab.before
           /\ \A x \in Shown(w.tab.tree) : Settled(w, a).pty[x] = w.tab.pty[x]
<1> DEFINE y == w.tab
           f == FocusAfter(a, w.removed)
           pty == [x \in Pane |-> IF x \in Shown(y.tree) THEN y.pty[x] ELSE Nothing]
           before == IF y.zoomed = None THEN Nothing ELSE y.before
           z == Settled(w, a)
<1>1. /\ Shape(y.tree) /\ y.pty \in [Pane -> Size] /\ y.before \in Size /\ Shown(y.tree) \subseteq Pane
      /\ y \in [tree : {y.tree}, size : Size, before : Size, active : Nat,
                zoomed : {None} \cup Shown(y.tree), pty : [Pane -> Size]]
  BY TabIs
<1>2. f \in Nat
  BY FocusAfterIs
<1>3. Nothing \in Size
  BY DEF Nothing, Size
<1>4. pty \in [Pane -> Size] /\ before \in Size
  BY <1>1, <1>3
<1>5. \A x \in Shown(y.tree) : pty[x] = y.pty[x]
  BY <1>1
<1>6. z = [y EXCEPT !.active = f, !.before = before, !.pty = pty]
  BY <1>1 DEF Settled
<1> HIDE DEF f, pty, before, z
<1>7. /\ z.tree = y.tree /\ z.zoomed = y.zoomed /\ z.size = y.size /\ z.active = f
      /\ z.before = before /\ z.pty = pty
      /\ z \in [tree : {y.tree}, size : Size, before : Size, active : Nat,
                zoomed : {None} \cup Shown(y.tree), pty : [Pane -> Size]]
  <2> HIDE DEF y
  <2> QED BY <1>1, <1>2, <1>4, <1>6
<1>8. TabState(z)
  BY <1>1, <1>7 DEF TabState
<1> QED BY <1>5, <1>7, <1>8 DEF z, f, before

\* Removal of panes.
LEMMA RemoveKeeps ==
    ASSUME NEW y, TabState(y), NEW gone, gone \subseteq Shown(y.tree)
    PROVE  TabState(RemovePaneIf(y, gone))
<1> DEFINE Q == {z \in AnyTab : TabState(z)}
           w == RemoveWalk(y, gone)
<1>1. Closed(Q, gone)
  <2>1. ASSUME NEW z \in Q, NEW p \in Leaves(z.tree) PROVE WithoutLeaf(z, p) \in Q
    <3>1. TabState(WithoutLeaf(z, p))
      BY WithoutLeafIs DEF Leaves1
    <3> QED BY <3>1, TabInSet
  <2> QED BY <2>1 DEF Closed
<1>2. y \in Q
  BY TabInSet
<1>3. w \in Walks(Q)
  <2> HIDE DEF Q, w
  <2>1. RemoveWalk(y, gone) \in Walks(Q)
    BY <1>1, <1>2, RemoveWalkIs
  <2> QED BY <2>1 DEF w
<1>4. TabState(w.tab) /\ w.removed \in SUBSET Nat
  BY <1>3 DEF Walks
<1>5. RemovePaneIf(y, gone) = Settled(w, y.active)
  BY DEF RemovePaneIf, Settled
<1> HIDE DEF w
<1> QED BY <1>4, <1>5, TabIs, SettledIs

\* Removal of one pane.
Removed1(y, x, z) ==
    /\ TabState(z) /\ Shown(z.tree) = Shown(y.tree) \ {x} /\ SameOrder(y.tree, z.tree)
    /\ z.zoomed = IF y.zoomed = x THEN None ELSE y.zoomed
    /\ z.active = IF Index(y.tree, x) <= y.active THEN Biggest(0, y.active - 1) ELSE y.active

\* The removal of one pane, in full.
LEMMA RemoveOneIs ==
    ASSUME NEW y, TabState(y), NEW x \in Shown(y.tree)
    PROVE  /\ Removed1(y, x, RemovePaneIf(y, {x}))
           /\ RemovePaneIf(y, {x}) = Settled([tab |-> WithoutLeaf(y, LeafOf(y.tree, x)),
                                              at |-> Up(LeafOf(y.tree, x)),
                                              index |-> Index(y.tree, x) + 1,
                                              removed |-> {Index(y.tree, x)}], y.active)
<1> DEFINE t == y.tree
           gone == {x}
           p == LeafOf(t, x)
           w == RemoveWalk(y, gone)
           v == WalkFrom(y)
           i == Index(t, x)
           r == [tab |-> WithoutLeaf(y, p), at |-> Up(p), index |-> i + 1, removed |-> {i}]
<1>1. Shape(t) /\ gone \subseteq Shown(t) /\ y.active \in Nat
  BY TabIs
<1>2. p \in Leaves(t) /\ t[p].pane = x /\ i \in Nat
  BY <1>1, LeafOfIs, IndexIs
<1>3. w = RemoveNext(v, gone)
  <2> DEFINE Q == {z \in AnyTab : TabState(z)}
  <2>1. Closed(Q, gone)
    <3>1. ASSUME NEW z \in Q, NEW q \in Leaves(z.tree) PROVE WithoutLeaf(z, q) \in Q
      <4>1. TabState(WithoutLeaf(z, q))
        BY WithoutLeafIs DEF Leaves1
      <4> QED BY <4>1, TabInSet
    <3> QED BY <3>1 DEF Closed
  <2>2. y \in Q
    BY TabInSet
  <2> HIDE DEF Q
  <2>3. RemoveWalk(y, gone) = RemoveNext(WalkFrom(y), gone)
    BY <1>1, <2>1, <2>2, RemoveWalkIs
  <2> QED BY <2>3
<1>4. RemoveNext(v, gone) = r
  <2> DEFINE ahead == {q \in Leaves(t) : v.removed = {} \/ After(v.at, q)}
             found == {q \in ahead : t[q].pane \in gone}
             first == CHOOSE o \in found : \A q \in found \ {o} : Before(o, q)
             seen == {t[q].pane : q \in {o \in ahead : Before(o, first)}}
  <2>1. ahead = Leaves(t)
    BY DEF WalkFrom
  <2>2. found = {p}
    <3>1. \A q \in Leaves(t) : t[q].pane = x => q = p
      BY <1>1, <1>2 DEF Shape
    <3> QED BY <1>2, <2>1, <3>1
  <2>3. first = p
    <3> HIDE DEF found
    <3> QED BY <2>2
  <2>4. seen = {o \in Shown(t) : Before(LeafOf(t, o), p)}
    <3>1. \A q \in Leaves(t) : t[q].pane \in Shown(t) /\ LeafOf(t, t[q].pane) = q
      BY <1>1, LeafOfIs
    <3>2. \A o \in Shown(t) : LeafOf(t, o) \in Leaves(t) /\ t[LeafOf(t, o)].pane = o
      BY <1>1, LeafOfIs
    <3> DEFINE left == {o \in Leaves(t) : Before(o, p)}
    <3>6. {o \in ahead : Before(o, first)} = left
      <4> HIDE DEF ahead, first, p
      <4> QED BY <2>1, <2>3
    <3>3. seen = {t[q].pane : q \in left}
      <4> HIDE DEF ahead, first, p, left
      <4> QED BY <3>6
    <3> HIDE DEF seen, p, t
    <3>4. \A z : z \in seen <=> z \in {o \in Shown(t) : Before(LeafOf(t, o), p)}
      BY <3>1, <3>2, <3>3
    <3> QED BY <3>4
  <2>5. Cardinality(seen) = i
    <3>1. i = Cardinality({o \in Shown(t) : Before(LeafOf(t, o), p)})
      BY DEF Index
    <3> HIDE DEF seen, i
    <3> QED BY <2>4, <3>1
  <2>6. v.tab = y /\ v.index = 0 /\ v.removed = {}
    BY DEF WalkFrom
  <2>7. RemoveNext(v, gone)
          = IF found = {} THEN v
            ELSE [tab |-> WithoutLeaf(v.tab, first), at |-> Up(first),
                  index |-> (v.index + Cardinality(seen)) + 1,
                  removed |-> v.removed \cup {v.index + Cardinality(seen)}]
    BY <2>6 DEF RemoveNext
  <2> HIDE DEF found, first, seen, i, p, ahead, v
  <2>8. v.index + Cardinality(seen) = i /\ v.removed \cup {i} = {i} /\ found # {}
    BY <1>2, <2>2, <2>5, <2>6
  <2> QED BY <2>3, <2>6, <2>7, <2>8
<1>5. RemovePaneIf(y, gone) = Settled(w, y.active)
  BY DEF RemovePaneIf, Settled
<1>6. Leaves1(y, x, WithoutLeaf(y, p))
  BY <1>2, WithoutLeafIs
<1>7. r.tab = WithoutLeaf(y, p) /\ r.removed = {i} /\ r.removed \in SUBSET Nat
  BY <1>2
<1> HIDE DEF r, w, v
<1> DEFINE z == Settled(r, y.active)
<1>8. /\ TabState(z) /\ z.tree = r.tab.tree /\ z.zoomed = r.tab.zoomed
      /\ z.active = FocusAfter(y.active, r.removed)
  BY <1>1, <1>6, <1>7, SettledIs DEF Leaves1
<1>9. RemovePaneIf(y, gone) = z
  BY <1>3, <1>4, <1>5
<1> HIDE DEF z
<1>10. FocusAfter(y.active, r.removed) = IF i <= y.active THEN Biggest(0, y.active - 1) ELSE y.active
  BY <1>1, <1>2, <1>7, FocusAfterIs
<1>11. Removed1(y, x, z)
  BY <1>6, <1>7, <1>8, <1>10 DEF Leaves1, Removed1
<1> QED BY <1>9, <1>11 DEF z, r

\* The split that a request makes of a room.
LEMMA DividedIs ==
    ASSUME NEW room \in Size, NEW r \in Requests
    PROVE  /\ Divided(room, r) \in Node /\ Divided(room, r).pane = None
           /\ Divided(room, r).dir = r.dir /\ r.dir \in Axes
           /\ Divided(room, r).first \in Size /\ Divided(room, r).second \in Size
<1> DEFINE d == Divide(room[r.dir], r.portion, r.second)
           part(i) == [a \in Axes |-> IF a = r.dir THEN d[i] ELSE room[a]]
<1>1. r.dir \in Axes /\ r.second \in BOOLEAN /\ r.portion \in {"half", "cell"}
  BY TabTreeAssumption
<1>2. \A a \in Axes : room[a] \in Nat
  BY DEF Size
<1>3. d[1] \in Nat /\ d[2] \in Nat
  BY <1>1, <1>2 DEF Divide, Biggest
<1> HIDE DEF d
<1>4. part(1) \in Size /\ part(2) \in Size
  BY <1>2, <1>3 DEF Size
<1>5. Divided(room, r) = Split(r.dir, part(1), part(2))
  BY DEF Divided, d
<1> HIDE DEF part
<1> QED BY <1>1, <1>4, <1>5, SplitIs

\* What comes of a leaf that is split for a new pane: the new tree, and what else changes.
SplitTo(y, x, r, new, z) ==
    /\ TabState(z) /\ z.zoomed = y.zoomed /\ z.size = y.size /\ z.before = y.before
    /\ z.active = IF r.second THEN Index(y.tree, x) + 1 ELSE y.active
    /\ Splits(y.tree, LeafOf(y.tree, x), Divided(Room(y.tree, LeafOf(y.tree, x), y.size), r),
              IF r.second THEN 2 ELSE 1, new, z.tree)
    /\ z.pty = [o \in Pane |->
                  IF o = new
                  THEN IF r.second THEN Divided(Room(y.tree, LeafOf(y.tree, x), y.size), r).second
                                   ELSE Divided(Room(y.tree, LeafOf(y.tree, x), y.size), r).first
                  ELSE IF o = x
                  THEN IF r.second THEN Divided(Room(y.tree, LeafOf(y.tree, x), y.size), r).first
                                   ELSE Divided(Room(y.tree, LeafOf(y.tree, x), y.size), r).second
                  ELSE y.pty[o]]

\* Splitting a leaf puts the new pane beside it.
LEMMA SplitLeafIs ==
    ASSUME NEW y, TabState(y), NEW x \in Shown(y.tree), NEW r \in Requests,
           NEW new \in Pane \ Shown(y.tree)
    PROVE  SplitTo(y, x, r, new, SplitLeaf(y, x, r, new))
<1> DEFINE t == y.tree
           p == LeafOf(t, x)
           room == Room(t, p, y.size)
           info == Divided(room, r)
           u == IF r.second THEN WithSplit(t, p, info, t[p], Leaf(new))
                            ELSE WithSplit(t, p, info, Leaf(new), t[p])
           pty == [o \in Pane |->
                      IF o = new THEN IF r.second THEN info.second ELSE info.first
                      ELSE IF o = x THEN IF r.second THEN info.first ELSE info.second
                      ELSE y.pty[o]]
           active == IF r.second THEN Index(t, x) + 1 ELSE y.active
           i == IF r.second THEN 2 ELSE 1
           z == SplitLeaf(y, x, r, new)
<1>1. Shape(t) /\ y.size \in Size /\ y.pty \in [Pane -> Size] /\ y.active \in Nat
      /\ y.zoomed \in {None} \cup Shown(t)
      /\ y \in [tree : {t}, size : Size, before : Size, active : Nat,
                zoomed : {None} \cup Shown(t), pty : [Pane -> Size]]
  BY TabIs
<1>2. p \in Leaves(t) /\ p \in DOMAIN t /\ Index(t, x) \in Nat
  BY <1>1, LeafOfIs, IndexIs
<1>3. room \in Size
  BY <1>1, <1>2, RoomIs
<1>4. /\ info \in Node /\ info.pane = None /\ info.dir \in Axes
      /\ info.first \in Size /\ info.second \in Size
  <2> HIDE DEF room
  <2> QED BY <1>3, DividedIs
<1>5. z = [y EXCEPT !.tree = u, !.pty = pty, !.active = active]
  BY <1>1 DEF SplitLeaf
<1>6. pty \in [Pane -> Size] /\ active \in Nat /\ i \in {1, 2}
  <2> HIDE DEF info
  <2> QED BY <1>1, <1>2, <1>4
<1>7. Splits(t, p, info, i, new, u)
  <2> HIDE DEF info, p, t
  <2> QED BY <1>1, <1>2, WithSplitIs
<1>8. Shape(u) /\ Shown(u) = Shown(t) \cup {new}
  <2> HIDE DEF info, p, u, i, t
  <2> QED BY <1>1, <1>2, <1>4, <1>6, <1>7, SplitsKeeps
<1> HIDE DEF u, pty, active, z
<1>9. /\ z.tree = u /\ z.pty = pty /\ z.active = active
      /\ z.zoomed = y.zoomed /\ z.size = y.size /\ z.before = y.before
      /\ z \in [tree : {u}, size : Size, before : Size, active : Nat,
                zoomed : {None} \cup Shown(t), pty : [Pane -> Size]]
  <2> HIDE DEF t
  <2> QED BY <1>1, <1>5, <1>6
<1>10. z \in [tree : {u}, size : Size, before : Size, active : Nat,
              zoomed : {None} \cup Shown(u), pty : [Pane -> Size]]
  <2> HIDE DEF t
  <2> QED BY <1>8, <1>9
<1>11. TabState(z)
  BY <1>8, <1>9, <1>10 DEF TabState
<1> QED BY <1>7, <1>9, <1>11 DEF SplitTo, z, active, pty

\* What comes of a split: the tab as it was, or with one pane more.
Inserts(y, new, s) ==
    /\ TabState(s.tab) /\ s.hung \in BOOLEAN /\ s.astray \subseteq {"sizes"}
    /\ s \in [tab : {s.tab}, hung : BOOLEAN, astray : SUBSET {"sizes"}]
    /\ s.tab.zoomed = y.zoomed
    /\ s # Just(y) =>
          /\ y.zoomed = None /\ Shown(s.tab.tree) = Shown(y.tree) \cup {new}
          /\ y.active < Count(y.tree) => s.tab.active < Count(s.tab.tree)

\* Splitting a leaf leaves the focus on a pane.
LEMMA SplitLeafInserts ==
    ASSUME NEW y, TabState(y), y.zoomed = None, NEW x \in Shown(y.tree), NEW r \in Requests,
           NEW new \in Pane \ Shown(y.tree)
    PROVE  Inserts(y, new, Just(SplitLeaf(y, x, r, new)))
<1> DEFINE t == y.tree
           z == SplitLeaf(y, x, r, new)
           p == LeafOf(t, x)
           info == Divided(Room(t, p, y.size), r)
           i == IF r.second THEN 2 ELSE 1
<1>1. SplitTo(y, x, r, new, z)
  BY SplitLeafIs
<1>2. /\ TabState(z) /\ z.zoomed = None /\ Splits(t, p, info, i, new, z.tree)
      /\ z.active = IF r.second THEN Index(t, x) + 1 ELSE y.active
  BY <1>1 DEF SplitTo
<1>3. Shape(t) /\ y.size \in Size /\ y.active \in Nat
  BY TabIs
<1>4. p \in Leaves(t) /\ p \in DOMAIN t /\ Index(t, x) \in 0..(Count(t) - 1) /\ Count(t) \in Nat
  BY <1>3, LeafOfIs, IndexIs
<1>5. info \in Node /\ info.pane = None /\ info.dir \in Axes
  <2> DEFINE room == Room(t, p, y.size)
  <2>1. room \in Size
    BY <1>3, <1>4, RoomIs
  <2> HIDE DEF room
  <2>2. /\ Divided(room, r) \in Node /\ Divided(room, r).pane = None
        /\ Divided(room, r).dir \in Axes
    BY <2>1, DividedIs
  <2> QED BY <2>2 DEF room
<1>6. i \in {1, 2}
  OBVIOUS
<1> HIDE DEF z, i, info, p, t
<1>7. Shown(z.tree) = Shown(t) \cup {new} /\ Count(z.tree) = Count(t) + 1
  BY <1>2, <1>3, <1>4, <1>5, <1>6, SplitsKeeps DEF t
<1>8. y.active < Count(t) => z.active < Count(z.tree)
  BY <1>2, <1>3, <1>4, <1>7
<1>9. /\ Just(z).tab = z /\ Just(z).hung = FALSE /\ Just(z).astray = {}
      /\ Just(z) \in [tab : {Just(z).tab}, hung : BOOLEAN, astray : SUBSET {"sizes"}]
  BY DEF Just
<1> QED BY <1>2, <1>7, <1>8, <1>9 DEF Inserts, t, z

\* So does splitting the whole tab.
LEMMA SplitWholeInserts ==
    ASSUME NEW y, TabState(y), y.zoomed = None, DOMAIN y.tree # {}, NEW r \in Requests,
           NEW new \in Pane \ Shown(y.tree)
    PROVE  Inserts(y, new, SplitWhole(y, r, new))
<1> DEFINE info == Divided(y.size, r)
           room == IF r.second THEN info.first ELSE info.second
           fit == Resize(y, room)
           s == IF r.second THEN 1 ELSE 2
           u == WithRoot(fit.tab.tree, info, s, Leaf(new))
           active == IF r.second THEN Count(u) - 1 ELSE 0
           z == [fit.tab EXCEPT !.tree = u, !.active = active]
           out == [tab |-> z, hung |-> fit.hung, astray |-> {"sizes"}]
<1>1. /\ info \in Node /\ info.pane = None /\ info.dir \in Axes
      /\ info.first \in Size /\ info.second \in Size
  <2> DEFINE whole == y.size
  <2>1. whole \in Size
    BY TabIs
  <2> HIDE DEF whole
  <2>2. /\ Divided(whole, r) \in Node /\ Divided(whole, r).pane = None
        /\ Divided(whole, r).dir \in Axes
        /\ Divided(whole, r).first \in Size /\ Divided(whole, r).second \in Size
    BY <2>1, DividedIs
  <2> QED BY <2>2 DEF whole
<1>2. room \in Size /\ s \in {1, 2}
  <2> HIDE DEF info
  <2> QED BY <1>1
<1>3. Resizes(y, fit)
  <2> HIDE DEF room
  <2> QED BY <1>2, ResizeKeeps
<1> HIDE DEF fit, room
<1>4. /\ Alike(y.tree, fit.tab.tree) /\ TabState(fit.tab) /\ fit.hung \in BOOLEAN
      /\ fit.tab.active = y.active /\ fit.tab.zoomed = None
  BY <1>3 DEF Resizes, SizedAnew
<1>5. Shape(y.tree)
  BY TabIs
<1>6. /\ Shape(fit.tab.tree) /\ Shown(fit.tab.tree) = Shown(y.tree)
      /\ DOMAIN fit.tab.tree = DOMAIN y.tree
  BY <1>4, <1>5, AlikeIs DEF Alike
<1> HIDE DEF info, s
<1>7. Shape(u) /\ Shown(u) = Shown(y.tree) \cup {new}
  BY <1>1, <1>2, <1>6, WithRootKeeps
<1>8. Count(u) \in Nat /\ Count(u) > 0
  <2> HIDE DEF u
  <2>1. new \in Shown(u)
    BY <1>7
  <2>2. Count(u) \in Nat /\ Index(u, new) \in 0..(Count(u) - 1)
    BY <1>7, <2>1, IndexIs
  <2> QED BY <2>2
<1>9. SplitWhole(y, r, new) = out
  BY DEF SplitWhole, fit, room, info, s
<1> HIDE DEF u
<1>10. active \in Nat /\ active < Count(u)
  BY <1>8
<1>11. fit.tab \in [tree : {fit.tab.tree}, size : Size, before : Size, active : Nat,
                    zoomed : {None} \cup Shown(fit.tab.tree), pty : [Pane -> Size]]
  BY <1>4, TabIs
<1> HIDE DEF active
<1>12. /\ z.tree = u /\ z.active = active /\ z.zoomed = None
       /\ z \in [tree : {u}, size : Size, before : Size, active : Nat,
                 zoomed : {None} \cup Shown(u), pty : [Pane -> Size]]
  BY <1>4, <1>10, <1>11
<1> HIDE DEF z
<1>13. TabState(z)
  BY <1>7, <1>12 DEF TabState
<1>14. /\ out.tab = z /\ out.hung \in BOOLEAN /\ out.astray = {"sizes"}
       /\ out \in [tab : {out.tab}, hung : BOOLEAN, astray : SUBSET {"sizes"}]
  BY <1>4
<1> QED BY <1>7, <1>9, <1>10, <1>12, <1>13, <1>14 DEF Inserts

\* A split of the pane at an index.
LEMMA InsertIs ==
    ASSUME NEW y, TabState(y), NEW x \in Shown(y.tree), NEW r \in Requests,
           NEW new \in Pane \ Shown(y.tree)
    PROVE  /\ Inserts(y, new, SplitAndInsert(y, Index(y.tree, x), r, new))
           /\ r.top \/ SplitAndInsert(y, Index(y.tree, x), r, new)
                       \in {Just(y), Just(SplitLeaf(y, x, r, new))}
<1> DEFINE t == y.tree
           i == Index(t, x)
           s == SplitAndInsert(y, i, r, new)
<1>1. Shape(t) /\ x \in Shown(t) /\ DOMAIN t # {}
  BY TabIs DEF Shown, Leaves
<1>2. PaneAt(t, i) = x
  BY <1>1, IndexIs
<1>3. /\ s \in {Just(y), Just(SplitLeaf(y, x, r, new)), SplitWhole(y, r, new)}
      /\ s = Just(y) \/ y.zoomed = None
      /\ r.top \/ s \in {Just(y), Just(SplitLeaf(y, x, r, new))}
  <2> HIDE DEF i
  <2> QED BY <1>2, TabTreeAssumption DEF SplitAndInsert
<1>4. Inserts(y, new, Just(y))
  <2>1. /\ Just(y).tab = y /\ Just(y).hung = FALSE /\ Just(y).astray = {}
        /\ Just(y) \in [tab : {Just(y).tab}, hung : BOOLEAN, astray : SUBSET {"sizes"}]
    BY DEF Just
  <2> QED BY <2>1 DEF Inserts
<1> HIDE DEF s, t
<1>5. CASE s = Just(y)
  BY <1>3, <1>4, <1>5 DEF s, t
<1>6. CASE s # Just(y)
  <2>1. y.zoomed = None
    BY <1>3, <1>6
  <2>2. Inserts(y, new, Just(SplitLeaf(y, x, r, new))) /\ Inserts(y, new, SplitWhole(y, r, new))
    BY <1>1, <2>1, SplitLeafInserts, SplitWholeInserts DEF t
  <2> QED BY <1>3, <1>6, <2>2 DEF s, t
<1> QED BY <1>5, <1>6

\* The longest way down a tree ends in a leaf.
LEMMA LeavesExist == ASSUME NEW t, Shape(t), DOMAIN t # {} PROVE Leaves(t) # {}
<1> SUFFICES ASSUME Leaves(t) = {} PROVE FALSE
  OBVIOUS
<1> DEFINE f == [p \in DOMAIN t |-> Len(p)]
           T == {f[p] : p \in DOMAIN t}
<1>1. /\ DOMAIN t \subseteq Position /\ <<>> \in DOMAIN t /\ IsFiniteSet(DOMAIN t)
      /\ \A p \in DOMAIN t : Append(p, 1) \in DOMAIN t
  BY DEF Shape, Leaves
<1>2. \A p \in DOMAIN t : Len(p) \in Nat /\ Len(Append(p, 1)) = Len(p) + 1
  BY <1>1 DEF Position
<1>3. T \in SUBSET Nat /\ f \in [DOMAIN t -> Nat]
  BY <1>2
<1>4. 0 \in T
  <2>1. f[<<>>] = 0
    BY <1>1
  <2> QED BY <1>1, <2>1
<1>5. \A n \in T : n + 1 \in T
  <2> SUFFICES ASSUME NEW p \in DOMAIN t PROVE f[p] + 1 \in T
    OBVIOUS
  <2>1. f[Append(p, 1)] = f[p] + 1
    BY <1>1, <1>2
  <2> QED BY <1>1, <2>1
<1>6. IsFiniteSet(T)
  <2> HIDE DEF f
  <2> QED BY <1>1, <1>3, FiniteValues
<1> HIDE DEF T
<1>7. T = Nat
  BY <1>3, <1>4, <1>5, SetInduction
<1>8. PICK c \in Nat : c = Cardinality(T)
  BY <1>6, FS_CardinalityType
<1>9. 0..c \in SUBSET T
  BY <1>7
<1>10. Cardinality(0..c) = c + 1
  BY FS_Interval
<1>11. Cardinality(0..c) <= c
  BY <1>6, <1>8, <1>9, FS_Subset
<1> QED BY <1>10, <1>11

(* The focus.                                                              *)

\* The active index of a tab is that of a pane, the zoomed one if there is one.
Focused(y) ==
    /\ y.active < Count(y.tree)
    /\ y.zoomed # None => y.zoomed = PaneAt(y.tree, y.active)

\* Its active pane then has that index.
LEMMA ActiveIs ==
    ASSUME NEW y, TabState(y), Focused(y)
    PROVE  /\ ActivePane(y) = PaneAt(y.tree, y.active) /\ ActivePane(y) \in Shown(y.tree)
           /\ Index(y.tree, ActivePane(y)) = y.active /\ y.active \in 0..(Count(y.tree) - 1)
<1>1. Shape(y.tree) /\ y.active \in Nat
  BY TabIs
<1>2. ActivePane(y) = PaneAt(y.tree, y.active)
  BY DEF ActivePane, Focused
<1>3. y.active \in 0..(Count(y.tree) - 1)
  BY <1>1, IndexIs DEF Focused
<1> QED BY <1>1, <1>2, <1>3, IndexIs

\* A change of the sizes alone leaves it where it is.
LEMMA FocusedAlike ==
    ASSUME NEW y, TabState(y), NEW z, TabState(z), Alike(y.tree, z.tree),
           z.active = y.active, z.zoomed \in {None, y.zoomed}, Focused(y)
    PROVE  Focused(z) /\ ActivePane(z) = ActivePane(y) /\ Shown(z.tree) = Shown(y.tree)
<1>1. Shape(y.tree)
  BY TabIs
<1>2. y.active \in 0..(Count(y.tree) - 1)
  BY ActiveIs
<1>3. /\ Count(z.tree) = Count(y.tree) /\ Shown(z.tree) = Shown(y.tree)
      /\ PaneAt(z.tree, y.active) = PaneAt(y.tree, y.active)
  BY <1>1, <1>2, AlikeIs
<1>4. Focused(z)
  BY <1>3 DEF Focused
<1> QED BY <1>3, <1>4, ActiveIs

\* A removal shifts it with the pane that has it, and moves it if that pane goes.
LEMMA FocusedRemoved ==
    ASSUME NEW y, TabState(y), Focused(y), NEW x \in Shown(y.tree), NEW z, Removed1(y, x, z)
    PROVE  /\ DOMAIN z.tree # {} => Focused(z)
           /\ x # ActivePane(y) => Focused(z) /\ ActivePane(z) = ActivePane(y)
<1> DEFINE t == y.tree
           u == z.tree
           a == y.active
           A == ActivePane(y)
           i == Index(t, x)
<1>1. /\ Shape(t) /\ Shape(u) /\ Shown(u) = Shown(t) \ {x} /\ SameOrder(t, u)
      /\ z.active = IF i <= a THEN Biggest(0, a - 1) ELSE a
      /\ z.zoomed = IF y.zoomed = x THEN None ELSE y.zoomed
      /\ TabState(z)
  BY TabIs DEF Removed1, TabState
<1>2. A \in Shown(t) /\ Index(t, A) = a /\ a \in 0..(Count(t) - 1) /\ A = PaneAt(t, a)
  BY ActiveIs
<1>3. y.zoomed # None => y.zoomed = A
  BY <1>2 DEF Focused
<1>4. i \in Nat /\ Count(t) \in Nat /\ a \in Nat /\ (i = a => x = A)
  <2>1. i \in 0..(Count(t) - 1) /\ Count(t) \in Nat
    BY <1>1, IndexIs
  <2>2. i = a => x = A
    BY <1>1, <1>2, IndexIs
  <2> QED BY <1>2, <2>1, <2>2
<1>5. /\ Count(u) = Count(t) - 1
      /\ \A o \in Shown(u) : Index(u, o) = IF i < Index(t, o) THEN Index(t, o) - 1 ELSE Index(t, o)
  BY <1>1, IndexWithout
<1>6. Count(u) \in Nat
      /\ \A o \in Shown(u) : Index(u, o) \in 0..(Count(u) - 1) /\ PaneAt(u, Index(u, o)) = o
  BY <1>1, IndexIs
<1>7. ASSUME x # A PROVE Focused(z) /\ ActivePane(z) = A
  <2>1. A \in Shown(u) /\ i # a
    BY <1>1, <1>2, <1>4, <1>7
  <2>2. Index(u, A) = z.active
    <3>1. Index(u, A) = IF i < a THEN a - 1 ELSE a
      BY <1>2, <1>5, <2>1
    <3> HIDE DEF i, a, A, t, u
    <3> QED BY <1>1, <1>4, <2>1, <3>1 DEF Biggest
  <2>3. z.active \in 0..(Count(u) - 1) /\ PaneAt(u, z.active) = A
    BY <1>6, <2>1, <2>2
  <2>4. z.active < Count(u)
    <3> HIDE DEF u
    <3> QED BY <1>6, <2>3
  <2>5. z.zoomed # None => z.zoomed = A
    BY <1>1, <1>3
  <2>6. Focused(z)
    BY <2>3, <2>4, <2>5 DEF Focused
  <2> QED BY <1>1, <2>3, <2>6, ActiveIs
<1>8. ASSUME x = A, DOMAIN u # {} PROVE Focused(z)
  <2>1. z.zoomed = None
    BY <1>1, <1>3, <1>8
  <2>2. i = a
    BY <1>2, <1>8
  <2>3. Shown(u) # {}
    <3>1. PICK p \in Leaves(u) : TRUE
      BY <1>1, <1>8, LeavesExist
    <3>2. u[p].pane \in Shown(u)
      BY DEF Shown
    <3> QED BY <3>2
  <2>4. Count(u) > 0
    <3>1. PICK o \in Shown(u) : TRUE
      BY <2>3
    <3>2. Index(u, o) \in 0..(Count(u) - 1)
      BY <1>6, <3>1
    <3> HIDE DEF u
    <3> QED BY <1>6, <3>2
  <2>5. z.active < Count(u)
    <3> HIDE DEF i, a, t, u, A
    <3> QED BY <1>1, <1>2, <1>4, <1>5, <2>2, <2>4 DEF Biggest
  <2> QED BY <2>1, <2>5 DEF Focused
<1> QED BY <1>7, <1>8

(* The steps.                                                              *)

\* The inductive invariant.
TreeInv == TreeTypeOK /\ FocusIsShown

\* The step that RemovalKeepsFocus is about.
KeepsFocus ==
    \A x \in Shown(tab.tree) \ {ActivePane(tab)} :
        /\ Shown(tab'.tree) = Shown(tab.tree) \ {x} /\ ~hung'
        /\ "focus" \notin astray'
        => ActivePane(tab') = ActivePane(tab)

\* What a step has to show: the state, and the focus unless that is astray.
Stepped ==
    /\ TabState(tab') /\ hung' \in BOOLEAN
    /\ \E more \in SUBSET {"sizes", "focus", "zoom"} : astray' = astray \cup more
    /\ "focus" \notin astray' /\ DOMAIN tab'.tree # {} /\ ~hung' /\ Focused(tab) => Focused(tab')

\* Of the type invariant, what is said of the split asked for.
AskedOK(a) ==
    /\ a \subseteq [pane : Pane, index : Nat, request : Requests]
    /\ \A ask, other \in a : ask = other

\* A step to a well typed tab that leaves the focus on a pane keeps the invariant.
LEMMA StepsKeep ==
    ASSUME TreeInv, Working, Stepped, AskedOK(asked')
    PROVE  TreeInv'
<1>1. TreeTypeOK'
  BY DEF TreeInv, TreeTypeOK, Stepped, AskedOK
<1>2. FocusIsShown'
  <2>1. "focus" \notin astray => Focused(tab)
    BY DEF TreeInv, FocusIsShown, Focused, Working
  <2>2. "focus" \notin astray' => "focus" \notin astray
    BY DEF Stepped
  <2>3. "focus" \notin astray' /\ DOMAIN tab'.tree # {} /\ ~hung' => Focused(tab')
    BY <2>1, <2>2 DEF Stepped
  <2> QED BY <2>3 DEF FocusIsShown, Focused
<1> QED BY <1>1, <1>2 DEF TreeInv

\* A step that takes no pane away does not move the focus so.
LEMMA NoRemoval == ASSUME Shown(tab.tree) \subseteq Shown(tab'.tree) PROVE KeepsFocus
BY DEF KeepsFocus

\* What is known where a step starts.
LEMMA AtFirst ==
    ASSUME TreeInv, Working
    PROVE  /\ TabState(tab) /\ Shape(tab.tree) /\ DOMAIN tab.tree # {} /\ Shown(tab.tree) \subseteq Pane
           /\ "focus" \notin astray => Focused(tab)
           /\ AskedOK(asked) /\ hung = FALSE /\ astray \subseteq {"sizes", "focus", "zoom"}
BY TabIs DEF TreeInv, TreeTypeOK, FocusIsShown, Focused, Working, AskedOK

\* A result, as a record.
Result(u) == u \in [tab : {u.tab}, hung : BOOLEAN, astray : SUBSET {"sizes"}]

\* Unzooming results in a well typed tab.
LEMMA UnzoomResult ==
    ASSUME NEW y, TabState(y), DOMAIN y.tree # {}
    PROVE  Result(Unzoomed(y))
<1> DEFINE u == Unzoomed(y)
<1>1. u.hung \in BOOLEAN /\ u.astray \subseteq {"sizes"}
  BY UnzoomKeeps DEF Unzooms
<1>2. u = [tab |-> u.tab, hung |-> u.hung, astray |-> u.astray]
  <2>1. CASE y.zoomed = None
    <3>1. u = Just(y)
      BY <2>1 DEF Unzoomed
    <3> QED BY <3>1 DEF Just
  <2>2. CASE y.zoomed # None
    <3> DEFINE s == [y EXCEPT !.zoomed = None, !.size = y.before, !.before = Nothing]
    <3>1. u = Resize(s, y.size) /\ s.zoomed = None
      BY <2>2, TabIs DEF Unzoomed, ToggleZoom
    <3> HIDE DEF s
    <3> DEFINE w == Resize(s, y.size)
    <3>2. w = [tab |-> w.tab, hung |-> w.hung, astray |-> w.astray]
      BY <3>1 DEF Resize
    <3> QED BY <3>1, <3>2
  <2> QED BY <2>1, <2>2
<1> HIDE DEF u
<1>3. Result(u)
  BY <1>1, <1>2 DEF Result
<1> QED BY <1>3 DEF u

\* Unzooming leaves the focus.
LEMMA UnzoomFocus ==
    ASSUME NEW y, TabState(y), DOMAIN y.tree # {}, NEW u, u \in {Just(y), Unzoomed(y)}
    PROVE  /\ TabState(u.tab) /\ Alike(y.tree, u.tab.tree) /\ u.hung \in BOOLEAN
           /\ u.astray \subseteq {"sizes"} /\ Shown(u.tab.tree) = Shown(y.tree)
           /\ DOMAIN u.tab.tree = DOMAIN y.tree
           /\ u.tab.active = y.active /\ Result(u)
           /\ Focused(y) => Focused(u.tab) /\ ActivePane(u.tab) = ActivePane(y)
           /\ u # Just(y) => u.tab.zoomed = None
<1>1. Shape(y.tree)
  BY TabIs
<1>2. /\ TabState(u.tab) /\ Alike(y.tree, u.tab.tree) /\ u.hung \in BOOLEAN
      /\ u.astray \subseteq {"sizes"} /\ Result(u)
      /\ u.tab.active = y.active /\ u.tab.zoomed \in {None, y.zoomed}
      /\ u # Just(y) => u.tab.zoomed = None
  <2>1. CASE u = Just(y)
    <3>1. u.tab = y /\ u.hung = FALSE /\ u.astray = {} /\ Result(u)
      BY <2>1 DEF Just, Result
    <3> QED BY <1>1, <2>1, <3>1, AlikeSelf
  <2>2. CASE u # Just(y)
    <3>1. u = Unzoomed(y)
      BY <2>2
    <3>2. Unzooms(y, u) /\ Result(u)
      BY <3>1, UnzoomKeeps, UnzoomResult
    <3> QED BY <2>2, <3>2 DEF Unzooms
  <2> QED BY <2>1, <2>2
<1>3. Shown(u.tab.tree) = Shown(y.tree) /\ DOMAIN u.tab.tree = DOMAIN y.tree
  BY <1>1, <1>2, AlikeIs DEF Alike
<1>4. Focused(y) => Focused(u.tab) /\ ActivePane(u.tab) = ActivePane(y)
  BY <1>2, FocusedAlike
<1> QED BY <1>2, <1>3, <1>4

\* The first half of a split.
LEMMA AskStep ==
    ASSUME TreeInv, NEW x \in Pane, NEW r \in Requests, AskSplit(x, r)
    PROVE  TreeInv' /\ KeepsFocus
<1>1. Working /\ x \in Shown(tab.tree)
      /\ asked' = {[pane |-> x, index |-> Index(tab.tree, x), request |-> r]}
      /\ Becomes(IF r.top THEN Just(tab) ELSE Unzoomed(tab))
  BY DEF AskSplit
<1>2. TabState(tab) /\ Shape(tab.tree) /\ DOMAIN tab.tree # {}
  BY <1>1, AtFirst
<1> DEFINE u == IF r.top THEN Just(tab) ELSE Unzoomed(tab)
<1>3. u \in {Just(tab), Unzoomed(tab)}
  OBVIOUS
<1>4. tab' = u.tab /\ hung' = u.hung /\ astray' = astray \cup u.astray
  BY <1>1 DEF Becomes
<1> HIDE DEF u
<1>5. /\ TabState(u.tab) /\ u.hung \in BOOLEAN /\ u.astray \subseteq {"sizes"}
      /\ Shown(u.tab.tree) = Shown(tab.tree)
      /\ Focused(tab) => Focused(u.tab)
  BY <1>2, <1>3, UnzoomFocus
<1>6. Stepped
  BY <1>4, <1>5 DEF Stepped
<1>7. AskedOK(asked')
  <2> DEFINE ask == [pane |-> x, index |-> Index(tab.tree, x), request |-> r]
  <2>1. Index(tab.tree, x) \in Nat
    BY <1>1, <1>2, IndexIs
  <2>2. ask \in [pane : Pane, index : Nat, request : Requests]
    BY <2>1
  <2> HIDE DEF ask
  <2>4. AskedOK({ask})
    BY <2>2 DEF AskedOK
  <2> QED BY <1>1, <2>4 DEF ask
<1>8. TreeInv'
  BY <1>1, <1>6, <1>7, StepsKeep
<1>9. KeepsFocus
  BY <1>4, <1>5, NoRemoval
<1> QED BY <1>8, <1>9

\* The step that SplitsWhatWasAsked is about.
SplitsAsAsked ==
    \A ask \in asked \ asked', new \in Shown(tab'.tree) \ Shown(tab.tree) :
        ~ask.request.top =>
            LET q == LeafOf(tab'.tree, new) IN
            /\ q[Len(q)] = (IF ask.request.second THEN 2 ELSE 1)
            /\ tab'.tree[Sibling(q)].pane = ask.pane

\* The leaf of the new pane, and what is beside it.
NewLeaf(y, x, r, new, z) ==
    /\ Shown(z.tree) = Shown(y.tree) \cup {new}
    /\ LeafOf(z.tree, new)[Len(LeafOf(z.tree, new))] = (IF r.second THEN 2 ELSE 1)
    /\ z.tree[Sibling(LeafOf(z.tree, new))].pane = x

\* A split leaves the new pane where it was asked for.
LEMMA NewLeafIs ==
    ASSUME NEW y, TabState(y), NEW x \in Shown(y.tree), NEW r \in Requests,
           NEW new \in Pane \ Shown(y.tree), NEW z, z = SplitLeaf(y, x, r, new)
    PROVE  NewLeaf(y, x, r, new, z)
<1> DEFINE t == y.tree
           p == LeafOf(t, x)
           info == Divided(Room(t, p, y.size), r)
           i == IF r.second THEN 2 ELSE 1
           q == LeafOf(z.tree, new)
<1>1. Splits(t, p, info, i, new, z.tree)
  <2>1. SplitTo(y, x, r, new, SplitLeaf(y, x, r, new))
    BY SplitLeafIs
  <2> QED BY <2>1 DEF SplitTo
<1>2. Shape(t) /\ y.size \in Size
  BY TabIs
<1>3. p \in Leaves(t) /\ p \in DOMAIN t /\ p \in Position /\ t[p].pane = x
  BY <1>2, LeafOfIs
<1>4. info \in Node /\ info.pane = None /\ info.dir \in Axes
  <2> DEFINE room == Room(t, p, y.size)
  <2>1. room \in Size
    BY <1>2, <1>3, RoomIs
  <2> HIDE DEF room
  <2>2. /\ Divided(room, r) \in Node /\ Divided(room, r).pane = None
        /\ Divided(room, r).dir \in Axes
    BY <2>1, DividedIs
  <2> QED BY <2>2 DEF room
<1>5. i \in {1, 2}
  OBVIOUS
<1> HIDE DEF i, info, p, t
<1>6. Shown(z.tree) = Shown(t) \cup {new} /\ q = Append(p, i)
  BY <1>1, <1>2, <1>3, <1>4, <1>5, SplitsKeeps DEF t
<1>7. q[Len(q)] = i /\ Sibling(q) = Append(p, 3 - i)
  BY <1>3, <1>5, <1>6, UpChild
<1>8. z.tree[Append(p, 3 - i)] = t[p]
  BY <1>1 DEF Splits
<1> QED BY <1>3, <1>6, <1>7, <1>8 DEF t, i, NewLeaf

\* The second half of a split.
LEMMA FinishStep ==
    ASSUME TreeInv, NEW ask \in asked, NEW new \in Pane, FinishSplit(ask, new)
    PROVE  TreeInv' /\ KeepsFocus /\ SplitsAsAsked
<1>1. Working /\ new \in Pane \ Shown(tab.tree) /\ asked' = {}
  BY DEF FinishSplit
<1>2. /\ TabState(tab) /\ Shape(tab.tree) /\ DOMAIN tab.tree # {} /\ AskedOK(asked)
      /\ hung = FALSE
  BY <1>1, AtFirst
<1>3. ask.request \in Requests /\ \A other \in asked : other = ask
  BY <1>2 DEF AskedOK
<1>4. AskedOK(asked')
  BY <1>1 DEF AskedOK
<1> DEFINE r == ask.request
           x == ask.pane
           s == SplitAndInsert(tab, Index(tab.tree, x), r, new)
<1>5. CASE x \notin Shown(tab.tree)
  <2>1. tab' = tab /\ hung' = hung /\ astray' = astray
    BY <1>5 DEF FinishSplit
  <2>2. Stepped
    <3>1. astray' = astray \cup {}
      BY <2>1
    <3>2. TabState(tab') /\ hung' \in BOOLEAN /\ (Focused(tab) => Focused(tab'))
      BY <1>2, <2>1
    <3> QED BY <3>1, <3>2 DEF Stepped
  <2>3. TreeInv'
    BY <1>1, <1>4, <2>2, StepsKeep
  <2>4. KeepsFocus
    BY <2>1, NoRemoval
  <2>5. SplitsAsAsked
    BY <2>1 DEF SplitsAsAsked
  <2> QED BY <2>3, <2>4, <2>5
<1>6. CASE x \in Shown(tab.tree)
  <2>1. tab' = s.tab /\ hung' = s.hung /\ astray' = astray \cup s.astray
    BY <1>6 DEF FinishSplit, Becomes, FinalIndex
  <2>2. Inserts(tab, new, s) /\ (r.top \/ s \in {Just(tab), Just(SplitLeaf(tab, x, r, new))})
    BY <1>1, <1>2, <1>3, <1>6, InsertIs
  <2> HIDE DEF s
  <2>3. s = Just(tab) => s.tab = tab
    BY DEF Just
  <2>4. Shown(tab.tree) \subseteq Shown(s.tab.tree)
    BY <2>2, <2>3 DEF Inserts
  <2>5. Focused(tab) => Focused(s.tab)
    <3>1. CASE s = Just(tab)
      BY <2>3, <3>1
    <3>2. CASE s # Just(tab)
      BY <2>2, <3>2 DEF Inserts, Focused
    <3> QED BY <3>1, <3>2
  <2>6. Stepped
    BY <2>1, <2>2, <2>5 DEF Stepped, Inserts
  <2>7. TreeInv'
    BY <1>1, <1>4, <2>6, StepsKeep
  <2>8. KeepsFocus
    BY <2>1, <2>4, NoRemoval
  <2>9. SplitsAsAsked
    <3> SUFFICES ASSUME NEW other \in asked \ asked', NEW n \in Shown(tab'.tree) \ Shown(tab.tree),
                        ~other.request.top
                 PROVE  LET q == LeafOf(tab'.tree, n) IN
                        /\ q[Len(q)] = (IF other.request.second THEN 2 ELSE 1)
                        /\ tab'.tree[Sibling(q)].pane = other.pane
      BY DEF SplitsAsAsked
    <3>1. other = ask /\ ~r.top
      BY <1>3
    <3>2. s # Just(tab)
      BY <2>1, <2>3
    <3>3. tab' = SplitLeaf(tab, x, r, new)
      BY <2>1, <2>2, <3>1, <3>2 DEF Just
    <3>4. /\ Shown(tab'.tree) = Shown(tab.tree) \cup {new}
          /\ LeafOf(tab'.tree, new)[Len(LeafOf(tab'.tree, new))] = (IF r.second THEN 2 ELSE 1)
          /\ tab'.tree[Sibling(LeafOf(tab'.tree, new))].pane = x
      <4> DEFINE z == SplitLeaf(tab, x, r, new)
      <4>1. z = SplitLeaf(tab, x, r, new)
        OBVIOUS
      <4> HIDE DEF z
      <4>2. NewLeaf(tab, x, r, new, z)
        BY <1>1, <1>2, <1>3, <1>6, <4>1, NewLeafIs
      <4> QED BY <3>3, <4>1, <4>2 DEF NewLeaf
    <3>5. n = new
      BY <3>4
    <3> QED BY <3>1, <3>4, <3>5
  <2> QED BY <2>7, <2>8, <2>9
<1> QED BY <1>5, <1>6

\* The steps that take no pane away.
LEMMA QuietStep ==
    ASSUME TreeInv, Working, asked' = asked, TabState(tab'), hung' \in BOOLEAN,
           NEW more \in SUBSET {"sizes", "focus", "zoom"}, astray' = astray \cup more,
           Shown(tab.tree) \subseteq Shown(tab'.tree),
           "focus" \notin more => (Focused(tab) => Focused(tab'))
    PROVE  TreeInv' /\ KeepsFocus
<1>1. "focus" \notin astray' => "focus" \notin more
  OBVIOUS
<1>2. Stepped
  BY <1>1 DEF Stepped
<1>3. AskedOK(asked')
  BY AtFirst
<1>4. TreeInv'
  BY <1>2, <1>3, StepsKeep
<1> QED BY <1>4, NoRemoval

\* What goes astray if something is the case.
LEMMA StraysIs == ASSUME NEW what, NEW if \in BOOLEAN PROVE Strays(what, if) = IF if THEN {what} ELSE {}
BY DEF Strays

\* A change of sizes leaves the focus alone.
LEMMA SizedFocus ==
    ASSUME NEW y, TabState(y), NEW z, SizedAnew(y, z)
    PROVE  /\ TabState(z) /\ Shown(z.tree) = Shown(y.tree) /\ DOMAIN z.tree = DOMAIN y.tree
           /\ Focused(y) => Focused(z)
<1>1. Shape(y.tree) /\ Alike(y.tree, z.tree) /\ TabState(z) /\ z.active = y.active /\ z.zoomed = y.zoomed
  BY TabIs DEF SizedAnew
<1>2. Shown(z.tree) = Shown(y.tree) /\ DOMAIN z.tree = DOMAIN y.tree
  BY <1>1, AlikeIs DEF Alike
<1>3. Focused(y) => Focused(z)
  BY <1>1, FocusedAlike
<1> QED BY <1>1, <1>2, <1>3

\* The window is resized.
LEMMA ResizeStep ==
    ASSUME TreeInv, NEW size \in Sizes, ResizeTab(size)
    PROVE  TreeInv' /\ KeepsFocus
<1> DEFINE u == Resize(tab, size)
<1>1. Working /\ tab' = u.tab /\ hung' = u.hung /\ astray' = astray \cup u.astray /\ asked' = asked
  BY DEF ResizeTab, Becomes
<1>2. TabState(tab) /\ DOMAIN tab.tree # {}
  BY <1>1, AtFirst
<1>3. size \in Size
  BY TabTreeAssumption DEF Size
<1>4. Resizes(tab, u)
  BY <1>2, <1>3, ResizeKeeps
<1> HIDE DEF u
<1>5. SizedAnew(tab, u.tab) /\ u.hung \in BOOLEAN /\ u.astray \in SUBSET {"sizes", "focus", "zoom"}
  BY <1>4 DEF Resizes
<1>6. TabState(u.tab) /\ Shown(u.tab.tree) = Shown(tab.tree) /\ (Focused(tab) => Focused(u.tab))
  BY <1>2, <1>5, SizedFocus
<1> QED BY <1>1, <1>5, <1>6, QuietStep

\* A pane is zoomed, or no longer.
LEMMA ZoomStep ==
    ASSUME TreeInv, ToggleZoomState
    PROVE  TreeInv' /\ KeepsFocus
<1> DEFINE u == ToggleZoom(tab)
<1>1. Working /\ tab' = u.tab /\ hung' = u.hung /\ astray' = astray \cup u.astray /\ asked' = asked
  BY DEF ToggleZoomState, Becomes
<1>2. TabState(tab) /\ DOMAIN tab.tree # {}
  BY <1>1, AtFirst
<1>3. /\ TabState(u.tab) /\ u.hung \in BOOLEAN /\ u.astray \in SUBSET {"sizes", "focus", "zoom"}
      /\ Shown(u.tab.tree) = Shown(tab.tree)
      /\ Focused(tab) => Focused(u.tab)
  <2>1. CASE tab.zoomed = None
    <3>1. /\ u = Just(u.tab) /\ TabState(u.tab) /\ u.tab.tree = tab.tree
          /\ u.tab.active = tab.active
          /\ u.tab.zoomed = IF tab.active < Count(tab.tree) THEN PaneAt(tab.tree, tab.active) ELSE None
      <4> DEFINE w == ToggleZoom(tab)
      <4>1. /\ w = Just(w.tab) /\ TabState(w.tab) /\ w.tab.tree = tab.tree
            /\ w.tab.active = tab.active
            /\ w.tab.zoomed = IF tab.active < Count(tab.tree) THEN PaneAt(tab.tree, tab.active) ELSE None
        BY <1>2, <2>1, ZoomKeeps
      <4> QED BY <4>1
    <3> HIDE DEF u
    <3>2. u.hung = FALSE /\ u.astray = {}
      BY <3>1 DEF Just
    <3>3. Focused(tab) => Focused(u.tab)
      BY <3>1 DEF Focused
    <3> QED BY <3>1, <3>2, <3>3
  <2>2. CASE tab.zoomed # None
    <3>1. Unzooms(tab, u)
      BY <1>2, <2>2, UnzoomKeeps
    <3> HIDE DEF u
    <3>2. /\ TabState(u.tab) /\ u.hung \in BOOLEAN /\ u.astray \subseteq {"sizes"}
          /\ Alike(tab.tree, u.tab.tree) /\ u.tab.active = tab.active /\ u.tab.zoomed = None
      BY <3>1 DEF Unzooms
    <3>3. Shown(u.tab.tree) = Shown(tab.tree)
      <4>1. Shape(tab.tree)
        BY <1>2, TabIs
      <4> QED BY <3>2, <4>1, AlikeIs
    <3>4. Focused(tab) => Focused(u.tab)
      BY <1>2, <3>2, FocusedAlike
    <3> QED BY <3>2, <3>3, <3>4
  <2> QED BY <2>1, <2>2
<1> HIDE DEF u
<1> QED BY <1>1, <1>3, QuietStep

\* A tab whose active index is set.
LEMMA TabStateActive ==
    ASSUME NEW y, TabState(y), NEW i \in Nat
    PROVE  /\ TabState([y EXCEPT !.active = i]) /\ [y EXCEPT !.active = i].tree = y.tree
           /\ [y EXCEPT !.active = i].active = i /\ [y EXCEPT !.active = i].zoomed = y.zoomed
BY DEF TabState

\* A pane is activated.
LEMMA SetActiveStep ==
    ASSUME TreeInv, NEW x \in Pane, SetActivePane(x)
    PROVE  TreeInv' /\ KeepsFocus
<1> DEFINE u == Unzoomed(tab)
           i == Index(tab.tree, x)
           z == [u.tab EXCEPT !.active = i]
<1>1. Working /\ x \in Shown(tab.tree) /\ asked' = asked
      /\ Becomes([u EXCEPT !.tab.active = i])
  BY DEF SetActivePane
<1>2. TabState(tab) /\ Shape(tab.tree) /\ DOMAIN tab.tree # {}
  BY <1>1, AtFirst
<1>3. i \in 0..(Count(tab.tree) - 1) /\ i \in Nat /\ Count(tab.tree) \in Nat
  BY <1>1, <1>2, IndexIs
<1>4. Unzooms(tab, u) /\ Result(u)
  BY <1>2, UnzoomKeeps, UnzoomResult
<1> HIDE DEF u, i
<1>5. tab' = z /\ hung' = u.hung /\ astray' = astray \cup u.astray
  <2>1. /\ [u EXCEPT !.tab.active = i].tab = z /\ [u EXCEPT !.tab.active = i].hung = u.hung
        /\ [u EXCEPT !.tab.active = i].astray = u.astray
    BY <1>4 DEF Result
  <2> QED BY <1>1, <2>1 DEF Becomes
<1>6. /\ TabState(u.tab) /\ u.hung \in BOOLEAN /\ u.astray \in SUBSET {"sizes", "focus", "zoom"}
      /\ Alike(tab.tree, u.tab.tree) /\ u.tab.zoomed = None
  BY <1>4 DEF Unzooms
<1>7. Shown(u.tab.tree) = Shown(tab.tree) /\ Count(u.tab.tree) = Count(tab.tree)
  BY <1>2, <1>6, AlikeIs
<1>8. TabState(z) /\ z.tree = u.tab.tree /\ z.active = i /\ z.zoomed = None
  BY <1>3, <1>6, TabStateActive
<1> HIDE DEF z
<1>9. Focused(z)
  BY <1>3, <1>7, <1>8 DEF Focused
<1> QED BY <1>1, <1>5, <1>6, <1>7, <1>8, <1>9, QuietStep

\* A pane is activated by its index.
LEMMA ByIndexStep ==
    ASSUME TreeInv, NEW i \in Indices, ActivateByIndex(i)
    PROVE  TreeInv' /\ KeepsFocus
<1> DEFINE z == [tab EXCEPT !.active = i]
           more == Strays("focus", tab.zoomed # None)
<1>1. /\ Working /\ asked' = asked /\ tab' = z /\ astray' = astray \cup more
      /\ i < (IF tab.zoomed = None THEN Count(tab.tree) ELSE 1) /\ hung' = hung
  BY DEF ActivateByIndex
<1>2. TabState(tab) /\ hung = FALSE
  BY <1>1, AtFirst
<1>3. i \in Nat
  BY DEF Indices
<1>4. TabState(z) /\ z.tree = tab.tree /\ z.active = i /\ z.zoomed = tab.zoomed
  BY <1>2, <1>3, TabStateActive
<1>5. more \in SUBSET {"sizes", "focus", "zoom"} /\ ("focus" \notin more => tab.zoomed = None)
  BY DEF Strays
<1> HIDE DEF z, more
<1>6. "focus" \notin more => Focused(z)
  BY <1>1, <1>4, <1>5 DEF Focused
<1> QED BY <1>1, <1>2, <1>4, <1>5, <1>6, QuietStep

\* A tab with another tree of the same panes, whose panes are told their sizes.
LEMMA Retold ==
    ASSUME NEW y, TabState(y), NEW u, Shape(u), Shown(u) = Shown(y.tree)
    PROVE  /\ TabState(ApplySizes([y EXCEPT !.tree = u]))
           /\ Shown(ApplySizes([y EXCEPT !.tree = u]).tree) = Shown(y.tree)
           /\ Count(ApplySizes([y EXCEPT !.tree = u]).tree) = Count(u)
           /\ ApplySizes([y EXCEPT !.tree = u]).active = y.active
           /\ ApplySizes([y EXCEPT !.tree = u]).zoomed = y.zoomed
<1> DEFINE v == [y EXCEPT !.tree = u]
<1>1. /\ y.zoomed \in {None} \cup Shown(u) /\ y.pty \in [Pane -> Size]
  BY TabIs
<1>2. v = Told(y, u, y.pty)
  BY ToldTree
<1>3. TabState(v) /\ v.tree = u /\ v.active = y.active /\ v.zoomed = y.zoomed
  BY <1>1, <1>2, TabStateTold
<1> HIDE DEF v
<1>4. SizedAnew(v, ApplySizes(v)) /\ ApplySizes(v).tree = v.tree
  BY <1>3, ApplySizesIs
<1>5. /\ TabState(ApplySizes(v)) /\ ApplySizes(v).active = y.active
      /\ ApplySizes(v).zoomed = y.zoomed /\ ApplySizes(v).tree = u
  BY <1>3, <1>4 DEF SizedAnew
<1> QED BY <1>5 DEF v

\* The panes are rotated.
LEMMA RotateStep ==
    ASSUME TreeInv, NEW by \in {-1, 1}, RotatePanes(by)
    PROVE  TreeInv' /\ KeepsFocus
<1> DEFINE u == Rotated(tab.tree, by)
           z == ApplySizes([tab EXCEPT !.tree = u])
           more == Strays("focus", tab.zoomed # None) \cup Strays("zoom", tab.zoomed # None)
<1>1. Working /\ asked' = asked /\ tab' = z /\ astray' = astray \cup more /\ hung' = hung
  BY DEF RotatePanes
<1>2. TabState(tab) /\ Shape(tab.tree) /\ hung = FALSE
  BY <1>1, AtFirst
<1>3. Shape(u) /\ Shown(u) = Shown(tab.tree) /\ Count(u) = Count(tab.tree)
  BY <1>2, RotatedKeeps
<1> HIDE DEF u
<1>4. /\ TabState(z) /\ Shown(z.tree) = Shown(tab.tree) /\ Count(z.tree) = Count(u)
      /\ z.active = tab.active /\ z.zoomed = tab.zoomed
  BY <1>2, <1>3, Retold
<1>5. more \in SUBSET {"sizes", "focus", "zoom"} /\ ("focus" \notin more => tab.zoomed = None)
  BY DEF Strays
<1> HIDE DEF z, more
<1>6. "focus" \notin more => (Focused(tab) => Focused(z))
  BY <1>3, <1>4, <1>5 DEF Focused
<1> QED BY <1>1, <1>2, <1>4, <1>5, <1>6, QuietStep

\* Two panes are swapped.
LEMMA SwapStep ==
    ASSUME TreeInv, NEW i \in Indices, NEW keep \in BOOLEAN, SwapActive(i, keep)
    PROVE  TreeInv' /\ KeepsFocus
<1> DEFINE t == tab.tree
           x == PaneAt(t, i)
           o == PaneAt(t, tab.active)
           u == Swapped(t, LeafOf(t, x), LeafOf(t, o))
           v == ApplySizes([tab EXCEPT !.tree = u])
           active == IF keep THEN i ELSE v.active
           z == [v EXCEPT !.active = active]
<1>1. /\ Working /\ asked' = asked /\ astray' = astray /\ hung' = hung
      /\ tab.zoomed = None /\ i < Count(t) /\ tab.active < Count(t)
      /\ tab' = [v EXCEPT !.active = IF keep THEN i ELSE @]
  BY DEF SwapActive
<1>2. TabState(tab) /\ Shape(t) /\ hung = FALSE /\ tab.active \in Nat /\ i \in Nat /\ Count(t) \in Nat
  BY <1>1, AtFirst, TabIs, IndexIs DEF Indices
<1>3. x \in Shown(t) /\ o \in Shown(t)
  BY <1>1, <1>2, IndexIs
<1>4. Shape(u) /\ Shown(u) = Shown(t) /\ Count(u) = Count(t)
  <2> HIDE DEF x, o, t
  <2> QED BY <1>2, <1>3, SwappedKeeps
<1> HIDE DEF u
<1>5. /\ TabState(v) /\ Shown(v.tree) = Shown(t) /\ Count(v.tree) = Count(u)
      /\ v.active = tab.active /\ v.zoomed = tab.zoomed
  BY <1>2, <1>4, Retold
<1>6. tab' = z
  BY <1>1
<1> HIDE DEF v, t
<1>7. active \in Nat /\ active < Count(v.tree)
  BY <1>1, <1>2, <1>4, <1>5
<1> HIDE DEF active
<1>8. TabState(z) /\ z.tree = v.tree /\ z.active = active /\ z.zoomed = v.zoomed
  BY <1>5, <1>7, TabStateActive
<1> HIDE DEF z
<1>9. Focused(z)
  BY <1>1, <1>5, <1>7, <1>8 DEF Focused
<1>10. astray' = astray \cup {} /\ {} \in SUBSET {"sizes", "focus", "zoom"}
  BY <1>1
<1> QED BY <1>1, <1>2, <1>5, <1>6, <1>8, <1>9, <1>10, QuietStep DEF t

\* A split is moved.
LEMMA MovesSplitStep ==
    ASSUME TreeInv, Working, NEW p \in DOMAIN tab.tree, NEW d \in {-1, 1}, Movable(p),
           MovesSplit(p, d)
    PROVE  TreeInv' /\ KeepsFocus
<1> DEFINE z == MoveSplitAndCascade(tab, p, d)
           more == Strays("sizes", \E q \in DOMAIN tab'.tree : \E a \in Axes :
                                ~IsLeaf(tab'.tree, q) /\ tab'.tree[q].second[a] = 0)
<1>1. asked' = asked /\ tab' = z /\ astray' = astray \cup more /\ hung' = hung
  BY DEF MovesSplit
<1>2. TabState(tab) /\ hung = FALSE
  BY AtFirst
<1>3. more \in SUBSET {"sizes", "focus", "zoom"}
  BY DEF Strays
<1>4. SizedAnew(tab, z)
  BY <1>2, MoveSplitKeeps DEF Movable
<1> HIDE DEF z, more
<1>5. TabState(z) /\ Shown(z.tree) = Shown(tab.tree) /\ (Focused(tab) => Focused(z))
  BY <1>2, <1>4, SizedFocus
<1> QED BY <1>1, <1>2, <1>3, <1>5, QuietStep

\* A step that takes one pane away, or puts it elsewhere.
LEMMA RemovalStep ==
    ASSUME TreeInv, Working, NEW x \in Shown(tab.tree), asked' = asked, hung' \in BOOLEAN,
           NEW more \in SUBSET {"sizes", "focus", "zoom"}, astray' = astray \cup more,
           NEW y, TabState(y), Alike(tab.tree, y.tree), y.active = tab.active,
           y.zoomed \in {None, tab.zoomed},
           Removed1(y, x, tab')
    PROVE  TreeInv' /\ KeepsFocus
<1>1. /\ TabState(tab) /\ Shape(tab.tree) /\ AskedOK(asked)
      /\ "focus" \notin astray => Focused(tab)
  BY AtFirst
<1>2. Focused(tab) => Focused(y) /\ ActivePane(y) = ActivePane(tab)
  BY <1>1, FocusedAlike
<1>3. Shown(y.tree) = Shown(tab.tree)
  BY <1>1, AlikeIs
<1>4. TabState(tab') /\ Shown(tab'.tree) = Shown(tab.tree) \ {x}
  BY <1>3 DEF Removed1
<1>5. Focused(tab) =>
        /\ DOMAIN tab'.tree # {} => Focused(tab')
        /\ x # ActivePane(tab) => Focused(tab') /\ ActivePane(tab') = ActivePane(tab)
  <2> SUFFICES ASSUME Focused(tab)
               PROVE  /\ DOMAIN tab'.tree # {} => Focused(tab')
                      /\ x # ActivePane(tab) => Focused(tab') /\ ActivePane(tab') = ActivePane(tab)
    OBVIOUS
  <2> DEFINE z == tab'
  <2>1. Removed1(y, x, z) /\ x \in Shown(y.tree)
    BY <1>3
  <2> HIDE DEF z
  <2>2. /\ DOMAIN z.tree # {} => Focused(z)
        /\ x # ActivePane(y) => Focused(z) /\ ActivePane(z) = ActivePane(y)
    BY <1>2, <2>1, FocusedRemoved
  <2> QED BY <1>2, <2>2 DEF z
<1>6. Stepped
  BY <1>4, <1>5 DEF Stepped
<1>7. TreeInv'
  BY <1>1, <1>6, StepsKeep
<1>8. KeepsFocus
  <2> SUFFICES ASSUME NEW o \in Shown(tab.tree) \ {ActivePane(tab)},
                      Shown(tab'.tree) = Shown(tab.tree) \ {o}, "focus" \notin astray'
               PROVE  ActivePane(tab') = ActivePane(tab)
    BY DEF KeepsFocus
  <2>1. o = x
    BY <1>4
  <2>2. Focused(tab)
    BY <1>1
  <2> QED BY <1>5, <2>1, <2>2
<1> QED BY <1>7, <1>8

\* Panes are removed.
LEMMA RemoveStep ==
    ASSUME TreeInv, NEW gone \in SUBSET Pane, RemovePanes(gone)
    PROVE  TreeInv' /\ KeepsFocus
<1> DEFINE more == Strays("sizes", tab.zoomed \in gone /\ tab.size # tab.before)
                     \cup Strays("focus", Cardinality(gone) > 1)
                     \cup Strays("zoom", tab.zoomed # None)
<1>1. /\ Working /\ asked' = asked /\ hung' = hung /\ gone # {} /\ gone \subseteq Shown(tab.tree)
      /\ tab' = RemovePaneIf(tab, gone) /\ astray' = astray \cup more
  BY DEF RemovePanes
<1>2. TabState(tab) /\ Shape(tab.tree) /\ hung = FALSE /\ AskedOK(asked)
  BY <1>1, AtFirst
<1>3. more \in SUBSET {"sizes", "focus", "zoom"}
  BY DEF Strays
<1>4. CASE \E x : gone = {x}
  <2>1. PICK x \in Shown(tab.tree) : gone = {x}
    BY <1>1, <1>4
  <2>2. Removed1(tab, x, tab')
    BY <1>1, <1>2, <2>1, RemoveOneIs
  <2>3. Alike(tab.tree, tab.tree)
    BY <1>2, AlikeSelf
  <2> HIDE DEF more
  <2> QED BY <1>1, <1>2, <1>3, <2>2, <2>3, RemovalStep
<1>5. CASE ~\E x : gone = {x}
  <2>1. Cardinality(gone) > 1
    <3>1. IsFiniteSet(gone)
      BY <1>1, <1>2, FiniteShown, FS_Subset
    <3>2. Cardinality(gone) \in Nat
      BY <3>1, FS_CardinalityType
    <3>3. Cardinality(gone) # 0
      BY <1>1, <3>1, FS_EmptySet
    <3>4. Cardinality(gone) # 1
      <4>1. Cardinality(gone) = 1 => \E x : gone = {x}
        BY <3>1, FS_Singleton
      <4> QED BY <1>5, <4>1
    <3> QED BY <3>2, <3>3, <3>4
  <2>2. "focus" \in more
    BY <2>1 DEF Strays
  <2>3. TabState(tab')
    BY <1>1, <1>2, RemoveKeeps
  <2> HIDE DEF more
  <2>4. Stepped
    BY <1>1, <1>2, <1>3, <2>2, <2>3 DEF Stepped
  <2>5. TreeInv'
    BY <1>1, <1>2, <2>4, StepsKeep
  <2>6. KeepsFocus
    BY <1>1, <2>2 DEF KeepsFocus
  <2> QED BY <2>5, <2>6
<1> QED BY <1>4, <1>5

\* A pane is moved beside another.
LEMMA MoveStep ==
    ASSUME TreeInv, NEW src \in Pane, NEW x \in Pane, NEW r \in Requests, MovePane(src, x, r)
    PROVE  TreeInv' /\ KeepsFocus
<1>1. Working /\ asked' = asked /\ src \in Shown(tab.tree) /\ x \in Shown(tab.tree)
  BY DEF MovePane
<1>2. /\ TabState(tab) /\ Shape(tab.tree) /\ DOMAIN tab.tree # {} /\ AskedOK(asked)
      /\ "focus" \notin astray => Focused(tab)
  BY <1>1, AtFirst
<1> DEFINE u == IF r.top THEN Just(tab) ELSE Unzoomed(tab)
           y == RemovePaneIf(u.tab, {src})
           s == IF x \in Shown(y.tree) THEN SplitAndInsert(y, Index(y.tree, x), r, src) ELSE Just(y)
           more == u.astray \cup Strays("sizes", u.tab.zoomed = src /\ tab.size # tab.before)
                            \cup Strays("zoom", u.tab.zoomed # None)
           out == [s EXCEPT !.astray = @ \cup u.astray
                            \cup Strays("sizes", u.tab.zoomed = src /\ tab.size # tab.before)
                            \cup Strays("zoom", u.tab.zoomed # None)]
<1>3. /\ u.hung => Becomes(u)
      /\ ~u.hung => Becomes(out)
  BY DEF MovePane
<1>4. u \in {Just(tab), Unzoomed(tab)}
  OBVIOUS
<1> HIDE DEF u
<1>5. /\ TabState(u.tab) /\ Alike(tab.tree, u.tab.tree) /\ u.hung \in BOOLEAN
      /\ u.astray \subseteq {"sizes"} /\ Shown(u.tab.tree) = Shown(tab.tree)
      /\ u.tab.active = tab.active
      /\ Focused(tab) => Focused(u.tab) /\ ActivePane(u.tab) = ActivePane(tab)
  BY <1>2, <1>4, UnzoomFocus
<1>6. u.tab.zoomed \in {None, tab.zoomed}
  <2>1. u = Just(tab) => u.tab = tab
    BY DEF Just
  <2>2. u # Just(tab) => u.tab.zoomed = None
    BY <1>2, <1>4, UnzoomFocus
  <2> QED BY <2>1, <2>2
<1>7. CASE u.hung
  <2>1. tab' = u.tab /\ hung' = u.hung /\ astray' = astray \cup u.astray
    BY <1>3, <1>7 DEF Becomes
  <2> QED BY <1>1, <1>5, <2>1, QuietStep
<1>8. CASE ~u.hung
  <2>1. Removed1(u.tab, src, y)
    <3>1. src \in Shown(u.tab.tree)
      BY <1>1, <1>5
    <3> QED BY <1>5, <3>1, RemoveOneIs
  <2> HIDE DEF y
  <2>2. TabState(y) /\ Shown(y.tree) = Shown(tab.tree) \ {src}
    BY <1>5, <2>1 DEF Removed1
  <2>3. Inserts(y, src, s)
    <3>1. CASE x \in Shown(y.tree)
      BY <2>2, <3>1, InsertIs
    <3>2. CASE x \notin Shown(y.tree)
      <4>1. s = Just(y)
        BY <3>2
      <4>2. /\ Just(y).tab = y /\ Just(y).hung = FALSE /\ Just(y).astray = {}
            /\ Just(y) \in [tab : {Just(y).tab}, hung : BOOLEAN, astray : SUBSET {"sizes"}]
        BY DEF Just
      <4> HIDE DEF s
      <4> QED BY <2>2, <4>1, <4>2 DEF Inserts
    <3> QED BY <3>1, <3>2
  <2>4. s # Just(y) => DOMAIN y.tree # {}
    BY DEF Shown, Leaves
  <2> HIDE DEF s
  <2>5. s \in [tab : {s.tab}, hung : BOOLEAN, astray : SUBSET {"sizes"}]
    BY <2>3 DEF Inserts
  <2>6. out.tab = s.tab /\ out.hung = s.hung /\ out.astray = s.astray \cup more
    BY <2>5
  <2>7. more \in SUBSET {"sizes", "zoom"} /\ s.astray \in SUBSET {"sizes"}
    BY <1>5, <2>5 DEF Strays
  <2>8. tab' = s.tab /\ hung' = s.hung /\ astray' = astray \cup (s.astray \cup more)
    <3> HIDE DEF out, more
    <3> QED BY <1>3, <1>8, <2>6 DEF Becomes
  <2> HIDE DEF out, more
  <2>9. CASE s = Just(y)
    <3>1. tab' = y /\ hung' = FALSE
      BY <2>8, <2>9 DEF Just
    <3>2. Removed1(u.tab, src, tab')
      BY <2>1, <3>1
    <3>3. s.astray \cup more \in SUBSET {"sizes", "focus", "zoom"}
      BY <2>7
    <3> QED BY <1>1, <1>5, <1>6, <2>8, <3>1, <3>2, <3>3, RemovalStep
  <2>10. CASE s # Just(y)
    <3>1. /\ TabState(s.tab) /\ y.zoomed = None /\ s.tab.zoomed = None
          /\ Shown(s.tab.tree) = Shown(y.tree) \cup {src}
          /\ y.active < Count(y.tree) => s.tab.active < Count(s.tab.tree)
      BY <2>3, <2>10 DEF Inserts
    <3>2. Shown(tab.tree) \subseteq Shown(s.tab.tree)
      BY <2>2, <3>1
    <3>3. Focused(tab) => Focused(s.tab)
      <4>1. Focused(tab) => Focused(y)
        <5>1. src \in Shown(u.tab.tree)
          BY <1>1, <1>5
        <5> QED BY <1>5, <2>1, <2>4, <2>10, <5>1, FocusedRemoved
      <4> QED BY <3>1, <4>1 DEF Focused
    <3>4. s.astray \cup more \in SUBSET {"sizes", "focus", "zoom"}
      BY <2>7
    <3> QED BY <1>1, <2>5, <2>8, <3>1, <3>2, <3>3, <3>4, QuietStep
  <2> QED BY <2>9, <2>10
<1> QED BY <1>5, <1>7, <1>8

\* All the operations.
LEMMA TreeStep ==
    ASSUME TreeInv, TreeNext
    PROVE  TreeInv' /\ KeepsFocus /\ SplitsAsAsked
<1>1. asked' = asked => SplitsAsAsked
  BY DEF SplitsAsAsked
<1>2. CASE \E x \in Pane, r \in Requests : AskSplit(x, r)
  <2>1. PICK x \in Pane, r \in Requests : AskSplit(x, r)
    BY <1>2
  <2>2. SplitsAsAsked
    <3>1. asked = {}
      BY <2>1 DEF AskSplit
    <3> QED BY <3>1 DEF SplitsAsAsked
  <2> QED BY <2>1, <2>2, AskStep
<1>3. CASE \E ask \in asked, new \in Pane : FinishSplit(ask, new)
  BY <1>3, FinishStep
<1>4. CASE \E src, x \in Pane, r \in Requests : MovePane(src, x, r)
  <2>1. PICK src \in Pane, x \in Pane, r \in Requests : MovePane(src, x, r)
    BY <1>4
  <2>2. asked' = asked
    BY <2>1 DEF MovePane
  <2> QED BY <1>1, <2>1, <2>2, MoveStep
<1>5. CASE \E gone \in SUBSET Pane : RemovePanes(gone)
  BY <1>1, <1>5, RemoveStep DEF RemovePanes
<1>6. CASE \E size \in Sizes : ResizeTab(size)
  BY <1>1, <1>6, ResizeStep DEF ResizeTab
<1>7. CASE ToggleZoomState
  BY <1>1, <1>7, ZoomStep DEF ToggleZoomState
<1>8. CASE \E x \in Pane : SetActivePane(x)
  BY <1>1, <1>8, SetActiveStep DEF SetActivePane
<1>9. CASE \E i \in Indices : ActivateByIndex(i)
  BY <1>1, <1>9, ByIndexStep DEF ActivateByIndex
<1>10. CASE \E by \in {-1, 1} : RotatePanes(by)
  BY <1>1, <1>10, RotateStep DEF RotatePanes
<1>11. CASE \E i \in Indices, keep \in BOOLEAN : SwapActive(i, keep)
  BY <1>1, <1>11, SwapStep DEF SwapActive
<1>12. CASE \E p \in DOMAIN tab.tree, d \in {-1, 1} : ResizeSplitBy(p, d)
  <2>1. PICK p \in DOMAIN tab.tree, d \in {-1, 1} : ResizeSplitBy(p, d)
    BY <1>12
  <2>2. Working /\ Movable(p) /\ MovesSplit(p, d) /\ asked' = asked
    BY <2>1 DEF ResizeSplitBy, MovesSplit
  <2> QED BY <1>1, <2>2, MovesSplitStep
<1>13. CASE \E a \in Axes, d \in {-1, 1} : AdjustPaneSize(a, d)
  <2>1. PICK a \in Axes, d \in {-1, 1} : AdjustPaneSize(a, d)
    BY <1>13
  <2>2. PICK p \in DOMAIN tab.tree : Movable(p) /\ MovesSplit(p, d)
    BY <2>1 DEF AdjustPaneSize
  <2>3. Working /\ asked' = asked
    BY <2>1, <2>2 DEF AdjustPaneSize, MovesSplit
  <2> QED BY <1>1, <2>2, <2>3, MovesSplitStep
<1> QED
  BY <1>2, <1>3, <1>4, <1>5, <1>6, <1>7, <1>8, <1>9, <1>10, <1>11, <1>12, <1>13 DEF TreeNext

\* The tree of one leaf.
LEMMA OneLeaf ==
    ASSUME NEW x \in Pane
    PROVE  LET t == [p \in {<<>>} |-> Leaf(x)]
           IN  Shape(t) /\ Shown(t) = {x} /\ Count(t) = 1
<1> DEFINE t == [p \in {<<>>} |-> Leaf(x)]
<1>1. x # None
  BY TabTreeAssumption
<1>2. DOMAIN t = {<<>>} /\ t[<<>>] = Leaf(x) /\ Leaf(x).pane = x
  BY DEF Leaf
<1>3. Leaf(x) \in Node
  BY DEF Leaf, Node, Nothing, Size
<1>4. t \in [DOMAIN t -> Node]
  BY <1>2, <1>3
<1>5. <<>> \in Position /\ Len(<<>>) = 0
  BY DEF Position
<1>6. IsFiniteSet({<<>>})
  BY FS_Singleton
<1> HIDE DEF t
<1>7. IsLeaf(t, <<>>) /\ Leaves(t) = {<<>>}
  BY <1>1, <1>2 DEF IsLeaf, Leaves
<1>8. Shape(t)
  BY <1>2, <1>4, <1>5, <1>6, <1>7 DEF Shape
<1>9. Shown(t) = {x}
  BY <1>2, <1>7 DEF Shown
<1>10. Count(t) = 1
  BY <1>9, FS_Singleton DEF Count
<1> QED BY <1>8, <1>9, <1>10 DEF t

\* A tab begins with one pane, which has the focus.
LEMMA TreeInitInv == ASSUME TreeInit PROVE TreeInv
<1>1. PICK first \in Pane :
        tab = [tree |-> [p \in {<<>>} |-> Leaf(first)], size |-> Start, before |-> Nothing,
               active |-> 0, zoomed |-> None,
               pty |-> [x \in Pane |-> IF x = first THEN Start ELSE Nothing]]
  BY DEF TreeInit
<1>2. asked = {} /\ hung = FALSE /\ astray = {}
  BY DEF TreeInit
<1> DEFINE t == [p \in {<<>>} |-> Leaf(first)]
<1>3. Shape(t) /\ Shown(t) = {first} /\ Count(t) = 1
  BY OneLeaf
<1>4. Start \in Size /\ Nothing \in Size
  BY TabTreeAssumption DEF Size, Nothing
<1> HIDE DEF t
<1>5. /\ tab.tree = t /\ tab.active = 0 /\ tab.zoomed = None
      /\ tab \in [tree : {t}, size : Size, before : Size, active : Nat,
                  zoomed : {None} \cup Shown(t), pty : [Pane -> Size]]
  BY <1>1, <1>4 DEF t
<1>6. TabState(tab)
  BY <1>3, <1>5 DEF TabState
<1>7. TreeTypeOK
  BY <1>2, <1>6 DEF TreeTypeOK
<1>8. FocusIsShown
  BY <1>3, <1>5 DEF FocusIsShown
<1> QED BY <1>7, <1>8 DEF TreeInv

\* A step that changes nothing.
LEMMA TreeUnchanged ==
    ASSUME TreeInv, UNCHANGED treeVars
    PROVE  TreeInv' /\ KeepsFocus /\ SplitsAsAsked
<1>1. tab' = tab /\ asked' = asked /\ hung' = hung /\ astray' = astray
  BY DEF treeVars
<1>2. TreeInv'
  BY <1>1 DEF TreeInv, TreeTypeOK, FocusIsShown
<1> QED BY <1>1, <1>2 DEF KeepsFocus, SplitsAsAsked

\* The types hold, and the tree keeps its shape.
THEOREM TreeTypeCorrect == TreeSpec => []TreeTypeOK
<1>1. TreeInit => TreeInv
  BY TreeInitInv
<1>2. TreeInv /\ [TreeNext]_treeVars => TreeInv'
  BY TreeStep, TreeUnchanged
<1>3. TreeInv => TreeTypeOK
  BY DEF TreeInv
<1> QED BY <1>1, <1>2, <1>3, PTL DEF TreeSpec

\* The active index is that of a pane, and a zoomed pane is the active one.
THEOREM FocusCorrect == TreeSpec => []FocusIsShown
<1>1. TreeInit => TreeInv
  BY TreeInitInv
<1>2. TreeInv /\ [TreeNext]_treeVars => TreeInv'
  BY TreeStep, TreeUnchanged
<1>3. TreeInv => FocusIsShown
  BY DEF TreeInv
<1> QED BY <1>1, <1>2, <1>3, PTL DEF TreeSpec

\* A pane that leaves alone takes the focus with it only if it had it.
THEOREM RemovalCorrect == TreeSpec => RemovalKeepsFocus
<1>1. TreeInit => TreeInv
  BY TreeInitInv
<1>2. TreeInv /\ [TreeNext]_treeVars => TreeInv' /\ [KeepsFocus]_treeVars
  BY TreeStep, TreeUnchanged
<1>3. RemovalKeepsFocus <=> [][KeepsFocus]_treeVars
  BY DEF RemovalKeepsFocus, KeepsFocus
<1> QED BY <1>1, <1>2, <1>3, PTL DEF TreeSpec

\* A new pane is put next to the pane it was asked for, on the side asked for.
THEOREM SplitCorrect == TreeSpec => SplitsWhatWasAsked
<1>1. TreeInit => TreeInv
  BY TreeInitInv
<1>2. TreeInv /\ [TreeNext]_treeVars => TreeInv' /\ [SplitsAsAsked]_treeVars
  BY TreeStep, TreeUnchanged
<1>3. SplitsWhatWasAsked <=> [][SplitsAsAsked]_treeVars
  BY DEF SplitsWhatWasAsked, SplitsAsAsked
<1> QED BY <1>1, <1>2, <1>3, PTL DEF TreeSpec

----------------------------------------------------------------------------
(* Sizes: what a cell more or less does to the room of every position.     *)

\* A size, that of the whole when it is asked for included.
Extent == [Axes -> Int]

\* The parts of a split fill its room.
FitsAt(t, p, whole) ==
    /\ NodeSize(t[p]) = Room(t, p, whole)
    /\ t[p].first[Other(t[p].dir)] = t[p].second[Other(t[p].dir)]

\* The room of a child is the part its parent gives it.
LEMMA RoomChild ==
    ASSUME NEW t, NEW q \in Position, NEW i \in {1, 2}, NEW whole
    PROVE  Room(t, Append(q, i), whole) = IF i = 1 THEN t[q].first ELSE t[q].second
<1>1. Append(q, i) # <<>>
  BY ChildIs
<1>2. Up(Append(q, i)) = q /\ Append(q, i)[Len(Append(q, i))] = i
  BY UpChild
<1> QED BY <1>1, <1>2 DEF Room

\* A position other than the root is a child.
LEMMA IsChild ==
    ASSUME NEW t, Shape(t), NEW p \in DOMAIN t, p # <<>>
    PROVE  \E q \in DOMAIN t : \E i \in {1, 2} :
              p = Append(q, i) /\ ~IsLeaf(t, q) /\ q \in Position /\ q = Up(p) /\ Len(p) = Len(q) + 1
<1>1. p \in Position /\ Up(p) \in DOMAIN t /\ ~IsLeaf(t, Up(p))
  BY AboveIs
<1>2. Up(p) \in Position /\ p[Len(p)] \in {1, 2} /\ p = Append(Up(p), p[Len(p)])
      /\ Len(p) \in Nat /\ Len(Up(p)) = Len(p) - 1
  BY <1>1, UpIs
<1> QED BY <1>1, <1>2

\* Rooms are sizes.
LEMMA RoomInt ==
    ASSUME NEW t, Shape(t), NEW p \in DOMAIN t, NEW whole \in Extent
    PROVE  /\ Room(t, p, whole) \in Extent /\ \A a \in Axes : Room(t, p, whole)[a] \in Int
           /\ p = <<>> => Room(t, p, whole) = whole
<1>1. CASE p = <<>>
  BY <1>1 DEF Room, Extent
<1>2. CASE p # <<>>
  <2>1. PICK q \in DOMAIN t, i \in {1, 2} : p = Append(q, i) /\ q \in Position
    BY <1>2, IsChild
  <2>2. Room(t, p, whole) = IF i = 1 THEN t[q].first ELSE t[q].second
    BY <2>1, RoomChild
  <2>3. t[q].first \in Size /\ t[q].second \in Size
    BY NodeIs
  <2> QED BY <1>2, <2>2, <2>3 DEF Size, Extent
<1> QED BY <1>1, <1>2

\* What FitsAt says, axis by axis.
LEMMA FitsAtIs ==
    ASSUME NEW t, Shape(t), NEW p \in DOMAIN t, ~IsLeaf(t, p), NEW whole \in Extent
    PROVE  FitsAt(t, p, whole) <=>
              \A b \in Axes :
                 /\ Room(t, p, whole)[b] = IF b = t[p].dir THEN t[p].first[b] + t[p].second[b] + 1
                                                           ELSE t[p].first[b]
                 /\ b # t[p].dir => t[p].first[b] = t[p].second[b]
<1>1. t[p].dir \in Axes
  BY NodeIs
<1>2. Room(t, p, whole) \in Extent
  BY RoomInt
<1>3. Room(t, p, whole) = [b \in Axes |-> Room(t, p, whole)[b]]
  BY <1>2 DEF Extent
<1>4. NodeSize(t[p]) = [b \in Axes |-> IF b = t[p].dir THEN t[p].first[b] + t[p].second[b] + 1
                                                       ELSE t[p].first[b]]
  BY DEF NodeSize
<1>5. Other(t[p].dir) \in Axes /\ Other(t[p].dir) # t[p].dir
      /\ \A b \in Axes : b = t[p].dir \/ b = Other(t[p].dir)
  BY <1>1, AxesAre
<1>6. NodeSize(t[p]) = Room(t, p, whole) <=>
        \A b \in Axes : Room(t, p, whole)[b] = IF b = t[p].dir THEN t[p].first[b] + t[p].second[b] + 1
                                                               ELSE t[p].first[b]
  BY <1>3, <1>4
<1> QED BY <1>5, <1>6 DEF FitsAt

\* A tree fits if all its splits do.
LEMMA FitsIs ==
    ASSUME NEW t, NEW whole
    PROVE  Fits(t, whole) <=> \A p \in DOMAIN t : IsLeaf(t, p) \/ FitsAt(t, p, whole)
BY DEF Fits, FitsAt, Leaves

\* What is above a child.
LEMMA AboveChild ==
    ASSUME NEW r \in Position, NEW q \in Position, NEW i \in {1, 2}
    PROVE  /\ Above(r, Append(q, i)) <=> Above(r, q) \/ r = q
           /\ Above(r, q) => Append(q, i)[Len(r) + 1] = q[Len(r) + 1]
           /\ ~Above(q, q)
           /\ Append(q, i)[Len(q) + 1] = i
<1>1. /\ Append(q, i) \in Position /\ Len(Append(q, i)) = Len(q) + 1
      /\ \A j \in 1..Len(q) : Append(q, i)[j] = q[j]
      /\ Append(q, i)[Len(q) + 1] = i
  BY ChildIs
<1>2. Len(q) \in Nat /\ Len(r) \in Nat
  BY PositionIs
<1>3. ASSUME Above(r, Append(q, i)) PROVE Above(r, q) \/ r = q
  <2>1. Len(r) <= Len(q) /\ \A j \in 1..Len(r) : r[j] = Append(q, i)[j]
    BY <1>1, <1>2, <1>3 DEF Above, Under
  <2>2. \A j \in 1..Len(r) : r[j] = q[j]
    BY <1>1, <1>2, <2>1
  <2>3. Len(r) = Len(q) => r = q
    BY <2>2, SamePosition
  <2> QED BY <1>2, <2>1, <2>2, <2>3 DEF Above, Under
<1>4. ASSUME Above(r, q) \/ r = q PROVE Above(r, Append(q, i))
  <2>1. Len(r) <= Len(q) /\ \A j \in 1..Len(r) : r[j] = q[j]
    BY <1>2, <1>4 DEF Above, Under
  <2>2. \A j \in 1..Len(r) : r[j] = Append(q, i)[j]
    BY <1>1, <1>2, <2>1
  <2> QED BY <1>1, <1>2, <2>1, <2>2 DEF Above, Under
<1>5. ASSUME Above(r, q) PROVE Append(q, i)[Len(r) + 1] = q[Len(r) + 1]
  <2>1. Len(r) + 1 \in 1..Len(q)
    BY <1>2, <1>5 DEF Above
  <2> QED BY <1>1, <2>1
<1>6. ~Above(q, q)
  BY <1>2 DEF Above
<1> QED BY <1>1, <1>3, <1>4, <1>5, <1>6

\* A cell comes to a child if it comes to the parent, and that passes it on.
LEMMA CellReaches ==
    ASSUME NEW t, Shape(t), NEW q \in DOMAIN t, NEW i \in {1, 2}, NEW a, NEW k, NEW n
    PROVE  Reached(t, Append(q, i), a, k, n) <=>
              /\ Reached(t, q, a, k, n)
              /\ IF t[q].dir = a THEN i = Side(t, q, a, k, n) ELSE Yields(t, q, a, k)
<1> DEFINE c == Append(q, i)
           passes(r, p) == IF t[r].dir = a THEN p[Len(r) + 1] = Side(t, r, a, k, n)
                                           ELSE Yields(t, r, a, k)
<1>1. q \in Position /\ \A r \in DOMAIN t : r \in Position
  BY DEF Shape
<1>2. Reached(t, c, a, k, n) <=> \A r \in DOMAIN t : Above(r, c) => passes(r, c)
  BY DEF Reached
<1>3. Reached(t, q, a, k, n) <=> \A r \in DOMAIN t : Above(r, q) => passes(r, q)
  BY DEF Reached
<1>4. \A r \in DOMAIN t : /\ Above(r, c) <=> Above(r, q) \/ r = q
                          /\ Above(r, q) => c[Len(r) + 1] = q[Len(r) + 1]
  BY <1>1, AboveChild
<1>5. c[Len(q) + 1] = i
  BY <1>1, AboveChild
<1> HIDE DEF c
<1>6. \A r \in DOMAIN t : Above(r, q) => (passes(r, c) <=> passes(r, q))
  BY <1>4
<1>7. passes(q, c) <=> IF t[q].dir = a THEN i = Side(t, q, a, k, n) ELSE Yields(t, q, a, k)
  BY <1>5
<1> HIDE DEF passes
<1>8. Reached(t, c, a, k, n) <=> Reached(t, q, a, k, n) /\ passes(q, c)
  BY <1>2, <1>3, <1>4, <1>6
<1> QED BY <1>7, <1>8 DEF c

\* v is u after one cell, where every split had what it was asked for.
CellGiven(u, v, a, k, n) ==
    \A p \in DOMAIN u :
        IF IsLeaf(u, p) \/ ~Reached(u, p, a, k, n) THEN v[p] = u[p]
        ELSE IF u[p].dir = a
        THEN \A b \in Axes :
                /\ v[p].first[b] = IF b = a /\ Side(u, p, a, k, n) = 1
                                   THEN u[p].first[b] + k ELSE u[p].first[b]
                /\ v[p].second[b] = IF b = a /\ Side(u, p, a, k, n) # 1
                                    THEN u[p].second[b] + k ELSE u[p].second[b]
        ELSE /\ Yields(u, p, a, k)
             /\ \A b \in Axes :
                /\ v[p].first[b] = IF b = a THEN u[p].first[b] + k ELSE u[p].first[b]
                /\ v[p].second[b] = IF b = a THEN u[p].first[b] + k ELSE u[p].second[b]

\* That is what AdjustByCell does, unless it hangs or comes short.
LEMMA ByCellGives ==
    ASSUME NEW t, Shape(t), NEW x \in Resized(t), NEW a \in Axes, NEW k \in {1, -1}, NEW n \in Nat,
           NEW z, z = AdjustByCell(x, a, k, n), ~z.hung, ~z.short
    PROVE  ~x.hung /\ ~x.short /\ CellGiven(x.tree, z.tree, a, k, n)
<1> DEFINE u == x.tree
           reached == {p \in DOMAIN u : ~IsLeaf(u, p) /\ Reached(u, p, a, k, n)}
           grown(p) ==
               LET node == u[p] IN
               IF node.dir # a
               THEN IF Yields(u, p, a, k)
                    THEN Split(node.dir, [node.first EXCEPT ![a] = @ + k],
                                         [node.second EXCEPT ![a] = node.first[a] + k])
                    ELSE node
               ELSE IF Side(u, p, a, k, n) = 1
               THEN Split(a, [node.first EXCEPT ![a] = @ + k], node.second)
               ELSE Split(a, node.first, [node.second EXCEPT ![a] = @ + k])
           stuck == \E p \in reached : /\ u[p].dir = a
                                       /\ ~HasCell(u[p].first, a, k) /\ ~HasCell(u[p].second, a, k)
           new == [p \in DOMAIN u |-> IF p \in reached THEN grown(p) ELSE u[p]]
           short == x.short \/ \E p \in reached : u[p].dir # a /\ ~Yields(u, p, a, k)
<1>1. u \in [DOMAIN t -> Node] /\ Alike(t, u) /\ x.hung \in BOOLEAN /\ x.short \in BOOLEAN
      /\ x \in [tree : {u}, hung : BOOLEAN, short : BOOLEAN]
  BY DEF Resized
<1>2. Shape(u)
  BY <1>1, AlikeIs
<1>3. z = IF x.hung THEN x
          ELSE IF stuck THEN [x EXCEPT !.hung = TRUE]
          ELSE [x EXCEPT !.tree = new, !.short = short]
  BY DEF AdjustByCell
<1>4. \A p \in DOMAIN u : IF IsLeaf(u, p) \/ ~Reached(u, p, a, k, n) THEN new[p] = u[p]
                          ELSE new[p] = grown(p) /\ (u[p].dir # a /\ ~Yields(u, p, a, k) => short)
  OBVIOUS
<1>5. x.short => short
  OBVIOUS
<1> HIDE DEF new, short, stuck
<1>6. ~x.hung /\ ~stuck
  BY <1>1, <1>3
<1>7. z.tree = new /\ ~short
  BY <1>1, <1>3, <1>6
<1>8. ASSUME NEW p \in DOMAIN u, ~IsLeaf(u, p), Reached(u, p, a, k, n)
      PROVE  IF u[p].dir = a
             THEN \A b \in Axes :
                     /\ new[p].first[b] = IF b = a /\ Side(u, p, a, k, n) = 1
                                          THEN u[p].first[b] + k ELSE u[p].first[b]
                     /\ new[p].second[b] = IF b = a /\ Side(u, p, a, k, n) # 1
                                           THEN u[p].second[b] + k ELSE u[p].second[b]
             ELSE /\ Yields(u, p, a, k)
                  /\ \A b \in Axes :
                     /\ new[p].first[b] = IF b = a THEN u[p].first[b] + k ELSE u[p].first[b]
                     /\ new[p].second[b] = IF b = a THEN u[p].first[b] + k ELSE u[p].second[b]
  <2>1. new[p] = grown(p)
    BY <1>4, <1>8
  <2>2. u[p].dir # a => Yields(u, p, a, k)
    BY <1>4, <1>7, <1>8
  <2>3. u[p].first \in Size /\ u[p].second \in Size
    BY <1>2, NodeIs
  <2> DEFINE f == [u[p].first EXCEPT ![a] = @ + k]
             g == [u[p].second EXCEPT ![a] = u[p].first[a] + k]
             s == [u[p].second EXCEPT ![a] = @ + k]
  <2>4. /\ \A b \in Axes : f[b] = IF b = a THEN u[p].first[b] + k ELSE u[p].first[b]
        /\ \A b \in Axes : g[b] = IF b = a THEN u[p].first[b] + k ELSE u[p].second[b]
        /\ \A b \in Axes : s[b] = IF b = a THEN u[p].second[b] + k ELSE u[p].second[b]
    BY <2>3 DEF Size
  <2>5. u[p].dir # a => new[p].first = f /\ new[p].second = g
    BY <2>1, <2>2 DEF Split
  <2>6. u[p].dir = a /\ Side(u, p, a, k, n) = 1 => new[p].first = f /\ new[p].second = u[p].second
    BY <2>1 DEF Split
  <2>7. u[p].dir = a /\ Side(u, p, a, k, n) # 1 => new[p].first = u[p].first /\ new[p].second = s
    BY <2>1 DEF Split
  <2> HIDE DEF f, g, s, grown, reached, u
  <2>8. CASE u[p].dir = a /\ Side(u, p, a, k, n) = 1
    BY <2>4, <2>6, <2>8
  <2>9. CASE u[p].dir = a /\ Side(u, p, a, k, n) # 1
    BY <2>4, <2>7, <2>9
  <2>10. CASE u[p].dir # a
    BY <2>2, <2>4, <2>5, <2>10
  <2> QED BY <2>8, <2>9, <2>10
<1> HIDE DEF grown, reached
<1>9. CellGiven(u, new, a, k, n)
  <2> HIDE DEF u
  <2> QED BY <1>4, <1>8 DEF CellGiven
<1> QED BY <1>5, <1>6, <1>7, <1>9

\* Whole and part are a cell larger or smaller along an axis.
GrownBy(s, w, a, d) == w \in Extent /\ \A b \in Axes : w[b] = IF b = a THEN s[b] + d ELSE s[b]

\* The room of a position grows if the cell comes to it.
LEMMA CellRoom ==
    ASSUME NEW u, Shape(u), NEW v, Shape(v), DOMAIN v = DOMAIN u,
           NEW a \in Axes, NEW k \in {1, -1}, NEW n \in Nat, CellGiven(u, v, a, k, n),
           NEW whole \in Extent, Fits(u, whole), NEW larger, GrownBy(whole, larger, a, k),
           NEW p \in DOMAIN u
    PROVE  \A b \in Axes : Room(v, p, larger)[b] =
              IF b = a /\ Reached(u, p, a, k, n) THEN Room(u, p, whole)[b] + k ELSE Room(u, p, whole)[b]
<1>1. CASE p = <<>>
  <2>1. Reached(u, p, a, k, n)
    <3>1. \A r \in DOMAIN u : ~Above(r, p)
      <4>1. \A r \in DOMAIN u : r \in Position
        BY DEF Shape
      <4> QED BY <1>1, <4>1, PositionIs, RootIs DEF Above
    <3> QED BY <3>1 DEF Reached
  <2>2. Room(v, p, larger) = larger /\ Room(u, p, whole) = whole
    BY <1>1 DEF Room
  <2> QED BY <2>1, <2>2 DEF GrownBy
<1>2. CASE p # <<>>
  <2>1. PICK q \in DOMAIN u, i \in {1, 2} : p = Append(q, i) /\ ~IsLeaf(u, q) /\ q \in Position
    BY <1>2, IsChild
  <2>2. /\ Room(u, p, whole) = IF i = 1 THEN u[q].first ELSE u[q].second
        /\ Room(v, p, larger) = IF i = 1 THEN v[q].first ELSE v[q].second
    BY <2>1, RoomChild
  <2>3. Reached(u, p, a, k, n) <=>
           /\ Reached(u, q, a, k, n)
           /\ IF u[q].dir = a THEN i = Side(u, q, a, k, n) ELSE Yields(u, q, a, k)
    BY <2>1, CellReaches
  <2>4. CASE ~Reached(u, q, a, k, n)
    <3>1. v[q] = u[q]
      BY <2>4 DEF CellGiven
    <3> QED BY <2>2, <2>3, <2>4, <3>1
  <2>5. CASE Reached(u, q, a, k, n) /\ u[q].dir = a
    <3>1. \A b \in Axes :
                /\ v[q].first[b] = IF b = a /\ Side(u, q, a, k, n) = 1
                                   THEN u[q].first[b] + k ELSE u[q].first[b]
                /\ v[q].second[b] = IF b = a /\ Side(u, q, a, k, n) # 1
                                    THEN u[q].second[b] + k ELSE u[q].second[b]
      BY <2>1, <2>5 DEF CellGiven
    <3>2. Side(u, q, a, k, n) \in {1, 2}
      BY DEF Side
    <3>3. Reached(u, p, a, k, n) <=> i = Side(u, q, a, k, n)
      BY <2>3, <2>5
    <3>4. CASE i = 1
      BY <2>2, <3>1, <3>2, <3>3, <3>4
    <3>5. CASE i = 2
      BY <2>2, <3>1, <3>2, <3>3, <3>5
    <3> QED BY <3>4, <3>5
  <2>6. CASE Reached(u, q, a, k, n) /\ u[q].dir # a
    <3>1. /\ Yields(u, q, a, k)
          /\ \A b \in Axes :
                /\ v[q].first[b] = IF b = a THEN u[q].first[b] + k ELSE u[q].first[b]
                /\ v[q].second[b] = IF b = a THEN u[q].first[b] + k ELSE u[q].second[b]
      BY <2>1, <2>6 DEF CellGiven
    <3>2. u[q].first[a] = u[q].second[a]
      <4>1. FitsAt(u, q, whole)
        BY <2>1, FitsIs
      <4> QED BY <2>1, <2>6, <4>1, FitsAtIs
    <3>3. Reached(u, p, a, k, n)
      BY <2>3, <2>6, <3>1
    <3> QED BY <2>2, <3>1, <3>2, <3>3
  <2> QED BY <2>4, <2>5, <2>6
<1> QED BY <1>1, <1>2

\* A tree that fits its room fits one that is a cell larger.
LEMMA CellFits ==
    ASSUME NEW u, Shape(u), NEW v, Alike(u, v),
           NEW a \in Axes, NEW k \in {1, -1}, NEW n \in Nat, CellGiven(u, v, a, k, n),
           NEW whole \in Extent, Fits(u, whole), NEW larger, GrownBy(whole, larger, a, k)
    PROVE  Fits(v, larger)
<1>1. Shape(v) /\ DOMAIN v = DOMAIN u /\ larger \in Extent
  BY AlikeIs DEF Alike, GrownBy
<1>2. ASSUME NEW p \in DOMAIN v, ~IsLeaf(v, p) PROVE FitsAt(v, p, larger)
  <2>1. p \in DOMAIN u /\ ~IsLeaf(u, p) /\ v[p].dir = u[p].dir /\ u[p].dir \in Axes
    BY <1>1, <1>2, AlikeIs, NodeIs DEF Alike
  <2>2. \A b \in Axes : Room(v, p, larger)[b] =
           IF b = a /\ Reached(u, p, a, k, n) THEN Room(u, p, whole)[b] + k ELSE Room(u, p, whole)[b]
    BY <1>1, <2>1, CellRoom
  <2>3. \A b \in Axes :
                 /\ Room(u, p, whole)[b] = IF b = u[p].dir THEN u[p].first[b] + u[p].second[b] + 1
                                                           ELSE u[p].first[b]
                 /\ b # u[p].dir => u[p].first[b] = u[p].second[b]
    <3>1. FitsAt(u, p, whole)
      BY <2>1, FitsIs
    <3> QED BY <2>1, <3>1, FitsAtIs
  <2>4. \A b \in Axes : u[p].first[b] \in Nat /\ u[p].second[b] \in Nat /\ k \in Int
    BY <2>1, NodeIs
  <2>5. \A b \in Axes :
                 /\ Room(v, p, larger)[b] = IF b = u[p].dir THEN v[p].first[b] + v[p].second[b] + 1
                                                            ELSE v[p].first[b]
                 /\ b # u[p].dir => v[p].first[b] = v[p].second[b]
    <3>1. CASE ~Reached(u, p, a, k, n)
      <4>1. v[p] = u[p]
        BY <2>1, <3>1 DEF CellGiven
      <4> QED BY <2>2, <2>3, <3>1, <4>1
    <3>2. CASE Reached(u, p, a, k, n) /\ u[p].dir = a
      <4>1. \A b \in Axes :
                /\ v[p].first[b] = IF b = a /\ Side(u, p, a, k, n) = 1
                                   THEN u[p].first[b] + k ELSE u[p].first[b]
                /\ v[p].second[b] = IF b = a /\ Side(u, p, a, k, n) # 1
                                    THEN u[p].second[b] + k ELSE u[p].second[b]
        BY <2>1, <3>2 DEF CellGiven
      <4> QED BY <2>2, <2>3, <2>4, <3>2, <4>1
    <3>3. CASE Reached(u, p, a, k, n) /\ u[p].dir # a
      <4>1. \A b \in Axes :
                /\ v[p].first[b] = IF b = a THEN u[p].first[b] + k ELSE u[p].first[b]
                /\ v[p].second[b] = IF b = a THEN u[p].first[b] + k ELSE u[p].second[b]
        BY <2>1, <3>3 DEF CellGiven
      <4> QED BY <2>2, <2>3, <2>4, <3>3, <4>1
    <3> QED BY <3>1, <3>2, <3>3
  <2> QED BY <1>1, <1>2, <2>1, <2>5, FitsAtIs
<1> QED BY <1>2, FitsIs

\* A tree to which d cells are handed out, and which neither hangs nor comes short, fits
\* a room that is larger by d.
LEMMA AdjustSizeFits ==
    ASSUME NEW t, Shape(t), NEW x \in Resized(t), NEW a \in Axes, NEW d \in Int,
           NEW whole \in Extent, ~x.hung /\ ~x.short => Fits(x.tree, whole),
           NEW z, z = AdjustSize(x, a, d), ~z.hung, ~z.short,
           NEW larger, GrownBy(whole, larger, a, d)
    PROVE  ~x.hung /\ ~x.short /\ Fits(z.tree, larger)
<1> DEFINE k == OneUp(d)
           Larger(n) == [b \in Axes |-> IF b = a THEN whole[b] + k * n ELSE whole[b]]
<1>1. PICK f : HandsOut(t, x, a, d, f)
  BY AdjustSteps
<1>2. k \in {1, -1} /\ k * d \in Nat /\ k * (k * d) = d
  BY DEF OneUp
<1>3. /\ f \in [Nat -> Resized(t)] /\ f[0] = x /\ z = f[k * d]
      /\ \A n \in Nat : f[n + 1] = AdjustByCell(f[n], a, k, n + 1)
  BY <1>1 DEF HandsOut
<1> HIDE DEF k
<1>4. \A n \in Nat : Larger(n) \in Extent /\ GrownBy(Larger(n), Larger(n + 1), a, k)
  <2>1. ASSUME NEW n \in Nat, NEW b \in Axes
        PROVE  whole[b] \in Int /\ whole[b] + k * n \in Int /\ whole[b] + k * (n + 1) = (whole[b] + k * n) + k
               /\ whole[b] + k * (n + 1) \in Int
    BY <1>2 DEF Extent
  <2>2. ASSUME NEW n \in Nat PROVE Larger(n) \in Extent
    BY <2>1 DEF Extent
  <2>3. ASSUME NEW n \in Nat
        PROVE  Larger(n + 1) \in Extent /\ \A b \in Axes : Larger(n + 1)[b] = IF b = a THEN Larger(n)[b] + k
                                                                              ELSE Larger(n)[b]
    <3>1. n + 1 \in Nat
      OBVIOUS
    <3> QED BY <2>1, <2>2, <3>1
  <2> HIDE DEF Larger
  <2> QED BY <2>2, <2>3 DEF GrownBy
<1>5. Larger(0) = whole
  <2>1. \A b \in Axes : whole[b] + k * 0 = whole[b]
    BY <1>2 DEF Extent
  <2> QED BY <2>1 DEF Extent
<1>6. Larger(k * d) = larger
  <2>1. \A b \in Axes : larger[b] = IF b = a THEN whole[b] + d ELSE whole[b]
    BY DEF GrownBy
  <2>2. larger = [b \in Axes |-> larger[b]]
    BY DEF GrownBy, Extent
  <2> QED BY <1>2, <2>1, <2>2
<1> HIDE DEF Larger
<1> DEFINE T == {n \in Nat : ~f[n].hung /\ ~f[n].short =>
                                ~x.hung /\ ~x.short /\ Fits(f[n].tree, Larger(n))}
<1>7. 0 \in T
  BY <1>3, <1>5
<1>8. ASSUME NEW n \in T PROVE n + 1 \in T
  <2>1. n \in Nat /\ n + 1 \in Nat /\ f[n] \in Resized(t) /\ f[n + 1] \in Resized(t)
    BY <1>3
  <2>2. SUFFICES ASSUME ~f[n + 1].hung, ~f[n + 1].short
                 PROVE  ~x.hung /\ ~x.short /\ Fits(f[n + 1].tree, Larger(n + 1))
    BY <2>1
  <2>3. f[n + 1] = AdjustByCell(f[n], a, k, n + 1)
    BY <1>3, <2>1
  <2>4. ~f[n].hung /\ ~f[n].short /\ CellGiven(f[n].tree, f[n + 1].tree, a, k, n + 1)
    BY <1>2, <2>1, <2>2, <2>3, ByCellGives
  <2>5. ~x.hung /\ ~x.short /\ Fits(f[n].tree, Larger(n))
    BY <2>4
  <2>6. Alike(t, f[n].tree) /\ Alike(t, f[n + 1].tree)
    BY <2>1 DEF Resized
  <2>7. Shape(f[n].tree) /\ Alike(f[n].tree, f[n + 1].tree)
    <3>1. Shape(f[n].tree) /\ \A p \in DOMAIN t : IsLeaf(f[n].tree, p) <=> IsLeaf(t, p)
      BY <2>6, AlikeIs
    <3> QED BY <2>6, <3>1 DEF Alike
  <2>8. Larger(n) \in Extent /\ GrownBy(Larger(n), Larger(n + 1), a, k)
    BY <1>4, <2>1
  <2>9. Fits(f[n + 1].tree, Larger(n + 1))
    BY <1>2, <2>1, <2>4, <2>5, <2>7, <2>8, CellFits
  <2> QED BY <2>5, <2>9
<1>9. T = Nat
  <2>1. T \in SUBSET Nat
    OBVIOUS
  <2> HIDE DEF T
  <2> QED BY <1>7, <1>8, <2>1, SetInduction
<1>10. k * d \in T
  BY <1>2, <1>9
<1> QED BY <1>3, <1>6, <1>10

\* The size that the tree of a tab was made for.
Whole(y) == IF y.zoomed = None THEN y.size ELSE y.before

\* The panes but one know the room that they are drawn in.
PtyFits(y, whole, but) ==
    \A p \in Leaves(y.tree) :
        y.tree[p].pane # but => y.pty[y.tree[p].pane] = Room(y.tree, p, whole)

\* What SizesAddUp says of a tab.
Adds(y) == Fits(y.tree, Whole(y)) /\ PtyFits(y, Whole(y), y.zoomed)
ZoomTold(y) == y.zoomed # None => y.pty[y.zoomed] = y.size

\* What comes of an operation leaves the sizes right, or marks them as astray.
AddsAfter(z) == ~z.hung /\ "sizes" \notin z.astray => Adds(z.tab) /\ ZoomTold(z.tab)

\* Sizes are extents.
LEMMA SizeIsExtent == Size \subseteq Extent
BY DEF Size, Extent

\* Telling the panes their rooms tells them the right ones.
LEMMA ApplySizesFits ==
    ASSUME NEW y, TabState(y), y.zoomed = None, Fits(y.tree, y.size)
    PROVE  Adds(ApplySizes(y)) /\ ZoomTold(ApplySizes(y))
<1> DEFINE pty == [x \in Pane |-> IF x \in Shown(y.tree)
                                  THEN Room(y.tree, LeafOf(y.tree, x), y.size) ELSE y.pty[x]]
           z == ApplySizes(y)
<1>1. /\ Shape(y.tree)
      /\ y \in [tree : {y.tree}, size : Size, before : Size, active : Nat,
                zoomed : {None} \cup Shown(y.tree), pty : [Pane -> Size]]
      /\ Shown(y.tree) \subseteq Pane
  BY TabIs
<1>2. z = [y EXCEPT !.pty = pty]
  BY DEF ApplySizes
<1>3. ASSUME NEW p \in Leaves(y.tree)
      PROVE  pty[y.tree[p].pane] = Room(y.tree, p, y.size)
  <2>1. y.tree[p].pane \in Shown(y.tree) /\ LeafOf(y.tree, y.tree[p].pane) = p
    BY <1>1, LeafOfIs
  <2> QED BY <1>1, <2>1
<1> HIDE DEF pty
<1>4. z.tree = y.tree /\ z.size = y.size /\ z.zoomed = None /\ z.pty = pty
  BY <1>1, <1>2
<1> HIDE DEF z
<1>5. Adds(z) /\ ZoomTold(z)
  BY <1>3, <1>4 DEF Adds, PtyFits, Whole, ZoomTold
<1> QED BY <1>5 DEF z

\* Resizing keeps the sizes right.
LEMMA ResizeFits ==
    ASSUME NEW y, TabState(y), DOMAIN y.tree # {}, NEW size \in Size,
           y.zoomed = None => Fits(y.tree, y.size), y.zoomed # None => Adds(y)
    PROVE  AddsAfter(Resize(y, size))
<1> DEFINE w == Resize(y, size)
<1>1. /\ Shape(y.tree) /\ y.size \in Size /\ y.before \in Size /\ y.active \in Nat
      /\ y.zoomed \in {None} \cup Shown(y.tree) /\ y.pty \in [Pane -> Size]
      /\ Shown(y.tree) \subseteq Pane /\ None \notin Pane
      /\ y \in [tree : {y.tree}, size : Size, before : Size, active : Nat,
                zoomed : {None} \cup Shown(y.tree), pty : [Pane -> Size]]
  BY TabIs
<1>2. CASE y.zoomed # None
  <2> DEFINE z == [y EXCEPT !.size = size, !.pty[y.zoomed] = size]
  <2>1. w = Just(z) /\ Just(z).tab = z
    BY <1>2 DEF Resize, Just
  <2>2. /\ z.tree = y.tree /\ z.before = y.before /\ z.zoomed = y.zoomed /\ z.size = size
        /\ z.pty[y.zoomed] = size /\ \A x \in Pane : x # y.zoomed => z.pty[x] = y.pty[x]
    BY <1>1, <1>2
  <2> HIDE DEF z, w
  <2>3. \A p \in Leaves(y.tree) : y.tree[p].pane \in Pane
    BY <1>1, LeafOfIs
  <2>4. Adds(z) /\ ZoomTold(z)
    BY <1>2, <2>2, <2>3 DEF Adds, PtyFits, Whole, ZoomTold
  <2> QED BY <2>1, <2>4 DEF AddsAfter, w
<1>3. CASE y.zoomed = None
  <2> DEFINE new == [a \in Axes |-> Biggest(size[a], MinSizes(y.tree, a)[<<>>])]
             v == [tree |-> y.tree, hung |-> FALSE, short |-> FALSE]
             x == AdjustSize(v, Cols, new[Cols] - y.size[Cols])
             z == AdjustSize(x, Rows, new[Rows] - y.size[Rows])
             s == [y EXCEPT !.tree = z.tree, !.size = new]
             wide == [y.size EXCEPT ![Cols] = new[Cols]]
  <2>1. w = [tab |-> ApplySizes(s), hung |-> z.hung, astray |-> Strays("sizes", z.short)]
    BY <1>3 DEF Resize
  <2>2. new \in Size
    <3>1. \A a \in Axes : size[a] \in Nat /\ MinSizes(y.tree, a)[<<>>] \in Nat
      <4>1. <<>> \in DOMAIN y.tree
        BY <1>1 DEF Shape
      <4> QED BY <1>1, <4>1, MinSizesAre DEF Size
    <3> QED BY <3>1 DEF Size, Biggest
  <2> HIDE DEF new
  <2>3. v \in Resized(y.tree) /\ v.tree = y.tree /\ v.hung = FALSE /\ v.short = FALSE
    BY <1>1, AlikeSelf DEF Resized, Shape
  <2> HIDE DEF v
  <2>4. new[Cols] - y.size[Cols] \in Int /\ new[Rows] - y.size[Rows] \in Int
        /\ Cols \in Axes /\ Rows \in Axes /\ Cols # Rows /\ \A b \in Axes : b = Cols \/ b = Rows
    BY <1>1, <2>2 DEF Size, Axes, Cols, Rows
  <2>5. x \in Resized(y.tree)
    BY <1>1, <2>3, <2>4, AdjustSizeKeeps
  <2>6. z \in Resized(y.tree)
    BY <1>1, <2>4, <2>5, AdjustSizeKeeps
  <2>7. /\ wide \in Extent /\ GrownBy(y.size, wide, Cols, new[Cols] - y.size[Cols])
        /\ GrownBy(wide, new, Rows, new[Rows] - y.size[Rows])
    <3>1. \A b \in Axes : y.size[b] \in Nat /\ new[b] \in Nat
      BY <1>1, <2>2 DEF Size
    <3>2. wide \in [Axes -> Nat] /\ wide[Cols] = new[Cols] /\ wide[Rows] = y.size[Rows]
      BY <1>1, <2>4, <3>1 DEF Size
    <3>3. wide \in Extent /\ new \in Extent
      BY <2>2, <3>2 DEF Extent, Size
    <3> HIDE DEF wide
    <3> QED BY <2>4, <3>1, <3>2, <3>3 DEF GrownBy
  <2> HIDE DEF wide
  <2>8. ASSUME ~z.hung, ~z.short PROVE Fits(z.tree, new)
    <3>1. y.size \in Extent /\ Fits(y.tree, y.size)
      BY <1>1, <1>3, SizeIsExtent
    <3>2. ~x.hung /\ ~x.short => Fits(x.tree, wide)
      BY <1>1, <2>3, <2>4, <2>7, <3>1, AdjustSizeFits
    <3> HIDE DEF x
    <3> QED BY <1>1, <2>4, <2>5, <2>7, <2>8, <3>2, AdjustSizeFits
  <2> HIDE DEF x, z
  <2>9. Alike(y.tree, z.tree) /\ z.hung \in BOOLEAN /\ z.short \in BOOLEAN
    BY <2>6 DEF Resized
  <2>10. Shape(z.tree) /\ Shown(z.tree) = Shown(y.tree)
    BY <1>1, <2>9, AlikeIs
  <2>11. TabState(s) /\ s.tree = z.tree /\ s.size = new /\ s.zoomed = None
    BY <1>1, <1>3, <2>2, <2>10 DEF TabState
  <2> HIDE DEF s, w
  <2>12. w.tab = ApplySizes(s) /\ w.hung = z.hung /\ w.astray = Strays("sizes", z.short)
    BY <2>1
  <2>13. SUFFICES ASSUME ~w.hung, "sizes" \notin w.astray PROVE Adds(w.tab) /\ ZoomTold(w.tab)
    BY DEF AddsAfter, w
  <2>14. ~z.hung /\ ~z.short
    BY <2>12, <2>13 DEF Strays
  <2> QED BY <2>8, <2>11, <2>12, <2>14, ApplySizesFits
<1> QED BY <1>2, <1>3

\* Unzooming does, and zooming.
LEMMA ZoomFits ==
    ASSUME NEW y, TabState(y), DOMAIN y.tree # {}, Adds(y)
    PROVE  /\ AddsAfter(ToggleZoom(y))
           /\ ~Unzoomed(y).hung /\ "sizes" \notin Unzoomed(y).astray => Adds(Unzoomed(y).tab)
           /\ Unzoomed(y).tab.zoomed = None
<1>1. /\ Shape(y.tree) /\ y.size \in Size /\ y.before \in Size /\ y.active \in Nat
      /\ y.zoomed \in {None} \cup Shown(y.tree) /\ y.pty \in [Pane -> Size]
      /\ Shown(y.tree) \subseteq Pane /\ None \notin Pane
      /\ y \in [tree : {y.tree}, size : Size, before : Size, active : Nat,
                zoomed : {None} \cup Shown(y.tree), pty : [Pane -> Size]]
  BY TabIs
<1>2. ASSUME y.zoomed # None PROVE AddsAfter(ToggleZoom(y))
  <2> DEFINE s == [y EXCEPT !.zoomed = None, !.size = y.before, !.before = Nothing]
  <2>1. ToggleZoom(y) = Resize(s, y.size)
    BY <1>2 DEF ToggleZoom
  <2>2. TabState(s) /\ s.tree = y.tree /\ s.size = y.before /\ s.zoomed = None
    BY <1>1 DEF TabState, Nothing, Size
  <2> HIDE DEF s
  <2>3. Fits(s.tree, s.size)
    BY <1>2, <2>2 DEF Adds, Whole
  <2> QED BY <1>1, <2>1, <2>2, <2>3, ResizeFits
<1>3. ASSUME y.zoomed = None PROVE AddsAfter(ToggleZoom(y))
  <2> DEFINE x == ActivePane(y)
             s == IF x = None THEN y ELSE [y EXCEPT !.before = y.size, !.zoomed = x, !.pty[x] = y.size]
  <2>1. ToggleZoom(y) = Just(s) /\ Just(s).tab = s
    BY <1>3 DEF ToggleZoom, Zoom, Just
  <2>2. /\ TabState(ToggleZoom(y).tab) /\ ToggleZoom(y).tab.tree = y.tree
        /\ ToggleZoom(y).tab.zoomed =
              IF y.active < Count(y.tree) THEN PaneAt(y.tree, y.active) ELSE None
    BY <1>3, ZoomKeeps
  <2>3. x = IF y.active < Count(y.tree) THEN PaneAt(y.tree, y.active) ELSE None
    BY <1>3 DEF ActivePane
  <2>4. TabState(s) /\ s.zoomed = x /\ s.tree = y.tree
    BY <2>1, <2>2, <2>3
  <2>5. x \in {None} \cup Shown(y.tree)
    BY <2>4, TabIs
  <2> HIDE DEF x
  <2>6. Adds(s) /\ ZoomTold(s)
    <3>1. CASE x = None
      BY <1>3, <3>1 DEF ZoomTold
    <3>2. CASE x # None
      <4>1. /\ s.before = y.size /\ s.size = y.size /\ s.pty[x] = y.size
            /\ \A o \in Pane : o # x => s.pty[o] = y.pty[o]
        BY <1>1, <2>5, <3>2
      <4> HIDE DEF s
      <4>2. \A p \in Leaves(y.tree) : y.tree[p].pane \in Pane /\ y.tree[p].pane # None
        BY <1>1, LeafOfIs
      <4> QED BY <1>3, <2>4, <3>2, <4>1, <4>2 DEF Adds, PtyFits, Whole, ZoomTold
    <3> QED BY <3>1, <3>2
  <2> QED BY <2>1, <2>6 DEF AddsAfter
<1>4. CASE y.zoomed = None
  <2>1. Unzoomed(y) = Just(y) /\ Just(y).tab = y
    BY <1>4 DEF Unzoomed, Just
  <2> QED BY <1>3, <1>4, <2>1
<1>5. CASE y.zoomed # None
  <2>1. Unzoomed(y) = ToggleZoom(y)
    BY <1>5 DEF Unzoomed
  <2>2. Unzoomed(y).tab.zoomed = None
    BY UnzoomKeeps DEF Unzooms
  <2> QED BY <1>2, <1>5, <2>1, <2>2 DEF AddsAfter
<1> QED BY <1>4, <1>5

\* The two parts of a split that has space, and its line, are its room.
LEMMA DividedFits ==
    ASSUME NEW room \in Size, NEW r \in Requests, NEW info, info = Divided(room, r),
           \A a \in Axes : info.first[a] > 0 /\ info.second[a] > 0
    PROVE  \A b \in Axes :
              /\ room[b] = IF b = info.dir THEN info.first[b] + info.second[b] + 1 ELSE info.first[b]
              /\ b # info.dir => info.first[b] = info.second[b]
<1> DEFINE d == Divide(room[r.dir], r.portion, r.second)
           part(i) == [a \in Axes |-> IF a = r.dir THEN d[i] ELSE room[a]]
<1>1. r.dir \in Axes /\ r.second \in BOOLEAN /\ r.portion \in {"half", "cell"}
  BY TabTreeAssumption
<1>2. \A a \in Axes : room[a] \in Nat
  BY DEF Size
<1>3. info = Split(r.dir, part(1), part(2))
  BY DEF Divided, d
<1>4. info.dir = r.dir /\ info.first = part(1) /\ info.second = part(2)
  BY <1>3 DEF Split
<1>5. \A a \in Axes : /\ part(1)[a] = IF a = r.dir THEN d[1] ELSE room[a]
                      /\ part(2)[a] = IF a = r.dir THEN d[2] ELSE room[a]
  OBVIOUS
<1>6. d[1] > 0 /\ d[2] > 0
  <2> HIDE DEF part, d
  <2> QED BY <1>1, <1>4, <1>5
<1>7. room[r.dir] = d[1] + d[2] + 1
  BY <1>1, <1>2, <1>6 DEF Divide, Biggest
<1> HIDE DEF part, d
<1> QED BY <1>1, <1>4, <1>5, <1>7

\* Only a leaf that is the root is alone.
LEMMA AloneAtRoot ==
    ASSUME NEW t, Shape(t), NEW p \in Leaves(t), ~(Count(t) > 1)
    PROVE  p = <<>>
<1> SUFFICES ASSUME p # <<>> PROVE FALSE
  OBVIOUS
<1>1. PICK v : v = ClosedUp(t, p)
  OBVIOUS
<1>2. Shape(v) /\ Shown(v) = Shown(t) \ {t[p].pane}
  BY <1>1, ClosedUpShape
<1>3. DOMAIN v # {}
  BY <1>1, ClosedUpTop
<1>4. Leaves(v) # {}
  BY <1>2, <1>3, LeavesExist
<1>5. PICK o : o \in Shown(t) /\ o # t[p].pane
  <2>1. PICK q : q \in Leaves(v)
    BY <1>4
  <2>2. v[q].pane \in Shown(v)
    BY <2>1 DEF Shown
  <2> QED BY <1>2, <2>2
<1>6. t[p].pane \in Shown(t)
  BY LeafOfIs
<1>7. /\ Index(t, o) \in 0..(Count(t) - 1) /\ Index(t, t[p].pane) \in 0..(Count(t) - 1)
      /\ Index(t, o) # Index(t, t[p].pane) /\ Count(t) \in Nat
  BY <1>5, <1>6, IndexIs
<1> QED BY <1>7

\* A split of a leaf that has space keeps the sizes right.
LEMMA SplitLeafFits ==
    ASSUME NEW y, TabState(y), y.zoomed = None, Adds(y), NEW x \in Shown(y.tree), NEW r \in Requests,
           NEW new \in Pane \ Shown(y.tree),
           HasSpace(y, Divided(Room(y.tree, LeafOf(y.tree, x), y.size), r)),
           NEW z, z = SplitLeaf(y, x, r, new)
    PROVE  Adds(z)
<1> DEFINE t == y.tree
           u == z.tree
           W == y.size
<1>1. PICK p : p = LeafOf(t, x)
  OBVIOUS
<1>2. PICK info : info = Divided(Room(t, p, W), r)
  OBVIOUS
<1>3. PICK s : s = IF r.second THEN 2 ELSE 1
  OBVIOUS
<1>4. /\ Shape(t) /\ W \in Size /\ W \in Extent /\ r.second \in BOOLEAN /\ s \in {1, 2} /\ 3 - s \in {1, 2}
      /\ None \notin Pane /\ s # 3 - s
  BY <1>3, TabIs, SizeIsExtent, TabTreeAssumption
<1>5. p \in Leaves(t) /\ p \in DOMAIN t /\ t[p].pane = x /\ p \in Position
  BY <1>1, <1>4, LeafOfIs
<1>6. Room(t, p, W) \in Size
  BY <1>4, <1>5, RoomIs
<1>7. \A b \in Axes :
         /\ Room(t, p, W)[b] = IF b = info.dir THEN info.first[b] + info.second[b] + 1 ELSE info.first[b]
         /\ b # info.dir => info.first[b] = info.second[b]
  <2>1. \A a \in Axes : info.first[a] > 0 /\ info.second[a] > 0
    BY <1>1, <1>2 DEF HasSpace
  <2> QED BY <1>2, <1>6, <2>1, DividedFits
<1>8. SplitTo(y, x, r, new, z)
  BY SplitLeafIs
<1>9. /\ TabState(z) /\ z.zoomed = None /\ z.size = W
      /\ Splits(t, p, info, s, new, u)
      /\ z.pty = [o \in Pane |->
                    IF o = new THEN IF r.second THEN info.second ELSE info.first
                    ELSE IF o = x THEN IF r.second THEN info.first ELSE info.second
                    ELSE y.pty[o]]
  BY <1>1, <1>2, <1>3, <1>8 DEF SplitTo
<1>10. Shape(u)
  BY <1>9, TabIs
<1>11. /\ DOMAIN u = DOMAIN t \cup {Append(p, 1), Append(p, 2)}
       /\ u[p] = info /\ u[Append(p, s)] = Leaf(new) /\ u[Append(p, 3 - s)] = t[p]
       /\ \A q \in DOMAIN t : q # p => u[q] = t[q]
  BY <1>9 DEF Splits
<1>12. \A q \in DOMAIN u : q = Append(p, s) \/ q = Append(p, 3 - s) \/ q \in DOMAIN t
  BY <1>4, <1>11
<1>13. ASSUME NEW q \in DOMAIN t PROVE Room(u, q, W) = Room(t, q, W)
  <2>1. CASE q = <<>>
    BY <2>1 DEF Room
  <2>2. CASE q # <<>>
    <3>1. PICK o \in DOMAIN t, i \in {1, 2} : q = Append(o, i) /\ ~IsLeaf(t, o) /\ o \in Position
      BY <1>4, <2>2, IsChild
    <3>2. u[o] = t[o]
      BY <1>5, <1>11, <3>1 DEF Leaves
    <3>3. /\ Room(u, q, W) = IF i = 1 THEN u[o].first ELSE u[o].second
          /\ Room(t, q, W) = IF i = 1 THEN t[o].first ELSE t[o].second
      BY <3>1, RoomChild
    <3> QED BY <3>2, <3>3
  <2> QED BY <2>1, <2>2
<1>14. /\ Room(u, Append(p, 1), W) = info.first
       /\ Room(u, Append(p, 2), W) = info.second
  BY <1>5, <1>11, RoomChild
<1>15. x # None /\ new # None /\ x # new /\ x \in Pane
  BY <1>4, TabIs
<1>16. IsLeaf(u, Append(p, s)) /\ IsLeaf(u, Append(p, 3 - s))
  BY <1>5, <1>11, <1>15 DEF IsLeaf, Leaf
<1>17. Fits(t, W) /\ PtyFits(y, W, None)
  BY DEF Adds, Whole
<1>18. ASSUME NEW q \in DOMAIN u, ~IsLeaf(u, q) PROVE FitsAt(u, q, W)
  <2>1. q \in DOMAIN t
    BY <1>12, <1>16, <1>18
  <2>2. Room(u, q, W) = Room(t, q, W)
    BY <1>13, <2>1
  <2>3. CASE q = p
    BY <1>4, <1>7, <1>10, <1>11, <1>18, <2>2, <2>3, FitsAtIs
  <2>4. CASE q # p
    <3>1. u[q] = t[q]
      BY <1>11, <2>1, <2>4
    <3>2. FitsAt(t, q, W)
      BY <1>17, <1>18, <2>1, <3>1, FitsIs DEF IsLeaf
    <3> QED BY <2>2, <3>1, <3>2 DEF FitsAt
  <2> QED BY <2>3, <2>4
<1>19. ASSUME NEW q \in Leaves(u) PROVE z.pty[u[q].pane] = Room(u, q, W)
  <2>1. q \in DOMAIN u /\ IsLeaf(u, q)
    BY <1>19 DEF Leaves
  <2>2. CASE q = Append(p, s)
    <3>1. u[q].pane = new
      BY <1>11, <2>2 DEF Leaf
    <3>2. z.pty[new] = IF r.second THEN info.second ELSE info.first
      BY <1>9
    <3> QED BY <1>3, <1>14, <2>2, <3>1, <3>2
  <2>3. CASE q = Append(p, 3 - s)
    <3>1. u[q].pane = x
      BY <1>5, <1>11, <2>3
    <3>2. z.pty[x] = IF r.second THEN info.first ELSE info.second
      BY <1>9, <1>15
    <3>3. (3 - s) = IF r.second THEN 1 ELSE 2
      BY <1>3, <1>4
    <3> QED BY <1>4, <1>14, <2>3, <3>1, <3>2, <3>3
  <2>4. CASE q \in DOMAIN t /\ q # Append(p, s) /\ q # Append(p, 3 - s)
    <3>1. q # p
      <4>1. info.pane = None
        BY <1>2, <1>6, DividedIs
      <4> QED BY <1>11, <2>1, <4>1 DEF IsLeaf
    <3>2. u[q] = t[q]
      BY <1>11, <2>4, <3>1
    <3>3. q \in Leaves(t)
      BY <2>1, <2>4, <3>2 DEF Leaves, IsLeaf
    <3>4. t[q].pane # x /\ t[q].pane # new /\ t[q].pane \in Pane /\ t[q].pane # None
      BY <1>1, <1>4, <3>1, <3>3, LeafOfIs
    <3>5. z.pty[t[q].pane] = y.pty[t[q].pane]
      BY <1>9, <3>4
    <3> QED BY <1>13, <1>17, <3>2, <3>3, <3>4, <3>5 DEF PtyFits, Leaves
  <2> QED BY <1>12, <2>1, <2>2, <2>3, <2>4
<1>20. Fits(u, W)
  BY <1>18, FitsIs
<1>21. PtyFits(z, W, None)
  BY <1>19 DEF PtyFits
<1> QED BY <1>9, <1>20, <1>21 DEF Adds, Whole

\* The sizes are right after the insertion of a pane, or nothing has happened.
Inserted(y, s) == s.hung = FALSE /\ Adds(s.tab) /\ (s.tab = y \/ s.tab.zoomed = None)

\* So it is, unless the sizes are marked as astray.
LEMMA InsertFits ==
    ASSUME NEW y, TabState(y), Adds(y), NEW x \in Shown(y.tree), NEW r \in Requests,
           NEW new \in Pane \ Shown(y.tree),
           NEW s, s = SplitAndInsert(y, Index(y.tree, x), r, new), "sizes" \notin s.astray
    PROVE  Inserted(y, s)
<1> DEFINE t == y.tree
           room == IF r.top THEN y.size ELSE Room(t, LeafOf(t, x), y.size)
<1>1. Shape(t) /\ x \in Shown(t) /\ PaneAt(t, Index(t, x)) = x
  BY TabIs, IndexIs
<1>2. s = IF y.zoomed # None \/ ~HasSpace(y, Divided(room, r)) THEN Just(y)
          ELSE IF r.top /\ Count(t) > 1 THEN SplitWhole(y, r, new)
          ELSE Just(SplitLeaf(y, x, r, new))
  BY <1>1 DEF SplitAndInsert
<1>3. CASE s = Just(y)
  BY <1>3 DEF Just, Inserted
<1>4. CASE s # Just(y)
  <2>1. y.zoomed = None /\ HasSpace(y, Divided(room, r))
    BY <1>2, <1>4
  <2>2. SplitWhole(y, r, new).astray = {"sizes"}
    BY DEF SplitWhole
  <2>3. s = Just(SplitLeaf(y, x, r, new)) /\ ~(r.top /\ Count(t) > 1)
    BY <1>2, <1>4, <2>1, <2>2
  <2>4. Room(t, LeafOf(t, x), y.size) = room
    <3>1. CASE r.top
      <4>1. LeafOf(t, x) = <<>>
        BY <1>1, <2>3, <3>1, LeafOfIs, AloneAtRoot
      <4> QED BY <3>1, <4>1 DEF Room
    <3>2. CASE ~r.top
      BY <3>2
    <3> QED BY <3>1, <3>2
  <2>5. HasSpace(y, Divided(Room(t, LeafOf(t, x), y.size), r))
    <3> HIDE DEF room
    <3> QED BY <2>1, <2>4
  <2>6. PICK z : z = SplitLeaf(y, x, r, new)
    OBVIOUS
  <2>7. Adds(z)
    BY <1>1, <2>1, <2>5, <2>6, SplitLeafFits
  <2>8. z.zoomed = None
    <3>1. SplitTo(y, x, r, new, z)
      BY <1>1, <2>6, SplitLeafIs
    <3> QED BY <2>1, <3>1 DEF SplitTo
  <2>9. s.tab = z /\ s.hung = FALSE
    BY <2>3, <2>6 DEF Just
  <2> QED BY <2>7, <2>8, <2>9 DEF Inserted
<1> QED BY <1>3, <1>4

\* What is below a position that comes after p comes after p, too.
LEMMA AfterBelow ==
    ASSUME NEW p \in Position, NEW q \in Position
    PROVE  /\ After(p, q) => q # <<>> /\ \A i \in {1, 2} : After(p, Append(q, i))
           /\ \A i \in {1, 2} : After(p, Append(p, i))
           /\ ~After(p, p)
<1>1. ASSUME After(p, q), NEW i \in {1, 2} PROVE After(p, Append(q, i))
  <2>1. CASE Above(p, q)
    BY <2>1, AboveChild DEF After
  <2>2. CASE Before(p, q)
    <3>1. Append(q, i) \in Position
      BY ChildIs
    <3>2. Under(p, p)
      BY PositionIs DEF Under
    <3>3. Above(q, Append(q, i))
      BY AboveChild
    <3>4. Under(q, Append(q, i))
      BY <3>3 DEF Above
    <3>5. Before(p, Append(q, i))
      BY <2>2, <3>1, <3>2, <3>4, BeforeUnder
    <3> QED BY <3>5 DEF After
  <2> QED BY <1>1, <2>1, <2>2 DEF After
<1>2. ASSUME After(p, q) PROVE q # <<>>
  <2>1. Len(p) \in Nat /\ Len(<<>>) = 0
    BY PositionIs, RootIs
  <2>2. ~Above(p, <<>>)
    BY <2>1 DEF Above
  <2>3. ~Before(p, <<>>)
    BY <2>1 DEF Before
  <2> QED BY <1>2, <2>2, <2>3 DEF After
<1>3. \A i \in {1, 2} : After(p, Append(p, i))
  BY AboveChild DEF After
<1>4. ~After(p, p)
  BY AboveChild, BeforeStrict DEF After
<1> QED BY <1>1, <1>2, <1>3, <1>4

\* A node that is made to fit a room with space for its first part fits it.
LEMMA FitFits ==
    ASSUME NEW t, Shape(t), NEW p \in DOMAIN t, ~IsLeaf(t, p), NEW size \in Size,
           size[t[p].dir] >= 1 + t[p].first[t[p].dir], NEW node, node = Fit(t[p], size)
    PROVE  /\ node.dir = t[p].dir
           /\ \A b \in Axes :
              /\ size[b] = IF b = node.dir THEN node.first[b] + node.second[b] + 1 ELSE node.first[b]
              /\ b # node.dir => node.first[b] = node.second[b]
<1>1. /\ node.dir = t[p].dir
      /\ \A c \in Axes :
            /\ node.first[c] = IF c = t[p].dir THEN t[p].first[c] ELSE size[c]
            /\ node.second[c] = IF c = t[p].dir THEN Biggest(0, size[c] - (1 + t[p].first[c])) ELSE size[c]
  BY FitIs
<1>2. t[p].dir \in Axes /\ \A c \in Axes : t[p].first[c] \in Nat /\ size[c] \in Nat
  BY NodeIs DEF Size
<1> QED BY <1>1, <1>2 DEF Biggest

\* What does not come after p has the room it had.
LEMMA FittedRoom ==
    ASSUME NEW t, Shape(t), NEW p \in Position, NEW u, FittedAfter(t, p, u), NEW whole,
           NEW q \in DOMAIN t, ~After(p, q)
    PROVE  Room(u, q, whole) = Room(t, q, whole)
<1>1. CASE q = <<>>
  BY <1>1 DEF Room
<1>2. CASE q # <<>>
  <2>1. PICK o \in DOMAIN t, i \in {1, 2} : q = Append(o, i) /\ o \in Position
    BY <1>2, IsChild
  <2>2. ~After(p, o)
    BY <2>1, AfterBelow
  <2>3. u[o] = t[o]
    BY <2>2 DEF FittedAfter
  <2> QED BY <2>1, <2>3, RoomChild
<1> QED BY <1>1, <1>2

\* A walk of fits leaves a tree that fits, if the rest does and no first part is larger
\* than its room.
LEMMA CascadeFits ==
    ASSUME NEW t, Shape(t), NEW p \in Position, NEW u, FittedAfter(t, p, u), NEW whole \in Extent,
           \A q \in DOMAIN t : ~IsLeaf(t, q) /\ ~After(p, q) => FitsAt(t, q, whole),
           \A q \in DOMAIN t : ~IsLeaf(t, q) /\ After(p, q) =>
               Room(u, q, Nothing)[t[q].dir] >= 1 + t[q].first[t[q].dir]
    PROVE  Fits(u, whole)
<1>1. Shape(u) /\ DOMAIN u = DOMAIN t /\ \A q \in DOMAIN t : IsLeaf(u, q) <=> IsLeaf(t, q)
  BY AlikeIs DEF FittedAfter, Alike
<1>2. ASSUME NEW q \in DOMAIN u, ~IsLeaf(u, q) PROVE FitsAt(u, q, whole)
  <2>1. q \in DOMAIN t /\ ~IsLeaf(t, q) /\ q \in Position
    BY <1>1, <1>2 DEF Shape
  <2>2. CASE ~After(p, q)
    <3>1. u[q] = t[q] /\ Room(u, q, whole) = Room(t, q, whole)
      BY <2>1, <2>2, FittedRoom DEF FittedAfter
    <3> QED BY <2>1, <2>2, <3>1 DEF FitsAt
  <2>3. CASE After(p, q)
    <3>1. u[q] = Fit(t[q], Room(u, q, Nothing))
      BY <2>1, <2>3 DEF FittedAfter
    <3>2. Nothing \in Size
      BY DEF Nothing, Size
    <3>3. Room(u, q, Nothing) \in Size
      BY <1>1, <2>1, <3>2, RoomIs
    <3>4. Room(u, q, whole) = Room(u, q, Nothing)
      BY <2>1, <2>3, AfterBelow DEF Room
    <3>5. PICK size : size = Room(u, q, Nothing)
      OBVIOUS
    <3>6. \A b \in Axes :
              /\ size[b] = IF b = u[q].dir THEN u[q].first[b] + u[q].second[b] + 1 ELSE u[q].first[b]
              /\ b # u[q].dir => u[q].first[b] = u[q].second[b]
      BY <2>1, <2>3, <3>1, <3>3, <3>5, FitFits
    <3> QED BY <1>1, <1>2, <3>4, <3>5, <3>6, FitsAtIs
  <2> QED BY <2>2, <2>3
<1> QED BY <1>2, FitsIs

\* And it tells the panes it comes to.
LEMMA CascadeTells ==
    ASSUME NEW y, TabState(y), NEW p \in Position, NEW whole, NEW but,
           \A q \in Leaves(y.tree) : ~After(p, q) /\ y.tree[q].pane # but =>
               y.pty[y.tree[q].pane] = Room(y.tree, q, whole),
           NEW z, z = Cascade(y, p)
    PROVE  /\ PtyFits(z, whole, but) /\ FittedAfter(y.tree, p, z.tree)
           /\ z.size = y.size /\ z.before = y.before /\ z.zoomed = y.zoomed /\ z.active = y.active
           /\ TabState(z)
<1> DEFINE t == FitAfter(y.tree, p)
           pty == [x \in Pane |-> IF x \in Shown(t) /\ After(p, LeafOf(t, x))
                                  THEN Room(t, LeafOf(t, x), y.size) ELSE y.pty[x]]
<1>1. /\ Shape(y.tree)
      /\ y \in [tree : {y.tree}, size : Size, before : Size, active : Nat,
                zoomed : {None} \cup Shown(y.tree), pty : [Pane -> Size]]
      /\ Shown(y.tree) \subseteq Pane
  BY TabIs
<1>2. FittedAfter(y.tree, p, t)
  BY <1>1, FitAfterIs
<1>3. z = [y EXCEPT !.tree = t, !.pty = pty]
  BY DEF Cascade
<1>4. TabState(z)
  BY CascadeIs DEF SizedAnew
<1> HIDE DEF t
<1>5. Shape(t) /\ Leaves(t) = Leaves(y.tree) /\ Shown(t) = Shown(y.tree)
  BY <1>1, <1>2, AlikeIs DEF FittedAfter
<1>6. ASSUME NEW q \in Leaves(t), t[q].pane # but
      PROVE  pty[t[q].pane] = Room(t, q, whole)
  <2>1. t[q].pane \in Shown(t) /\ LeafOf(t, t[q].pane) = q /\ t[q].pane \in Pane /\ q \in Position
        /\ q \in DOMAIN y.tree /\ IsLeaf(y.tree, q)
    BY <1>1, <1>5, LeafOfIs DEF Leaves
  <2>2. CASE After(p, q)
    <3>1. pty[t[q].pane] = Room(t, q, y.size)
      BY <2>1, <2>2
    <3>2. q # <<>>
      BY <2>1, <2>2, AfterBelow
    <3> QED BY <3>1, <3>2 DEF Room
  <2>3. CASE ~After(p, q)
    <3>1. pty[t[q].pane] = y.pty[t[q].pane]
      BY <2>1, <2>3
    <3>2. t[q] = y.tree[q]
      BY <1>2, <2>1, <2>3 DEF FittedAfter
    <3>3. Room(t, q, whole) = Room(y.tree, q, whole)
      BY <1>1, <1>2, <2>1, <2>3, FittedRoom
    <3> QED BY <1>5, <1>6, <2>3, <3>1, <3>2, <3>3
  <2> QED BY <2>2, <2>3
<1> HIDE DEF pty
<1>7. z.tree = t /\ z.pty = pty /\ z.size = y.size /\ z.before = y.before /\ z.zoomed = y.zoomed
      /\ z.active = y.active
  BY <1>1, <1>3
<1>8. PtyFits(z, whole, but)
  BY <1>6, <1>7 DEF PtyFits
<1> QED BY <1>2, <1>4, <1>7, <1>8

\* Moving a split keeps the sizes right, as long as every part keeps a cell.
LEMMA MoveSplitFits ==
    ASSUME NEW y, TabState(y), y.zoomed = None, Adds(y),
           NEW p \in DOMAIN y.tree, ~IsLeaf(y.tree, p),
           NodeSize(y.tree[p])[y.tree[p].dir] >= 3, NEW d \in Int,
           NEW z, z = MoveSplitAndCascade(y, p, d),
           \A q \in DOMAIN z.tree : \A a \in Axes : IsLeaf(z.tree, q) \/ z.tree[q].second[a] # 0
    PROVE  Adds(z)
<1> DEFINE t == y.tree
           W == y.size
<1>1. PICK m : m = MoveSplit(t, p, d)
  OBVIOUS
<1>2. PICK s : s = [y EXCEPT !.tree = m]
  OBVIOUS
<1>3. z = Cascade(s, p)
  BY <1>1, <1>2 DEF MoveSplitAndCascade
<1>4. /\ Shape(t) /\ W \in Size /\ W \in Extent /\ p \in Position
      /\ y \in [tree : {t}, size : Size, before : Size, active : Nat,
                zoomed : {None} \cup Shown(t), pty : [Pane -> Size]]
  BY TabIs, SizeIsExtent DEF Shape
<1>5. /\ Alike(t, m) /\ \A q \in DOMAIN t : q # p => m[q] = t[q]
      /\ \A a \in Axes : /\ m[p].first[a] + m[p].second[a] = t[p].first[a] + t[p].second[a]
                         /\ a # t[p].dir => m[p].first[a] = t[p].first[a] /\ m[p].second[a] = t[p].second[a]
  BY <1>1, <1>4, MoveSplitIs
<1>6. Shape(m) /\ Shown(m) = Shown(t) /\ Leaves(m) = Leaves(t) /\ DOMAIN m = DOMAIN t
      /\ \A q \in DOMAIN t : IsLeaf(m, q) <=> IsLeaf(t, q)
  BY <1>4, <1>5, AlikeIs DEF Alike
<1>7. /\ s.tree = m /\ s.size = W /\ s.zoomed = None /\ s.pty = y.pty
      /\ s \in [tree : {m}, size : Size, before : Size, active : Nat,
                zoomed : {None} \cup Shown(m), pty : [Pane -> Size]]
  BY <1>2, <1>4, <1>6
<1>8. TabState(s)
  BY <1>6, <1>7 DEF TabState
<1>9. Fits(t, W) /\ PtyFits(y, W, None)
  BY DEF Adds, Whole
<1>10. ASSUME NEW q \in DOMAIN t, ~After(p, q) PROVE Room(m, q, W) = Room(t, q, W)
  <2>1. CASE q = <<>>
    BY <2>1 DEF Room
  <2>2. CASE q # <<>>
    <3>1. PICK o \in DOMAIN t, i \in {1, 2} : q = Append(o, i) /\ o \in Position
      BY <1>4, <2>2, IsChild
    <3>2. o # p
      BY <1>4, <1>10, <3>1, AfterBelow
    <3>3. m[o] = t[o]
      BY <1>5, <3>2
    <3> QED BY <3>1, <3>3, RoomChild
  <2> QED BY <2>1, <2>2
<1>11. ASSUME NEW q \in DOMAIN m, ~IsLeaf(m, q), ~After(p, q) PROVE FitsAt(m, q, W)
  <2>1. q \in DOMAIN t /\ ~IsLeaf(t, q) /\ FitsAt(t, q, W)
    BY <1>6, <1>9, <1>11, FitsIs
  <2>2. Room(m, q, W) = Room(t, q, W)
    BY <1>10, <1>11, <2>1
  <2>3. CASE q # p
    <3>1. m[q] = t[q]
      BY <1>5, <2>1, <2>3
    <3> QED BY <2>1, <2>2, <3>1 DEF FitsAt
  <2>4. CASE q = p
    <3>1. m[p].dir = t[p].dir
      BY <1>5 DEF Alike
    <3>2. \A b \in Axes :
             /\ Room(t, p, W)[b] = IF b = t[p].dir THEN t[p].first[b] + t[p].second[b] + 1
                                                   ELSE t[p].first[b]
             /\ b # t[p].dir => t[p].first[b] = t[p].second[b]
      BY <1>4, <2>1, <2>4, FitsAtIs
    <3>3. \A b \in Axes :
             /\ Room(m, p, W)[b] = IF b = m[p].dir THEN m[p].first[b] + m[p].second[b] + 1
                                                   ELSE m[p].first[b]
             /\ b # m[p].dir => m[p].first[b] = m[p].second[b]
      <4>1. Room(m, p, W) = Room(t, p, W)
        BY <2>2, <2>4
      <4> QED BY <1>5, <3>1, <3>2, <4>1
    <3> QED BY <1>4, <1>6, <1>11, <2>4, <3>3, FitsAtIs
  <2> QED BY <2>3, <2>4
<1>12. ASSUME NEW q \in Leaves(m), ~After(p, q) PROVE s.pty[m[q].pane] = Room(m, q, W)
  <2>1. q \in Leaves(t) /\ q \in DOMAIN t /\ q # p
    BY <1>6, <1>12 DEF Leaves
  <2>2. m[q] = t[q] /\ t[q].pane # None
    BY <1>5, <2>1 DEF Leaves, IsLeaf
  <2>3. Room(m, q, W) = Room(t, q, W)
    BY <1>10, <1>12, <2>1
  <2>4. y.pty[t[q].pane] = Room(t, q, W)
    BY <1>9, <2>1, <2>2 DEF PtyFits
  <2> QED BY <1>7, <2>2, <2>3, <2>4
<1>13. /\ PtyFits(z, W, None) /\ FittedAfter(m, p, z.tree) /\ z.size = W /\ z.zoomed = None
       /\ TabState(z)
  BY <1>3, <1>4, <1>7, <1>8, <1>12, CascadeTells
<1>14. ASSUME NEW q \in DOMAIN m, ~IsLeaf(m, q), After(p, q)
       PROVE  Room(z.tree, q, Nothing)[m[q].dir] >= 1 + m[q].first[m[q].dir]
  <2>1. PICK room : room = Room(z.tree, q, Nothing)
    OBVIOUS
  <2>2. z.tree[q] = Fit(m[q], room) /\ DOMAIN z.tree = DOMAIN m /\ z.tree[q].pane = m[q].pane
    BY <1>13, <1>14, <2>1 DEF FittedAfter, Alike
  <2>3. room \in Size
    <3>1. Shape(z.tree) /\ Nothing \in Size
      BY <1>13, TabIs DEF Nothing, Size
    <3> QED BY <2>1, <2>2, <3>1, RoomIs
  <2>4. PICK a \in Axes : a = m[q].dir
    BY <1>6, <1>14, NodeIs
  <2>5. z.tree[q].second[a] = Biggest(0, room[a] - (1 + m[q].first[a]))
    BY <1>6, <1>14, <2>2, <2>3, <2>4, FitIs
  <2>6. z.tree[q].second[a] # 0
    BY <1>14, <2>2, <2>4 DEF IsLeaf
  <2>7. m[q].first[a] \in Nat /\ room[a] \in Nat
    BY <1>6, <2>3, NodeIs DEF Size
  <2> QED BY <2>1, <2>4, <2>5, <2>6, <2>7 DEF Biggest
<1>15. Fits(z.tree, W)
  BY <1>4, <1>6, <1>11, <1>13, <1>14, CascadeFits
<1> QED BY <1>13, <1>15 DEF Adds, Whole

----------------------------------------------------------------------------
(* Sizes: a pane that goes leaves no less room to any other.               *)

\* A node that stays is the sibling of the leaf that goes, or the child of one that
\* stays, and then its place is the child's.
LEMMA StaysChild ==
    ASSUME NEW t, Shape(t), NEW p \in Leaves(t), p # <<>>, NEW q \in Stays(t, p), q # <<>>
    PROVE  \/ q = Sibling(p)
           \/ \E r \in Stays(t, p), i \in {1, 2} :
                 /\ q = Append(r, i) /\ Place(t, p, q) = Append(Place(t, p, r), i)
                 /\ ~IsLeaf(t, r) /\ r \in Position /\ Len(q) = Len(r) + 1
<1>1. p \in Position /\ p \in DOMAIN t /\ Stays(t, p) = DOMAIN t \ {p, Up(p)}
  BY PlacesAre, LeafOfIs DEF Leaves
<1>2. PICK r \in DOMAIN t, i \in {1, 2} :
         q = Append(r, i) /\ ~IsLeaf(t, r) /\ r \in Position /\ Len(q) = Len(r) + 1
  BY <1>1, IsChild
<1>3. /\ Up(p) \in Position /\ p[Len(p)] \in {1, 2} /\ p = Append(Up(p), p[Len(p)])
      /\ Sibling(p) = Append(Up(p), 3 - p[Len(p)]) /\ Sibling(p) \in Position
  BY <1>1, UpIs, SiblingIs
<1>4. CASE r = Up(p)
  <2>1. i = p[Len(p)] \/ i = 3 - p[Len(p)]
    BY <1>3
  <2> QED BY <1>1, <1>2, <1>3, <1>4, <2>1
<1>5. CASE r # Up(p) /\ q # Sibling(p)
  <2>1. r \in Stays(t, p)
    BY <1>1, <1>2, <1>5 DEF Leaves
  <2>2. CASE q \in KeptOf(t, p)
    <3>1. ~Under(Up(p), q)
      BY <2>2 DEF KeptOf
    <3>2. Under(r, q)
      BY <1>2, AboveChild DEF Above
    <3>3. ~Under(Up(p), r)
      BY <1>1, <1>2, <1>3, <3>1, <3>2, UnderTransitive DEF Shape
    <3>4. r \in KeptOf(t, p)
      BY <3>3 DEF KeptOf
    <3> QED BY <1>2, <2>1, <2>2, <3>4 DEF Place
  <2>3. CASE q \notin KeptOf(t, p)
    <3>1. Under(Sibling(p), q)
      BY <2>3 DEF Stays, BesideOf
    <3>2. Under(Sibling(p), r)
      BY <1>2, <1>3, <1>5, <3>1, UnderChild
    <3>3. r \in BesideOf(t, p) /\ r \notin KeptOf(t, p)
      BY <3>2, PartsOf DEF BesideOf
    <3>4. Lift(p, Append(r, i)) = Append(Lift(p, r), i)
      BY <1>1, <1>2, <3>2, LiftChild
    <3> QED BY <1>2, <2>1, <2>3, <3>3, <3>4 DEF Place
  <2> QED BY <2>2, <2>3
<1> QED BY <1>4, <1>5

\* The tree that closes up, what takes the place of the two being made to fit that.
MovedUp(t, p, m) ==
    /\ Alike(ClosedUp(t, p), m)
    /\ \A q \in DOMAIN m : q # Up(p) => m[q] = ClosedUp(t, p)[q]
    /\ ~IsLeaf(m, Up(p)) => m[Up(p)] = Fit(t[Sibling(p)], NodeSize(t[Up(p)]))

\* Its nodes are those that stay.
LEMMA MovedUpIs ==
    ASSUME NEW t, Shape(t), NEW p \in Leaves(t), p # <<>>, NEW m, MovedUp(t, p, m)
    PROVE  /\ Shape(m) /\ Up(p) \in DOMAIN m /\ Up(p) \in DOMAIN t /\ Up(p) \in Position
           /\ ~IsLeaf(t, Up(p)) /\ Sibling(p) \in Stays(t, p) /\ Place(t, p, Sibling(p)) = Up(p)
           /\ DOMAIN m = KeptOf(t, p) \cup LiftedOf(t, p)
           /\ \A q \in Stays(t, p) :
                 /\ Place(t, p, q) \in DOMAIN m /\ Place(t, p, q) \in Position
                 /\ IsLeaf(m, Place(t, p, q)) <=> IsLeaf(t, q)
                 /\ Place(t, p, q) # Up(p) => m[Place(t, p, q)] = t[q]
                 /\ Place(t, p, q) = Up(p) => q = Sibling(p)
<1> DEFINE s == ClosedUp(t, p)
<1>1. Shape(s) /\ Up(p) \in DOMAIN s /\ Up(p) \in DOMAIN t
  BY ClosedUpShape, ClosedUpTop
<1>2. ClosesTo(t, p, s) /\ Lift(p, Sibling(p)) = Up(p)
  BY ClosedUpIs
<1>3. Sibling(p) \in BesideOf(t, p) /\ KeptOf(t, p) \cap BesideOf(t, p) = {}
  BY PartsOf
<1>4. /\ \A q \in Stays(t, p) :
                 /\ Place(t, p, q) \in DOMAIN s /\ Place(t, p, q) \in Position
                 /\ s[Place(t, p, q)] = t[q]
                 /\ IsLeaf(s, Place(t, p, q)) <=> IsLeaf(t, q)
      /\ \A r \in DOMAIN s : \E q \in Stays(t, p) : r = Place(t, p, q)
      /\ \A q, r \in Stays(t, p) : Place(t, p, q) = Place(t, p, r) => q = r
  BY PlacesAre
<1>5. Sibling(p) \in Stays(t, p) /\ Place(t, p, Sibling(p)) = Up(p)
  BY <1>2, <1>3 DEF Stays, Place
<1>6. p \in DOMAIN t
  BY DEF Leaves
<1>7. ~IsLeaf(t, Up(p)) /\ Up(p) \in Position
  BY <1>6, AboveIs, UpIs
<1>8. DOMAIN s = KeptOf(t, p) \cup LiftedOf(t, p)
  BY <1>2 DEF ClosesTo
<1> HIDE DEF s
<1>9. /\ Alike(s, m) /\ \A q \in DOMAIN m : q # Up(p) => m[q] = s[q]
  BY DEF MovedUp, s
<1>10. Shape(m) /\ DOMAIN m = DOMAIN s /\ \A q \in DOMAIN s : IsLeaf(m, q) <=> IsLeaf(s, q)
  BY <1>1, <1>9, AlikeIs DEF Alike
<1>11. ASSUME NEW q \in Stays(t, p)
       PROVE  /\ Place(t, p, q) \in DOMAIN m /\ Place(t, p, q) \in Position
              /\ IsLeaf(m, Place(t, p, q)) <=> IsLeaf(t, q)
              /\ Place(t, p, q) # Up(p) => m[Place(t, p, q)] = t[q]
              /\ Place(t, p, q) = Up(p) => q = Sibling(p)
  <2>1. Place(t, p, q) = Up(p) => q = Sibling(p)
    BY <1>4, <1>5
  <2>2. /\ Place(t, p, q) \in DOMAIN s /\ Place(t, p, q) \in Position
        /\ s[Place(t, p, q)] = t[q]
        /\ IsLeaf(s, Place(t, p, q)) <=> IsLeaf(t, q)
    BY <1>4
  <2>3. PICK o : o = Place(t, p, q)
    OBVIOUS
  <2>4. o \in DOMAIN m /\ (IsLeaf(m, o) <=> IsLeaf(s, o)) /\ (o # Up(p) => m[o] = s[o])
    BY <1>9, <1>10, <2>2, <2>3
  <2>5. /\ o \in DOMAIN m /\ o \in Position
        /\ IsLeaf(m, o) <=> IsLeaf(t, q)
        /\ o # Up(p) => m[o] = t[q]
        /\ o = Up(p) => q = Sibling(p)
    <3>1. o \in Position /\ s[o] = t[q] /\ (IsLeaf(s, o) <=> IsLeaf(t, q))
      BY <2>2, <2>3
    <3>2. o = Up(p) => q = Sibling(p)
      BY <2>1, <2>3
    <3> QED BY <2>4, <3>1, <3>2
  <2> QED BY <2>3, <2>5
<1> QED BY <1>1, <1>4, <1>5, <1>7, <1>8, <1>10, <1>11

\* And every node of it stayed.
LEMMA MovedUpFrom ==
    ASSUME NEW t, Shape(t), NEW p \in Leaves(t), p # <<>>, NEW m, MovedUp(t, p, m),
           NEW o \in DOMAIN m
    PROVE  \E q \in Stays(t, p) : o = Place(t, p, q)
<1>1. PICK s : s = ClosedUp(t, p)
  OBVIOUS
<1>2. DOMAIN m = DOMAIN s
  BY <1>1 DEF MovedUp, Alike
<1>3. \A r \in DOMAIN s : \E q \in Stays(t, p) : r = Place(t, p, q)
  BY <1>1, PlacesAre
<1> QED BY <1>2, <1>3

\* What is not after the place has the room it had.
LEMMA KeptRoom ==
    ASSUME NEW t, Shape(t), NEW p \in Leaves(t), p # <<>>, NEW m, MovedUp(t, p, m),
           NEW q \in KeptOf(t, p) \cup {Up(p)}, NEW whole
    PROVE  Room(m, q, whole) = Room(t, q, whole)
<1>1. /\ Up(p) \in DOMAIN t /\ Up(p) \in Position
      /\ DOMAIN m = KeptOf(t, p) \cup LiftedOf(t, p)
  BY MovedUpIs
<1>2. q \in DOMAIN t
  BY <1>1 DEF KeptOf
<1>3. CASE q = <<>>
  BY <1>3 DEF Room
<1>4. CASE q # <<>>
  <2>1. PICK r \in DOMAIN t, i \in {1, 2} : q = Append(r, i) /\ r \in Position
    BY <1>2, <1>4, IsChild
  <2>2. ~Under(Up(p), r)
    <3>1. Above(r, q)
      BY <2>1, AboveChild
    <3>2. CASE q = Up(p)
      <4>1. Len(q) \in Nat /\ Len(r) \in Nat
        BY <1>1, <2>1, <3>2, PositionIs
      <4> QED BY <3>1, <3>2, <4>1 DEF Above, Under
    <3>3. CASE q \in KeptOf(t, p)
      <4>1. ~Under(Up(p), q) /\ q \in Position
        BY <1>2, <3>3 DEF KeptOf, Shape
      <4> QED BY <1>1, <2>1, <3>1, <4>1, UnderTransitive DEF Above
    <3> QED BY <3>2, <3>3
  <2>3. r \in KeptOf(t, p) /\ r \in DOMAIN m
    BY <1>1, <2>2 DEF KeptOf
  <2>4. r # Up(p)
    BY <2>3, PartsOf
  <2>5. m[r] = t[r]
    <3>1. m[r] = ClosedUp(t, p)[r]
      BY <2>3, <2>4 DEF MovedUp
    <3>2. ClosesTo(t, p, ClosedUp(t, p))
      BY ClosedUpIs
    <3>3. PICK s : s = ClosedUp(t, p)
      OBVIOUS
    <3> QED BY <2>3, <3>1, <3>2, <3>3 DEF ClosesTo
  <2> QED BY <2>1, <2>5, RoomChild
<1> QED BY <1>3, <1>4

\* A split that fits, when it is made to fit a room no smaller, leaves its parts no smaller.
LEMMA FitGrows ==
    ASSUME NEW t, Shape(t), NEW r \in DOMAIN t, ~IsLeaf(t, r), NEW whole \in Extent,
           FitsAt(t, r, whole), NEW size \in Size,
           \A a \in Axes : size[a] >= Room(t, r, whole)[a], NEW node, node = Fit(t[r], size)
    PROVE  \A a \in Axes : node.first[a] >= t[r].first[a] /\ node.second[a] >= t[r].second[a]
<1>1. \A b \in Axes :
         /\ Room(t, r, whole)[b] = IF b = t[r].dir THEN t[r].first[b] + t[r].second[b] + 1
                                                   ELSE t[r].first[b]
         /\ b # t[r].dir => t[r].first[b] = t[r].second[b]
  BY FitsAtIs
<1>2. \A c \in Axes :
         /\ node.first[c] = IF c = t[r].dir THEN t[r].first[c] ELSE size[c]
         /\ node.second[c] = IF c = t[r].dir THEN Biggest(0, size[c] - (1 + t[r].first[c])) ELSE size[c]
  BY FitIs
<1>3. \A c \in Axes : t[r].first[c] \in Nat /\ t[r].second[c] \in Nat /\ size[c] \in Nat
  BY NodeIs DEF Size
<1> QED BY <1>1, <1>2, <1>3 DEF Biggest

\* Around a leaf that has gone, what comes after its place is made to fit: w is the tree,
\* that was t, after that.
ClosedAround(t, p, w, whole) ==
    /\ Shape(t) /\ p \in Leaves(t) /\ p # <<>> /\ whole \in Size /\ Fits(t, whole)
    /\ \E m : MovedUp(t, p, m) /\ FittedAfter(m, Up(p), w)

\* A split is as it was, or was made to fit the room it has.
LEMMA PlaceNode ==
    ASSUME NEW t, NEW p, NEW w, NEW whole, ClosedAround(t, p, w, whole),
           NEW q \in Stays(t, p), ~IsLeaf(t, q), NEW o, o = Place(t, p, q)
    PROVE  w[o] = t[q] \/ w[o] = Fit(t[q], Room(w, o, whole))
<1>1. PICK m : MovedUp(t, p, m) /\ FittedAfter(m, Up(p), w)
  BY DEF ClosedAround
<1>2. Shape(t) /\ p \in Leaves(t) /\ p # <<>> /\ whole \in Size /\ Fits(t, whole)
  BY DEF ClosedAround
<1>3. /\ Shape(m) /\ Up(p) \in DOMAIN m /\ Up(p) \in DOMAIN t /\ Up(p) \in Position
      /\ ~IsLeaf(t, Up(p))
      /\ o \in DOMAIN m /\ o \in Position
      /\ IsLeaf(m, o) <=> IsLeaf(t, q)
      /\ o # Up(p) => m[o] = t[q]
      /\ o = Up(p) => q = Sibling(p)
  BY <1>1, <1>2, MovedUpIs
<1>4. w[o] = IF After(Up(p), o) THEN Fit(m[o], Room(w, o, Nothing)) ELSE m[o]
  BY <1>1, <1>3 DEF FittedAfter
<1>5. CASE o = Up(p)
  <2>1. ~After(Up(p), o)
    BY <1>3, <1>5, AfterBelow
  <2>2. m[o] = Fit(t[Sibling(p)], NodeSize(t[Up(p)]))
    BY <1>1, <1>3, <1>5 DEF MovedUp
  <2>3. Room(w, o, whole) = Room(m, o, whole)
    BY <1>1, <1>3, <2>1, FittedRoom
  <2>4. Room(m, o, whole) = Room(t, o, whole)
    BY <1>1, <1>2, <1>5, KeptRoom
  <2>5. Room(t, o, whole) = NodeSize(t[Up(p)])
    BY <1>2, <1>3, <1>5, FitsIs DEF FitsAt
  <2>6. w[o] = Fit(t[q], NodeSize(t[Up(p)]))
    BY <1>3, <1>4, <1>5, <2>1, <2>2
  <2>7. Room(w, o, whole) = NodeSize(t[Up(p)])
    BY <2>3, <2>4, <2>5
  <2> QED BY <2>6, <2>7
<1>6. CASE o # Up(p) /\ After(Up(p), o)
  <2>1. o # <<>>
    BY <1>3, <1>6, AfterBelow
  <2>2. Room(w, o, Nothing) = Room(w, o, whole)
    BY <2>1 DEF Room
  <2>3. w[o] = Fit(t[q], Room(w, o, Nothing))
    BY <1>3, <1>4, <1>6
  <2> QED BY <2>2, <2>3
<1>7. CASE o # Up(p) /\ ~After(Up(p), o)
  BY <1>3, <1>4, <1>7
<1> QED BY <1>5, <1>6, <1>7

\* What remains has the room of what was there, or more.
NoLess(t, p, w, whole, q) ==
    \A a \in Axes : Room(w, Place(t, p, q), whole)[a] >= Room(t, q, whole)[a]

\* The sibling has the room of the two.
LEMMA SiblingRoom ==
    ASSUME NEW t, NEW p, NEW w, NEW whole, ClosedAround(t, p, w, whole)
    PROVE  /\ Sibling(p) \in Stays(t, p) /\ NoLess(t, p, w, whole, Sibling(p))
           /\ Room(w, Up(p), whole) = Room(t, Up(p), whole)
<1>1. PICK m : MovedUp(t, p, m) /\ FittedAfter(m, Up(p), w)
  BY DEF ClosedAround
<1>2. Shape(t) /\ p \in Leaves(t) /\ p # <<>> /\ whole \in Size /\ Fits(t, whole)
  BY DEF ClosedAround
<1>3. /\ Shape(m) /\ Up(p) \in DOMAIN m /\ Up(p) \in DOMAIN t /\ Up(p) \in Position
      /\ ~IsLeaf(t, Up(p)) /\ Sibling(p) \in Stays(t, p) /\ Place(t, p, Sibling(p)) = Up(p)
  BY <1>1, <1>2, MovedUpIs
<1>4. p \in Position
  BY <1>2, LeafOfIs
<1>5. Sibling(p) = Append(Up(p), 3 - p[Len(p)]) /\ 3 - p[Len(p)] \in {1, 2}
  BY <1>2, <1>4, SiblingIs, UpIs
<1>6. Room(w, Up(p), whole) = Room(t, Up(p), whole)
  <2>1. ~After(Up(p), Up(p))
    BY <1>3, AfterBelow
  <2>2. Room(w, Up(p), whole) = Room(m, Up(p), whole)
    BY <1>1, <1>3, <2>1, FittedRoom
  <2>3. Room(m, Up(p), whole) = Room(t, Up(p), whole)
    BY <1>1, <1>2, KeptRoom
  <2> QED BY <2>2, <2>3
<1>7. PICK u \in DOMAIN t, i \in {1, 2} : u = Up(p) /\ i = 3 - p[Len(p)] /\ u \in Position
  BY <1>3, <1>5
<1>8. FitsAt(t, u, whole) /\ whole \in Extent /\ ~IsLeaf(t, u)
  BY <1>2, <1>3, <1>7, FitsIs, SizeIsExtent
<1>9. Room(t, Sibling(p), whole) = IF i = 1 THEN t[u].first ELSE t[u].second
  BY <1>5, <1>7, RoomChild
<1>10. \A b \in Axes :
         /\ Room(t, u, whole)[b] = IF b = t[u].dir THEN t[u].first[b] + t[u].second[b] + 1
                                                   ELSE t[u].first[b]
         /\ b # t[u].dir => t[u].first[b] = t[u].second[b]
  BY <1>2, <1>8, FitsAtIs
<1>11. \A b \in Axes : t[u].first[b] \in Nat /\ t[u].second[b] \in Nat
  BY <1>2, NodeIs
<1>12. \A b \in Axes : Room(t, u, whole)[b] >= t[u].first[b] /\ Room(t, u, whole)[b] >= t[u].second[b]
  BY <1>10, <1>11
<1>13. \A b \in Axes : Room(t, u, whole)[b] >= Room(t, Sibling(p), whole)[b]
  BY <1>9, <1>12
<1>14. NoLess(t, p, w, whole, Sibling(p))
  BY <1>3, <1>6, <1>7, <1>13 DEF NoLess
<1> QED BY <1>3, <1>6, <1>14

\* From a node to its child.
LEMMA ChildNoLess ==
    ASSUME NEW t, NEW p, NEW w, NEW whole, ClosedAround(t, p, w, whole),
           NEW r \in Stays(t, p), ~IsLeaf(t, r), NoLess(t, p, w, whole, r), NEW i \in {1, 2},
           r \in Position, NEW q, q = Append(r, i), Place(t, p, q) = Append(Place(t, p, r), i)
    PROVE  NoLess(t, p, w, whole, q)
<1>1. PICK m : MovedUp(t, p, m) /\ FittedAfter(m, Up(p), w)
  BY DEF ClosedAround
<1>2. Shape(t) /\ p \in Leaves(t) /\ p # <<>> /\ whole \in Size /\ Fits(t, whole) /\ whole \in Extent
  BY SizeIsExtent DEF ClosedAround
<1>3. PICK o : o = Place(t, p, r)
  OBVIOUS
<1>4. Shape(m) /\ o \in DOMAIN m /\ o \in Position /\ r \in DOMAIN t
  <2>1. Shape(m) /\ o \in DOMAIN m /\ o \in Position
    BY <1>1, <1>2, <1>3, MovedUpIs
  <2>2. r \in DOMAIN t
    BY DEF Stays, KeptOf, BesideOf
  <2> QED BY <2>1, <2>2
<1>5. Shape(w) /\ DOMAIN w = DOMAIN m
  BY <1>1, <1>4, AlikeIs DEF FittedAfter, Alike
<1>6. PICK size : size = Room(w, o, whole)
  OBVIOUS
<1>7. size \in Size
  BY <1>2, <1>4, <1>5, <1>6, RoomIs
<1>8. \A a \in Axes : size[a] >= Room(t, r, whole)[a]
  BY <1>3, <1>6 DEF NoLess
<1>9. FitsAt(t, r, whole)
  BY <1>2, <1>4, FitsIs
<1>10. w[o] = t[r] \/ w[o] = Fit(t[r], size)
  BY <1>3, <1>6, PlaceNode
<1>11. \A a \in Axes : t[r].first[a] \in Nat /\ t[r].second[a] \in Nat
  BY <1>2, <1>4, NodeIs
<1>12. \A a \in Axes : w[o].first[a] >= t[r].first[a] /\ w[o].second[a] >= t[r].second[a]
  <2>1. CASE w[o] = t[r]
    BY <1>11, <2>1
  <2>2. CASE w[o] = Fit(t[r], size)
    BY <1>2, <1>4, <1>7, <1>8, <1>9, <2>2, FitGrows
  <2> QED BY <1>10, <2>1, <2>2
<1>13. /\ Room(w, Append(o, i), whole) = IF i = 1 THEN w[o].first ELSE w[o].second
       /\ Room(t, Append(r, i), whole) = IF i = 1 THEN t[r].first ELSE t[r].second
  BY <1>4, RoomChild
<1>14. \A a \in Axes : Room(w, Append(o, i), whole)[a] >= Room(t, Append(r, i), whole)[a]
  BY <1>12, <1>13
<1> QED BY <1>3, <1>14 DEF NoLess

\* So it is everywhere.
LEMMA PlaceRoom ==
    ASSUME NEW t, NEW p, NEW w, NEW whole, ClosedAround(t, p, w, whole)
    PROVE  \A q \in Stays(t, p) : NoLess(t, p, w, whole, q)
<1> DEFINE T == {n \in Nat : \A q \in Stays(t, p) : Len(q) = n => NoLess(t, p, w, whole, q)}
<1>1. Shape(t) /\ p \in Leaves(t) /\ p # <<>> /\ whole \in Size
  BY DEF ClosedAround
<1>2. \A q \in Stays(t, p) : q \in DOMAIN t /\ q \in Position /\ Len(q) \in Nat
  BY <1>1, PlacesAre, PositionIs DEF Shape
<1>3. ASSUME NEW q \in Stays(t, p), q = <<>> PROVE NoLess(t, p, w, whole, q)
  <2>1. q \notin BesideOf(t, p)
    <3>1. Len(Sibling(p)) = Len(p) /\ Len(p) \in Nat \ {0} /\ Len(q) = 0
      BY <1>1, <1>3, LeafOfIs, SiblingIs, UpIs, RootIs
    <3> QED BY <3>1 DEF BesideOf, Under
  <2>2. Place(t, p, q) = q
    BY <2>1 DEF Stays, Place
  <2>3. Room(w, Place(t, p, q), whole) = whole /\ Room(t, q, whole) = whole
    BY <1>3, <2>2 DEF Room
  <2>4. \A a \in Axes : whole[a] >= whole[a]
    BY <1>1 DEF Size
  <2> QED BY <2>3, <2>4 DEF NoLess
<1>4. 0 \in T
  <2>1. \A q \in Stays(t, p) : Len(q) = 0 => q = <<>>
    BY <1>2, RootIs
  <2> QED BY <1>3, <2>1
<1>5. ASSUME NEW n \in T PROVE n + 1 \in T
  <2>1. ASSUME NEW q \in Stays(t, p), Len(q) = n + 1 PROVE NoLess(t, p, w, whole, q)
    <3>1. CASE q = <<>>
      BY <1>3, <3>1
    <3>2. CASE q = Sibling(p)
      BY <3>2, SiblingRoom
    <3>3. CASE q # <<>> /\ q # Sibling(p)
      <4>1. PICK r \in Stays(t, p), i \in {1, 2} :
                 /\ q = Append(r, i) /\ Place(t, p, q) = Append(Place(t, p, r), i)
                 /\ ~IsLeaf(t, r) /\ r \in Position /\ Len(q) = Len(r) + 1
        BY <1>1, <3>3, StaysChild
      <4>2. Len(r) = n
        BY <1>2, <2>1, <4>1
      <4>3. NoLess(t, p, w, whole, r)
        BY <4>2
      <4> HIDE DEF T
      <4> QED BY <4>1, <4>3, ChildNoLess
    <3> QED BY <3>1, <3>2, <3>3
  <2> QED BY <2>1
<1>6. T = Nat
  <2>1. T \in SUBSET Nat
    OBVIOUS
  <2> HIDE DEF T
  <2> QED BY <1>4, <1>5, <2>1, SetInduction
<1>7. ASSUME NEW q \in Stays(t, p) PROVE NoLess(t, p, w, whole, q)
  <2>1. Len(q) \in T
    <3> HIDE DEF T
    <3> QED BY <1>2, <1>6
  <2> QED BY <2>1
<1> QED BY <1>7

\* A tree fits after one of its leaves has gone.
LEMMA ClosedFits ==
    ASSUME NEW t, NEW p, NEW w, NEW whole, ClosedAround(t, p, w, whole)
    PROVE  Fits(w, whole)
<1>1. PICK m : MovedUp(t, p, m) /\ FittedAfter(m, Up(p), w)
  BY DEF ClosedAround
<1>2. Shape(t) /\ p \in Leaves(t) /\ p # <<>> /\ whole \in Size /\ Fits(t, whole) /\ whole \in Extent
  BY SizeIsExtent DEF ClosedAround
<1>3. /\ Shape(m) /\ Up(p) \in DOMAIN m /\ Up(p) \in DOMAIN t /\ Up(p) \in Position
      /\ ~IsLeaf(t, Up(p)) /\ Sibling(p) \in Stays(t, p) /\ Place(t, p, Sibling(p)) = Up(p)
      /\ DOMAIN m = KeptOf(t, p) \cup LiftedOf(t, p)
      /\ \A q \in Stays(t, p) :
            /\ Place(t, p, q) \in DOMAIN m /\ Place(t, p, q) \in Position
            /\ IsLeaf(m, Place(t, p, q)) <=> IsLeaf(t, q)
            /\ Place(t, p, q) # Up(p) => m[Place(t, p, q)] = t[q]
            /\ Place(t, p, q) = Up(p) => q = Sibling(p)
      /\ \A r \in DOMAIN m : \E q \in Stays(t, p) : r = Place(t, p, q)
  <2>1. /\ Shape(m) /\ Up(p) \in DOMAIN m /\ Up(p) \in DOMAIN t /\ Up(p) \in Position
        /\ ~IsLeaf(t, Up(p)) /\ Sibling(p) \in Stays(t, p) /\ Place(t, p, Sibling(p)) = Up(p)
        /\ DOMAIN m = KeptOf(t, p) \cup LiftedOf(t, p)
    BY <1>1, <1>2, MovedUpIs
  <2>2. ASSUME NEW q \in Stays(t, p)
        PROVE  /\ Place(t, p, q) \in DOMAIN m /\ Place(t, p, q) \in Position
               /\ IsLeaf(m, Place(t, p, q)) <=> IsLeaf(t, q)
               /\ Place(t, p, q) # Up(p) => m[Place(t, p, q)] = t[q]
               /\ Place(t, p, q) = Up(p) => q = Sibling(p)
    BY <1>1, <1>2, MovedUpIs
  <2>3. ASSUME NEW r \in DOMAIN m PROVE \E q \in Stays(t, p) : r = Place(t, p, q)
    BY <1>1, <1>2, MovedUpFrom
  <2> QED BY <2>1, <2>2, <2>3
<1>4. Stays(t, p) \subseteq DOMAIN t
  BY DEF Stays, KeptOf, BesideOf
<1>5. ASSUME NEW q \in Stays(t, p), ~IsLeaf(t, q)
      PROVE  /\ t[q].dir \in Axes
             /\ Room(w, Place(t, p, q), whole)[t[q].dir] >= 1 + t[q].first[t[q].dir]
  <2>1. q \in DOMAIN t
    BY <1>4
  <2>2. PICK a \in Axes : a = t[q].dir
    BY <1>2, <1>5, <2>1, NodeIs
  <2>3. FitsAt(t, q, whole)
    BY <1>2, <1>5, <2>1, FitsIs
  <2>4. Room(t, q, whole)[a] = t[q].first[a] + t[q].second[a] + 1
    BY <1>2, <1>5, <2>1, <2>2, <2>3, FitsAtIs
  <2>5. Room(w, Place(t, p, q), whole)[a] >= Room(t, q, whole)[a]
    BY <2>2, PlaceRoom DEF NoLess
  <2>6. t[q].first[a] \in Nat /\ t[q].second[a] \in Nat
    BY <1>2, <2>1, NodeIs
  <2>7. Room(w, Place(t, p, q), whole)[a] \in Int
    <3>1. PICK o : o = Place(t, p, q)
      OBVIOUS
    <3>2. o \in DOMAIN m
      BY <1>3, <3>1
    <3>3. Shape(w) /\ DOMAIN w = DOMAIN m
      BY <1>1, <1>3, AlikeIs DEF FittedAfter, Alike
    <3> QED BY <1>2, <3>1, <3>2, <3>3, RoomInt
  <2> QED BY <2>2, <2>4, <2>5, <2>6, <2>7
<1>6. ASSUME NEW o \in DOMAIN m, ~IsLeaf(m, o), ~After(Up(p), o) PROVE FitsAt(m, o, whole)
  <2>1. CASE o = Up(p)
    <3>1. PICK q \in DOMAIN t : q = Sibling(p)
      BY <1>3, <1>4
    <3>2. ~IsLeaf(t, q)
      BY <1>3, <1>6, <2>1, <3>1
    <3>3. PICK size : size = NodeSize(t[Up(p)])
      OBVIOUS
    <3>4. size \in Size
      BY <1>2, <3>3, ClosedUpTop
    <3>5. m[o] = Fit(t[q], size)
      BY <1>1, <1>6, <2>1, <3>1, <3>3 DEF MovedUp
    <3>6. size = Room(t, o, whole)
      BY <1>2, <1>3, <2>1, <3>3, FitsIs DEF FitsAt
    <3>7. Room(w, o, whole) = Room(t, o, whole)
      BY <2>1, SiblingRoom
    <3>8. Room(m, o, whole) = Room(t, o, whole)
      BY <1>1, <1>2, <2>1, KeptRoom
    <3>9. size[t[q].dir] >= 1 + t[q].first[t[q].dir]
      BY <1>3, <1>5, <2>1, <3>1, <3>2, <3>6, <3>7
    <3>10. /\ m[o].dir = t[q].dir
           /\ \A b \in Axes :
              /\ size[b] = IF b = m[o].dir THEN m[o].first[b] + m[o].second[b] + 1 ELSE m[o].first[b]
              /\ b # m[o].dir => m[o].first[b] = m[o].second[b]
      BY <1>2, <3>2, <3>4, <3>5, <3>9, FitFits
    <3>11. Room(m, o, whole) = size
      BY <3>6, <3>8
    <3> QED BY <1>2, <1>3, <1>6, <3>10, <3>11, FitsAtIs
  <2>2. CASE o # Up(p)
    <3>1. o \in KeptOf(t, p)
      <4>1. SUFFICES ASSUME o \in LiftedOf(t, p) PROVE FALSE
        BY <1>3
      <4>2. PICK r \in BesideOf(t, p) : o = Lift(p, r)
        BY <4>1 DEF LiftedOf
      <4>3. Under(Up(p), o)
        BY <1>2, <4>2, LiftIs, LeafOfIs DEF BesideOf, Shape
      <4>4. o \in Position /\ Len(o) \in Nat /\ Len(Up(p)) \in Nat
        BY <1>3, PositionIs DEF Shape
      <4>5. Len(o) = Len(Up(p)) => o = Up(p)
        BY <1>3, <4>3, <4>4, SamePosition DEF Under
      <4> QED BY <1>6, <2>2, <4>3, <4>4, <4>5 DEF After, Above, Under
    <3>2. o \in Stays(t, p) /\ Place(t, p, o) = o /\ o \in DOMAIN t
      BY <3>1 DEF Stays, Place, KeptOf
    <3>3. m[o] = t[o] /\ ~IsLeaf(t, o)
      BY <1>3, <1>6, <2>2, <3>2
    <3>4. Room(m, o, whole) = Room(t, o, whole)
      BY <1>1, <1>2, <3>1, KeptRoom
    <3>5. FitsAt(t, o, whole)
      BY <1>2, <3>2, <3>3, FitsIs
    <3> QED BY <3>3, <3>4, <3>5 DEF FitsAt
  <2> QED BY <2>1, <2>2
<1>7. ASSUME NEW o \in DOMAIN m, ~IsLeaf(m, o), After(Up(p), o)
      PROVE  Room(w, o, Nothing)[m[o].dir] >= 1 + m[o].first[m[o].dir]
  <2>1. PICK q \in Stays(t, p) : o = Place(t, p, q)
    BY <1>3
  <2>2. o \in Position /\ o # Up(p) /\ o # <<>>
    BY <1>3, <1>7, AfterBelow DEF Shape
  <2>3. m[o] = t[q] /\ ~IsLeaf(t, q)
    BY <1>3, <1>7, <2>1, <2>2
  <2>4. Room(w, o, Nothing) = Room(w, o, whole)
    BY <2>2 DEF Room
  <2> QED BY <1>5, <2>1, <2>3, <2>4
<1> QED BY <1>1, <1>2, <1>3, <1>6, <1>7, CascadeFits

\* The tab whose tree has closed up around the leaf p, before the rest is made to fit:
\* m is its tree.
MovesUp(y, p, m, s) ==
    /\ MovedUp(y.tree, p, m)
    /\ TabState(s) /\ s.tree = m /\ s.size = y.size /\ s.before = y.before
    /\ WithoutLeaf(y, p) = Cascade(s, Up(p))
    /\ \A x \in Pane :
          s.pty[x] = IF IsLeaf(m, Up(p)) /\ x = m[Up(p)].pane THEN NodeSize(y.tree[Up(p)])
                                                              ELSE y.pty[x]

\* There is one.
LEMMA MovesUpIs ==
    ASSUME NEW y, TabState(y), NEW p \in Leaves(y.tree), p # <<>>
    PROVE  \E m, s : MovesUp(y, p, m, s)
<1> DEFINE t == y.tree
           x == t[p].pane
           z == [y EXCEPT !.zoomed = IF @ = x THEN None ELSE @]
           size == NodeSize(t[Up(p)])
           shrunk == ClosedUp(t, p)
           told == [z.pty EXCEPT ![shrunk[Up(p)].pane] = size]
           fit == [shrunk EXCEPT ![Up(p)] = Fit(@, size)]
           leaf == IsLeaf(shrunk, Up(p))
           m == IF leaf THEN shrunk ELSE fit
           pty == IF leaf THEN told ELSE z.pty
           s == Told(z, m, pty)
<1>1. /\ Shape(t) /\ y.size \in Size /\ y.before \in Size /\ y.active \in Nat
      /\ y.zoomed \in {None} \cup Shown(t) /\ y.pty \in [Pane -> Size]
      /\ Shown(t) \subseteq Pane /\ None \notin Pane
      /\ y \in [tree : {y.tree}, size : Size, before : Size, active : Nat,
                zoomed : {None} \cup Shown(y.tree), pty : [Pane -> Size]]
  BY TabIs
<1>2. /\ TabState(z) /\ z.tree = t /\ z.size = y.size /\ z.before = y.before /\ z.pty = y.pty
      /\ z.zoomed \in {None} \cup (Shown(t) \ {x})
  BY <1>1 DEF TabState
<1>3. WithoutLeaf(y, p) = Cascade(s, Up(p))
  <2>1. CASE leaf
    <3>1. WithoutLeaf(y, p)
            = Cascade([z EXCEPT !.tree = shrunk, !.pty[shrunk[Up(p)].pane] = size], Up(p))
      BY <2>1 DEF WithoutLeaf
    <3>2. [z EXCEPT !.tree = shrunk, !.pty[shrunk[Up(p)].pane] = size] = Told(z, shrunk, told)
      <4> HIDE DEF z, shrunk, size
      <4> QED BY <1>2 DEF TabState, Told
    <3>3. m = shrunk /\ pty = told
      BY <2>1
    <3> HIDE DEF z, shrunk, size, told, m, pty
    <3> QED BY <3>1, <3>2, <3>3
  <2>2. CASE ~leaf
    <3>1. WithoutLeaf(y, p) = Cascade([z EXCEPT !.tree = fit], Up(p))
      BY <2>2 DEF WithoutLeaf
    <3>2. [z EXCEPT !.tree = fit] = Told(z, fit, z.pty)
      <4> HIDE DEF z, fit
      <4> QED BY <1>2, ToldTree
    <3>3. m = fit /\ pty = z.pty
      BY <2>2
    <3> HIDE DEF z, shrunk, size, told, fit, m, pty
    <3> QED BY <3>1, <3>2, <3>3
  <2> QED BY <2>1, <2>2
<1> HIDE DEF x, z
<1>4. /\ Shape(shrunk) /\ Shown(shrunk) = Shown(t) \ {t[p].pane}
      /\ Up(p) \in DOMAIN shrunk /\ shrunk[Up(p)] = t[Sibling(p)] /\ size \in Size
  BY <1>1, ClosedUpShape, ClosedUpTop
<1>5. Shown(shrunk) = Shown(t) \ {x} /\ (leaf => shrunk[Up(p)].pane \in Shown(shrunk))
  BY <1>4 DEF x, Shown, Leaves
<1> HIDE DEF shrunk, size
<1>6. Alike(shrunk, m) /\ (\A q \in DOMAIN m : q # Up(p) => m[q] = shrunk[q])
      /\ (~leaf => m[Up(p)] = Fit(shrunk[Up(p)], size)) /\ (leaf => m = shrunk)
  <2>1. CASE leaf
    BY <1>4, <2>1, AlikeSelf
  <2>2. CASE ~leaf
    <3>1. /\ Fit(shrunk[Up(p)], size) \in Node
          /\ Fit(shrunk[Up(p)], size).pane = shrunk[Up(p)].pane
          /\ Fit(shrunk[Up(p)], size).dir = shrunk[Up(p)].dir
      BY <1>4, <2>2, FitIs
    <3>2. fit \in [DOMAIN shrunk -> Node] /\ fit[Up(p)] = Fit(shrunk[Up(p)], size)
          /\ \A q \in DOMAIN shrunk : q # Up(p) => fit[q] = shrunk[q]
      BY <1>4, <3>1 DEF Shape
    <3> HIDE DEF fit
    <3>3. Alike(shrunk, fit)
      BY <2>2, <3>1, <3>2 DEF Alike
    <3>4. m = fit /\ DOMAIN fit = DOMAIN shrunk
      BY <2>2, <3>2
    <3> HIDE DEF m
    <3> QED BY <2>2, <3>2, <3>3, <3>4
  <2> QED BY <2>1, <2>2
<1> HIDE DEF m, fit
<1>7. Shape(m) /\ Shown(m) = Shown(shrunk) /\ (IsLeaf(m, Up(p)) <=> leaf)
  BY <1>4, <1>6, AlikeIs
<1>8. MovedUp(t, p, m)
  BY <1>4, <1>6, <1>7 DEF MovedUp, shrunk, size
<1>9. /\ pty \in [Pane -> Size]
      /\ \A o \in Pane : pty[o] = IF leaf /\ o = shrunk[Up(p)].pane THEN size ELSE y.pty[o]
  <2>1. CASE leaf
    BY <1>1, <1>2, <1>4, <1>5, <2>1
  <2>2. CASE ~leaf
    BY <1>1, <1>2, <2>2
  <2> QED BY <2>1, <2>2
<1> HIDE DEF pty, leaf
<1>10. TabState(s) /\ s.tree = m /\ s.size = z.size /\ s.before = z.before /\ s.pty = pty
  BY <1>2, <1>5, <1>7, <1>9, TabStateTold
<1>11. \A o \in Pane :
         s.pty[o] = IF IsLeaf(m, Up(p)) /\ o = m[Up(p)].pane THEN NodeSize(t[Up(p)])
                                                              ELSE y.pty[o]
  <2>1. leaf => m[Up(p)] = shrunk[Up(p)]
    BY <1>6
  <2> HIDE DEF s
  <2> QED BY <1>7, <1>9, <1>10, <2>1 DEF size
<1> HIDE DEF s
<1>12. MovesUp(y, p, m, s)
  BY <1>2, <1>3, <1>8, <1>10, <1>11 DEF MovesUp
<1> QED BY <1>12

\* The tabs that have the size, and were made for a whole, the panes other than z having
\* been told.
Fitting(whole, z, size, before) ==
    {y \in AnyTab :
        /\ TabState(y) /\ y.size = size /\ y.before = before
        /\ y.zoomed \in {z, None} /\ (y.zoomed = None => z \notin Shown(y.tree))
        /\ Fits(y.tree, whole) /\ PtyFits(y, whole, z)}

\* A removal does not lead out of them.
LEMMA WithoutLeafFits ==
    ASSUME NEW whole \in Size, NEW z, NEW size, NEW before, NEW y \in Fitting(whole, z, size, before),
           NEW p \in Leaves(y.tree)
    PROVE  WithoutLeaf(y, p) \in Fitting(whole, z, size, before)
<1> DEFINE t == y.tree
<1>1. PICK v : v = WithoutLeaf(y, p)
  OBVIOUS
<1>2. /\ TabState(y) /\ y.size = size /\ y.before = before
      /\ y.zoomed \in {z, None} /\ (y.zoomed = None => z \notin Shown(y.tree))
      /\ Fits(y.tree, whole) /\ PtyFits(y, whole, z)
  BY DEF Fitting
<1>3. Shape(t) /\ Shown(t) \subseteq Pane /\ None \notin Shown(t)
  BY <1>2, TabIs, LeafOfIs
<1>4. Leaves1(y, t[p].pane, v)
  BY <1>1, <1>2, WithoutLeafIs
<1>5. /\ TabState(v) /\ v.size = size /\ v.before = before
      /\ v.zoomed \in {z, None} /\ (v.zoomed = None => z \notin Shown(v.tree))
  <2>1. v.zoomed = (IF y.zoomed = t[p].pane THEN None ELSE y.zoomed)
        /\ Shown(v.tree) = Shown(t) \ {t[p].pane}
    BY <1>4 DEF Leaves1
  <2> QED BY <1>2, <1>4, <2>1 DEF Leaves1
<1>6. CASE p = <<>>
  <2>1. v.tree = <<>>
    <3>1. PICK u : u = [y EXCEPT !.zoomed = IF @ = t[p].pane THEN None ELSE @]
      OBVIOUS
    <3>2. "tree" \in DOMAIN u
      BY <1>2, <3>1, TabIs
    <3>3. v = [u EXCEPT !.tree = <<>>]
      BY <1>1, <1>6, <3>1 DEF WithoutLeaf
    <3> QED BY <3>2, <3>3
  <2>2. DOMAIN v.tree = {}
    BY <2>1, EmptyTree
  <2>3. Fits(v.tree, whole) /\ PtyFits(v, whole, z)
    BY <2>2 DEF Fits, PtyFits, Leaves
  <2> QED BY <1>1, <1>5, <2>3, TabInSet DEF Fitting
<1>7. CASE p # <<>>
  <2>1. PICK m, s : MovesUp(y, p, m, s)
    BY <1>2, <1>7, MovesUpIs
  <2>2. /\ MovedUp(t, p, m) /\ TabState(s) /\ s.tree = m /\ v = Cascade(s, Up(p))
        /\ \A x \in Pane : s.pty[x] = IF IsLeaf(m, Up(p)) /\ x = m[Up(p)].pane
                                      THEN NodeSize(t[Up(p)]) ELSE y.pty[x]
    BY <1>1, <2>1 DEF MovesUp
  <2>3. /\ Shape(m) /\ Up(p) \in DOMAIN m /\ Up(p) \in DOMAIN t /\ Up(p) \in Position
        /\ ~IsLeaf(t, Up(p)) /\ DOMAIN m = KeptOf(t, p) \cup LiftedOf(t, p)
    <3>1. Shape(t) /\ p \in Leaves(t) /\ p # <<>> /\ MovedUp(t, p, m)
      BY <1>3, <1>7, <2>2
    <3> HIDE DEF t
    <3> QED BY <3>1, MovedUpIs
  <2>4. ASSUME NEW q \in Leaves(m), ~After(Up(p), q), m[q].pane # z
        PROVE  s.pty[m[q].pane] = Room(m, q, whole)
    <3>1. q \in DOMAIN m /\ IsLeaf(m, q) /\ m[q].pane \in Pane
      BY <2>2, <2>3, LeafOfIs, TabIs DEF Leaves
    <3>2. CASE q = Up(p)
      <4>1. s.pty[m[q].pane] = NodeSize(t[Up(p)])
        BY <2>2, <3>1, <3>2
      <4>2. Room(m, q, whole) = Room(t, q, whole)
        BY <1>3, <1>7, <2>2, <3>2, KeptRoom
      <4>3. NodeSize(t[Up(p)]) = Room(t, Up(p), whole)
        BY <1>2, <2>3, FitsIs DEF FitsAt
      <4> QED BY <3>2, <4>1, <4>2, <4>3
    <3>3. CASE q # Up(p)
      <4>1. q \in KeptOf(t, p)
        <5>1. SUFFICES ASSUME q \in LiftedOf(t, p) PROVE FALSE
          BY <2>3, <3>1
        <5>2. PICK r \in BesideOf(t, p) : q = Lift(p, r)
          BY <5>1 DEF LiftedOf
        <5>3. Under(Up(p), q)
          BY <1>3, <1>7, <5>2, LiftIs, LeafOfIs DEF BesideOf, Shape
        <5>4. q \in Position /\ Len(q) \in Nat /\ Len(Up(p)) \in Nat
          BY <2>3, <3>1, PositionIs DEF Shape
        <5>5. Len(q) = Len(Up(p)) => q = Up(p)
          BY <2>3, <5>3, <5>4, SamePosition DEF Under
        <5> QED BY <2>4, <3>3, <5>3, <5>4, <5>5 DEF After, Above, Under
      <4>2. q \in Stays(t, p) /\ Place(t, p, q) = q /\ q \in DOMAIN t
        BY <4>1 DEF Stays, Place, KeptOf
      <4>3. m[q] = t[q] /\ q \in Leaves(t)
        <5>1. (IsLeaf(m, q) <=> IsLeaf(t, q)) /\ m[q] = t[q]
          <6>1. Shape(t) /\ p \in Leaves(t) /\ p # <<>> /\ MovedUp(t, p, m)
            BY <1>3, <1>7, <2>2
          <6> HIDE DEF t
          <6>2. /\ Place(t, p, q) \in DOMAIN m /\ Place(t, p, q) \in Position
                /\ IsLeaf(m, Place(t, p, q)) <=> IsLeaf(t, q)
                /\ Place(t, p, q) # Up(p) => m[Place(t, p, q)] = t[q]
                /\ Place(t, p, q) = Up(p) => q = Sibling(p)
            BY <4>2, <6>1, MovedUpIs
          <6> QED BY <3>3, <4>2, <6>2
        <5> QED BY <3>1, <4>2, <5>1 DEF Leaves
      <4>4. Room(m, q, whole) = Room(t, q, whole)
        BY <1>3, <1>7, <2>2, <4>1, KeptRoom
      <4>5. y.pty[t[q].pane] = Room(t, q, whole)
        BY <1>2, <2>4, <4>3 DEF PtyFits
      <4>6. ~(IsLeaf(m, Up(p)) /\ m[q].pane = m[Up(p)].pane)
        BY <2>3, <3>1, <3>3 DEF Shape, Leaves
      <4> QED BY <2>2, <3>1, <4>3, <4>4, <4>5, <4>6
    <3> QED BY <3>2, <3>3
  <2>5. PtyFits(v, whole, z) /\ FittedAfter(m, Up(p), v.tree)
    BY <2>2, <2>3, <2>4, CascadeTells
  <2>6. ClosedAround(t, p, v.tree, whole)
    BY <1>2, <1>3, <1>7, <2>2, <2>5 DEF ClosedAround
  <2>7. Fits(v.tree, whole)
    BY <2>6, ClosedFits
  <2> QED BY <1>1, <1>5, <2>5, <2>7, TabInSet DEF Fitting
<1> QED BY <1>6, <1>7

\* A removal of panes leaves the sizes right, unless the tab was zoomed for one of them
\* and has been resized since.
LEMMA RemovalFits ==
    ASSUME NEW y, TabState(y), Adds(y), NEW gone, gone \subseteq Shown(y.tree),
           y.zoomed \in gone => y.size = y.before, NEW z, z = RemovePaneIf(y, gone)
    PROVE  Adds(z) /\ (y.zoomed = None => z.zoomed = None) /\ TabState(z)
<1> DEFINE W == Whole(y)
           Q == {v \in Fitting(W, y.zoomed, y.size, y.before) :
                    y.zoomed \notin gone => v.zoomed = y.zoomed}
           w == RemoveWalk(y, gone)
<1>1. /\ Shape(y.tree) /\ y.size \in Size /\ y.before \in Size /\ y.active \in Nat
      /\ y.zoomed \in {None} \cup Shown(y.tree) /\ None \notin Shown(y.tree)
  BY TabIs, LeafOfIs
<1>2. W \in Size
  BY <1>1 DEF Whole
<1>3. Closed(Q, gone)
  <2>1. ASSUME NEW v \in Q PROVE TabState(v)
    BY DEF Fitting
  <2>2. ASSUME NEW v \in Q, NEW p \in Leaves(v.tree), v.tree[p].pane \in gone
        PROVE  WithoutLeaf(v, p) \in Q
    <3>1. v \in Fitting(W, y.zoomed, y.size, y.before) /\ TabState(v)
      BY <2>1
    <3>2. WithoutLeaf(v, p) \in Fitting(W, y.zoomed, y.size, y.before)
      <4> HIDE DEF W
      <4> QED BY <1>2, <3>1, WithoutLeafFits
    <3>3. Leaves1(v, v.tree[p].pane, WithoutLeaf(v, p))
      BY <3>1, WithoutLeafIs
    <3>4. y.zoomed \notin gone => WithoutLeaf(v, p).zoomed = y.zoomed
      BY <2>2, <3>3 DEF Leaves1
    <3> QED BY <3>2, <3>4
  <2> HIDE DEF Q
  <2> QED BY <2>1, <2>2 DEF Closed
<1>4. y \in Q
  <2>1. Fits(y.tree, W) /\ PtyFits(y, W, y.zoomed)
    BY DEF Adds
  <2>2. y \in AnyTab
    BY TabInSet
  <2> HIDE DEF W
  <2> QED BY <1>1, <2>1, <2>2 DEF Fitting
<1>5. w \in Walks(Q)
  <2> HIDE DEF Q
  <2> QED BY <1>3, <1>4, RemoveWalkIs
<1>6. PICK v \in Q : v = w.tab
  <2> HIDE DEF Q, w
  <2> QED BY <1>5 DEF Walks
<1>7. w.removed \in SUBSET Nat
  <2> HIDE DEF Q, w
  <2> QED BY <1>5 DEF Walks
<1>8. /\ TabState(v) /\ v.size = y.size /\ v.before = y.before
      /\ v.zoomed \in {y.zoomed, None} /\ (v.zoomed = None => y.zoomed \notin Shown(v.tree))
      /\ Fits(v.tree, W) /\ PtyFits(v, W, y.zoomed)
      /\ y.zoomed \notin gone => v.zoomed = y.zoomed
  <2> HIDE DEF W
  <2> QED BY DEF Fitting
<1>9. z = Settled(w, y.active)
  BY DEF RemovePaneIf, Settled
<1> HIDE DEF w, Q
<1>10. /\ TabState(z) /\ z.tree = v.tree /\ z.zoomed = v.zoomed /\ z.size = v.size
       /\ z.before = IF v.zoomed = None THEN Nothing ELSE v.before
  BY <1>1, <1>6, <1>7, <1>8, <1>9, SettledIs
<1>11. \A x \in Shown(v.tree) : z.pty[x] = v.pty[x]
  BY <1>1, <1>6, <1>7, <1>8, <1>9, SettledIs
<1>12. Whole(z) = W
  BY <1>8, <1>10 DEF Whole
<1> HIDE DEF W
<1>13. PtyFits(z, W, z.zoomed)
  <2>1. ASSUME NEW p \in Leaves(z.tree), z.tree[p].pane # z.zoomed
        PROVE  z.pty[z.tree[p].pane] = Room(z.tree, p, W)
    <3>1. v.tree[p].pane \in Shown(v.tree)
      BY <1>10 DEF Shown
    <3>2. v.tree[p].pane # y.zoomed
      BY <1>8, <1>10, <2>1, <3>1
    <3>3. v.pty[v.tree[p].pane] = Room(v.tree, p, W)
      BY <1>8, <1>10, <3>2 DEF PtyFits
    <3> QED BY <1>10, <1>11, <3>1, <3>3
  <2> QED BY <2>1 DEF PtyFits
<1> QED BY <1>8, <1>10, <1>12, <1>13 DEF Adds

\* Trees of the same splits, whose leaves are at the same places, fit alike.
SameSplits(t, u) ==
    DOMAIN u = DOMAIN t /\ \A p \in DOMAIN t : /\ IsLeaf(u, p) <=> IsLeaf(t, p)
                                               /\ ~IsLeaf(t, p) => u[p] = t[p]

\* So the sizes are right after the panes have changed places and were told.
LEMMA ShuffleFits ==
    ASSUME NEW y, TabState(y), Adds(y), NEW u, Shape(u), Shown(u) = Shown(y.tree),
           SameSplits(y.tree, u), NEW z, z = ApplySizes([y EXCEPT !.tree = u])
    PROVE  Adds(z) /\ z.zoomed = y.zoomed /\ TabState(z) /\ z.size = y.size
<1> DEFINE t == y.tree
<1>1. PICK v : v = [y EXCEPT !.tree = u]
  OBVIOUS
<1>2. /\ Shape(t) /\ y \in [tree : {y.tree}, size : Size, before : Size, active : Nat,
                            zoomed : {None} \cup Shown(y.tree), pty : [Pane -> Size]]
  BY TabIs
<1>3. /\ v.tree = u /\ v.size = y.size /\ v.before = y.before /\ v.zoomed = y.zoomed
      /\ v \in [tree : {v.tree}, size : Size, before : Size, active : Nat,
                zoomed : {None} \cup Shown(v.tree), pty : [Pane -> Size]]
  BY <1>1, <1>2
<1>4. TabState(v)
  BY <1>3 DEF TabState
<1>5. ASSUME NEW p \in DOMAIN t, NEW whole PROVE Room(u, p, whole) = Room(t, p, whole)
  <2>1. CASE p = <<>>
    BY <2>1 DEF Room
  <2>2. CASE p # <<>>
    <3>1. PICK q \in DOMAIN t, i \in {1, 2} : p = Append(q, i) /\ q \in Position /\ ~IsLeaf(t, q)
      BY <1>2, <2>2, IsChild
    <3>2. u[q] = t[q]
      BY <3>1 DEF SameSplits
    <3> QED BY <3>1, <3>2, RoomChild
  <2> QED BY <2>1, <2>2
<1>6. Fits(u, Whole(y))
  <2>1. ASSUME NEW p \in DOMAIN u, ~IsLeaf(u, p) PROVE FitsAt(u, p, Whole(y))
    <3>1. p \in DOMAIN t /\ ~IsLeaf(t, p) /\ u[p] = t[p]
      BY <2>1 DEF SameSplits
    <3>2. FitsAt(t, p, Whole(y))
      BY <3>1, FitsIs DEF Adds
    <3>3. Room(u, p, Whole(y)) = Room(t, p, Whole(y))
      BY <1>5, <3>1
    <3> QED BY <3>1, <3>2, <3>3 DEF FitsAt
  <2> QED BY <2>1, FitsIs
<1>7. z = ApplySizes(v)
  BY <1>1
<1>8. SizedAnew(v, z) /\ z.tree = u
  BY <1>3, <1>4, <1>7, ApplySizesIs
<1>9. z.size = v.size /\ z.before = v.before
  BY <1>3, <1>7 DEF ApplySizes
<1>10. Whole(z) = Whole(y) /\ z.zoomed = y.zoomed
  BY <1>3, <1>8, <1>9 DEF Whole, SizedAnew
<1>11. ASSUME NEW p \in Leaves(u), u[p].pane # y.zoomed
       PROVE  z.pty[u[p].pane] = Room(u, p, Whole(y))
  <2>1. u[p].pane \in Shown(u) /\ LeafOf(u, u[p].pane) = p /\ u[p].pane \in Pane
    BY LeafOfIs
  <2>2. z.pty[u[p].pane] = Room(u, p, y.size)
    <3> DEFINE pty == [x \in Pane |-> IF x \in Shown(v.tree)
                                      THEN Room(v.tree, LeafOf(v.tree, x), v.size) ELSE v.pty[x]]
    <3>1. z = [v EXCEPT !.pty = pty]
      BY <1>7 DEF ApplySizes
    <3>2. z.pty = pty
      <4> HIDE DEF pty
      <4> QED BY <1>3, <3>1
    <3>3. pty[u[p].pane] = Room(u, p, y.size)
      BY <1>3, <2>1
    <3> QED BY <3>2, <3>3
  <2>3. CASE y.zoomed = None
    BY <2>2, <2>3 DEF Whole
  <2>4. CASE y.zoomed # None
    <3>1. y.zoomed \in Shown(u)
      BY <2>4, TabIs
    <3>2. PICK q \in Leaves(u) : u[q].pane = y.zoomed /\ q \in DOMAIN u /\ q \in Position
      BY <3>1, LeafOfIs
    <3>3. p # <<>>
      <4>1. SUFFICES ASSUME p = <<>> PROVE FALSE
        OBVIOUS
      <4>2. Under(p, q)
        BY <3>2, <4>1, RootIs, PositionIs DEF Under
      <4>3. p = q
        BY <3>2, <4>2, LeavesApart
      <4> QED BY <1>11, <3>2, <4>3
    <3> QED BY <2>2, <3>3 DEF Room
  <2> QED BY <2>3, <2>4
<1>12. z.tree = u /\ z.zoomed = y.zoomed /\ z.size = y.size /\ Whole(z) = Whole(y) /\ TabState(z)
  BY <1>3, <1>8, <1>9, <1>10 DEF SizedAnew
<1>13. PtyFits(z, Whole(z), z.zoomed)
  BY <1>11, <1>12 DEF PtyFits
<1> QED BY <1>6, <1>12, <1>13 DEF Adds

----------------------------------------------------------------------------
(* Sizes: the steps.                                                       *)

\* What SizesAddUp says of the state, besides the types.
TabAdds ==
    "sizes" \notin astray /\ ~hung => Adds(tab) /\ ("zoom" \notin astray => ZoomTold(tab))

\* The two are the same.
LEMMA TabAddsIs == SizesAddUp <=> TreeTypeOK /\ TabAdds
<1> DEFINE t == tab.tree
           whole == IF tab.zoomed = None THEN tab.size ELSE tab.before
           fits == Fits(t, whole)
           told == \A p \in Leaves(t) : t[p].pane # tab.zoomed => tab.pty[t[p].pane] = Room(t, p, whole)
           zoom == tab.zoomed # None /\ "zoom" \notin astray => tab.pty[tab.zoomed] = tab.size
<1>1. SizesAddUp <=> TreeTypeOK /\ ("sizes" \notin astray /\ ~hung => fits /\ told /\ zoom)
  BY DEF SizesAddUp
<1>2. Adds(tab) <=> fits /\ told
  BY DEF Adds, PtyFits, Whole
<1>3. ("zoom" \notin astray => ZoomTold(tab)) <=> zoom
  BY DEF ZoomTold
<1> HIDE DEF fits, told, zoom
<1> QED BY <1>1, <1>2, <1>3 DEF TabAdds

\* What is known of the sizes where a step starts.
LEMMA AddsAtFirst ==
    ASSUME TreeInv, TabAdds, Working
    PROVE  /\ TabState(tab) /\ Shape(tab.tree) /\ DOMAIN tab.tree # {} /\ hung = FALSE
           /\ Adds(tab) /\ ("zoom" \notin astray => ZoomTold(tab))
BY AtFirst DEF TabAdds, Working

\* A tab that differs in the active index alone, or not at all.
LEMMA AddsSame ==
    ASSUME NEW y, NEW z, z.tree = y.tree, z.size = y.size, z.before = y.before,
           z.zoomed = y.zoomed, z.pty = y.pty
    PROVE  (Adds(y) => Adds(z)) /\ (ZoomTold(y) => ZoomTold(z))
BY DEF Adds, ZoomTold, PtyFits, Whole

\* A tab with another active index.
LEMMA AddsActive ==
    ASSUME NEW y, TabState(y), NEW i, NEW z, z = [y EXCEPT !.active = i]
    PROVE  (Adds(y) => Adds(z)) /\ (ZoomTold(y) => ZoomTold(z))
<1>1. y \in [tree : {y.tree}, size : Size, before : Size, active : Nat,
             zoomed : {None} \cup Shown(y.tree), pty : [Pane -> Size]]
  BY TabIs
<1>2. z.tree = y.tree /\ z.size = y.size /\ z.before = y.before /\ z.zoomed = y.zoomed /\ z.pty = y.pty
  BY <1>1
<1> QED BY <1>2, AddsSame

\* Nothing happens to the tab, or it is unzoomed.
LEMMA UnzoomAdds ==
    ASSUME TreeInv, TabAdds, Working, NEW u, u \in {Just(tab), Unzoomed(tab)},
           ~u.hung, "sizes" \notin u.astray
    PROVE  /\ TabState(u.tab) /\ Adds(u.tab) /\ ("zoom" \notin astray => ZoomTold(u.tab))
           /\ Shown(u.tab.tree) = Shown(tab.tree) /\ Result(u)
           /\ u.tab = tab \/ u.tab.zoomed = None
<1>1. /\ TabState(tab) /\ DOMAIN tab.tree # {} /\ Adds(tab)
      /\ "zoom" \notin astray => ZoomTold(tab)
  BY AddsAtFirst
<1>2. TabState(u.tab) /\ Shown(u.tab.tree) = Shown(tab.tree) /\ Result(u)
  BY <1>1, UnzoomFocus
<1>3. CASE u = Just(tab)
  <2>1. u.tab = tab
    BY <1>3 DEF Just
  <2> QED BY <1>1, <1>2, <2>1
<1>4. CASE u = Unzoomed(tab)
  <2>1. /\ ~Unzoomed(tab).hung /\ "sizes" \notin Unzoomed(tab).astray => Adds(Unzoomed(tab).tab)
        /\ Unzoomed(tab).tab.zoomed = None
    BY <1>1, ZoomFits
  <2>2. Adds(u.tab) /\ u.tab.zoomed = None
    BY <1>4, <2>1
  <2> QED BY <1>2, <2>2 DEF ZoomTold
<1> QED BY <1>3, <1>4

\* The first half of a split.
LEMMA AskAdds ==
    ASSUME TreeInv, TabAdds, NEW x \in Pane, NEW r \in Requests, AskSplit(x, r)
    PROVE  TabAdds'
<1> DEFINE u == IF r.top THEN Just(tab) ELSE Unzoomed(tab)
<1>1. Working /\ tab' = u.tab /\ hung' = u.hung /\ astray' = astray \cup u.astray
  BY DEF AskSplit, Becomes
<1>2. u \in {Just(tab), Unzoomed(tab)}
  OBVIOUS
<1> HIDE DEF u
<1>3. ASSUME "sizes" \notin astray', ~hung' PROVE Adds(tab') /\ ("zoom" \notin astray' => ZoomTold(tab'))
  <2>1. Adds(u.tab) /\ ("zoom" \notin astray => ZoomTold(u.tab))
    BY <1>1, <1>2, <1>3, UnzoomAdds
  <2> QED BY <1>1, <2>1
<1> QED BY <1>3 DEF TabAdds

\* The second half.
LEMMA FinishAdds ==
    ASSUME TreeInv, TabAdds, NEW ask \in asked, NEW new \in Pane, FinishSplit(ask, new)
    PROVE  TabAdds'
<1>1. Working /\ new \in Pane \ Shown(tab.tree)
  BY DEF FinishSplit
<1>2. /\ TabState(tab) /\ Shape(tab.tree) /\ DOMAIN tab.tree # {} /\ hung = FALSE
      /\ Adds(tab) /\ ("zoom" \notin astray => ZoomTold(tab))
  BY <1>1, AddsAtFirst
<1>3. ask.request \in Requests
  BY <1>1, AtFirst DEF AskedOK
<1> DEFINE r == ask.request
           x == ask.pane
           s == SplitAndInsert(tab, Index(tab.tree, x), r, new)
<1>4. CASE x \notin Shown(tab.tree)
  <2>1. tab' = tab /\ hung' = hung /\ astray' = astray
    BY <1>4 DEF FinishSplit
  <2> QED BY <2>1 DEF TabAdds
<1>5. CASE x \in Shown(tab.tree)
  <2>1. tab' = s.tab /\ hung' = s.hung /\ astray' = astray \cup s.astray
    BY <1>5 DEF FinishSplit, Becomes, FinalIndex
  <2>2. PICK o : o = s
    OBVIOUS
  <2>3. ASSUME "sizes" \notin astray' PROVE Adds(tab') /\ ("zoom" \notin astray' => ZoomTold(tab'))
    <3>1. "sizes" \notin o.astray
      BY <2>1, <2>2, <2>3
    <3>2. Adds(o.tab) /\ (o.tab = tab \/ o.tab.zoomed = None)
      <4>1. TabState(tab)
        BY <1>2
      <4>2. new \in Pane \ Shown(tab.tree)
        BY <1>1
      <4>3. Adds(tab)
        BY <1>2
      <4>4. o = SplitAndInsert(tab, Index(tab.tree, x), r, new)
        BY <2>2
      <4>5. r \in Requests
        BY <1>3
      <4>6. x \in Shown(tab.tree)
        BY <1>5
      <4> HIDE DEF r, x, s
      <4>7. Inserted(tab, o)
        BY <3>1, <4>1, <4>2, <4>3, <4>4, <4>5, <4>6, InsertFits
      <4> QED BY <4>7 DEF Inserted
    <3> HIDE DEF s
    <3> QED BY <1>2, <2>1, <2>2, <3>2 DEF ZoomTold
  <2> QED BY <2>3 DEF TabAdds
<1> QED BY <1>4, <1>5

\* A pane is moved beside another.
LEMMA MoveAdds ==
    ASSUME TreeInv, TabAdds, NEW src \in Pane, NEW x \in Pane, NEW r \in Requests,
           MovePane(src, x, r)
    PROVE  TabAdds'
<1>1. Working /\ src \in Shown(tab.tree) /\ x \in Shown(tab.tree)
  BY DEF MovePane
<1>2. /\ TabState(tab) /\ Shape(tab.tree) /\ DOMAIN tab.tree # {} /\ hung = FALSE
      /\ Adds(tab) /\ ("zoom" \notin astray => ZoomTold(tab))
  BY <1>1, AddsAtFirst
<1> DEFINE u == IF r.top THEN Just(tab) ELSE Unzoomed(tab)
           y == RemovePaneIf(u.tab, {src})
           s == IF x \in Shown(y.tree) THEN SplitAndInsert(y, Index(y.tree, x), r, src) ELSE Just(y)
           lost == Strays("sizes", u.tab.zoomed = src /\ tab.size # tab.before)
           more == u.astray \cup lost \cup Strays("zoom", u.tab.zoomed # None)
           out == [s EXCEPT !.astray = @ \cup u.astray
                            \cup Strays("sizes", u.tab.zoomed = src /\ tab.size # tab.before)
                            \cup Strays("zoom", u.tab.zoomed # None)]
<1>3. /\ u.hung => Becomes(u)
      /\ ~u.hung => Becomes(out)
  BY DEF MovePane
<1>4. u \in {Just(tab), Unzoomed(tab)}
  OBVIOUS
<1> HIDE DEF u
<1>5. TabState(u.tab) /\ Shown(u.tab.tree) = Shown(tab.tree) /\ u.hung \in BOOLEAN
  BY <1>2, <1>4, UnzoomFocus
<1>6. CASE u.hung
  <2>1. hung' = u.hung
    BY <1>3, <1>6 DEF Becomes
  <2> QED BY <1>6, <2>1 DEF TabAdds
<1>7. CASE ~u.hung
  <2>1. Removed1(u.tab, src, y)
    <3>1. src \in Shown(u.tab.tree)
      BY <1>1, <1>5
    <3> QED BY <1>5, <3>1, RemoveOneIs
  <2>2. PICK v : v = y
    OBVIOUS
  <2>3. TabState(v) /\ Shown(v.tree) = Shown(tab.tree) \ {src}
    BY <1>5, <2>1, <2>2 DEF Removed1
  <2>4. v = RemovePaneIf(u.tab, {src})
    BY <2>2
  <2>5. s = IF x \in Shown(v.tree) THEN SplitAndInsert(v, Index(v.tree, x), r, src) ELSE Just(v)
    <3> HIDE DEF y
    <3> QED BY <2>2
  <2>6. Inserts(v, src, s)
    <3>1. CASE x \in Shown(v.tree)
      <4>1. Inserts(v, src, SplitAndInsert(v, Index(v.tree, x), r, src))
        BY <2>3, <3>1, InsertIs
      <4> HIDE DEF s
      <4> QED BY <2>5, <3>1, <4>1
    <3>2. CASE x \notin Shown(v.tree)
      <4>1. /\ Just(v).tab = v /\ Just(v).hung = FALSE /\ Just(v).astray = {}
            /\ Just(v) \in [tab : {Just(v).tab}, hung : BOOLEAN, astray : SUBSET {"sizes"}]
        BY DEF Just
      <4>2. Inserts(v, src, Just(v))
        BY <2>3, <4>1 DEF Inserts
      <4> HIDE DEF s
      <4> QED BY <2>5, <3>2, <4>2
    <3> QED BY <3>1, <3>2
  <2>7. PICK o : o = s
    OBVIOUS
  <2> HIDE DEF y, s
  <2>8. s \in [tab : {s.tab}, hung : BOOLEAN, astray : SUBSET {"sizes"}]
    BY <2>6 DEF Inserts
  <2>9. out.tab = s.tab /\ out.hung = s.hung /\ out.astray = s.astray \cup more
    BY <2>8
  <2>10. tab' = o.tab /\ hung' = o.hung /\ astray' = astray \cup (o.astray \cup more)
    <3> HIDE DEF out, more
    <3> QED BY <1>3, <1>7, <2>7, <2>9 DEF Becomes
  <2> HIDE DEF out
  <2>11. ASSUME "sizes" \notin astray' PROVE Adds(tab') /\ ("zoom" \notin astray' => ZoomTold(tab'))
    <3>1. "sizes" \notin u.astray /\ "sizes" \notin lost /\ "sizes" \notin o.astray
      <4> HIDE DEF lost
      <4> QED BY <2>10, <2>11
    <3>2. ~(u.tab.zoomed = src /\ tab.size # tab.before)
      BY <3>1 DEF Strays
    <3>3. "zoom" \notin astray' => u.tab.zoomed = None
      BY <2>10 DEF Strays
    <3>4. Adds(u.tab) /\ (u.tab = tab \/ u.tab.zoomed = None)
      BY <1>1, <1>4, <1>7, <3>1, UnzoomAdds
    <3>5. src # None
      BY TabTreeAssumption
    <3>6. u.tab.zoomed \in {src} => u.tab.size = u.tab.before
      BY <3>2, <3>4, <3>5
    <3>7. Adds(v) /\ (u.tab.zoomed = None => v.zoomed = None)
      BY <1>1, <1>5, <2>4, <3>4, <3>6, RemovalFits
    <3>8. Adds(o.tab) /\ (o.tab = v \/ o.tab.zoomed = None)
      <4>1. CASE x \in Shown(v.tree)
        <5>1. o = SplitAndInsert(v, Index(v.tree, x), r, src)
          BY <2>5, <2>7, <4>1
        <5>2. TabState(v)
          BY <2>3
        <5>3. src \in Pane \ Shown(v.tree)
          BY <2>3
        <5>4. Adds(v)
          BY <3>7
        <5>5. "sizes" \notin o.astray
          BY <3>1
        <5>6. Inserted(v, o)
          BY <4>1, <5>1, <5>2, <5>3, <5>4, <5>5, InsertFits
        <5> QED BY <5>6 DEF Inserted
      <4>2. CASE x \notin Shown(v.tree)
        <5>1. o = Just(v)
          BY <2>5, <2>7, <4>2
        <5> QED BY <3>7, <5>1 DEF Just
      <4> QED BY <4>1, <4>2
    <3> HIDE DEF more, lost
    <3> QED BY <2>10, <3>3, <3>7, <3>8 DEF ZoomTold
  <2> QED BY <2>11 DEF TabAdds
<1> QED BY <1>5, <1>6, <1>7

\* Panes are removed.
LEMMA RemoveAdds ==
    ASSUME TreeInv, TabAdds, NEW gone \in SUBSET Pane, RemovePanes(gone)
    PROVE  TabAdds'
<1> DEFINE lost == Strays("sizes", tab.zoomed \in gone /\ tab.size # tab.before)
           more == lost \cup Strays("focus", Cardinality(gone) > 1)
                        \cup Strays("zoom", tab.zoomed # None)
<1>1. /\ Working /\ gone \subseteq Shown(tab.tree) /\ tab' = RemovePaneIf(tab, gone)
      /\ astray' = astray \cup more
  BY DEF RemovePanes
<1>2. TabState(tab) /\ Adds(tab)
  BY <1>1, AddsAtFirst
<1>3. ASSUME "sizes" \notin astray' PROVE Adds(tab') /\ ("zoom" \notin astray' => ZoomTold(tab'))
  <2>1. "sizes" \notin lost
    <3> HIDE DEF lost
    <3> QED BY <1>1, <1>3
  <2>2. tab.zoomed \in gone => tab.size = tab.before
    BY <2>1 DEF Strays
  <2>3. "zoom" \notin astray' => tab.zoomed = None
    BY <1>1 DEF Strays
  <2>4. Adds(tab') /\ (tab.zoomed = None => tab'.zoomed = None)
    BY <1>1, <1>2, <2>2, RemovalFits
  <2> QED BY <2>3, <2>4 DEF ZoomTold
<1> QED BY <1>3 DEF TabAdds

\* The sizes are right after an operation that keeps them right.
LEMMA BecomesAdds ==
    ASSUME NEW u, tab' = u.tab, hung' = u.hung, astray' = astray \cup u.astray, AddsAfter(u)
    PROVE  TabAdds'
BY DEF AddsAfter, TabAdds

\* The window is resized.
LEMMA ResizeAdds ==
    ASSUME TreeInv, TabAdds, NEW size \in Sizes, ResizeTab(size)
    PROVE  TabAdds'
<1> DEFINE u == Resize(tab, size)
<1>1. Working /\ tab' = u.tab /\ hung' = u.hung /\ astray' = astray \cup u.astray
  BY DEF ResizeTab, Becomes
<1>2. TabState(tab) /\ DOMAIN tab.tree # {} /\ Adds(tab)
  BY <1>1, AddsAtFirst
<1>3. size \in Size
  BY TabTreeAssumption DEF Size
<1>4. tab.zoomed = None => Fits(tab.tree, tab.size)
  BY <1>2 DEF Adds, Whole
<1>5. AddsAfter(u)
  BY <1>2, <1>3, <1>4, ResizeFits
<1> HIDE DEF u
<1> QED BY <1>1, <1>5, BecomesAdds

\* A pane is zoomed, or no longer.
LEMMA ZoomAdds ==
    ASSUME TreeInv, TabAdds, ToggleZoomState
    PROVE  TabAdds'
<1> DEFINE u == ToggleZoom(tab)
<1>1. Working /\ tab' = u.tab /\ hung' = u.hung /\ astray' = astray \cup u.astray
  BY DEF ToggleZoomState, Becomes
<1>2. TabState(tab) /\ DOMAIN tab.tree # {} /\ Adds(tab)
  BY <1>1, AddsAtFirst
<1>3. AddsAfter(u)
  BY <1>2, ZoomFits
<1> HIDE DEF u
<1> QED BY <1>1, <1>3, BecomesAdds

\* A pane is activated.
LEMMA SetActiveAdds ==
    ASSUME TreeInv, TabAdds, NEW x \in Pane, SetActivePane(x)
    PROVE  TabAdds'
<1> DEFINE u == Unzoomed(tab)
           i == Index(tab.tree, x)
           z == [u.tab EXCEPT !.active = i]
<1>1. Working /\ Becomes([u EXCEPT !.tab.active = i])
  BY DEF SetActivePane
<1>2. TabState(tab) /\ DOMAIN tab.tree # {} /\ u \in {Just(tab), Unzoomed(tab)}
  BY <1>1, AddsAtFirst
<1>3. Result(u)
  BY <1>2, UnzoomResult
<1> HIDE DEF u, i
<1>4. tab' = z /\ hung' = u.hung /\ astray' = astray \cup u.astray
  <2>1. /\ [u EXCEPT !.tab.active = i].tab = z /\ [u EXCEPT !.tab.active = i].hung = u.hung
        /\ [u EXCEPT !.tab.active = i].astray = u.astray
    BY <1>3 DEF Result
  <2> QED BY <1>1, <2>1 DEF Becomes
<1>5. ASSUME "sizes" \notin astray', ~hung' PROVE Adds(tab') /\ ("zoom" \notin astray' => ZoomTold(tab'))
  <2>1. TabState(u.tab) /\ Adds(u.tab) /\ ("zoom" \notin astray => ZoomTold(u.tab))
    BY <1>1, <1>2, <1>4, <1>5, UnzoomAdds
  <2>2. (Adds(u.tab) => Adds(z)) /\ (ZoomTold(u.tab) => ZoomTold(z))
    BY <2>1, AddsActive
  <2> QED BY <1>4, <2>1, <2>2
<1> QED BY <1>5 DEF TabAdds

\* A pane is activated by its index.
LEMMA ByIndexAdds ==
    ASSUME TreeInv, TabAdds, NEW i \in Indices, ActivateByIndex(i)
    PROVE  TabAdds'
<1> DEFINE z == [tab EXCEPT !.active = i]
<1>1. Working /\ tab' = z /\ astray \subseteq astray' /\ hung' = hung
  BY DEF ActivateByIndex
<1>2. TabState(tab) /\ Adds(tab) /\ ("zoom" \notin astray => ZoomTold(tab))
  BY <1>1, AddsAtFirst
<1>3. (Adds(tab) => Adds(z)) /\ (ZoomTold(tab) => ZoomTold(z))
  BY <1>2, AddsActive
<1> HIDE DEF z
<1> QED BY <1>1, <1>2, <1>3 DEF TabAdds

\* A rotation and a swap leave the splits where they are.
LEMMA RotatedSplits == ASSUME NEW t, Shape(t), NEW by \in {-1, 1} PROVE SameSplits(t, Rotated(t, by))
<1> DEFINE u == Rotated(t, by)
<1>1. /\ Count(t) \in Nat
      /\ \A x \in Shown(t) : Index(t, x) \in 0..(Count(t) - 1)
      /\ \A i \in 0..(Count(t) - 1) : PaneAt(t, i) \in Shown(t)
      /\ None \notin Shown(t)
  BY IndexIs, LeafOfIs
<1>2. DOMAIN u = DOMAIN t
  BY DEF Rotated
<1>3. ASSUME NEW p \in DOMAIN t, ~IsLeaf(t, p) PROVE u[p] = t[p] /\ ~IsLeaf(u, p)
  BY <1>3 DEF Rotated, IsLeaf
<1>4. ASSUME NEW p \in DOMAIN t, IsLeaf(t, p) PROVE IsLeaf(u, p)
  <2>1. PICK i \in Int : i = Index(t, t[p].pane) - by /\ i <= Count(t) /\ i >= -1 /\ Count(t) > 0
    <3>1. t[p].pane \in Shown(t)
      BY <1>4 DEF Shown, Leaves
    <3>2. Index(t, t[p].pane) \in 0..(Count(t) - 1)
      BY <1>1, <3>1
    <3> QED BY <1>1, <3>2
  <2>2. PICK j \in 0..(Count(t) - 1) : j = IF i < 0 THEN Count(t) - 1 ELSE IF i = Count(t) THEN 0 ELSE i
    BY <1>1, <2>1
  <2>3. u[p] = Leaf(PaneAt(t, j))
    BY <1>4, <2>1, <2>2 DEF Rotated
  <2>4. PaneAt(t, j) # None
    BY <1>1, <2>2
  <2> QED BY <2>3, <2>4 DEF IsLeaf, Leaf
<1> HIDE DEF u
<1>5. SameSplits(t, u)
  BY <1>2, <1>3, <1>4 DEF SameSplits
<1> QED BY <1>5 DEF u

\* The leaves that are swapped are leaves after that.
LEMMA SwappedSplits ==
    ASSUME NEW t, Shape(t), NEW p \in Leaves(t), NEW q \in Leaves(t)
    PROVE  SameSplits(t, Swapped(t, p, q))
<1> DEFINE u == Swapped(t, p, q)
<1>1. p \in DOMAIN t /\ q \in DOMAIN t /\ IsLeaf(t, p) /\ IsLeaf(t, q)
  BY DEF Leaves
<1>2. u = [r \in DOMAIN t |-> IF r = q THEN t[p] ELSE IF r = p THEN t[q] ELSE t[r]]
  BY <1>1 DEF Swapped, Shape
<1> HIDE DEF u
<1>3. SameSplits(t, u)
  BY <1>1, <1>2 DEF SameSplits, IsLeaf
<1> QED BY <1>3 DEF u

\* The panes are rotated.
LEMMA RotateAdds ==
    ASSUME TreeInv, TabAdds, NEW by \in {-1, 1}, RotatePanes(by)
    PROVE  TabAdds'
<1> DEFINE more == Strays("focus", tab.zoomed # None) \cup Strays("zoom", tab.zoomed # None)
<1>1. PICK u : u = Rotated(tab.tree, by)
  OBVIOUS
<1>2. /\ Working /\ tab' = ApplySizes([tab EXCEPT !.tree = u]) /\ astray' = astray \cup more
      /\ hung' = hung
  BY <1>1 DEF RotatePanes
<1>3. TabState(tab) /\ Shape(tab.tree) /\ Adds(tab)
  BY <1>2, AddsAtFirst
<1>4. Shape(u) /\ Shown(u) = Shown(tab.tree) /\ SameSplits(tab.tree, u)
  BY <1>1, <1>3, RotatedKeeps, RotatedSplits
<1>5. PICK z : z = ApplySizes([tab EXCEPT !.tree = u])
  OBVIOUS
<1>6. Adds(z) /\ z.zoomed = tab.zoomed
  BY <1>3, <1>4, <1>5, ShuffleFits
<1>7. "zoom" \notin astray' => tab.zoomed = None
  BY <1>2 DEF Strays
<1> QED BY <1>2, <1>5, <1>6, <1>7 DEF TabAdds, ZoomTold

\* Two panes are swapped.
LEMMA SwapAdds ==
    ASSUME TreeInv, TabAdds, NEW i \in Indices, NEW keep \in BOOLEAN, SwapActive(i, keep)
    PROVE  TabAdds'
<1> DEFINE t == tab.tree
           x == PaneAt(t, i)
           o == PaneAt(t, tab.active)
<1>1. PICK u : u = Swapped(t, LeafOf(t, x), LeafOf(t, o))
  OBVIOUS
<1>2. PICK v : v = ApplySizes([tab EXCEPT !.tree = u])
  OBVIOUS
<1>3. PICK active : active = IF keep THEN i ELSE v.active
  OBVIOUS
<1>4. /\ Working /\ tab.zoomed = None /\ i < Count(t) /\ tab.active < Count(t)
      /\ tab' = [v EXCEPT !.active = active] /\ hung' = hung /\ astray' = astray
  BY <1>1, <1>2, <1>3 DEF SwapActive
<1>5. TabState(tab) /\ Shape(t) /\ Adds(tab) /\ tab.active \in Nat /\ i \in Nat /\ Count(t) \in Nat
  BY <1>4, AddsAtFirst, TabIs, IndexIs DEF Indices
<1>6. x \in Shown(t) /\ o \in Shown(t)
  BY <1>4, <1>5, IndexIs
<1>7. Shape(u) /\ Shown(u) = Shown(t) /\ SameSplits(t, u)
  <2> HIDE DEF x, o, t
  <2>1. LeafOf(t, x) \in Leaves(t) /\ LeafOf(t, o) \in Leaves(t)
    BY <1>5, <1>6, LeafOfIs
  <2>2. Shape(u) /\ Shown(u) = Shown(t)
    BY <1>1, <1>5, <1>6, SwappedKeeps
  <2>3. SameSplits(t, u)
    BY <1>1, <1>5, <2>1, SwappedSplits
  <2> QED BY <2>2, <2>3
<1>8. Adds(v) /\ v.zoomed = None /\ TabState(v)
  BY <1>2, <1>4, <1>5, <1>7, ShuffleFits
<1>9. PICK z : z = [v EXCEPT !.active = active]
  OBVIOUS
<1>10. Adds(z) /\ ZoomTold(z)
  BY <1>8, <1>9, AddsActive DEF ZoomTold
<1> QED BY <1>4, <1>9, <1>10 DEF TabAdds

\* A split is moved.
LEMMA MovesSplitAdds ==
    ASSUME TreeInv, TabAdds, Working, NEW p \in DOMAIN tab.tree, NEW d \in {-1, 1}, Movable(p),
           MovesSplit(p, d), tab.zoomed = None
    PROVE  TabAdds'
<1> DEFINE lost == Strays("sizes", \E q \in DOMAIN tab'.tree : \E a \in Axes :
                                ~IsLeaf(tab'.tree, q) /\ tab'.tree[q].second[a] = 0)
<1>1. tab' = MoveSplitAndCascade(tab, p, d) /\ astray' = astray \cup lost
  BY DEF MovesSplit
<1>2. TabState(tab) /\ Adds(tab)
  BY AddsAtFirst
<1>3. PICK z : z = MoveSplitAndCascade(tab, p, d)
  OBVIOUS
<1>4. SizedAnew(tab, z)
  BY <1>2, <1>3, MoveSplitKeeps DEF Movable
<1>5. ASSUME "sizes" \notin astray' PROVE Adds(z)
  <2>1. "sizes" \notin lost
    <3> HIDE DEF lost
    <3> QED BY <1>1, <1>5
  <2>2. \A q \in DOMAIN z.tree : \A a \in Axes : IsLeaf(z.tree, q) \/ z.tree[q].second[a] # 0
    BY <1>1, <1>3, <2>1 DEF Strays
  <2> QED BY <1>2, <1>3, <2>2, MoveSplitFits DEF Movable
<1>6. z.zoomed = None
  BY <1>4 DEF SizedAnew
<1> HIDE DEF lost
<1> QED BY <1>1, <1>3, <1>5, <1>6 DEF TabAdds, ZoomTold

\* All the operations keep the sizes right, or mark them as astray.
LEMMA StepAdds == ASSUME TreeInv, TabAdds, TreeNext PROVE TabAdds'
<1>1. CASE \E x \in Pane, r \in Requests : AskSplit(x, r)
  BY <1>1, AskAdds
<1>2. CASE \E ask \in asked, new \in Pane : FinishSplit(ask, new)
  BY <1>2, FinishAdds
<1>3. CASE \E src, x \in Pane, r \in Requests : MovePane(src, x, r)
  BY <1>3, MoveAdds
<1>4. CASE \E gone \in SUBSET Pane : RemovePanes(gone)
  BY <1>4, RemoveAdds
<1>5. CASE \E size \in Sizes : ResizeTab(size)
  BY <1>5, ResizeAdds
<1>6. CASE ToggleZoomState
  BY <1>6, ZoomAdds
<1>7. CASE \E x \in Pane : SetActivePane(x)
  BY <1>7, SetActiveAdds
<1>8. CASE \E i \in Indices : ActivateByIndex(i)
  BY <1>8, ByIndexAdds
<1>9. CASE \E by \in {-1, 1} : RotatePanes(by)
  BY <1>9, RotateAdds
<1>10. CASE \E i \in Indices, keep \in BOOLEAN : SwapActive(i, keep)
  BY <1>10, SwapAdds
<1>11. CASE \E p \in DOMAIN tab.tree, d \in {-1, 1} : ResizeSplitBy(p, d)
  <2>1. PICK p \in DOMAIN tab.tree, d \in {-1, 1} : ResizeSplitBy(p, d)
    BY <1>11
  <2>2. Working /\ Movable(p) /\ MovesSplit(p, d) /\ tab.zoomed = None
    BY <2>1 DEF ResizeSplitBy
  <2> QED BY <2>2, MovesSplitAdds
<1>12. CASE \E a \in Axes, d \in {-1, 1} : AdjustPaneSize(a, d)
  <2>1. PICK a \in Axes, d \in {-1, 1} : AdjustPaneSize(a, d)
    BY <1>12
  <2>2. PICK p \in DOMAIN tab.tree : Movable(p) /\ MovesSplit(p, d)
    BY <2>1 DEF AdjustPaneSize
  <2>3. Working /\ tab.zoomed = None
    BY <2>1 DEF AdjustPaneSize
  <2> QED BY <2>2, <2>3, MovesSplitAdds
<1> QED
  BY <1>1, <1>2, <1>3, <1>4, <1>5, <1>6, <1>7, <1>8, <1>9, <1>10, <1>11, <1>12 DEF TreeNext

\* The one pane at first has the size of the tab.
LEMMA InitAdds == ASSUME TreeInit PROVE TabAdds
<1>1. PICK first \in Pane :
        tab = [tree |-> [p \in {<<>>} |-> Leaf(first)], size |-> Start, before |-> Nothing,
               active |-> 0, zoomed |-> None,
               pty |-> [x \in Pane |-> IF x = first THEN Start ELSE Nothing]]
  BY DEF TreeInit
<1> DEFINE t == [p \in {<<>>} |-> Leaf(first)]
<1>2. /\ tab.tree = t /\ tab.size = Start /\ tab.zoomed = None /\ tab.pty[first] = Start
  BY <1>1
<1>3. first # None /\ t[<<>>].pane = first /\ DOMAIN t = {<<>>}
  BY TabTreeAssumption DEF Leaf
<1> HIDE DEF t
<1>4. Leaves(t) = {<<>>}
  BY <1>3 DEF Leaves, IsLeaf
<1>5. Fits(tab.tree, Whole(tab))
  BY <1>2, <1>3, <1>4 DEF Fits
<1>6. PtyFits(tab, Whole(tab), tab.zoomed)
  BY <1>2, <1>3, <1>4 DEF PtyFits, Room, Whole
<1> QED BY <1>2, <1>5, <1>6 DEF TabAdds, Adds, ZoomTold

\* The two parts of every split fill the room that it has, and every pane was last told
\* the size of the room that it is drawn in.
THEOREM SizesCorrect == TreeSpec => []SizesAddUp
<1>1. TreeInit => TreeInv /\ TabAdds
  BY TreeInitInv, InitAdds
<1>2. TreeInv /\ TabAdds /\ [TreeNext]_treeVars => (TreeInv /\ TabAdds)'
  <2>1. ASSUME TreeInv, TabAdds, TreeNext PROVE TreeInv' /\ TabAdds'
    BY <2>1, TreeStep, StepAdds
  <2>2. ASSUME TreeInv, TabAdds, UNCHANGED treeVars PROVE TreeInv' /\ TabAdds'
    <3>1. TreeInv'
      BY <2>2, TreeUnchanged
    <3>2. TabAdds'
      BY <2>2 DEF TabAdds, treeVars
    <3> QED BY <3>1, <3>2
  <2> QED BY <2>1, <2>2
<1>3. TreeInv /\ TabAdds => SizesAddUp
  BY TabAddsIs DEF TreeInv
<1> QED BY <1>1, <1>2, <1>3, PTL DEF TreeSpec
=============================================================================
