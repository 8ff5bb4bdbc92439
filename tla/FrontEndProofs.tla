--------------------------- MODULE FrontEndProofs ---------------------------
(***************************************************************************)
(* Proofs about FrontEnd, for any number of windows and workspaces.        *)
(***************************************************************************)
EXTENDS FrontEnd, SequenceTheorems, FiniteSetTheorems, TLAPS
----------------------------------------------------------------------------
(* The inductive invariant.                                                *)

\* What waits in the queue: the kinds of closures, and what each is meant for.
Closure == [do : {"reconcile", "prune", "quit", "switch", "show", "build", "spawn"},
            win : Window \cup {None}, gui : Gui \cup {None}, then : Workspace \cup {None},
            todo : SUBSET Window]

GuiState == [home : [Window -> Workspace \cup {None}], filled : SUBSET Window,
             dead : SUBSET Window, next : 1..(MaxWindow + 1), active : Workspace,
             switching : BOOLEAN, spawned : SUBSET Window,
             known : [Gui -> Window \cup {None}], shows : [Gui -> Window \cup {None}],
             closing : SUBSET Gui, queue : Seq(Closure)]

Build == [at : Window, todo : SUBSET Window]
Spawn == [win : Window, then : Workspace \cup {None}]

Meant(c) ==
    /\ c.do = "switch" => c.then \in Workspace
    /\ c.do = "show" => c.gui \in Gui /\ c.win \in Window

\* Shows(x, i, g): the i-th closure has g show another mux window.
Shows(x, i, g) == x.queue[i].do = "show" /\ x.queue[i].gui = g

\* GUI window g shows what the front end thinks it does, once the closures have run.
WillShow(x, g) ==
    /\ (\A i \in DOMAIN x.queue : ~Shows(x, i, g)) => x.shows[g] = x.known[g]
    /\ \A i \in DOMAIN x.queue :
          Shows(x, i, g) /\ (\A j \in DOMAIN x.queue : j > i => ~Shows(x, j, g))
             => x.queue[i].win = x.known[g]

\* A GUI window that is open is known or is closing.
Sound(x) ==
    /\ x \in GuiState
    /\ x.dead \subseteq x.filled /\ x.filled \subseteq Live(x)
    /\ \A i \in DOMAIN x.queue : Meant(x.queue[i])
    /\ \A g \in Gui :
          /\ x.known[g] # None => x.shows[g] # None
          /\ g \in x.closing <=> x.shows[g] # None /\ x.known[g] = None
          /\ x.known[g] # None => WillShow(x, g)

\* A switch of the workspace is still to come.
Switches(c) == c.do = "switch" \/ (c.do = "spawn" /\ c.then # None)
SwitchPending(x, spawns) ==
    (\E s \in spawns : s.then # None) \/ \E i \in DOMAIN x.queue : Switches(x.queue[i])
ReconcilePending(x) == \E i \in DOMAIN x.queue : x.queue[i].do = "reconcile"

\* The windows that the front end knows are, one each, of the active workspace, and
\* that one has panes if any has.
Tidy(x) ==
    /\ x.filled = {} \/ Occupied(x, x.active)
    /\ \A g \in Gui : x.known[g] # None =>
          /\ x.home[x.known[g]] = x.active
          /\ \A h \in Gui : x.known[h] = x.known[g] => h = g

\* Changes go unheeded only as long as a switch is still to come, which heeds them.
Awaited(x, spawns) == x.switching => SwitchPending(x, spawns)
Heeded(x, spawns) == SwitchPending(x, spawns) \/ ReconcilePending(x) \/ Tidy(x)

\* Before a closure that may end the program there is no switch under way, and while
\* it waits no live window is one that a switch has made.
Sparing(x, spawns, made) ==
    \A i \in DOMAIN x.queue : x.queue[i].do = "quit" =>
        /\ \A s \in spawns : s.then = None
        /\ \A j \in 1..(i - 1) : ~(x.queue[j].do = "spawn" /\ x.queue[j].then # None)
        /\ made \cap x.filled \subseteq x.dead

\* What each step keeps of these.
Good(x, spawns, made) ==
    /\ Awaited(x, spawns) /\ Heeded(x, spawns) /\ Sparing(x, spawns, made)

\* No mux window is filled twice, or was made by a switch before it is filled.
SpawnsApart ==
    /\ spawning \subseteq Spawn
    /\ switched \subseteq {w \in Window : w < gui.next}
    /\ \A s \in spawning :
          /\ s.win < gui.next /\ s.win \notin switched
          /\ \A t \in spawning : s.win = t.win => s = t

IInv ==
    /\ Sound(gui) /\ Good(gui, spawning, switched)
    /\ SpawnsApart /\ building \in Seq(Build) /\ quit \in BOOLEAN
    /\ QuitSparesSwitch

----------------------------------------------------------------------------
(* Windows in their order.                                                 *)

\* Among finitely many numbers each has a rank of its own, and each rank its number.
LEMMA RankOnto ==
    ASSUME NEW S \in SUBSET Nat, IsFiniteSet(S)
    PROVE  /\ Cardinality(S) \in Nat
           /\ \A a \in S : Rank(a, S) \in 1..Cardinality(S)
           /\ \A a \in S : \A b \in S : Rank(a, S) = Rank(b, S) => a = b
           /\ \A i \in 1..Cardinality(S) : \E a \in S : Rank(a, S) = i
<1> DEFINE upto(a) == {b \in S : b <= a}
           r == [a \in S |-> Rank(a, S)]
<1>1. /\ Cardinality(S) \in Nat
      /\ \A a \in S : IsFiniteSet(upto(a)) /\ Cardinality(upto(a)) <= Cardinality(S)
  BY FS_CardinalityType, FS_Subset
<1>2. \A a \in S : Cardinality(upto(a)) \in Nat /\ Cardinality(upto(a)) # 0
  <2> TAKE a \in S
  <2>1. IsFiniteSet(upto(a)) /\ a \in upto(a)
    BY <1>1
  <2> HIDE DEF upto
  <2> QED BY <2>1, FS_CardinalityType, FS_EmptySet
<1>3. \A a \in S : Rank(a, S) \in 1..Cardinality(S)
  BY <1>1, <1>2 DEF Rank
<1>4. ASSUME NEW a \in S, NEW b \in S, a < b
      PROVE  Rank(a, S) < Rank(b, S)
  <2>0. a \in Nat /\ b \in Nat /\ \A c \in S : c \in Nat
    OBVIOUS
  <2>1. upto(a) \in SUBSET upto(b) /\ b \in upto(b) /\ b \notin upto(a)
    <3>1. b \in upto(b) /\ b \notin upto(a)
      BY <2>0, <1>4
    <3>2. ASSUME NEW c \in S, c <= a PROVE c <= b
      BY <2>0, <1>4, <3>2
    <3> QED BY <3>1, <3>2
  <2>2. IsFiniteSet(upto(b))
    BY <1>1
  <2>3. Cardinality(upto(a)) <= Cardinality(upto(b)) /\ Cardinality(upto(a)) # Cardinality(upto(b))
    <3> HIDE DEF upto
    <3> QED BY <2>1, <2>2, FS_Subset
  <2> QED BY <2>3, <1>2 DEF Rank
<1>5. \A a \in S : \A b \in S : Rank(a, S) = Rank(b, S) => a = b
  <2> SUFFICES ASSUME NEW a \in S, NEW b \in S, a # b PROVE Rank(a, S) # Rank(b, S)
    OBVIOUS
  <2>1. a < b \/ b < a
    OBVIOUS
  <2>2. Rank(a, S) \in Nat /\ Rank(b, S) \in Nat
    BY <1>2 DEF Rank
  <2> QED BY <2>1, <2>2, <1>4
<1>6. r \in Injection(S, 1..Cardinality(S))
  BY <1>3, <1>5 DEF Injection, IsInjective
<1>7. IsFiniteSet(1..Cardinality(S)) /\ Cardinality(1..Cardinality(S)) = Cardinality(S)
  BY <1>1, FS_Interval
<1>8. r \in Surjection(S, 1..Cardinality(S))
  <2> HIDE DEF r
  <2> QED BY <1>6, <1>7, FS_Injection
<1>9. \A i \in 1..Cardinality(S) : \E a \in S : Rank(a, S) = i
  BY <1>8 DEF Surjection
<1> QED BY <1>1, <1>3, <1>5, <1>9

\* Ascending(S) lists the numbers of S: the i-th is the one of rank i.
LEMMA AscendingIs ==
    ASSUME NEW S \in SUBSET Nat, IsFiniteSet(S), NEW i \in 1..Cardinality(S)
    PROVE  Ascending(S)[i] \in S /\ Rank(Ascending(S)[i], S) = i
<1>1. \E a \in S : Rank(a, S) = i
  BY RankOnto
<1>2. Ascending(S)[i] = CHOOSE a \in S : Rank(a, S) = i
  BY DEF Ascending
<1> QED BY <1>1, <1>2

\* The least of some numbers is one of them.
LEMMA SetMinIs ==
    ASSUME NEW S \in SUBSET Nat, IsFiniteSet(S), S # {}
    PROVE  SetMin(S) \in S
<1>1. Cardinality(S) \in Nat /\ Cardinality(S) # 0
  BY FS_CardinalityType, FS_EmptySet
<1>2. PICK a \in S : Rank(a, S) = 1
  BY <1>1, RankOnto
<1>3. ASSUME NEW b \in S PROVE a <= b
  <2>1. CASE b <= a
    <3> DEFINE T == {c \in S : c <= a}
    <3>1. IsFiniteSet(T) /\ Cardinality(T) = 1 /\ a \in T /\ b \in T
      BY <1>2, <2>1, FS_Subset DEF Rank
    <3> HIDE DEF T
    <3>2. \E x : T = {x}
      BY <3>1, FS_Singleton
    <3> QED BY <3>1, <3>2
  <2> QED BY <2>1
<1>4. \E m \in S : \A b \in S : m <= b
  BY <1>3
<1> QED BY <1>4 DEF SetMin

\* Windows, GUI windows and workspaces are finite sets of numbers.
LEMMA NumbersAreFinite ==
    /\ \A S \in SUBSET Window : S \in SUBSET Nat /\ IsFiniteSet(S)
    /\ \A S \in SUBSET Gui : S \in SUBSET Nat /\ IsFiniteSet(S)
    /\ \A S \in SUBSET Workspace : S \in SUBSET Nat /\ IsFiniteSet(S)
<1>1. IsFiniteSet(Window) /\ IsFiniteSet(Gui) /\ IsFiniteSet(Workspace)
  BY FS_Interval, FrontEndAssumption DEF Window, Gui, Workspace
<1>2. Window \in SUBSET Nat /\ Gui \in SUBSET Nat /\ Workspace \in SUBSET Nat
  BY FrontEndAssumption DEF Window, Gui, Workspace
<1>3. \A T : IsFiniteSet(T) => \A S \in SUBSET T : IsFiniteSet(S)
  BY FS_Subset
<1> QED BY <1>1, <1>2, <1>3

----------------------------------------------------------------------------
(* The queue grows at its end.                                             *)

Grown(x, y) ==
    /\ Len(x.queue) <= Len(y.queue)
    /\ \A i \in DOMAIN x.queue : y.queue[i] = x.queue[i]

\* y comes of x without a closure that may end the program, and without a window
\* that lives in y alone.
Follows(x, y) ==
    /\ Grown(x, y)
    /\ \A i \in DOMAIN y.queue : i > Len(x.queue) => y.queue[i].do # "quit"
    /\ y.next = x.next
    /\ (y.filled \ y.dead) \subseteq (x.filled \ x.dead)

\* What the type of the queue says of its places.
LEMMA QueueIs ==
    ASSUME NEW x \in GuiState
    PROVE  /\ x.queue \in Seq(Closure) /\ Len(x.queue) \in Nat
           /\ DOMAIN x.queue = 1..Len(x.queue)
           /\ \A i \in DOMAIN x.queue : i \in Nat /\ x.queue[i] \in Closure
BY DEF GuiState

\* Steps that only add to the queue can be put one after another.
LEMMA FollowsTrans ==
    ASSUME NEW x \in GuiState, NEW y \in GuiState, NEW z \in GuiState
    PROVE  /\ Follows(x, x)
           /\ Follows(x, y) /\ Follows(y, z) => Follows(x, z)
<1> USE QueueIs
<1>1. Follows(x, x)
  BY DEF Follows, Grown
<1>2. ASSUME Follows(x, y), Follows(y, z) PROVE Follows(x, z)
  <2>1. Grown(x, z)
    BY <1>2 DEF Follows, Grown
  <2>2. \A i \in DOMAIN z.queue : i > Len(x.queue) => z.queue[i].do # "quit"
    <3> SUFFICES ASSUME NEW i \in DOMAIN z.queue, i > Len(x.queue) PROVE z.queue[i].do # "quit"
      OBVIOUS
    <3>1. CASE i > Len(y.queue)
      BY <3>1, <1>2 DEF Follows
    <3>2. CASE i <= Len(y.queue)
      <4>1. i \in DOMAIN y.queue /\ z.queue[i] = y.queue[i]
        BY <3>2, <1>2 DEF Follows, Grown
      <4> QED BY <4>1, <1>2 DEF Follows
    <3> QED BY <3>1, <3>2
  <2> QED BY <1>2, <2>1, <2>2 DEF Follows
<1> QED BY <1>1, <1>2

\* What is still to come stays so, and what must not come before a quit does not.
LEMMA FollowsKeeps ==
    ASSUME NEW x \in GuiState, NEW y \in GuiState, NEW S, NEW M, Follows(x, y)
    PROVE  /\ SwitchPending(x, S) => SwitchPending(y, S)
           /\ ReconcilePending(x) => ReconcilePending(y)
           /\ Sparing(x, S, M) => Sparing(y, S, M)
<1> USE QueueIs
<1>1. \A i \in DOMAIN x.queue : i \in DOMAIN y.queue /\ y.queue[i] = x.queue[i]
  BY DEF Follows, Grown
<1>2. ASSUME Sparing(x, S, M), NEW i \in DOMAIN y.queue, y.queue[i].do = "quit"
      PROVE  /\ \A s \in S : s.then = None
             /\ \A j \in 1..(i - 1) : ~(y.queue[j].do = "spawn" /\ y.queue[j].then # None)
             /\ M \cap y.filled \subseteq y.dead
  <2>1. i \in DOMAIN x.queue
    BY <1>2 DEF Follows
  <2>2. \A j \in 1..(i - 1) : j \in DOMAIN x.queue
    BY <2>1
  <2>3. x.queue[i].do = "quit"
    BY <1>1, <1>2, <2>1
  <2>4. /\ \A s \in S : s.then = None
        /\ \A j \in 1..(i - 1) : ~(x.queue[j].do = "spawn" /\ x.queue[j].then # None)
        /\ M \cap x.filled \subseteq x.dead
    BY <1>2, <2>1, <2>3 DEF Sparing
  <2>5. M \cap y.filled \subseteq y.dead
    BY <2>4 DEF Follows
  <2> QED BY <2>4, <2>5, <2>2, <1>1
<1>3. Sparing(x, S, M) => Sparing(y, S, M)
  BY <1>2 DEF Sparing
<1>4. SwitchPending(x, S) => SwitchPending(y, S)
  BY <1>1 DEF SwitchPending
<1> QED BY <1>1, <1>3, <1>4 DEF ReconcilePending

\* What is to come for a GUI window stays so while no new closure is for it.
LEMMA WillShowKept ==
    ASSUME NEW x \in GuiState, NEW y \in GuiState, NEW g \in Gui, WillShow(x, g), Grown(x, y),
           y.shows[g] = x.shows[g], y.known[g] = x.known[g],
           \A i \in DOMAIN y.queue : i > Len(x.queue) => ~Shows(y, i, g)
    PROVE  WillShow(y, g)
<1> USE QueueIs
<1>1. \A i \in DOMAIN x.queue : i \in DOMAIN y.queue /\ y.queue[i] = x.queue[i]
  BY DEF Grown
<1>2. \A i \in DOMAIN x.queue : Shows(x, i, g) <=> Shows(y, i, g)
  BY <1>1 DEF Shows
<1>3. ASSUME \A i \in DOMAIN y.queue : ~Shows(y, i, g)
      PROVE  y.shows[g] = y.known[g]
  BY <1>1, <1>2, <1>3 DEF WillShow
<1>4. ASSUME NEW i \in DOMAIN y.queue, Shows(y, i, g),
             \A j \in DOMAIN y.queue : j > i => ~Shows(y, j, g)
      PROVE  y.queue[i].win = y.known[g]
  <2>1. i \in DOMAIN x.queue
    BY <1>4
  <2>2. \A j \in DOMAIN x.queue : j > i => ~Shows(x, j, g)
    BY <1>1, <1>2, <1>4
  <2> QED BY <2>1, <2>2, <1>1, <1>2, <1>4 DEF WillShow
<1> QED BY <1>3, <1>4 DEF WillShow

\* A step that leaves the GUI windows alone and queues no change of what they show.
LEMMA SoundKept ==
    ASSUME NEW x, Sound(x), NEW y \in GuiState, Grown(x, y),
           y.dead \subseteq y.filled, y.filled \subseteq Live(y),
           y.known = x.known, y.shows = x.shows, y.closing = x.closing,
           \A i \in DOMAIN y.queue : i > Len(x.queue) =>
              y.queue[i].do # "show" /\ Meant(y.queue[i])
    PROVE  Sound(y)
<1> USE QueueIs
<1>1. x \in GuiState
  BY DEF Sound
<1>2. \A i \in DOMAIN y.queue : Meant(y.queue[i])
  <2> TAKE i \in DOMAIN y.queue
  <2>1. CASE i > Len(x.queue)
    BY <2>1
  <2>2. CASE i <= Len(x.queue)
    <3>1. i \in DOMAIN x.queue
      BY <1>1, <2>2
    <3> QED BY <3>1 DEF Sound, Grown
  <2> QED BY <1>1, <2>1, <2>2
<1>3. \A g \in Gui : \A i \in DOMAIN y.queue : i > Len(x.queue) => ~Shows(y, i, g)
  BY DEF Shows
<1>4. \A g \in Gui : WillShow(x, g) => WillShow(y, g)
  BY <1>1, <1>3, WillShowKept
<1>5. \A g \in Gui :
          /\ y.known[g] # None => y.shows[g] # None
          /\ g \in y.closing <=> y.shows[g] # None /\ y.known[g] = None
          /\ y.known[g] # None => WillShow(y, g)
  BY <1>4 DEF Sound
<1> QED BY <1>2, <1>5 DEF Sound

\* What Post does.
LEMMA PostIs ==
    ASSUME NEW x \in GuiState, NEW c \in Closure
    PROVE  /\ Post(x, c) \in GuiState /\ Grown(x, Post(x, c))
           /\ Post(x, c) = [x EXCEPT !.queue = Post(x, c).queue]
           /\ \E i \in DOMAIN Post(x, c).queue : Post(x, c).queue[i] = c
           /\ \A i \in DOMAIN Post(x, c).queue : i > Len(x.queue) => Post(x, c).queue[i] = c
<1> USE QueueIs
<1>1. ASSUME x.queue # <<>>, Last(x.queue) = c, Post(x, c) = x
      PROVE  /\ x = [x EXCEPT !.queue = x.queue]
             /\ \E i \in DOMAIN x.queue : x.queue[i] = c
             /\ \A i \in DOMAIN x.queue : ~(i > Len(x.queue))
  <2>1. Len(x.queue) \in DOMAIN x.queue
    BY <1>1
  <2>2. x = [x EXCEPT !.queue = x.queue]
    BY DEF GuiState
  <2> QED BY <1>1, <2>1, <2>2 DEF Last
<1>2. ASSUME Post(x, c) = [x EXCEPT !.queue = Append(@, c)]
      PROVE  /\ Post(x, c) \in GuiState
             /\ Post(x, c).queue = Append(x.queue, c)
             /\ Post(x, c) = [x EXCEPT !.queue = Post(x, c).queue]
  <2>1. Append(x.queue, c) \in Seq(Closure)
    OBVIOUS
  <2>2. Post(x, c).queue = Append(x.queue, c)
    BY <1>2 DEF GuiState
  <2> QED BY <1>2, <2>1, <2>2 DEF GuiState
<1>3. CASE Post(x, c) = x /\ x.queue # <<>> /\ Last(x.queue) = c
  BY <1>1, <1>3 DEF Grown
<1>4. CASE Post(x, c) = [x EXCEPT !.queue = Append(@, c)]
  <2>1. /\ Post(x, c) \in GuiState
        /\ Post(x, c).queue = Append(x.queue, c)
        /\ Post(x, c) = [x EXCEPT !.queue = Post(x, c).queue]
    BY <1>2, <1>4
  <2>2. /\ Len(Append(x.queue, c)) = Len(x.queue) + 1
        /\ Append(x.queue, c)[Len(x.queue) + 1] = c
        /\ \A i \in 1..Len(x.queue) : Append(x.queue, c)[i] = x.queue[i]
    OBVIOUS
  <2>3. DOMAIN Append(x.queue, c) = 1..(Len(x.queue) + 1)
    OBVIOUS
  <2>4. Grown(x, Post(x, c))
    BY <2>1, <2>2 DEF Grown
  <2>5. \A i \in 1..(Len(x.queue) + 1) : i > Len(x.queue) => Append(x.queue, c)[i] = c
    BY <2>2
  <2>6. \E i \in 1..(Len(x.queue) + 1) : Append(x.queue, c)[i] = c
    <3>1. Len(x.queue) + 1 \in 1..(Len(x.queue) + 1)
      OBVIOUS
    <3> QED BY <2>2, <3>1
  <2> QED BY <2>1, <2>3, <2>4, <2>5, <2>6
<1> QED BY <1>3, <1>4 DEF Post

\* The same, with everything it keeps.
LEMMA PostKeeps ==
    ASSUME NEW x, Sound(x), NEW c \in Closure, c.do # "show", Meant(c)
    PROVE  /\ Sound(Post(x, c)) /\ Grown(x, Post(x, c))
           /\ c.do # "quit" => Follows(x, Post(x, c))
           /\ \E i \in DOMAIN Post(x, c).queue : Post(x, c).queue[i] = c
           /\ \A i \in DOMAIN Post(x, c).queue : i > Len(x.queue) => Post(x, c).queue[i] = c
           /\ Post(x, c).home = x.home /\ Post(x, c).filled = x.filled
           /\ Post(x, c).dead = x.dead /\ Post(x, c).next = x.next
           /\ Post(x, c).active = x.active /\ Post(x, c).switching = x.switching
           /\ Post(x, c).spawned = x.spawned /\ Post(x, c).known = x.known
           /\ Post(x, c).shows = x.shows /\ Post(x, c).closing = x.closing
<1> DEFINE y == Post(x, c)
<1>1. x \in GuiState
  BY DEF Sound
<1>2. /\ y \in GuiState /\ Grown(x, y) /\ y = [x EXCEPT !.queue = y.queue]
      /\ \E i \in DOMAIN y.queue : y.queue[i] = c
      /\ \A i \in DOMAIN y.queue : i > Len(x.queue) => y.queue[i] = c
  BY <1>1, PostIs
<1> HIDE DEF y
<1>3. /\ y.home = x.home /\ y.filled = x.filled /\ y.dead = x.dead /\ y.next = x.next
      /\ y.active = x.active /\ y.switching = x.switching
      /\ y.spawned = x.spawned /\ y.known = x.known
      /\ y.shows = x.shows /\ y.closing = x.closing
  BY <1>1, <1>2 DEF GuiState
<1>4. Live(y) = Live(x)
  BY <1>3 DEF Live
<1>5. Sound(y)
  BY <1>2, <1>3, <1>4, SoundKept DEF Sound
<1>6. c.do # "quit" => Follows(x, y)
  BY <1>2, <1>3 DEF Follows
<1> QED BY <1>2, <1>3, <1>5, <1>6 DEF y

----------------------------------------------------------------------------
(* The mux.                                                                *)

\* A closure that is meant for no window.
LEMMA PlainIs ==
    /\ \A do \in {"reconcile", "prune", "quit", "build", "spawn"} :
          Plain(do) \in Closure /\ Meant(Plain(do))
    /\ \A do : Plain(do).do = do /\ Plain(do).then = None
BY DEF Plain, Closure, Meant

\* A step of the mux: the GUI windows are as they were.
SameGui(x, y) ==
    /\ y.known = x.known /\ y.shows = x.shows /\ y.closing = x.closing
    /\ y.switching = x.switching /\ y.next = x.next

\* Windows removed from the mux: each tells the front end to reconcile.
LEMMA RemoveWindowsKeeps ==
    ASSUME NEW x, Sound(x), NEW ws \in SUBSET Window
    PROVE  /\ Sound(RemoveWindows(x, ws)) /\ Follows(x, RemoveWindows(x, ws))
           /\ SameGui(x, RemoveWindows(x, ws))
           /\ RemoveWindows(x, ws) = x \/ ReconcilePending(RemoveWindows(x, ws))
           /\ \A i \in DOMAIN RemoveWindows(x, ws).queue :
                 i > Len(x.queue) => RemoveWindows(x, ws).queue[i] = Plain("reconcile")
<1> DEFINE r == [x EXCEPT !.home = [w \in Window |-> IF w \in ws THEN None ELSE @[w]],
                          !.filled = @ \ ws, !.dead = @ \ ws]
           y == Post(r, Plain("reconcile"))
<1> USE QueueIs
<1>1. x \in GuiState
  BY DEF Sound
<1>2. [w \in Window |-> IF w \in ws THEN None ELSE x.home[w]] \in [Window -> Workspace \cup {None}]
  BY <1>1 DEF GuiState
<1>3. r \in GuiState
  BY <1>1, <1>2 DEF GuiState
<1>4. /\ r.home = [w \in Window |-> IF w \in ws THEN None ELSE x.home[w]]
      /\ r.filled = x.filled \ ws /\ r.dead = x.dead \ ws /\ r.queue = x.queue
      /\ r.known = x.known /\ r.shows = x.shows /\ r.closing = x.closing
      /\ r.switching = x.switching /\ r.next = x.next
  BY <1>1 DEF GuiState
<1> HIDE DEF r
<1>5. r.dead \subseteq r.filled /\ r.filled \subseteq Live(r)
  <2>1. x.dead \subseteq x.filled /\ x.filled \subseteq Live(x)
    BY DEF Sound
  <2> QED BY <2>1, <1>4 DEF Live
<1>6. Grown(x, r) /\ \A i \in DOMAIN r.queue : ~(i > Len(x.queue))
  BY <1>1, <1>4 DEF Grown
<1>7. Sound(r) /\ Follows(x, r)
  BY <1>3, <1>4, <1>5, <1>6, SoundKept DEF Follows
<1>8. CASE ws \cap Live(x) = {}
  <2>1. RemoveWindows(x, ws) = x
    BY <1>8 DEF RemoveWindows
  <2>2. \A i \in DOMAIN x.queue : ~(i > Len(x.queue))
    BY <1>1
  <2> QED BY <2>1, <2>2, <1>1, FollowsTrans DEF SameGui
<1>9. CASE ws \cap Live(x) # {}
  <2>1. RemoveWindows(x, ws) = y
    BY <1>9 DEF RemoveWindows, r
  <2>2. /\ Sound(y) /\ Follows(r, y)
        /\ \E i \in DOMAIN y.queue : y.queue[i] = Plain("reconcile")
        /\ \A i \in DOMAIN y.queue : i > Len(r.queue) => y.queue[i] = Plain("reconcile")
        /\ y.next = r.next /\ y.switching = r.switching /\ y.known = r.known
        /\ y.shows = r.shows /\ y.closing = r.closing
    <3>1. Plain("reconcile") \in Closure /\ Plain("reconcile").do = "reconcile"
          /\ Meant(Plain("reconcile"))
      BY PlainIs
    <3> QED BY <1>7, <3>1, PostKeeps
  <2>3. ReconcilePending(y)
    BY <2>2, PlainIs DEF ReconcilePending
  <2>4. y \in GuiState
    BY <2>2 DEF Sound
  <2>5. Follows(x, y)
    BY <1>1, <1>3, <1>7, <2>2, <2>4, FollowsTrans
  <2> QED BY <1>4, <2>1, <2>2, <2>3, <2>5 DEF SameGui
<1> QED BY <1>8, <1>9

\* So the conditions on a step survive a removal.
LEMMA RemoveWindowsGood ==
    ASSUME NEW x, Sound(x), NEW ws \in SUBSET Window, NEW S, NEW M, Good(x, S, M)
    PROVE  Good(RemoveWindows(x, ws), S, M)
<1> DEFINE y == RemoveWindows(x, ws)
<1>1. /\ Sound(y) /\ Follows(x, y) /\ SameGui(x, y) /\ (y = x \/ ReconcilePending(y))
  BY RemoveWindowsKeeps
<1> HIDE DEF y
<1>2. x \in GuiState /\ y \in GuiState
  BY <1>1 DEF Sound
<1>3. /\ SwitchPending(x, S) => SwitchPending(y, S)
      /\ Sparing(x, S, M) => Sparing(y, S, M)
  BY <1>1, <1>2, FollowsKeeps
<1>4. Good(y, S, M)
  BY <1>1, <1>3 DEF Good, Awaited, Heeded, SameGui
<1> QED BY <1>4 DEF y

\* A prune asks for the end of the program only when no switch is under way and
\* there are no panes.
LEMMA PruneKeeps ==
    ASSUME NEW x, Sound(x), NEW M, Good(x, spawning, M)
    PROVE  /\ Sound(PruneDeadWindows(x)) /\ SameGui(x, PruneDeadWindows(x))
           /\ Good(PruneDeadWindows(x), spawning, M)
<1> DEFINE ws == {w \in Live(x) : w \notin x.filled \ x.dead}
           y == RemoveWindows(x, ws)
           z == Post(y, Plain("quit"))
<1> USE QueueIs
<1>1. CASE Held(x, spawning)
  BY <1>1 DEF PruneDeadWindows, SameGui
<1>2. CASE ~Held(x, spawning)
  <2>1. ws \in SUBSET Window
    BY DEF Live
  <2>2. PruneDeadWindows(x) = IF y.filled = {} THEN z ELSE y
    BY <1>2 DEF PruneDeadWindows
  <2>3. /\ Sound(y) /\ Follows(x, y) /\ SameGui(x, y) /\ Good(y, spawning, M)
        /\ \A i \in DOMAIN y.queue : i > Len(x.queue) => y.queue[i] = Plain("reconcile")
    <3> HIDE DEF ws
    <3> QED BY <2>1, RemoveWindowsKeeps, RemoveWindowsGood
  <2>4. CASE y.filled # {}
    BY <2>2, <2>3, <2>4
  <2>5. CASE y.filled = {}
    <3> HIDE DEF ws, y
    <3>1. /\ Sound(z) /\ Grown(y, z)
          /\ \A i \in DOMAIN z.queue : i > Len(y.queue) => z.queue[i] = Plain("quit")
          /\ SameGui(y, z) /\ z.filled = y.filled /\ z.home = y.home /\ z.active = y.active
          /\ z.dead = y.dead
      <4>1. Plain("quit") \in Closure /\ Plain("quit").do # "show" /\ Meant(Plain("quit"))
        BY PlainIs
      <4> QED BY <2>3, <4>1, PostKeeps DEF SameGui
    <3> HIDE DEF z
    <3>2. y \in GuiState /\ z \in GuiState /\ x \in GuiState
      BY <2>3, <3>1 DEF Sound
    <3>3. \A i \in DOMAIN y.queue : i \in DOMAIN z.queue /\ z.queue[i] = y.queue[i]
      BY <3>1, <3>2 DEF Grown
    <3>4. SwitchPending(y, spawning) => SwitchPending(z, spawning)
      BY <3>3 DEF SwitchPending
    <3>5. ReconcilePending(y) => ReconcilePending(z)
      BY <3>3 DEF ReconcilePending
    <3>6. Tidy(y) => Tidy(z)
      BY <3>1 DEF Tidy, SameGui, Occupied
    <3>7. Awaited(z, spawning) /\ Heeded(z, spawning)
      BY <2>3, <3>1, <3>4, <3>5, <3>6 DEF Good, Awaited, Heeded, SameGui
    <3>8. Sparing(z, spawning, M)
      <4> SUFFICES ASSUME NEW i \in DOMAIN z.queue, z.queue[i].do = "quit"
                   PROVE  /\ \A s \in spawning : s.then = None
                          /\ \A j \in 1..(i - 1) :
                                ~(z.queue[j].do = "spawn" /\ z.queue[j].then # None)
                          /\ M \cap z.filled \subseteq z.dead
        BY DEF Sparing
      <4>1. spawning = {} /\ \A j \in DOMAIN x.queue : ~(x.queue[j].do = "spawn" /\ x.queue[j].then # None)
        BY <1>2 DEF Held
      <4>2. ASSUME NEW j \in DOMAIN y.queue
            PROVE  ~(y.queue[j].do = "spawn" /\ y.queue[j].then # None)
        <5>1. CASE j > Len(x.queue)
          BY <2>3, <5>1, PlainIs
        <5>2. CASE j <= Len(x.queue)
          <6>1. j \in DOMAIN x.queue
            BY <3>2, <5>2
          <6>2. y.queue[j] = x.queue[j]
            BY <2>3, <6>1 DEF Follows, Grown
          <6> QED BY <4>1, <6>1, <6>2
        <5> QED BY <3>2, <5>1, <5>2
      <4>3. ASSUME NEW j \in 1..(i - 1)
            PROVE  ~(z.queue[j].do = "spawn" /\ z.queue[j].then # None)
        <5>1. j \in DOMAIN z.queue
          BY <3>2
        <5>2. CASE j \in DOMAIN y.queue
          BY <3>3, <4>2, <5>2
        <5>3. CASE j \notin DOMAIN y.queue
          <6>1. j > Len(y.queue)
            BY <3>2, <5>1, <5>3
          <6>2. z.queue[j] = Plain("quit") /\ Plain("quit").then = None
            BY <3>1, <5>1, <6>1, PlainIs
          <6> QED BY <6>2
        <5> QED BY <5>2, <5>3
      <4>4. z.filled = {}
        BY <2>5, <3>1
      <4> QED BY <4>1, <4>3, <4>4
    <3> QED BY <2>2, <2>3, <2>5, <3>1, <3>7, <3>8 DEF Good, SameGui
  <2> QED BY <2>4, <2>5
<1> QED BY <1>1, <1>2

----------------------------------------------------------------------------
(* The front end.                                                          *)

\* The windows that are known are of the active workspace, and no two the same.
Matched(x) ==
    \A g \in Gui : x.known[g] # None =>
        /\ x.home[x.known[g]] = x.active
        /\ \A h \in Gui : x.known[h] = x.known[g] => h = g

\* Assign matches the windows, and queues for each that is to show another one
\* exactly one closure.
LEMMA AssignKeeps ==
    ASSUME NEW x, Sound(x)
    PROVE  /\ Sound(Assign(x)) /\ Follows(x, Assign(x)) /\ Matched(Assign(x))
           /\ Assign(x).filled = x.filled /\ Assign(x).home = x.home
           /\ Assign(x).active = x.active /\ Assign(x).switching = x.switching
<1> DEFINE wanted == {w \in Window : x.home[w] = x.active}
           keeps == {g \in Gui : x.known[g] \in wanted /\ \A h \in 1..(g - 1) : x.known[h] # x.known[g]}
           unused == {g \in Gui : x.known[g] # None} \ keeps
           free == wanted \ {x.known[g] : g \in keeps}
           given == {g \in unused : Rank(g, unused) <= Cardinality(free)}
           new == [g \in given |-> Ascending(free)[Rank(g, unused)]]
           surplus == unused \ given
           shown == [i \in 1..Cardinality(given) |->
                       LET g == Ascending(given)[i]
                       IN  [Plain("show") EXCEPT !.gui = g, !.win = new[g]]]
           missing == free \ {new[g] : g \in given}
           knows == [g \in Gui |-> IF g \in given THEN new[g]
                                   ELSE IF g \in surplus THEN None ELSE x.known[g]]
           y == [x EXCEPT
                   !.known = [g \in Gui |-> IF g \in given THEN new[g]
                                            ELSE IF g \in surplus THEN None ELSE @[g]],
                   !.closing = @ \cup surplus,
                   !.spawned = @ \ {x.known[g] : g \in surplus},
                   !.queue = @ \o shown]
           build == [Plain("build") EXCEPT !.todo = missing]
<1> USE QueueIs
<1>1. Assign(x) = Post(y, build)
  BY DEF Assign
<1>2. /\ x \in GuiState
      /\ x.queue \in Seq(Closure) /\ Len(x.queue) \in Nat /\ DOMAIN x.queue = 1..Len(x.queue)
  BY DEF Sound
<1>3. /\ x.known \in [Gui -> Window \cup {None}] /\ x.shows \in [Gui -> Window \cup {None}]
      /\ x.closing \in SUBSET Gui /\ x.spawned \in SUBSET Window
  BY <1>2 DEF GuiState
<1>4. /\ free \in SUBSET Window /\ unused \in SUBSET Gui /\ given \in SUBSET Gui
      /\ None \notin Window /\ given \subseteq unused /\ surplus \in SUBSET Gui
  BY FrontEndAssumption DEF Window, None
<1>5. /\ IsFiniteSet(free) /\ IsFiniteSet(unused) /\ IsFiniteSet(given)
      /\ free \in SUBSET Nat /\ unused \in SUBSET Nat /\ given \in SUBSET Nat
  <2> HIDE DEF free, unused, given
  <2> QED BY <1>4, NumbersAreFinite
<1>6. \A g \in given : /\ new[g] \in free /\ Rank(new[g], free) = Rank(g, unused)
                       /\ new[g] = Ascending(free)[Rank(g, unused)]
  <2> TAKE g \in given
  <2>1. Rank(g, unused) \in 1..Cardinality(unused) /\ Cardinality(unused) \in Nat
        /\ Cardinality(free) \in Nat
    <3> g \in unused
      OBVIOUS
    <3> HIDE DEF free, unused, given, new
    <3> QED BY <1>5, RankOnto
  <2>2. Rank(g, unused) \in 1..Cardinality(free)
    <3>1. Rank(g, unused) <= Cardinality(free)
      OBVIOUS
    <3> HIDE DEF free, unused, given, new
    <3> QED BY <2>1, <3>1
  <2>3. new[g] = Ascending(free)[Rank(g, unused)]
    OBVIOUS
  <2> HIDE DEF free, unused, given, new
  <2> QED BY <1>5, <2>2, <2>3, AscendingIs
<1>7. \A g, h \in given : new[g] = new[h] => g = h
  <2> SUFFICES ASSUME NEW g \in given, NEW h \in given, new[g] = new[h] PROVE g = h
    OBVIOUS
  <2>1. Rank(g, unused) = Rank(h, unused) /\ g \in unused /\ h \in unused
    BY <1>4, <1>6
  <2> HIDE DEF free, unused, given, new
  <2> QED BY <1>5, <2>1, RankOnto
<1>8. /\ \A i \in 1..Cardinality(given) : Ascending(given)[i] \in given
      /\ \A g \in given : \E i \in 1..Cardinality(given) : Ascending(given)[i] = g
      /\ Cardinality(given) \in Nat
  <2> HIDE DEF free, unused, given, new
  <2>1. /\ \A i \in 1..Cardinality(given) :
              Ascending(given)[i] \in given /\ Rank(Ascending(given)[i], given) = i
    BY <1>5, AscendingIs
  <2>2. \A g \in given : Rank(g, given) \in 1..Cardinality(given)
    BY <1>5, RankOnto
  <2>3. \A g \in given : \A h \in given : Rank(g, given) = Rank(h, given) => g = h
    BY <1>5, RankOnto
  <2>4. Cardinality(given) \in Nat
    BY <1>5, RankOnto
  <2>5. ASSUME NEW g \in given
        PROVE  \E i \in 1..Cardinality(given) : Ascending(given)[i] = g
    <3>1. Ascending(given)[Rank(g, given)] = g
      BY <2>1, <2>2, <2>3
    <3> QED BY <2>2, <3>1
  <2> QED BY <2>1, <2>4, <2>5
<1>9. /\ shown \in Seq(Closure) /\ Len(shown) = Cardinality(given)
      /\ \A i \in 1..Cardinality(given) :
            /\ shown[i].do = "show" /\ shown[i].gui = Ascending(given)[i]
            /\ shown[i].win = new[shown[i].gui] /\ Meant(shown[i])
  <2> HIDE DEF free, unused, given, new
  <2>1. ASSUME NEW i \in 1..Cardinality(given)
        PROVE  /\ shown[i] \in Closure
               /\ shown[i].do = "show" /\ shown[i].gui = Ascending(given)[i]
               /\ shown[i].win = new[shown[i].gui] /\ Meant(shown[i])
    <3> DEFINE g == Ascending(given)[i]
    <3>1. g \in Gui /\ new[g] \in Window
      BY <1>4, <1>6, <1>8
    <3>2. shown[i] = [Plain("show") EXCEPT !.gui = g, !.win = new[g]]
      OBVIOUS
    <3> HIDE DEF g, shown
    <3>3. shown[i] = [do |-> "show", win |-> new[g], gui |-> g, then |-> None, todo |-> {}]
      BY <3>2 DEF Plain
    <3>4. shown[i] \in Closure
      BY <3>1, <3>3 DEF Closure
    <3>5. /\ shown[i].do = "show" /\ shown[i].gui = g /\ shown[i].win = new[g]
      BY <3>3
    <3> QED BY <3>1, <3>4, <3>5 DEF Meant, g
  <2>2. shown \in [1..Cardinality(given) -> Closure]
    BY <2>1
  <2> HIDE DEF shown
  <2> QED BY <2>1, <2>2, <1>8
<1>10. /\ knows \in [Gui -> Window \cup {None}]
       /\ \A g \in Gui : knows[g] = IF g \in given THEN new[g]
                                    ELSE IF g \in surplus THEN None ELSE x.known[g]
  <2>1. \A g \in given : new[g] \in Window
    BY <1>4, <1>6
  <2> HIDE DEF free, unused, given, new, surplus
  <2> QED BY <1>3, <2>1
<1>11. x.queue \o shown \in Seq(Closure)
  <2> HIDE DEF shown, free, unused, given, new, surplus, knows, y, keeps, wanted
  <2> QED BY <1>2, <1>9, ConcatProperties
<1>12. /\ y \in GuiState /\ y.known = knows /\ y.shows = x.shows /\ y.queue = x.queue \o shown
       /\ y.closing = x.closing \cup surplus
       /\ y.home = x.home /\ y.filled = x.filled /\ y.dead = x.dead /\ y.next = x.next
       /\ y.active = x.active /\ y.switching = x.switching
  <2>1. /\ x.spawned \ {x.known[g] : g \in surplus} \in SUBSET Window
        /\ x.closing \cup surplus \in SUBSET Gui
    BY <1>3, <1>4
  <2>2. y = [x EXCEPT !.known = knows, !.closing = x.closing \cup surplus,
                      !.spawned = x.spawned \ {x.known[g] : g \in surplus},
                      !.queue = x.queue \o shown]
    BY <1>2 DEF GuiState
  <2> HIDE DEF free, unused, given, new, surplus, shown, knows, y
  <2> QED BY <1>2, <1>10, <1>11, <2>1, <2>2 DEF GuiState
<1>13. /\ Len(y.queue) = Len(x.queue) + Cardinality(given)
       /\ \A i \in 1..Len(x.queue) : y.queue[i] = x.queue[i]
       /\ \A i \in 1..Cardinality(given) : y.queue[Len(x.queue) + i] = shown[i]
       /\ \A i \in DOMAIN y.queue : i > Len(x.queue) =>
             /\ i - Len(x.queue) \in 1..Cardinality(given)
             /\ y.queue[i] = shown[i - Len(x.queue)]
  <2> HIDE DEF free, unused, given, new, surplus, shown, knows, y
  <2>1. /\ Len(x.queue \o shown) = Len(x.queue) + Len(shown)
        /\ \A i \in 1..(Len(x.queue) + Len(shown)) :
              (x.queue \o shown)[i] = IF i <= Len(x.queue) THEN x.queue[i]
                                      ELSE shown[i - Len(x.queue)]
    <3> DEFINE q == x.queue
    <3>1. q \in Seq(Closure) /\ shown \in Seq(Closure)
      BY <1>2, <1>9
    <3> HIDE DEF q, keeps, wanted
    <3>2. /\ Len(q \o shown) = Len(q) + Len(shown)
          /\ \A i \in 1..(Len(q) + Len(shown)) :
                (q \o shown)[i] = IF i <= Len(q) THEN q[i] ELSE shown[i - Len(q)]
      BY <3>1, ConcatProperties
    <3> QED BY <3>2 DEF q
  <2>2. Len(x.queue) \in Nat /\ Len(shown) \in Nat /\ Len(shown) = Cardinality(given)
    BY <1>2, <1>9
  <2>3. \A i \in 1..Len(x.queue) : y.queue[i] = x.queue[i]
    BY <1>12, <2>1, <2>2
  <2>4. \A i \in 1..Cardinality(given) : y.queue[Len(x.queue) + i] = shown[i]
    <3> TAKE i \in 1..Cardinality(given)
    <3>1. /\ Len(x.queue) + i \in 1..(Len(x.queue) + Len(shown))
          /\ ~(Len(x.queue) + i <= Len(x.queue)) /\ (Len(x.queue) + i) - Len(x.queue) = i
      BY <2>2
    <3> QED BY <1>12, <2>1, <3>1
  <2>5. DOMAIN y.queue = 1..(Len(x.queue) + Cardinality(given))
    BY <1>12, <2>1, <2>2
  <2>6. ASSUME NEW i \in DOMAIN y.queue, i > Len(x.queue)
        PROVE  /\ i - Len(x.queue) \in 1..Cardinality(given)
               /\ y.queue[i] = shown[i - Len(x.queue)]
    BY <1>12, <2>1, <2>2, <2>5, <2>6
  <2> QED BY <1>12, <2>1, <2>2, <2>3, <2>4, <2>6
<1> HIDE DEF shown, y
<1>14. Grown(x, y) /\ \A i \in DOMAIN y.queue : i > Len(x.queue) =>
          y.queue[i].do = "show" /\ y.queue[i].gui \in given /\ Meant(y.queue[i])
  <2> HIDE DEF free, unused, given, new, surplus, knows
  <2>1. Grown(x, y)
    <3>1. Cardinality(given) \in Nat
      BY <1>8
    <3>2. Len(x.queue) <= Len(y.queue)
      BY <1>2, <1>13, <3>1
    <3> QED BY <1>2, <1>13, <3>2 DEF Grown
  <2>2. ASSUME NEW i \in DOMAIN y.queue, i > Len(x.queue)
        PROVE  y.queue[i].do = "show" /\ y.queue[i].gui \in given /\ Meant(y.queue[i])
    <3> DEFINE k == i - Len(x.queue)
    <3>1. k \in 1..Cardinality(given) /\ y.queue[i] = shown[k]
      BY <1>13, <2>2
    <3> HIDE DEF k
    <3>2. shown[k].do = "show" /\ shown[k].gui = Ascending(given)[k] /\ Meant(shown[k])
      BY <1>9, <3>1
    <3>3. Ascending(given)[k] \in given
      BY <1>8, <3>1
    <3> QED BY <3>1, <3>2, <3>3
  <2> QED BY <2>1, <2>2
<1>15. Follows(x, y)
  BY <1>12, <1>14 DEF Follows
<1>16. \A g \in Gui : x.known[g] # None /\ g \notin given /\ g \notin surplus => g \in keeps
  OBVIOUS
<1>17. Matched(y)
  <2>1. ASSUME NEW g \in Gui, knows[g] # None PROVE g \in given \/ g \in keeps
    BY <1>10, <1>16, <2>1
  <2>2. ASSUME NEW g \in Gui, knows[g] # None PROVE knows[g] \in wanted
    <3>1. CASE g \in given
      BY <1>6, <1>10, <3>1
    <3>2. CASE g \notin given
      BY <1>10, <2>1, <2>2, <3>2
    <3> QED BY <3>1, <3>2
  <2>3. ASSUME NEW g \in keeps, NEW h \in keeps, x.known[g] = x.known[h] PROVE g = h
    <3>1. g \in Nat /\ h \in Nat /\ 1 <= g /\ 1 <= h
      BY DEF Gui
    <3>2. ~(g < h) /\ ~(h < g)
      BY <2>3, <3>1
    <3> QED BY <3>1, <3>2
  <2>4. ASSUME NEW g \in given, NEW h \in keeps PROVE new[g] # x.known[h]
    BY <1>6
  <2>5. ASSUME NEW g \in Gui, NEW h \in Gui, knows[g] # None, knows[g] = knows[h] PROVE g = h
    <3> HIDE DEF free, unused, wanted, new
    <3>1. (g \in given \/ g \in keeps) /\ (h \in given \/ h \in keeps)
      BY <2>1, <2>5
    <3>2. \A k \in Gui : /\ k \in given => knows[k] = new[k]
                         /\ k \in keeps /\ knows[k] # None /\ k \notin given => knows[k] = x.known[k]
      BY <1>10
    <3> HIDE DEF keeps, given, surplus, knows
    <3> QED BY <3>1, <3>2, <2>3, <2>4, <2>5, <1>7
  <2> HIDE DEF free, unused, given, new, surplus, knows, keeps
  <2> QED BY <1>12, <2>2, <2>5 DEF Matched
<1>18. ASSUME NEW g \in Gui
       PROVE  /\ y.known[g] # None => y.shows[g] # None
              /\ g \in y.closing <=> y.shows[g] # None /\ y.known[g] = None
  <2>1. /\ x.known[g] # None => x.shows[g] # None
        /\ g \in x.closing <=> x.shows[g] # None /\ x.known[g] = None
    BY DEF Sound
  <2>2. g \in given => knows[g] # None /\ x.known[g] # None
    <3>1. g \in given => g \in unused /\ new[g] \in Window
      BY <1>4, <1>6
    <3>2. g \in unused => x.known[g] # None
      OBVIOUS
    <3> HIDE DEF free, unused, given, new, surplus, knows
    <3> QED BY <1>4, <1>10, <3>1, <3>2
  <2>3. g \in surplus => knows[g] = None /\ x.known[g] # None
    BY <1>10
  <2>4. g \notin given /\ g \notin surplus => knows[g] = x.known[g]
    BY <1>10
  <2> HIDE DEF free, unused, given, new, surplus, knows, keeps
  <2> QED BY <1>12, <2>1, <2>2, <2>3, <2>4
<1>19. ASSUME NEW g \in Gui, y.known[g] # None
       PROVE  WillShow(y, g)
  <2>1. knows[g] = y.known[g]
    BY <1>12
  <2>2. CASE g \in given
    <3>1. y.known[g] = new[g]
      BY <1>10, <2>1, <2>2
    <3> HIDE DEF free, unused, given, new, surplus, knows, keeps
    <3>2. PICK k \in 1..Cardinality(given) : Ascending(given)[k] = g
      BY <1>8, <2>2
    <3>3. /\ Len(x.queue) + k \in DOMAIN y.queue /\ Len(x.queue) \in Nat /\ k \in Nat /\ k > 0
          /\ Shows(y, Len(x.queue) + k, g)
      BY <1>2, <1>8, <1>9, <1>12, <1>13, <3>2 DEF Shows
    <3>4. ASSUME NEW i \in DOMAIN y.queue, Shows(y, i, g),
                 \A j \in DOMAIN y.queue : j > i => ~Shows(y, j, g)
          PROVE  y.queue[i].win = y.known[g]
      <4>1. i \in Nat
        BY <1>12
      <4>2. i > Len(x.queue)
        BY <3>3, <3>4, <4>1
      <4>3. i - Len(x.queue) \in 1..Cardinality(given) /\ y.queue[i] = shown[i - Len(x.queue)]
        BY <1>13, <4>2
      <4>4. y.queue[i].win = new[y.queue[i].gui] /\ y.queue[i].gui = g
        BY <1>9, <3>4, <4>3 DEF Shows
      <4> QED BY <3>1, <4>4
    <3> QED BY <3>3, <3>4 DEF WillShow
  <2>3. CASE g \notin given
    <3>1. y.known[g] = x.known[g]
      BY <1>10, <1>19, <2>1, <2>3
    <3>2. WillShow(x, g)
      BY <1>19, <3>1 DEF Sound
    <3>3. \A i \in DOMAIN y.queue : i > Len(x.queue) => ~Shows(y, i, g)
      BY <1>14, <2>3 DEF Shows
    <3> HIDE DEF free, unused, given, new, surplus, knows, keeps
    <3> QED BY <1>2, <1>12, <1>14, <3>1, <3>2, <3>3, WillShowKept
  <2> QED BY <2>2, <2>3
<1> HIDE DEF wanted, free, unused, given, new, surplus, knows, keeps
<1>20. Sound(y)
  <2>1. \A i \in DOMAIN y.queue : Meant(y.queue[i])
    <3> TAKE i \in DOMAIN y.queue
    <3>1. CASE i > Len(x.queue)
      BY <1>14, <3>1
    <3>2. CASE i <= Len(x.queue)
      <4>1. i \in DOMAIN x.queue
        BY <1>2, <1>12, <3>2
      <4> QED BY <4>1, <1>14 DEF Sound, Grown
    <3> QED BY <1>2, <1>12, <3>1, <3>2
  <2>2. y.dead \subseteq y.filled /\ y.filled \subseteq Live(y)
    BY <1>12 DEF Sound, Live
  <2> QED BY <1>12, <1>18, <1>19, <2>1, <2>2 DEF Sound
<1>21. build \in Closure /\ build.do = "build" /\ Meant(build)
  <2>1. missing \in SUBSET Window
    BY <1>4
  <2> HIDE DEF missing
  <2> QED BY <2>1 DEF Closure, Plain, Meant
<1>22. LET z == Post(y, build) IN
       /\ Sound(z) /\ Follows(y, z)
       /\ z.home = y.home /\ z.filled = y.filled /\ z.known = y.known
       /\ z.active = y.active /\ z.switching = y.switching
  <2> HIDE DEF build
  <2> QED BY <1>20, <1>21, PostKeeps
<1> DEFINE z == Post(y, build)
<1> HIDE DEF build
<1>23. z \in GuiState
  BY <1>22 DEF Sound
<1>24. Follows(x, z)
  <2> HIDE DEF z
  <2> QED BY <1>2, <1>12, <1>15, <1>22, <1>23, FollowsTrans DEF z
<1>25. Matched(z)
  BY <1>17, <1>22 DEF Matched
<1> QED BY <1>1, <1>12, <1>22, <1>24, <1>25

\* A change of the active workspace has the front end reconcile.
LEMMA SetActiveKeeps ==
    ASSUME NEW x, Sound(x), NEW ws \in Workspace
    PROVE  /\ Sound(SetActive(x, ws)) /\ Follows(x, SetActive(x, ws))
           /\ SameGui(x, SetActive(x, ws)) /\ ReconcilePending(SetActive(x, ws))
           /\ SetActive(x, ws).active = ws /\ SetActive(x, ws).home = x.home
           /\ SetActive(x, ws).filled = x.filled
<1> DEFINE r == [x EXCEPT !.active = ws]
           y == Post(r, Plain("reconcile"))
<1>1. x \in GuiState
  BY DEF Sound
<1>2. /\ r \in GuiState /\ r.active = ws /\ r.queue = x.queue /\ r.home = x.home
      /\ r.filled = x.filled /\ r.dead = x.dead /\ SameGui(x, r)
  BY <1>1 DEF GuiState, SameGui
<1> HIDE DEF r
<1>3. Grown(x, r) /\ \A i \in DOMAIN r.queue : ~(i > Len(x.queue))
  BY <1>1, <1>2, QueueIs DEF Grown
<1>4. r.dead \subseteq r.filled /\ r.filled \subseteq Live(r)
  BY <1>2 DEF Sound, Live
<1>5. Sound(r) /\ Follows(x, r)
  BY <1>2, <1>3, <1>4, SoundKept DEF Follows, SameGui
<1>6. Plain("reconcile") \in Closure /\ Plain("reconcile").do = "reconcile"
      /\ Meant(Plain("reconcile"))
  BY PlainIs
<1>7. /\ Sound(y) /\ Follows(r, y) /\ SameGui(r, y)
      /\ \E i \in DOMAIN y.queue : y.queue[i] = Plain("reconcile")
      /\ y.active = r.active /\ y.home = r.home /\ y.filled = r.filled
  BY <1>5, <1>6, PostKeeps DEF SameGui
<1>8. y \in GuiState
  BY <1>7 DEF Sound
<1>9. Follows(x, y)
  BY <1>1, <1>2, <1>5, <1>7, <1>8, FollowsTrans
<1>10. ReconcilePending(y)
  BY <1>6, <1>7 DEF ReconcilePending
<1>11. SetActive(x, ws) = y
  BY DEF SetActive, r
<1> QED BY <1>2, <1>7, <1>9, <1>10, <1>11 DEF SameGui

\* A workspace that has panes is picked, if there is one.
LEMMA PickWorkspaceKeeps ==
    ASSUME NEW x, Sound(x)
    PROVE  /\ Sound(PickWorkspace(x)) /\ Follows(x, PickWorkspace(x))
           /\ PickWorkspace(x).switching = x.switching
           /\ \/ PickWorkspace(x).filled = {}
              \/ Occupied(PickWorkspace(x), PickWorkspace(x).active)
<1> DEFINE occupied == {ws \in Workspace : Occupied(x, ws)}
           y == SetActive(x, SetMin(occupied))
<1>1. x \in GuiState
  BY DEF Sound
<1>2. CASE Occupied(x, x.active)
  BY <1>1, <1>2, FollowsTrans DEF PickWorkspace
<1>3. CASE occupied = {}
  <2>1. ASSUME NEW w \in x.filled PROVE x.home[w] \in Workspace
    BY <1>1 DEF Sound, Live, GuiState
  <2>2. x.filled = {}
    BY <1>3, <2>1 DEF Occupied
  <2> QED BY <1>1, <1>3, <2>2, FollowsTrans DEF PickWorkspace
<1>4. CASE occupied # {} /\ ~Occupied(x, x.active)
  <2>1. SetMin(occupied) \in occupied
    <3>1. occupied \in SUBSET Workspace
      OBVIOUS
    <3> HIDE DEF occupied
    <3> QED BY <1>4, <3>1, NumbersAreFinite, SetMinIs
  <2>2. /\ Sound(y) /\ Follows(x, y) /\ SameGui(x, y)
        /\ y.active = SetMin(occupied) /\ y.home = x.home /\ y.filled = x.filled
    BY <2>1, SetActiveKeeps
  <2>3. PickWorkspace(x) = y
    BY <1>4 DEF PickWorkspace
  <2>4. Occupied(y, y.active)
    BY <2>1, <2>2 DEF Occupied
  <2> QED BY <2>2, <2>3, <2>4 DEF SameGui
<1> QED BY <1>2, <1>3, <1>4

\* reconcile_workspace heeds what has changed, unless a switch is to do so.
LEMMA ReconcileKeeps ==
    ASSUME NEW x, Sound(x)
    PROVE  /\ Sound(ReconcileWorkspace(x)) /\ Follows(x, ReconcileWorkspace(x))
           /\ ReconcileWorkspace(x).switching = x.switching
           /\ \/ ReconcileWorkspace(x) = x /\ x.switching
              \/ Tidy(ReconcileWorkspace(x))
<1> DEFINE p == PickWorkspace(x)
           y == Assign(p)
<1>1. x \in GuiState
  BY DEF Sound
<1>2. CASE ~Occupied(x, x.active) /\ x.switching
  BY <1>1, <1>2, FollowsTrans DEF ReconcileWorkspace
<1>3. CASE ~(~Occupied(x, x.active) /\ x.switching)
  <2>1. ReconcileWorkspace(x) = y
    BY <1>3 DEF ReconcileWorkspace
  <2>2. Sound(p) /\ Follows(x, p) /\ p.switching = x.switching
        /\ (p.filled = {} \/ Occupied(p, p.active))
    BY PickWorkspaceKeeps
  <2> HIDE DEF p
  <2>3. /\ Sound(y) /\ Follows(p, y) /\ Matched(y)
        /\ y.filled = p.filled /\ y.home = p.home
        /\ y.active = p.active /\ y.switching = p.switching
    BY <2>2, AssignKeeps
  <2> HIDE DEF y
  <2>4. p \in GuiState /\ y \in GuiState
    BY <2>2, <2>3 DEF Sound
  <2>5. Follows(x, y)
    BY <1>1, <2>2, <2>3, <2>4, FollowsTrans
  <2>6. Tidy(y)
    BY <2>2, <2>3 DEF Tidy, Matched, Occupied
  <2> QED BY <2>1, <2>2, <2>3, <2>5, <2>6
<1> QED BY <1>2, <1>3

\* A queued reconcile does its work, unless a switch is under way that will.
LEMMA UnlessSwitchingKeeps ==
    ASSUME NEW x, Sound(x)
    PROVE  /\ Sound(UnlessSwitching(x)) /\ Follows(x, UnlessSwitching(x))
           /\ UnlessSwitching(x).switching = x.switching
           /\ x.switching \/ Tidy(UnlessSwitching(x))
<1>1. CASE x.switching
  <2>1. UnlessSwitching(x) = x /\ x \in GuiState
    BY <1>1 DEF UnlessSwitching, Sound
  <2> QED BY <1>1, <2>1, FollowsTrans
<1>2. CASE ~x.switching
  <2>1. UnlessSwitching(x) = ReconcileWorkspace(x)
    BY <1>2 DEF UnlessSwitching
  <2> QED BY <1>2, <2>1, ReconcileKeeps
<1> QED BY <1>1, <1>2

\* Of the conditions on a step only the first and the last are needed here.
LEMMA UnlessSwitchingGood ==
    ASSUME NEW x, Sound(x), NEW S, NEW M, Awaited(x, S), Sparing(x, S, M)
    PROVE  Good(UnlessSwitching(x), S, M)
<1> DEFINE y == UnlessSwitching(x)
<1>1. Sound(y) /\ Follows(x, y) /\ y.switching = x.switching /\ (x.switching \/ Tidy(y))
  BY UnlessSwitchingKeeps
<1> HIDE DEF y
<1>2. x \in GuiState /\ y \in GuiState
  BY <1>1 DEF Sound
<1>3. /\ SwitchPending(x, S) => SwitchPending(y, S)
      /\ Sparing(y, S, M)
  BY <1>1, <1>2, FollowsKeeps
<1>4. Good(y, S, M)
  BY <1>1, <1>3 DEF Good, Awaited, Heeded
<1> QED BY <1>4 DEF y

\* A switch heeds everything.
LEMMA SwitchKeeps ==
    ASSUME NEW x, Sound(x), NEW ws \in Workspace
    PROVE  /\ Sound(SwitchWorkspace(x, ws)) /\ Follows(x, SwitchWorkspace(x, ws))
           /\ \A S, M : Sparing(x, S, M) => Good(SwitchWorkspace(x, ws), S, M)
<1> DEFINE a == SetActive(x, ws)
           b == [a EXCEPT !.switching = FALSE]
           y == ReconcileWorkspace(b)
<1>1. x \in GuiState
  BY DEF Sound
<1>2. Sound(a) /\ Follows(x, a)
  BY SetActiveKeeps
<1> HIDE DEF a
<1>3. a \in GuiState
  BY <1>2 DEF Sound
<1>4. /\ b \in GuiState /\ b.switching = FALSE /\ b.queue = a.queue /\ b.home = a.home
      /\ b.filled = a.filled /\ b.dead = a.dead /\ b.next = a.next /\ b.known = a.known
      /\ b.shows = a.shows /\ b.closing = a.closing
  BY <1>3 DEF GuiState
<1> HIDE DEF b
<1>5. Grown(a, b) /\ \A i \in DOMAIN b.queue : ~(i > Len(a.queue))
  BY <1>3, <1>4, QueueIs DEF Grown
<1>6. b.dead \subseteq b.filled /\ b.filled \subseteq Live(b)
  BY <1>2, <1>4 DEF Sound, Live
<1>7. Sound(b) /\ Follows(a, b)
  BY <1>2, <1>4, <1>5, <1>6, SoundKept DEF Follows
<1>8. Sound(y) /\ Follows(b, y) /\ ~y.switching /\ Tidy(y)
  BY <1>4, <1>7, ReconcileKeeps
<1> HIDE DEF y
<1>9. y \in GuiState
  BY <1>8 DEF Sound
<1>10. Follows(x, y)
  <2>1. Follows(x, b)
    BY <1>1, <1>2, <1>3, <1>4, <1>7, FollowsTrans
  <2> QED BY <1>1, <1>4, <1>8, <1>9, <2>1, FollowsTrans
<1>11. ASSUME NEW S, NEW M, Sparing(x, S, M) PROVE Good(y, S, M)
  <2>1. Sparing(y, S, M)
    BY <1>1, <1>9, <1>10, <1>11, FollowsKeeps
  <2> QED BY <1>8, <2>1 DEF Good, Awaited, Heeded
<1>12. SwitchWorkspace(x, ws) = y
  BY DEF SwitchWorkspace, y, b, a
<1> QED BY <1>8, <1>10, <1>11, <1>12

\* The task that creates windows touches its own notes only.
LEMMA CreateKeeps ==
    ASSUME NEW x, Sound(x), NEW todo \in SUBSET Window
    PROVE  /\ Sound(CreateWindows(x, todo).state) /\ Follows(x, CreateWindows(x, todo).state)
           /\ \A S, M : Good(x, S, M) => Good(CreateWindows(x, todo).state, S, M)
           /\ CreateWindows(x, todo).builds \in Seq(Build)
           /\ CreateWindows(x, todo).state.next = x.next
<1> DEFINE needed == {w \in todo \ x.spawned : \A g \in Gui : x.known[g] # w}
           at == SetMin(needed)
           y == CreateWindows(x, todo).state
           c == IF needed = {} THEN FALSE ELSE x.switching
           sp == IF needed = {} THEN x.spawned ELSE x.spawned \cup {at}
<1>1. x \in GuiState
  BY DEF Sound
<1>2. needed # {} => at \in Window
  <2>1. needed \in SUBSET Window
    OBVIOUS
  <2> HIDE DEF needed
  <2>2. needed # {} => SetMin(needed) \in needed
    BY <2>1, NumbersAreFinite, SetMinIs
  <2> QED BY <2>1, <2>2
<1>3. CreateWindows(x, todo).builds \in Seq(Build)
  <2>1. CASE needed = {}
    BY <2>1 DEF CreateWindows
  <2>2. CASE needed # {}
    <3>1. [at |-> at, todo |-> {w \in todo : w > at}] \in Build
      BY <1>2, <2>2 DEF Build
    <3>2. CreateWindows(x, todo).builds = <<[at |-> at, todo |-> {w \in todo : w > at}]>>
      BY <2>2 DEF CreateWindows
    <3> QED BY <3>1, <3>2
  <2> QED BY <2>1, <2>2
<1>4. y = [x EXCEPT !.spawned = sp, !.switching = c]
  <2>1. CASE needed = {}
    <3>1. y = [x EXCEPT !.switching = FALSE]
      BY <2>1 DEF CreateWindows
    <3>2. sp = x.spawned /\ c = FALSE
      BY <2>1
    <3> HIDE DEF sp, c, y
    <3> QED BY <1>1, <3>1, <3>2 DEF GuiState
  <2>2. CASE needed # {}
    <3>1. y = [x EXCEPT !.spawned = @ \cup {at}]
      BY <2>2 DEF CreateWindows
    <3>2. sp = x.spawned \cup {at} /\ c = x.switching
      BY <2>2
    <3> HIDE DEF sp, c, y, at
    <3> QED BY <1>1, <3>1, <3>2 DEF GuiState
  <2> QED BY <2>1, <2>2
<1>5. sp \in SUBSET Window /\ c \in BOOLEAN /\ (c => x.switching)
  BY <1>1, <1>2 DEF GuiState
<1> HIDE DEF y, sp, c
<1>6. /\ y \in GuiState /\ y.switching = c /\ y.queue = x.queue /\ y.home = x.home
      /\ y.filled = x.filled /\ y.dead = x.dead /\ y.next = x.next /\ y.known = x.known
      /\ y.shows = x.shows /\ y.closing = x.closing /\ y.active = x.active
  BY <1>1, <1>4, <1>5 DEF GuiState
<1>7. Grown(x, y) /\ \A i \in DOMAIN y.queue : ~(i > Len(x.queue))
  BY <1>1, <1>6, QueueIs DEF Grown
<1>8. y.dead \subseteq y.filled /\ y.filled \subseteq Live(y)
  BY <1>6 DEF Sound, Live
<1>9. Sound(y) /\ Follows(x, y)
  BY <1>6, <1>7, <1>8, SoundKept DEF Follows
<1>10. ASSUME NEW S, NEW M, Good(x, S, M) PROVE Good(y, S, M)
  <2>1. /\ SwitchPending(x, S) => SwitchPending(y, S)
        /\ ReconcilePending(x) => ReconcilePending(y)
        /\ Sparing(y, S, M)
    BY <1>1, <1>6, <1>9, <1>10, FollowsKeeps DEF Good
  <2>2. Tidy(x) => Tidy(y)
    BY <1>6 DEF Tidy, Occupied
  <2> QED BY <1>5, <1>6, <1>10, <2>1, <2>2 DEF Good, Awaited, Heeded
<1> QED BY <1>3, <1>6, <1>9, <1>10 DEF y

----------------------------------------------------------------------------
(* The steps.                                                              *)

\* Steps that change the GUI windows, and nothing of the mux.
SameMux(x, y) ==
    /\ y.home = x.home /\ y.filled = x.filled /\ y.dead = x.dead /\ y.next = x.next
    /\ y.active = x.active /\ y.switching = x.switching /\ y.queue = x.queue

LEMMA SameMuxKeeps ==
    ASSUME NEW x, Sound(x), NEW y \in GuiState, SameMux(x, y)
    PROVE  /\ Follows(x, y)
           /\ \A S : Awaited(x, S) => Awaited(y, S)
           /\ \A S, M : Sparing(x, S, M) => Sparing(y, S, M)
           /\ \A g \in Gui : y.shows[g] = x.shows[g] /\ y.known[g] = x.known[g] =>
                             (WillShow(x, g) => WillShow(y, g))
           /\ (\A g \in Gui :
                 /\ y.known[g] # None => y.shows[g] # None
                 /\ g \in y.closing <=> y.shows[g] # None /\ y.known[g] = None
                 /\ y.known[g] # None => WillShow(y, g)) => Sound(y)
<1>1. x \in GuiState
  BY DEF Sound
<1>2. Grown(x, y) /\ \A i \in DOMAIN y.queue : ~(i > Len(x.queue))
  BY <1>1, QueueIs DEF SameMux, Grown
<1>3. Follows(x, y)
  BY <1>2 DEF Follows, SameMux
<1>4. \A g \in Gui : y.shows[g] = x.shows[g] /\ y.known[g] = x.known[g] =>
                     (WillShow(x, g) => WillShow(y, g))
  BY <1>1, <1>2, WillShowKept
<1>5. \A i \in DOMAIN y.queue : Meant(y.queue[i])
  BY DEF Sound, SameMux
<1>6. y.dead \subseteq y.filled /\ y.filled \subseteq Live(y)
  BY DEF Sound, SameMux, Live
<1>7. \A S : Awaited(x, S) => Awaited(y, S)
  BY DEF Awaited, SameMux, SwitchPending
<1>8. \A S, M : Sparing(x, S, M) => Sparing(y, S, M)
  BY DEF Sparing, SameMux
<1> QED BY <1>3, <1>4, <1>5, <1>6, <1>7, <1>8 DEF Sound

\* A GUI window that is told to close is forgotten at once.
LEMMA LeaveKeeps ==
    ASSUME NEW x, Sound(x), NEW g \in Gui, x.shows[g] # None, NEW S, NEW M, Awaited(x, S),
           Sparing(x, S, M)
    PROVE  LET y == ForgetKnownWindow([x EXCEPT !.closing = @ \cup {g}], g)
           IN  Sound(y) /\ Good(y, S, M) /\ y.next = x.next
<1> DEFINE r == [[x EXCEPT !.closing = @ \cup {g}] EXCEPT !.known[g] = None]
<1>1. x \in GuiState
  BY DEF Sound
<1>2. /\ r.known = [x.known EXCEPT ![g] = None] /\ r.shows = x.shows
      /\ r.closing = x.closing \cup {g}
      /\ SameMux(x, r)
  BY <1>1 DEF GuiState, SameMux
<1>3. r \in GuiState
  <2>1. [x.known EXCEPT ![g] = None] \in [Gui -> Window \cup {None}]
    BY <1>1 DEF GuiState
  <2> QED BY <1>1, <2>1 DEF GuiState
<1> HIDE DEF r
<1>4. ASSUME NEW h \in Gui
      PROVE  /\ r.known[h] # None => r.shows[h] # None
             /\ h \in r.closing <=> r.shows[h] # None /\ r.known[h] = None
             /\ r.known[h] # None => WillShow(r, h)
  <2>1. /\ x.known[h] # None => x.shows[h] # None
        /\ h \in x.closing <=> x.shows[h] # None /\ x.known[h] = None
        /\ x.known[h] # None => WillShow(x, h)
    BY DEF Sound
  <2>2. r.known[h] = IF h = g THEN None ELSE x.known[h]
    BY <1>1, <1>2 DEF GuiState
  <2>3. WillShow(x, h) /\ r.known[h] = x.known[h] => WillShow(r, h)
    BY <1>2, <1>3, SameMuxKeeps
  <2> QED BY <1>2, <2>1, <2>2, <2>3
<1>5. /\ Sound(r) /\ Awaited(r, S) /\ Sparing(r, S, M) /\ r.next = x.next
  BY <1>2, <1>3, <1>4, SameMuxKeeps DEF SameMux
<1>6. ForgetKnownWindow([x EXCEPT !.closing = @ \cup {g}], g) = UnlessSwitching(r)
  BY DEF ForgetKnownWindow, r
<1>7. Sound(UnlessSwitching(r)) /\ Follows(r, UnlessSwitching(r)) /\ Good(UnlessSwitching(r), S, M)
  BY <1>5, UnlessSwitchingKeeps, UnlessSwitchingGood
<1> QED BY <1>5, <1>6, <1>7 DEF Follows

\* One that is gone can be forgotten again.
LEMMA DestroyKeeps ==
    ASSUME NEW x, Sound(x), NEW g \in x.closing, NEW S, NEW M, Awaited(x, S), Sparing(x, S, M)
    PROVE  LET y == ForgetKnownWindow([x EXCEPT !.closing = @ \ {g}, !.shows[g] = None], g)
           IN  Sound(y) /\ Good(y, S, M) /\ y.next = x.next
<1> DEFINE r == [[x EXCEPT !.closing = @ \ {g}, !.shows[g] = None] EXCEPT !.known[g] = None]
<1>1. x \in GuiState /\ g \in Gui
  BY DEF Sound, GuiState
<1>2. /\ r.known = [x.known EXCEPT ![g] = None] /\ r.shows = [x.shows EXCEPT ![g] = None]
      /\ r.closing = x.closing \ {g}
      /\ SameMux(x, r)
  BY <1>1 DEF GuiState, SameMux
<1>3. r \in GuiState
  <2>1. /\ [x.known EXCEPT ![g] = None] \in [Gui -> Window \cup {None}]
        /\ [x.shows EXCEPT ![g] = None] \in [Gui -> Window \cup {None}]
    BY <1>1 DEF GuiState
  <2> QED BY <1>1, <2>1 DEF GuiState
<1> HIDE DEF r
<1>4. ASSUME NEW h \in Gui
      PROVE  /\ r.known[h] # None => r.shows[h] # None
             /\ h \in r.closing <=> r.shows[h] # None /\ r.known[h] = None
             /\ r.known[h] # None => WillShow(r, h)
  <2>1. /\ x.known[h] # None => x.shows[h] # None
        /\ h \in x.closing <=> x.shows[h] # None /\ x.known[h] = None
        /\ x.known[h] # None => WillShow(x, h)
    BY DEF Sound
  <2>2. /\ r.known[h] = IF h = g THEN None ELSE x.known[h]
        /\ r.shows[h] = IF h = g THEN None ELSE x.shows[h]
    BY <1>1, <1>2 DEF GuiState
  <2>3. WillShow(x, h) /\ r.known[h] = x.known[h] /\ r.shows[h] = x.shows[h] => WillShow(r, h)
    BY <1>2, <1>3, SameMuxKeeps
  <2> QED BY <1>2, <2>1, <2>2, <2>3
<1>5. /\ Sound(r) /\ Awaited(r, S) /\ Sparing(r, S, M) /\ r.next = x.next
  BY <1>2, <1>3, <1>4, SameMuxKeeps DEF SameMux
<1>6. ForgetKnownWindow([x EXCEPT !.closing = @ \ {g}, !.shows[g] = None], g) = UnlessSwitching(r)
  BY DEF ForgetKnownWindow, r
<1>7. Sound(UnlessSwitching(r)) /\ Follows(r, UnlessSwitching(r)) /\ Good(UnlessSwitching(r), S, M)
  BY <1>5, UnlessSwitchingKeeps, UnlessSwitchingGood
<1> QED BY <1>5, <1>6, <1>7 DEF Follows

\* A new one shows what it was made for, and no closure is meant for it yet.
LEMMA OpenKeeps ==
    ASSUME NEW x, Sound(x), NEW g \in Gui, NEW w \in Window, x.shows[g] = None,
           \A j \in DOMAIN x.queue : x.queue[j].gui # g,
           NEW S, NEW M, Awaited(x, S), Sparing(x, S, M)
    PROVE  LET y == UnlessSwitching([x EXCEPT !.shows[g] = w, !.known[g] = w])
           IN  Sound(y) /\ Good(y, S, M) /\ y.next = x.next
<1> DEFINE r == [x EXCEPT !.shows[g] = w, !.known[g] = w]
<1>1. x \in GuiState
  BY DEF Sound
<1>2. /\ r.known = [x.known EXCEPT ![g] = w] /\ r.shows = [x.shows EXCEPT ![g] = w]
      /\ r.closing = x.closing
      /\ SameMux(x, r)
  BY <1>1 DEF GuiState, SameMux
<1>3. r \in GuiState
  <2>1. /\ [x.known EXCEPT ![g] = w] \in [Gui -> Window \cup {None}]
        /\ [x.shows EXCEPT ![g] = w] \in [Gui -> Window \cup {None}]
    BY <1>1 DEF GuiState
  <2> QED BY <1>1, <2>1 DEF GuiState
<1> HIDE DEF r
<1>4. w # None
  BY DEF Window, None
<1>5. WillShow(r, g)
  <2>1. \A i \in DOMAIN r.queue : ~Shows(r, i, g)
    BY <1>2 DEF Shows, SameMux
  <2>2. r.shows[g] = r.known[g]
    BY <1>1, <1>2 DEF GuiState
  <2> QED BY <2>1, <2>2 DEF WillShow
<1>6. ASSUME NEW h \in Gui
      PROVE  /\ r.known[h] # None => r.shows[h] # None
             /\ h \in r.closing <=> r.shows[h] # None /\ r.known[h] = None
             /\ r.known[h] # None => WillShow(r, h)
  <2>1. /\ x.known[h] # None => x.shows[h] # None
        /\ h \in x.closing <=> x.shows[h] # None /\ x.known[h] = None
        /\ x.known[h] # None => WillShow(x, h)
    BY DEF Sound
  <2>2. /\ r.known[h] = IF h = g THEN w ELSE x.known[h]
        /\ r.shows[h] = IF h = g THEN w ELSE x.shows[h]
    BY <1>1, <1>2 DEF GuiState
  <2>3. WillShow(x, h) /\ r.known[h] = x.known[h] /\ r.shows[h] = x.shows[h] => WillShow(r, h)
    BY <1>2, <1>3, SameMuxKeeps
  <2> QED BY <1>2, <1>4, <1>5, <2>1, <2>2, <2>3
<1>7. /\ Sound(r) /\ Awaited(r, S) /\ Sparing(r, S, M) /\ r.next = x.next
  BY <1>2, <1>3, <1>6, SameMuxKeeps DEF SameMux
<1>8. Sound(UnlessSwitching(r)) /\ Follows(r, UnlessSwitching(r)) /\ Good(UnlessSwitching(r), S, M)
  BY <1>7, UnlessSwitchingKeeps, UnlessSwitchingGood
<1> QED BY <1>7, <1>8 DEF Follows, r

\* The first closure is taken out of the queue.
LEMMA TailKeeps ==
    ASSUME NEW x, Sound(x), x.queue # <<>>,
           NEW y, y = [x EXCEPT !.queue = Tail(@)], NEW c, c = Head(x.queue)
    PROVE  /\ y \in GuiState /\ c \in Closure /\ Meant(c)
           /\ y.home = x.home /\ y.filled = x.filled /\ y.dead = x.dead /\ y.next = x.next
           /\ y.active = x.active /\ y.switching = x.switching /\ y.spawned = x.spawned
           /\ y.known = x.known /\ y.shows = x.shows /\ y.closing = x.closing
           /\ c = x.queue[1] /\ 1 \in DOMAIN x.queue /\ Len(x.queue) \in Nat
           /\ DOMAIN x.queue = 1..Len(x.queue)
           /\ DOMAIN y.queue = 1..(Len(x.queue) - 1)
           /\ \A i \in DOMAIN y.queue : y.queue[i] = x.queue[i + 1] /\ i + 1 \in DOMAIN x.queue
<1>1. /\ x \in GuiState /\ x.queue \in Seq(Closure) /\ Len(x.queue) \in Nat
      /\ DOMAIN x.queue = 1..Len(x.queue)
  BY DEF Sound, GuiState
<1>2. /\ y.queue = Tail(x.queue) /\ y.home = x.home /\ y.filled = x.filled /\ y.dead = x.dead
      /\ y.next = x.next /\ y.active = x.active /\ y.switching = x.switching
      /\ y.spawned = x.spawned /\ y.known = x.known /\ y.shows = x.shows
      /\ y.closing = x.closing
  BY <1>1 DEF GuiState
<1>3. /\ Tail(x.queue) \in Seq(Closure) /\ c = x.queue[1] /\ 1 \in DOMAIN x.queue
      /\ Len(Tail(x.queue)) = Len(x.queue) - 1
      /\ \A i \in 1..(Len(x.queue) - 1) : Tail(x.queue)[i] = x.queue[i + 1]
  <2> DEFINE q == x.queue
  <2>1. q \in Seq(Closure) /\ q # <<>> /\ c = Head(q)
    BY <1>1
  <2> HIDE DEF q
  <2>2. /\ Tail(q) \in Seq(Closure) /\ c = q[1] /\ 1 \in DOMAIN q
        /\ Len(Tail(q)) = Len(q) - 1
        /\ \A i \in 1..(Len(q) - 1) : Tail(q)[i] = q[i + 1]
    BY <2>1
  <2> QED BY <2>2 DEF q
<1>4. y \in GuiState
  BY <1>1, <1>2, <1>3 DEF GuiState
<1>5. c \in Closure /\ Meant(c)
  BY <1>1, <1>3 DEF Sound
<1>6. DOMAIN y.queue = 1..(Len(x.queue) - 1)
  BY <1>1, <1>2, <1>3
<1>7. \A i \in DOMAIN y.queue : y.queue[i] = x.queue[i + 1] /\ i + 1 \in DOMAIN x.queue
  BY <1>1, <1>2, <1>3, <1>6
<1> QED BY <1>1, <1>2, <1>3, <1>4, <1>5, <1>6, <1>7

\* Its effect: a closure that shows something leaves the others to do the rest.
LEMMA ShowKeeps ==
    ASSUME NEW x, Sound(x), x.queue # <<>>,
           NEW y, y = [x EXCEPT !.queue = Tail(@)], NEW c, c = Head(x.queue)
    PROVE  /\ c.do # "show" => Sound(y)
           /\ c.do = "show" =>
                Sound(IF y.shows[c.gui] = None THEN y ELSE [y EXCEPT !.shows[c.gui] = c.win])
<1> DEFINE shown == c.do = "show" /\ y.shows[c.gui] # None
           z == IF shown THEN [y EXCEPT !.shows[c.gui] = c.win] ELSE y
<1>1. /\ y \in GuiState /\ c \in Closure /\ Meant(c)
      /\ y.home = x.home /\ y.filled = x.filled /\ y.dead = x.dead /\ y.next = x.next
      /\ y.known = x.known /\ y.shows = x.shows /\ y.closing = x.closing
      /\ c = x.queue[1] /\ 1 \in DOMAIN x.queue /\ Len(x.queue) \in Nat
      /\ DOMAIN x.queue = 1..Len(x.queue) /\ DOMAIN y.queue = 1..(Len(x.queue) - 1)
      /\ \A i \in DOMAIN y.queue : y.queue[i] = x.queue[i + 1] /\ i + 1 \in DOMAIN x.queue
  BY TailKeeps
<1>2. shown => c.gui \in Gui /\ c.win \in Window /\ c.win # None
  BY <1>1 DEF Meant, Window, None
<1>3. z \in GuiState /\ z.queue = y.queue /\ z.known = x.known /\ z.closing = x.closing
      /\ z.home = x.home /\ z.filled = x.filled /\ z.dead = x.dead
      /\ \A g \in Gui : z.shows[g] = IF shown /\ g = c.gui THEN c.win ELSE x.shows[g]
  <2>1. CASE shown
    <3>1. [y.shows EXCEPT ![c.gui] = c.win] \in [Gui -> Window \cup {None}]
      BY <1>1, <1>2, <2>1 DEF GuiState
    <3>2. z = [y EXCEPT !.shows = [y.shows EXCEPT ![c.gui] = c.win]]
      BY <2>1, <1>1 DEF GuiState
    <3>3. \A g \in Gui : [y.shows EXCEPT ![c.gui] = c.win][g] =
                          IF g = c.gui THEN c.win ELSE y.shows[g]
      BY <1>1 DEF GuiState
    <3>4. /\ z \in GuiState /\ z.queue = y.queue /\ z.known = y.known /\ z.closing = y.closing
          /\ z.home = y.home /\ z.filled = y.filled /\ z.dead = y.dead
          /\ z.shows = [y.shows EXCEPT ![c.gui] = c.win]
      <4> HIDE DEF z, shown
      <4> QED BY <1>1, <3>1, <3>2 DEF GuiState
    <3> HIDE DEF z
    <3> QED BY <1>1, <2>1, <3>3, <3>4
  <2>2. CASE ~shown
    <3>1. z = y
      BY <2>2
    <3> HIDE DEF z, shown
    <3> QED BY <1>1, <2>2, <3>1
  <2> QED BY <2>1, <2>2
<1> HIDE DEF z
<1>4. ASSUME NEW g \in Gui
      PROVE  /\ x.known[g] # None => x.shows[g] # None
             /\ g \in x.closing <=> x.shows[g] # None /\ x.known[g] = None
             /\ x.known[g] # None => WillShow(x, g)
  BY DEF Sound
<1>5. ASSUME NEW g \in Gui, x.known[g] # None PROVE WillShow(z, g)
  <2>1. WillShow(x, g) /\ x.shows[g] # None
    BY <1>4, <1>5
  <2>2. \A i \in DOMAIN z.queue : Shows(z, i, g) <=> Shows(x, i + 1, g)
    BY <1>1, <1>3 DEF Shows
  <2>3. ASSUME NEW i \in DOMAIN z.queue, Shows(z, i, g),
               \A j \in DOMAIN z.queue : j > i => ~Shows(z, j, g)
        PROVE  z.queue[i].win = z.known[g]
    <3>1. i + 1 \in DOMAIN x.queue /\ Shows(x, i + 1, g) /\ z.queue[i] = x.queue[i + 1]
      BY <1>1, <1>3, <2>2, <2>3
    <3>2. ASSUME NEW j \in DOMAIN x.queue, j > i + 1 PROVE ~Shows(x, j, g)
      <4>1. j - 1 \in DOMAIN z.queue /\ j - 1 > i /\ (j - 1) + 1 = j
        BY <1>1, <1>3, <3>2
      <4> QED BY <2>2, <2>3, <4>1
    <3>3. x.queue[i + 1].win = x.known[g]
      BY <2>1, <3>1, <3>2 DEF WillShow
    <3> QED BY <1>3, <3>1, <3>3
  <2>4. ASSUME \A i \in DOMAIN z.queue : ~Shows(z, i, g)
        PROVE  z.shows[g] = z.known[g]
    <3>1. ASSUME NEW j \in DOMAIN x.queue, j > 1 PROVE ~Shows(x, j, g)
      <4>1. j - 1 \in DOMAIN z.queue /\ (j - 1) + 1 = j
        BY <1>1, <1>3, <3>1
      <4> QED BY <2>2, <2>4, <4>1
    <3>2. CASE Shows(x, 1, g)
      <4>1. x.queue[1].win = x.known[g]
        BY <1>1, <2>1, <3>1, <3>2 DEF WillShow
      <4>2. shown /\ g = c.gui
        BY <1>1, <2>1, <3>2 DEF Shows
      <4> QED BY <1>1, <1>3, <4>1, <4>2
    <3>3. CASE ~Shows(x, 1, g)
      <4>1. \A j \in DOMAIN x.queue : ~Shows(x, j, g)
        <5>1. \A j \in DOMAIN x.queue : j = 1 \/ j > 1
          BY <1>1
        <5> QED BY <3>1, <3>3, <5>1
      <4>2. x.shows[g] = x.known[g]
        BY <2>1, <4>1 DEF WillShow
      <4>3. ~(shown /\ g = c.gui)
        BY <1>1, <3>3 DEF Shows
      <4> QED BY <1>3, <4>2, <4>3
    <3> QED BY <3>2, <3>3
  <2> QED BY <2>3, <2>4 DEF WillShow
<1>6. ASSUME NEW g \in Gui
      PROVE  /\ z.known[g] # None => z.shows[g] # None
             /\ g \in z.closing <=> z.shows[g] # None /\ z.known[g] = None
             /\ z.known[g] # None => WillShow(z, g)
  <2>1. z.shows[g] # None <=> x.shows[g] # None
    BY <1>1, <1>2, <1>3
  <2> QED BY <1>3, <1>4, <1>5, <2>1
<1>7. \A i \in DOMAIN z.queue : Meant(z.queue[i])
  BY <1>1, <1>3 DEF Sound
<1>8. z.dead \subseteq z.filled /\ z.filled \subseteq Live(z)
  BY <1>3 DEF Sound, Live
<1>9. Sound(z)
  BY <1>3, <1>6, <1>7, <1>8 DEF Sound
<1> QED BY <1>9 DEF z

\* The closure that is taken out may have been what a condition waited for.
LEMMA TailGood ==
    ASSUME NEW x, Sound(x), x.queue # <<>>, NEW S, NEW M, Good(x, S, M),
           NEW y, y = [x EXCEPT !.queue = Tail(@)], NEW c, c = Head(x.queue)
    PROVE  /\ Sparing(y, S, M)
           /\ ~Switches(c) => (SwitchPending(x, S) => SwitchPending(y, S)) /\ Awaited(y, S)
           /\ ~Switches(c) /\ c.do # "reconcile" => Good(y, S, M)
<1>1. /\ y.home = x.home /\ y.filled = x.filled /\ y.dead = x.dead
      /\ y.active = x.active /\ y.switching = x.switching /\ y.known = x.known
      /\ c = x.queue[1] /\ 1 \in DOMAIN x.queue /\ Len(x.queue) \in Nat
      /\ DOMAIN x.queue = 1..Len(x.queue) /\ DOMAIN y.queue = 1..(Len(x.queue) - 1)
      /\ \A i \in DOMAIN y.queue : y.queue[i] = x.queue[i + 1] /\ i + 1 \in DOMAIN x.queue
  BY TailKeeps
<1>2. ASSUME NEW j \in DOMAIN x.queue, j # 1
      PROVE  j - 1 \in DOMAIN y.queue /\ y.queue[j - 1] = x.queue[j]
  <2>1. j - 1 \in 1..(Len(x.queue) - 1) /\ (j - 1) + 1 = j
    BY <1>1, <1>2
  <2> QED BY <1>1, <2>1
<1>3. Sparing(y, S, M)
  <2> SUFFICES ASSUME NEW i \in DOMAIN y.queue, y.queue[i].do = "quit"
               PROVE  /\ \A s \in S : s.then = None
                      /\ \A j \in 1..(i - 1) : ~(y.queue[j].do = "spawn" /\ y.queue[j].then # None)
                      /\ M \cap y.filled \subseteq y.dead
    BY DEF Sparing
  <2>1. i + 1 \in DOMAIN x.queue /\ x.queue[i + 1].do = "quit"
    BY <1>1
  <2>2. /\ \A s \in S : s.then = None
        /\ \A j \in 1..((i + 1) - 1) : ~(x.queue[j].do = "spawn" /\ x.queue[j].then # None)
        /\ M \cap x.filled \subseteq x.dead
    BY <2>1 DEF Good, Sparing
  <2>3. ASSUME NEW j \in 1..(i - 1)
        PROVE  ~(y.queue[j].do = "spawn" /\ y.queue[j].then # None)
    <3>1. j \in DOMAIN y.queue /\ j + 1 \in 1..((i + 1) - 1)
      BY <1>1
    <3> QED BY <1>1, <2>2, <3>1
  <2> QED BY <1>1, <2>2, <2>3
<1>4. ASSUME ~Switches(c) PROVE (SwitchPending(x, S) => SwitchPending(y, S)) /\ Awaited(y, S)
  <2>1. ASSUME NEW j \in DOMAIN x.queue, Switches(x.queue[j])
        PROVE  \E i \in DOMAIN y.queue : Switches(y.queue[i])
    <3>1. j # 1
      BY <1>1, <1>4, <2>1
    <3> QED BY <1>2, <2>1, <3>1
  <2>2. SwitchPending(x, S) => SwitchPending(y, S)
    BY <2>1 DEF SwitchPending
  <2> QED BY <1>1, <2>2 DEF Good, Awaited
<1>5. ASSUME ~Switches(c), c.do # "reconcile" PROVE Heeded(y, S)
  <2>1. ReconcilePending(x) => ReconcilePending(y)
    <3> SUFFICES ASSUME NEW j \in DOMAIN x.queue, x.queue[j].do = "reconcile"
                 PROVE  \E i \in DOMAIN y.queue : y.queue[i].do = "reconcile"
      BY DEF ReconcilePending
    <3>1. j # 1
      BY <1>1, <1>5
    <3> QED BY <1>2, <3>1
  <2>2. Tidy(x) => Tidy(y)
    BY <1>1 DEF Tidy, Occupied
  <2> QED BY <1>4, <1>5, <2>1, <2>2 DEF Good, Heeded
<1> QED BY <1>3, <1>4, <1>5 DEF Good

\* A closure that is queued: what it means for the conditions on a step.
LEMMA PostGood ==
    ASSUME NEW x, Sound(x), NEW c \in Closure, c.do \notin {"show", "quit"}, Meant(c),
           NEW S, NEW M, Sparing(x, S, M)
    PROVE  /\ Sound(Post(x, c)) /\ Sparing(Post(x, c), S, M) /\ Post(x, c).next = x.next
           /\ Awaited(x, S) => Awaited(Post(x, c), S)
           /\ Switches(c) => Good(Post(x, c), S, M)
           /\ Awaited(x, S) /\ (Heeded(x, S) \/ c.do = "reconcile") => Good(Post(x, c), S, M)
<1> DEFINE y == Post(x, c)
<1>1. /\ Sound(y) /\ Follows(x, y) /\ \E i \in DOMAIN y.queue : y.queue[i] = c
      /\ y.home = x.home /\ y.filled = x.filled /\ y.next = x.next
      /\ y.active = x.active /\ y.switching = x.switching /\ y.known = x.known
  BY PostKeeps
<1> HIDE DEF y
<1>2. x \in GuiState /\ y \in GuiState
  BY <1>1 DEF Sound
<1>3. /\ SwitchPending(x, S) => SwitchPending(y, S)
      /\ ReconcilePending(x) => ReconcilePending(y)
      /\ Sparing(y, S, M)
  BY <1>1, <1>2, FollowsKeeps
<1>4. Switches(c) => SwitchPending(y, S)
  BY <1>1 DEF SwitchPending
<1>5. c.do = "reconcile" => ReconcilePending(y)
  BY <1>1 DEF ReconcilePending
<1>6. Tidy(x) => Tidy(y)
  BY <1>1 DEF Tidy, Occupied
<1>7. Awaited(x, S) => Awaited(y, S)
  BY <1>1, <1>3 DEF Awaited
<1>8. Switches(c) => Good(y, S, M)
  BY <1>3, <1>4 DEF Good, Awaited, Heeded
<1>9. Awaited(x, S) /\ (Heeded(x, S) \/ c.do = "reconcile") => Good(y, S, M)
  BY <1>3, <1>5, <1>6, <1>7 DEF Good, Heeded
<1> QED BY <1>1, <1>3, <1>7, <1>8, <1>9 DEF y

\* A change of the mux that is not yet queued.
LEMMA ChangeKeeps ==
    ASSUME NEW x, Sound(x), NEW y \in GuiState, y.queue = x.queue, y.known = x.known,
           y.shows = x.shows, y.closing = x.closing,
           y.dead \subseteq y.filled, y.filled \subseteq Live(y), NEW S, NEW M
    PROVE  /\ Sound(y)
           /\ Sparing(x, S, M) /\ M \cap y.filled \subseteq M \cap (y.dead \cup (x.filled \ x.dead))
                => Sparing(y, S, M)
           /\ Awaited(x, S) /\ (y.switching => x.switching) => Awaited(y, S)
<1>1. x \in GuiState
  BY DEF Sound
<1>2. Grown(x, y) /\ \A i \in DOMAIN y.queue : ~(i > Len(x.queue))
  BY <1>1, QueueIs DEF Grown
<1>3. Sound(y)
  BY <1>2, SoundKept
<1>4. Sparing(x, S, M) /\ M \cap y.filled \subseteq M \cap (y.dead \cup (x.filled \ x.dead))
        => Sparing(y, S, M)
  <2> SUFFICES ASSUME Sparing(x, S, M),
                      M \cap y.filled \subseteq M \cap (y.dead \cup (x.filled \ x.dead)),
                      NEW i \in DOMAIN y.queue, y.queue[i].do = "quit"
               PROVE  /\ \A s \in S : s.then = None
                      /\ \A j \in 1..(i - 1) : ~(y.queue[j].do = "spawn" /\ y.queue[j].then # None)
                      /\ M \cap y.filled \subseteq y.dead
    BY DEF Sparing
  <2>1. /\ \A s \in S : s.then = None
        /\ \A j \in 1..(i - 1) : ~(x.queue[j].do = "spawn" /\ x.queue[j].then # None)
        /\ M \cap x.filled \subseteq x.dead
    BY DEF Sparing
  <2> QED BY <2>1
<1>5. Awaited(x, S) /\ (y.switching => x.switching) => Awaited(y, S)
  BY DEF Awaited, SwitchPending
<1> QED BY <1>3, <1>4, <1>5

\* A new active workspace is heeded by the reconcile it queues.
LEMMA SetActiveGood ==
    ASSUME NEW x, Sound(x), NEW ws \in Workspace, NEW S, NEW M, Sparing(x, S, M)
    PROVE  /\ Sparing(SetActive(x, ws), S, M)
           /\ Awaited(x, S) => Good(SetActive(x, ws), S, M)
<1> DEFINE y == SetActive(x, ws)
<1>1. /\ Sound(y) /\ Follows(x, y) /\ SameGui(x, y) /\ ReconcilePending(y)
  BY SetActiveKeeps
<1> HIDE DEF y
<1>2. x \in GuiState /\ y \in GuiState
  BY <1>1 DEF Sound
<1>3. (SwitchPending(x, S) => SwitchPending(y, S)) /\ Sparing(y, S, M)
  BY <1>1, <1>2, FollowsKeeps
<1>4. Awaited(x, S) => Good(y, S, M)
  BY <1>1, <1>3 DEF Good, Awaited, Heeded, SameGui
<1> QED BY <1>3, <1>4 DEF y

\* The invariant after a step that leaves the spawns alone.
LEMMA InvKept ==
    ASSUME IInv, Sound(gui'), Good(gui', spawning, switched), gui'.next = gui.next,
           UNCHANGED <<spawning, switched>>, building' \in Seq(Build), quit' = FALSE
    PROVE  IInv'
<1>1. SpawnsApart'
  BY DEF IInv, SpawnsApart
<1>2. Sound(gui)'
  BY DEF Sound, Shows, WillShow, Live, Meant, GuiState
<1>3. Good(gui, spawning, switched)'
  BY DEF Good, Awaited, Heeded, Sparing, SwitchPending, ReconcilePending, Tidy, Occupied, Switches
<1>4. QuitSparesSwitch'
  BY DEF QuitSparesSwitch
<1> QED BY <1>1, <1>2, <1>3, <1>4 DEF IInv

\* The tasks that create GUI windows, with one taken out and others added.
LEMMA BuildingKept ==
    ASSUME building \in Seq(Build), NEW i \in DOMAIN building, NEW b \in Seq(Build)
    PROVE  /\ building[i] \in Build
           /\ Others(building, i) \o b \in Seq(Build)
           /\ building \o b \in Seq(Build)
<1>1. SubSeq(building, 1, i - 1) \in Seq(Build) /\ SubSeq(building, i + 1, Len(building)) \in Seq(Build)
  OBVIOUS
<1>2. Others(building, i) \in Seq(Build)
  BY <1>1 DEF Others
<1> QED BY <1>2

\* RunQueue, one lemma for its one step that starts a spawn.
LEMMA StartSpawnInv ==
    ASSUME IInv, gui.queue # <<>>, NEW c, c = Head(gui.queue),
           NEW x, x = [gui EXCEPT !.queue = Tail(@)], c.do = "spawn", x.next \in Window,
           gui' = [x EXCEPT !.home[x.next] = x.active, !.next = @ + 1],
           spawning' = spawning \cup {[win |-> x.next, then |-> c.then]},
           UNCHANGED <<building, quit, switched>>, ~quit
    PROVE  IInv'
<1> DEFINE S == spawning \cup {[win |-> x.next, then |-> c.then]}
           y == [x EXCEPT !.home[x.next] = x.active, !.next = @ + 1]
<1>1. Sound(gui) /\ Good(gui, spawning, switched)
  BY DEF IInv
<1>2. /\ x \in GuiState /\ c \in Closure
      /\ x.switching = gui.switching /\ x.next = gui.next
      /\ c = gui.queue[1] /\ Len(gui.queue) \in Nat
      /\ DOMAIN gui.queue = 1..Len(gui.queue) /\ DOMAIN x.queue = 1..(Len(gui.queue) - 1)
      /\ \A i \in DOMAIN x.queue : x.queue[i] = gui.queue[i + 1] /\ i + 1 \in DOMAIN gui.queue
  BY <1>1, TailKeeps
<1>3. Sound(x) /\ Sparing(x, spawning, switched)
      /\ (c.then = None => Awaited(x, spawning) /\ Heeded(x, spawning))
  <2>1. Sound(x)
    BY <1>1, ShowKeeps
  <2>2. c.then = None => ~Switches(c) /\ c.do # "reconcile"
    BY DEF Switches
  <2>3. Sparing(x, spawning, switched) /\ (~Switches(c) /\ c.do # "reconcile" => Good(x, spawning, switched))
    BY <1>1, TailGood
  <2> QED BY <2>1, <2>2, <2>3 DEF Good
<1>4. /\ y.home = [x.home EXCEPT ![x.next] = x.active] /\ y.next = x.next + 1
      /\ y.queue = x.queue /\ y.known = x.known /\ y.shows = x.shows /\ y.closing = x.closing
      /\ y.filled = x.filled /\ y.dead = x.dead /\ y.active = x.active
      /\ y.switching = x.switching
  BY <1>2 DEF GuiState
<1>5. y \in GuiState
  <2>1. [x.home EXCEPT ![x.next] = x.active] \in [Window -> Workspace \cup {None}]
    BY <1>2 DEF GuiState
  <2>2. x.next + 1 \in 1..(MaxWindow + 1)
    BY FrontEndAssumption DEF Window
  <2> QED BY <1>2, <2>1, <2>2 DEF GuiState
<1>6. /\ \A w \in Window : y.home[w] = IF w = x.next THEN x.active ELSE x.home[w]
      /\ x.active \in Workspace /\ None \notin Workspace
  BY <1>2, <1>4 DEF GuiState, Workspace, None
<1> HIDE DEF y
<1>7. y.dead \subseteq y.filled /\ y.filled \subseteq Live(y)
  BY <1>3, <1>4, <1>6 DEF Sound, Live
<1>8. Sound(y)
  BY <1>3, <1>4, <1>5, <1>7, ChangeKeeps
<1>9. Sparing(y, S, switched)
  <2> SUFFICES ASSUME NEW i \in DOMAIN y.queue, y.queue[i].do = "quit"
               PROVE  /\ \A s \in S : s.then = None
                      /\ \A j \in 1..(i - 1) : ~(y.queue[j].do = "spawn" /\ y.queue[j].then # None)
                      /\ switched \cap y.filled \subseteq y.dead
    BY DEF Sparing
  <2>1. /\ \A s \in spawning : s.then = None
        /\ \A j \in 1..(i - 1) : ~(x.queue[j].do = "spawn" /\ x.queue[j].then # None)
        /\ switched \cap x.filled \subseteq x.dead
    BY <1>3, <1>4 DEF Sparing
  <2>2. c.then = None
    <3>1. i + 1 \in DOMAIN gui.queue /\ gui.queue[i + 1].do = "quit" /\ 1 \in 1..((i + 1) - 1)
      BY <1>2, <1>4
    <3> QED BY <1>1, <1>2, <3>1 DEF Good, Sparing
  <2> QED BY <1>4, <2>1, <2>2
<1>10. SwitchPending(x, spawning) => SwitchPending(y, S)
  BY <1>4 DEF SwitchPending
<1>11. c.then # None => SwitchPending(y, S)
  <2>1. [win |-> x.next, then |-> c.then] \in S /\ [win |-> x.next, then |-> c.then].then = c.then
    OBVIOUS
  <2> HIDE DEF S
  <2>2. c.then # None => \E s \in S : s.then # None
    BY <2>1
  <2> QED BY <2>2 DEF SwitchPending
<1>12. Tidy(x) => Tidy(y)
  <2>1. Occupied(x, x.active) => Occupied(y, y.active)
    <3>1. x.filled \in SUBSET Window
      BY <1>2 DEF GuiState
    <3> QED BY <1>4, <1>6, <3>1 DEF Occupied
  <2>2. ASSUME Tidy(x), NEW g \in Gui, x.known[g] # None
        PROVE  y.home[x.known[g]] = x.active
    <3>1. x.known[g] \in Window
      BY <1>2, <2>2 DEF GuiState
    <3>2. x.home[x.known[g]] = x.active
      BY <2>2 DEF Tidy
    <3> QED BY <1>6, <3>1, <3>2
  <2> QED BY <1>4, <2>1, <2>2 DEF Tidy
<1>13. Good(y, S, switched)
  <2>1. ReconcilePending(x) => ReconcilePending(y)
    BY <1>4 DEF ReconcilePending
  <2> QED BY <1>3, <1>4, <1>9, <1>10, <1>11, <1>12, <2>1 DEF Good, Awaited, Heeded
<1>14. gui' = y /\ spawning' = S
  BY DEF y
<1> HIDE DEF S
<1>15. Sound(gui)' /\ Good(gui, spawning, switched)'
  <2>1. Sound(gui') /\ Good(gui', spawning', switched)
    BY <1>8, <1>13, <1>14
  <2>2. Sound(gui)'
    BY <2>1 DEF Sound, Shows, WillShow, Live, Meant, GuiState
  <2> QED BY <2>1, <2>2 DEF Good, Awaited, Heeded, Sparing, SwitchPending, ReconcilePending,
                            Tidy, Occupied, Switches
<1>16. SpawnsApart'
  <2>1. SpawnsApart /\ gui'.next = gui.next + 1 /\ gui.next \in Window /\ gui.next \in Nat
    BY <1>2, <1>4, <1>14 DEF IInv, Window
  <2>2. [win |-> x.next, then |-> c.then] \in Spawn
    BY <1>2 DEF Spawn, Closure
  <2>3. spawning' \subseteq Spawn
    BY <2>1, <2>2 DEF SpawnsApart
  <2>4. /\ switched \subseteq {w \in Window : w < gui.next + 1}
        /\ \A w \in Window : w \in Nat
    BY <2>1 DEF SpawnsApart, Window
  <2>5. ASSUME NEW s \in spawning'
        PROVE  /\ s.win < gui.next + 1 /\ s.win \notin switched
               /\ \A t \in spawning' : s.win = t.win => s = t
    <3>1. \A t \in spawning : t.win < gui.next /\ t.win \in Window /\ t.win \in Nat
      BY <2>1, <2>4 DEF SpawnsApart, Spawn
    <3>2. \A t \in spawning : t.win # gui.next
      BY <2>1, <3>1
    <3>3. gui.next \notin switched
      BY <2>1 DEF SpawnsApart
    <3>4. CASE s \in spawning
      BY <1>2, <2>1, <3>1, <3>2, <3>4 DEF SpawnsApart
    <3>5. CASE s = [win |-> x.next, then |-> c.then]
      BY <1>2, <2>1, <3>1, <3>2, <3>3, <3>5
    <3> QED BY <3>4, <3>5
  <2> QED BY <2>1, <2>3, <2>4, <2>5 DEF SpawnsApart
<1>17. QuitSparesSwitch'
  BY DEF QuitSparesSwitch
<1> QED BY <1>15, <1>16, <1>17 DEF IInv

\* A step of the main thread: each kind of closure keeps the invariant.
LEMMA RunQueueInv ==
    ASSUME IInv, RunQueue
    PROVE  IInv'
<1> DEFINE c == Head(gui.queue)
           x == [gui EXCEPT !.queue = Tail(@)]
<1>1. /\ Sound(gui) /\ Good(gui, spawning, switched) /\ building \in Seq(Build)
      /\ gui.queue # <<>> /\ ~quit /\ switched' = switched
  BY DEF IInv, RunQueue
<1>2. \/ c.do = "reconcile" /\ gui' = UnlessSwitching(x) /\ UNCHANGED <<spawning, building, quit>>
      \/ c.do = "prune" /\ gui' = PruneDeadWindows(x) /\ UNCHANGED <<spawning, building, quit>>
      \/ c.do = "quit" /\ quit' = ~Held(x, spawning) /\ gui' = x /\ UNCHANGED <<spawning, building>>
      \/ /\ c.do = "switch" /\ gui' = SwitchWorkspace(x, c.then)
         /\ UNCHANGED <<spawning, building, quit>>
      \/ /\ c.do = "show"
         /\ gui' = IF x.shows[c.gui] = None THEN x ELSE [x EXCEPT !.shows[c.gui] = c.win]
         /\ UNCHANGED <<spawning, building, quit>>
      \/ /\ c.do = "build" /\ gui' = CreateWindows(x, c.todo).state
         /\ building' = building \o CreateWindows(x, c.todo).builds
         /\ UNCHANGED <<spawning, quit>>
      \/ /\ c.do = "spawn" /\ x.next \in Window
         /\ gui' = [x EXCEPT !.home[x.next] = x.active, !.next = @ + 1]
         /\ spawning' = spawning \cup {[win |-> x.next, then |-> c.then]}
         /\ UNCHANGED <<building, quit>>
  BY DEF RunQueue
<1>3. /\ x \in GuiState /\ c \in Closure /\ Meant(c) /\ x.next = gui.next
      /\ x.filled = gui.filled /\ x.dead = gui.dead /\ 1 \in DOMAIN gui.queue
      /\ c = gui.queue[1]
      /\ x.home = gui.home /\ x.active = gui.active /\ x.known = gui.known
      /\ x.switching = gui.switching
  BY <1>1, TailKeeps
<1>4. /\ c.do # "show" => Sound(x)
      /\ c.do = "show" => Sound(IF x.shows[c.gui] = None THEN x ELSE [x EXCEPT !.shows[c.gui] = c.win])
  BY <1>1, ShowKeeps
<1>5. /\ Sparing(x, spawning, switched)
      /\ ~Switches(c) => Awaited(x, spawning)
      /\ ~Switches(c) /\ c.do # "reconcile" => Good(x, spawning, switched)
  <2> HIDE DEF c, x
  <2>1. c = Head(gui.queue) /\ x = [gui EXCEPT !.queue = Tail(@)]
    BY DEF c, x
  <2> QED BY <1>1, <2>1, TailGood
<1>6. quit \in BOOLEAN /\ quit = FALSE
  BY <1>1 DEF IInv
<1>7. ASSUME c.do = "reconcile", gui' = UnlessSwitching(x), UNCHANGED <<spawning, building, quit>>
      PROVE  IInv'
  <2> HIDE DEF c, x
  <2>1. ~Switches(c) /\ c.do # "show"
    BY <1>7 DEF Switches
  <2>2. Sound(gui') /\ gui'.next = x.next
    BY <1>4, <1>7, <2>1, UnlessSwitchingKeeps DEF Follows
  <2>3. Good(gui', spawning, switched)
    BY <1>4, <1>5, <1>7, <2>1, UnlessSwitchingGood
  <2> QED BY <1>1, <1>3, <1>6, <1>7, <2>2, <2>3, InvKept
<1>8. ASSUME c.do = "prune", gui' = PruneDeadWindows(x), UNCHANGED <<spawning, building, quit>>
      PROVE  IInv'
  <2> HIDE DEF c, x
  <2>1. ~Switches(c) /\ c.do # "show" /\ c.do # "reconcile"
    BY <1>8 DEF Switches
  <2>2. Sound(gui') /\ SameGui(x, gui') /\ Good(gui', spawning, switched)
    BY <1>4, <1>5, <1>8, <2>1, PruneKeeps
  <2> QED BY <1>1, <1>3, <1>6, <1>8, <2>2, InvKept DEF SameGui
<1>9. ASSUME c.do = "quit", quit' = ~Held(x, spawning), gui' = x, UNCHANGED <<spawning, building>>
      PROVE  IInv'
  <2> HIDE DEF c, x
  <2>1. ~Switches(c) /\ c.do # "show" /\ c.do # "reconcile"
    BY <1>9 DEF Switches
  <2>2. Sound(x) /\ Good(x, spawning, switched)
    BY <1>4, <1>5, <2>1
  <2>3. switched \cap gui.filled \subseteq gui.dead
    BY <1>1, <1>3, <1>9 DEF Good, Sparing
  <2>4. Sound(gui)' /\ Good(gui, spawning, switched)'
    <3>1. Sound(gui') /\ Good(gui', spawning', switched')
      BY <1>1, <1>9, <2>2
    <3>2. Sound(gui)'
      BY <3>1 DEF Sound, Shows, WillShow, Live, Meant, GuiState
    <3> QED BY <3>1, <3>2 DEF Good, Awaited, Heeded, Sparing, SwitchPending, ReconcilePending,
                              Tidy, Occupied, Switches
  <2>5. SpawnsApart'
    BY <1>1, <1>3, <1>9 DEF IInv, SpawnsApart
  <2>6. QuitSparesSwitch'
    <3>1. switched' \cap gui'.filled \subseteq gui'.dead
      BY <1>1, <1>3, <1>9, <2>3
    <3>2. quit' => ~Held(gui', spawning')
      BY <1>9
    <3> QED BY <3>1, <3>2 DEF QuitSparesSwitch, Held
  <2>7. quit' \in BOOLEAN
    BY <1>9 DEF Held
  <2> QED BY <1>1, <1>9, <2>4, <2>5, <2>6, <2>7 DEF IInv
<1>10. ASSUME c.do = "switch", gui' = SwitchWorkspace(x, c.then), UNCHANGED <<spawning, building, quit>>
       PROVE  IInv'
  <2> HIDE DEF c, x
  <2>1. c.then \in Workspace /\ Sound(x)
    BY <1>3, <1>4, <1>10 DEF Meant
  <2>2. Sound(gui') /\ gui'.next = x.next /\ Good(gui', spawning, switched)
    BY <1>5, <1>10, <2>1, SwitchKeeps DEF Follows
  <2> QED BY <1>1, <1>3, <1>6, <1>10, <2>2, InvKept
<1>11. ASSUME c.do = "show", UNCHANGED <<spawning, building, quit>>,
              gui' = IF x.shows[c.gui] = None THEN x ELSE [x EXCEPT !.shows[c.gui] = c.win]
       PROVE  IInv'
  <2> HIDE DEF c, x
  <2>1. ~Switches(c) /\ c.do # "reconcile"
    BY <1>11 DEF Switches
  <2>2. Sound(gui') /\ Good(x, spawning, switched)
    BY <1>4, <1>5, <1>11, <2>1
  <2>3. /\ gui'.home = x.home /\ gui'.filled = x.filled /\ gui'.dead = x.dead
        /\ gui'.queue = x.queue /\ gui'.active = x.active /\ gui'.switching = x.switching
        /\ gui'.known = x.known /\ gui'.next = x.next
    BY <1>3, <1>11 DEF GuiState
  <2>4. Good(gui', spawning, switched)
    BY <2>2, <2>3 DEF Good, Awaited, Heeded, Sparing, SwitchPending, ReconcilePending,
                      Tidy, Occupied
  <2> QED BY <1>1, <1>3, <1>6, <1>11, <2>2, <2>3, <2>4, InvKept
<1>12. ASSUME c.do = "build", gui' = CreateWindows(x, c.todo).state,
              building' = building \o CreateWindows(x, c.todo).builds, UNCHANGED <<spawning, quit>>
       PROVE  IInv'
  <2> HIDE DEF c, x
  <2>1. ~Switches(c) /\ c.do # "reconcile" /\ c.do # "show" /\ c.todo \in SUBSET Window
    BY <1>3, <1>12 DEF Switches, Closure
  <2>2. /\ Sound(gui') /\ Good(gui', spawning, switched) /\ gui'.next = x.next
        /\ CreateWindows(x, c.todo).builds \in Seq(Build)
    BY <1>4, <1>5, <1>12, <2>1, CreateKeeps
  <2>3. building' \in Seq(Build)
    BY <1>1, <1>12, <2>2
  <2> QED BY <1>1, <1>3, <1>6, <1>12, <2>2, <2>3, InvKept
<1>13. ASSUME c.do = "spawn", x.next \in Window,
              gui' = [x EXCEPT !.home[x.next] = x.active, !.next = @ + 1],
              spawning' = spawning \cup {[win |-> x.next, then |-> c.then]},
              UNCHANGED <<building, quit>>
       PROVE  IInv'
  BY <1>1, <1>13, StartSpawnInv
<1> QED BY <1>2, <1>7, <1>8, <1>9, <1>10, <1>11, <1>12, <1>13

\* A spawn that is done: its window is filled, or not; a switch is made all the same.
LEMMA FinishSpawnInv ==
    ASSUME IInv, NEW s \in spawning, NEW ok \in BOOLEAN, FinishSpawn(s, ok)
    PROVE  IInv'
<1> DEFINE S == spawning \ {s}
           r == IF ok /\ gui.home[s.win] # None THEN [gui EXCEPT !.filled = @ \cup {s.win}]
                ELSE gui
           a == Post(r, Plain("reconcile"))
           y == Post(a, Plain("prune"))
           z == SwitchWorkspace(y, s.then)
<1>1. /\ Sound(gui) /\ Good(gui, spawning, switched) /\ building \in Seq(Build) /\ quit = FALSE
      /\ SpawnsApart
  BY DEF IInv, FinishSpawn
<1>2. /\ spawning' = S /\ building' = building /\ quit' = FALSE
      /\ gui' = IF s.then = None THEN y ELSE Post(z, Plain("prune"))
      /\ switched' = IF ok /\ s.then # None THEN switched \cup {s.win} ELSE switched
  BY <1>1 DEF FinishSpawn, AfterSpawn, Answered
<1>3. /\ s \in Spawn /\ s.win \in Window /\ s.then \in Workspace \cup {None}
      /\ s.win \notin switched /\ s.win < gui.next
      /\ switched \subseteq {w \in Window : w < gui.next}
      /\ \A t \in spawning : t \in Spawn /\ t.win < gui.next /\ t.win \notin switched
      /\ \A t \in spawning : t.win = s.win => t = s
  BY <1>1 DEF SpawnsApart, Spawn
<1>4. gui \in GuiState
  BY <1>1 DEF Sound
<1>5. /\ r \in GuiState /\ r.queue = gui.queue /\ r.known = gui.known /\ r.shows = gui.shows
      /\ r.closing = gui.closing /\ r.home = gui.home /\ r.dead = gui.dead
      /\ r.next = gui.next /\ r.switching = gui.switching
      /\ r.filled \subseteq gui.filled \cup {s.win}
      /\ s.win \in r.filled => s.win \in gui.filled \/ gui.home[s.win] # None
      /\ gui.filled \subseteq r.filled
  BY <1>3, <1>4 DEF GuiState
<1> HIDE DEF r
<1>6. r.dead \subseteq r.filled /\ r.filled \subseteq Live(r)
  BY <1>1, <1>3, <1>5 DEF Sound, Live
<1>7. Sound(r)
  BY <1>1, <1>5, <1>6, ChangeKeeps
<1>8. Sparing(r, S, switched')
  <2> SUFFICES ASSUME NEW i \in DOMAIN r.queue, r.queue[i].do = "quit"
               PROVE  /\ \A t \in S : t.then = None
                      /\ \A j \in 1..(i - 1) : ~(r.queue[j].do = "spawn" /\ r.queue[j].then # None)
                      /\ switched' \cap r.filled \subseteq r.dead
    BY DEF Sparing
  <2>1. /\ \A t \in spawning : t.then = None
        /\ \A j \in 1..(i - 1) : ~(r.queue[j].do = "spawn" /\ r.queue[j].then # None)
        /\ switched \cap gui.filled \subseteq gui.dead
    BY <1>1, <1>5 DEF Good, Sparing
  <2>2. switched' = switched
    BY <1>2, <2>1
  <2> QED BY <1>3, <1>5, <2>1, <2>2
<1>9. s.then = None => Awaited(r, S)
  <2>1. s.then = None => (SwitchPending(gui, spawning) => SwitchPending(r, S))
    BY <1>5 DEF SwitchPending
  <2> QED BY <1>1, <1>5, <2>1 DEF Good, Awaited
<1>10. /\ Plain("reconcile") \in Closure /\ Meant(Plain("reconcile"))
       /\ Plain("reconcile").do = "reconcile"
       /\ Plain("prune") \in Closure /\ Meant(Plain("prune")) /\ Plain("prune").do = "prune"
  BY PlainIs
<1>11. /\ Sound(a) /\ Sparing(a, S, switched') /\ a.next = r.next
       /\ s.then = None => Good(a, S, switched')
  BY <1>7, <1>8, <1>9, <1>10, PostGood
<1> HIDE DEF a
<1>12. /\ Sound(y) /\ Sparing(y, S, switched') /\ y.next = a.next
       /\ s.then = None => Good(y, S, switched')
  BY <1>10, <1>11, PostGood DEF Good
<1> HIDE DEF y
<1>13. Sound(gui') /\ Good(gui', S, switched') /\ gui'.next = gui.next
  <2>1. CASE s.then = None
    BY <1>2, <1>5, <1>11, <1>12, <2>1
  <2>2. CASE s.then # None
    <3>1. s.then \in Workspace
      BY <1>3, <2>2
    <3>2. Sound(z) /\ Good(z, S, switched') /\ z.next = y.next
      BY <1>12, <3>1, SwitchKeeps DEF Follows
    <3> HIDE DEF z
    <3>3. /\ Sound(Post(z, Plain("prune"))) /\ Post(z, Plain("prune")).next = z.next
          /\ Good(Post(z, Plain("prune")), S, switched')
      BY <1>10, <3>2, PostGood DEF Good
    <3> QED BY <1>2, <1>5, <1>11, <1>12, <2>2, <3>2, <3>3
  <2> QED BY <2>1, <2>2
<1>14. SpawnsApart'
  <2>1. switched' \subseteq {w \in Window : w < gui.next}
    BY <1>2, <1>3
  <2>2. \A t \in S : t.win \notin switched'
    BY <1>2, <1>3
  <2>3. \A t \in S : \A v \in S : t.win = v.win => t = v
    BY <1>1 DEF SpawnsApart
  <2> QED BY <1>2, <1>3, <1>13, <2>1, <2>2, <2>3 DEF SpawnsApart
<1>15. Sound(gui)' /\ Good(gui, spawning, switched)'
  <2>1. Sound(gui') /\ Good(gui', spawning', switched')
    BY <1>2, <1>13
  <2>2. Sound(gui)'
    BY <2>1 DEF Sound, Shows, WillShow, Live, Meant, GuiState
  <2> QED BY <2>1, <2>2 DEF Good, Awaited, Heeded, Sparing, SwitchPending, ReconcilePending,
                            Tidy, Occupied, Switches
<1>16. QuitSparesSwitch'
  BY <1>2 DEF QuitSparesSwitch
<1> QED BY <1>1, <1>2, <1>14, <1>15, <1>16 DEF IInv

\* The task that creates GUI windows goes on.
LEMMA BuildInv ==
    ASSUME IInv, NEW i \in DOMAIN building,
           FailBuild(i) \/ \E g \in Gui : FinishBuild(i, g)
    PROVE  IInv'
<1> DEFINE b == building[i]
<1>1. /\ Sound(gui) /\ Good(gui, spawning, switched) /\ building \in Seq(Build) /\ quit = FALSE
      /\ gui \in GuiState
  BY DEF IInv, Sound, FailBuild, FinishBuild
<1>2. b \in Build /\ b.at \in Window /\ b.todo \in SUBSET Window
  BY <1>1, BuildingKept DEF Build
<1>3. ASSUME NEW x, Sound(x), Good(x, spawning, switched), x.next = gui.next,
             gui' = CreateWindows(x, b.todo).state,
             building' = Others(building, i) \o CreateWindows(x, b.todo).builds,
             UNCHANGED <<spawning, switched, quit>>
      PROVE  IInv'
  <2> HIDE DEF b
  <2>1. /\ Sound(gui') /\ Good(gui', spawning, switched) /\ gui'.next = gui.next
        /\ CreateWindows(x, b.todo).builds \in Seq(Build)
    BY <1>2, <1>3, CreateKeeps
  <2>2. building' \in Seq(Build)
    BY <1>1, <1>3, <2>1, BuildingKept
  <2> QED BY <1>1, <1>3, <2>1, <2>2, InvKept
<1>4. ASSUME FailBuild(i) PROVE IInv'
  <2> DEFINE k == KillWindow(gui, b.at)
             x == [k EXCEPT !.spawned = @ \ {b.at}]
  <2>1. /\ gui' = CreateWindows(x, b.todo).state
        /\ building' = Others(building, i) \o CreateWindows(x, b.todo).builds
        /\ UNCHANGED <<spawning, switched, quit>>
    BY <1>4 DEF FailBuild
  <2> HIDE DEF b
  <2>2. Sound(k) /\ Good(k, spawning, switched) /\ k.next = gui.next
    <3> DEFINE m == RemoveWindows(gui, {b.at})
    <3>1. Sound(m) /\ Good(m, spawning, switched) /\ SameGui(gui, m)
      BY <1>1, <1>2, RemoveWindowsKeeps, RemoveWindowsGood
    <3> HIDE DEF m
    <3>2. /\ Sound(PruneDeadWindows(m)) /\ SameGui(m, PruneDeadWindows(m))
          /\ Good(PruneDeadWindows(m), spawning, switched)
      BY <3>1, PruneKeeps
    <3> QED BY <3>1, <3>2 DEF KillWindow, m, SameGui
  <2> HIDE DEF k
  <2>3. /\ x \in GuiState /\ SameMux(k, x) /\ x.known = k.known /\ x.shows = k.shows
        /\ x.closing = k.closing
    BY <2>2 DEF Sound, GuiState, SameMux
  <2> HIDE DEF x
  <2>4. Sound(x)
    BY <2>2, <2>3, ChangeKeeps DEF SameMux, Sound, Live
  <2>5. Good(x, spawning, switched)
    BY <2>2, <2>3 DEF SameMux, Good, Awaited, Heeded, Sparing, SwitchPending, ReconcilePending,
                      Tidy, Occupied
  <2> QED BY <1>3, <2>1, <2>2, <2>3, <2>4, <2>5 DEF SameMux
<1>5. ASSUME NEW g \in Gui, FinishBuild(i, g) PROVE IInv'
  <2> DEFINE x == UnlessSwitching([gui EXCEPT !.shows[g] = b.at, !.known[g] = b.at])
  <2>1. /\ gui' = CreateWindows(x, b.todo).state
        /\ building' = Others(building, i) \o CreateWindows(x, b.todo).builds
        /\ UNCHANGED <<spawning, switched, quit>>
        /\ gui.shows[g] = None /\ \A j \in DOMAIN gui.queue : gui.queue[j].gui # g
    BY <1>5 DEF FinishBuild
  <2> HIDE DEF b
  <2>2. Sound(x) /\ Good(x, spawning, switched) /\ x.next = gui.next
    BY <1>1, <1>2, <2>1, OpenKeeps DEF Good
  <2> HIDE DEF x
  <2> QED BY <1>3, <2>1, <2>2
<1> QED BY <1>4, <1>5

\* What the user and the panes do.
LEMMA ActsInv ==
    ASSUME IInv,
           \/ SpawnWindow
           \/ \E ws \in Workspace : SwitchToWorkspace(ws) \/ SwitchWorkspaceRelative(ws)
           \/ \E w \in Window : PaneExits(w)
           \/ \E g \in Gui : CloseRequested(g) \/ ContextLost(g) \/ Destroyed(g)
    PROVE  IInv'
<1>1. /\ Sound(gui) /\ Good(gui, spawning, switched) /\ building \in Seq(Build) /\ quit = FALSE
      /\ gui \in GuiState /\ Awaited(gui, spawning) /\ Heeded(gui, spawning)
      /\ Sparing(gui, spawning, switched)
  BY DEF IInv, Sound, SpawnWindow, SwitchToWorkspace, SwitchWorkspaceRelative, PaneExits,
         CloseRequested, ContextLost, Destroyed, Act, Good
<1>2. ASSUME Sound(gui'), Good(gui', spawning, switched), gui'.next = gui.next,
             UNCHANGED <<spawning, building, switched, quit>>
      PROVE  IInv'
  BY <1>1, <1>2, InvKept
<1>3. ASSUME SpawnWindow PROVE IInv'
  <2>1. Plain("spawn") \in Closure /\ Plain("spawn").do = "spawn" /\ Meant(Plain("spawn"))
    BY PlainIs
  <2>2. gui' = Post(gui, Plain("spawn")) /\ UNCHANGED <<spawning, building, switched, quit>>
    BY <1>3 DEF SpawnWindow
  <2>3. Sound(gui') /\ Good(gui', spawning, switched) /\ gui'.next = gui.next
    BY <1>1, <2>1, <2>2, PostGood
  <2> QED BY <1>2, <2>2, <2>3
<1>4. ASSUME NEW ws \in Workspace, SwitchToWorkspace(ws) PROVE IInv'
  <2> DEFINE r == [gui EXCEPT !.switching = TRUE]
             x == SetActive(r, ws)
             c == [Plain("spawn") EXCEPT !.then = ws]
  <2>1. /\ gui' = Post(SwitchWorkspace(x, ws), Plain("prune")) \/ gui' = Post(x, c)
        /\ UNCHANGED <<spawning, building, switched, quit>>
    BY <1>4 DEF SwitchToWorkspace
  <2>2. /\ r \in GuiState /\ r.queue = gui.queue /\ r.known = gui.known /\ r.shows = gui.shows
        /\ r.closing = gui.closing /\ r.home = gui.home /\ r.dead = gui.dead
        /\ r.next = gui.next /\ r.filled = gui.filled
    BY <1>1 DEF GuiState
  <2> HIDE DEF r
  <2>3. r.dead \subseteq r.filled /\ r.filled \subseteq Live(r)
    BY <1>1, <2>2 DEF Sound, Live
  <2>4. Sound(r) /\ Sparing(r, spawning, switched)
    BY <1>1, <2>2, <2>3, ChangeKeeps DEF Sparing
  <2>5. Sound(x) /\ Sparing(x, spawning, switched) /\ x.next = r.next
    BY <2>4, SetActiveKeeps, SetActiveGood DEF SameGui
  <2> HIDE DEF x
  <2>6. CASE gui' = Post(SwitchWorkspace(x, ws), Plain("prune"))
    <3> DEFINE y == SwitchWorkspace(x, ws)
    <3>1. Sound(y) /\ Good(y, spawning, switched) /\ y.next = gui.next
      BY <2>2, <2>5, SwitchKeeps DEF Follows
    <3>2. gui' = Post(y, Plain("prune"))
      BY <2>6
    <3> HIDE DEF y
    <3>3. Plain("prune") \in Closure /\ Plain("prune").do = "prune" /\ Meant(Plain("prune"))
      BY PlainIs
    <3>4. Sound(gui') /\ Good(gui', spawning, switched) /\ gui'.next = gui.next
      BY <3>1, <3>2, <3>3, PostGood DEF Good
    <3> QED BY <1>2, <2>1, <3>4
  <2>7. CASE gui' = Post(x, c)
    <3>1. c = [do |-> "spawn", win |-> None, gui |-> None, then |-> ws, todo |-> {}]
      BY DEF Plain
    <3> HIDE DEF c
    <3>2. c \in Closure /\ c.do = "spawn" /\ Meant(c) /\ Switches(c)
      BY <3>1 DEF Closure, Meant, Switches, Workspace, None
    <3>3. Sound(gui') /\ Good(gui', spawning, switched) /\ gui'.next = gui.next
      BY <2>2, <2>5, <2>7, <3>2, PostGood
    <3> QED BY <1>2, <2>1, <3>3
  <2> QED BY <2>1, <2>6, <2>7
<1>5. ASSUME NEW ws \in Workspace, SwitchWorkspaceRelative(ws) PROVE IInv'
  <2>1. gui' = SwitchWorkspace(gui, ws) /\ UNCHANGED <<spawning, building, switched, quit>>
    BY <1>5 DEF SwitchWorkspaceRelative
  <2>2. Sound(gui') /\ Good(gui', spawning, switched) /\ gui'.next = gui.next
    BY <1>1, <2>1, SwitchKeeps DEF Follows
  <2> QED BY <1>2, <2>1, <2>2
<1>6. ASSUME NEW w \in Window, PaneExits(w) PROVE IInv'
  <2> DEFINE r == [gui EXCEPT !.dead = @ \cup {w}]
  <2>1. /\ gui' = Post(r, Plain("prune")) /\ w \in gui.filled
        /\ UNCHANGED <<spawning, building, switched, quit>>
    BY <1>6 DEF PaneExits
  <2>2. /\ r \in GuiState /\ r.queue = gui.queue /\ r.known = gui.known /\ r.shows = gui.shows
        /\ r.closing = gui.closing /\ r.home = gui.home /\ r.dead = gui.dead \cup {w}
        /\ r.next = gui.next /\ r.filled = gui.filled /\ r.switching = gui.switching
        /\ r.active = gui.active
    BY <1>1 DEF GuiState
  <2> HIDE DEF r
  <2>3. r.dead \subseteq r.filled /\ r.filled \subseteq Live(r)
    BY <1>1, <2>1, <2>2 DEF Sound, Live
  <2>4. Sound(r) /\ Awaited(r, spawning)
    BY <1>1, <2>2, <2>3, ChangeKeeps
  <2>5. Sparing(r, spawning, switched) /\ Heeded(r, spawning)
    BY <1>1, <2>2 DEF Sparing, Heeded, SwitchPending, ReconcilePending, Tidy, Occupied
  <2>6. Plain("prune") \in Closure /\ Plain("prune").do = "prune" /\ Meant(Plain("prune"))
    BY PlainIs
  <2>7. Sound(gui') /\ Good(gui', spawning, switched) /\ gui'.next = gui.next
    BY <2>1, <2>2, <2>4, <2>5, <2>6, PostGood
  <2> QED BY <1>2, <2>1, <2>7
<1>7. ASSUME NEW g \in Gui, CloseRequested(g) PROVE IInv'
  <2> DEFINE m == RemoveWindows(gui, {gui.shows[g]})
             k == PruneDeadWindows(m)
  <2>1. /\ gui' = ForgetKnownWindow([k EXCEPT !.closing = @ \cup {g}], g)
        /\ gui.shows[g] \in Window /\ gui.shows[g] # None
        /\ UNCHANGED <<spawning, building, switched, quit>>
    BY <1>1, <1>7 DEF CloseRequested, KillWindow, Open, GuiState
  <2>2. Sound(m) /\ Good(m, spawning, switched) /\ SameGui(gui, m)
    BY <1>1, <2>1, RemoveWindowsKeeps, RemoveWindowsGood
  <2> HIDE DEF m
  <2>3. Sound(k) /\ SameGui(m, k) /\ Good(k, spawning, switched)
    BY <2>2, PruneKeeps
  <2> HIDE DEF k
  <2>4. k.shows[g] # None /\ k.next = gui.next
    BY <2>1, <2>2, <2>3 DEF SameGui
  <2>5. Sound(gui') /\ Good(gui', spawning, switched) /\ gui'.next = gui.next
    BY <2>1, <2>3, <2>4, LeaveKeeps DEF Good
  <2> QED BY <1>2, <2>1, <2>5
<1>8. ASSUME NEW g \in Gui, ContextLost(g) PROVE IInv'
  <2>1. /\ gui' = ForgetKnownWindow([gui EXCEPT !.closing = @ \cup {g}], g)
        /\ gui.shows[g] # None
        /\ UNCHANGED <<spawning, building, switched, quit>>
    BY <1>8 DEF ContextLost, Open
  <2>2. Sound(gui') /\ Good(gui', spawning, switched) /\ gui'.next = gui.next
    BY <1>1, <2>1, LeaveKeeps
  <2> QED BY <1>2, <2>1, <2>2
<1>9. ASSUME NEW g \in Gui, Destroyed(g) PROVE IInv'
  <2>1. /\ gui' = ForgetKnownWindow([gui EXCEPT !.closing = @ \ {g}, !.shows[g] = None], g)
        /\ g \in gui.closing
        /\ UNCHANGED <<spawning, building, switched, quit>>
    BY <1>9 DEF Destroyed
  <2>2. Sound(gui') /\ Good(gui', spawning, switched) /\ gui'.next = gui.next
    BY <1>1, <2>1, DestroyKeeps
  <2> QED BY <1>2, <2>1, <2>2
<1> QED BY <1>3, <1>4, <1>5, <1>6, <1>7, <1>8, <1>9

\* rename_workspace: the listeners hear of it first, the windows are moved, and the
\* active workspace may be.
LEMMA RenameInv ==
    ASSUME IInv, NEW old \in Workspace, NEW new \in Workspace, RenameWorkspace(old, new)
    PROVE  IInv'
<1> DEFINE r == [gui EXCEPT !.switching = TRUE]
           c == [Plain("switch") EXCEPT !.then = new]
           x == IF gui.active \in {old, new} THEN Post(r, c) ELSE gui
           moves == {w \in Window : x.home[w] = old}
           h == [x EXCEPT !.home = [w \in Window |-> IF w \in moves THEN new ELSE @[w]]]
           y == IF moves = {} THEN x ELSE Post(h, Plain("reconcile"))
<1>1. /\ Sound(gui) /\ Good(gui, spawning, switched) /\ building \in Seq(Build) /\ quit = FALSE
      /\ gui \in GuiState /\ Awaited(gui, spawning) /\ Sparing(gui, spawning, switched)
  BY DEF IInv, Sound, RenameWorkspace, Act, Good
<1>2. /\ gui' = IF y.active = old THEN SetActive(y, new) ELSE y
      /\ UNCHANGED <<spawning, building, switched, quit>>
  BY DEF RenameWorkspace
<1>3. Sound(x) /\ Good(x, spawning, switched) /\ x.next = gui.next
  <2>1. /\ r \in GuiState /\ r.queue = gui.queue /\ r.known = gui.known /\ r.shows = gui.shows
        /\ r.closing = gui.closing /\ r.home = gui.home /\ r.dead = gui.dead
        /\ r.next = gui.next /\ r.filled = gui.filled
    BY <1>1 DEF GuiState
  <2> HIDE DEF r
  <2>2. r.dead \subseteq r.filled /\ r.filled \subseteq Live(r)
    BY <1>1, <2>1 DEF Sound, Live
  <2>3. Sound(r) /\ Sparing(r, spawning, switched)
    BY <1>1, <2>1, <2>2, ChangeKeeps DEF Sparing
  <2>4. c = [do |-> "switch", win |-> None, gui |-> None, then |-> new, todo |-> {}]
    BY DEF Plain
  <2> HIDE DEF c
  <2>5. c \in Closure /\ c.do = "switch" /\ Meant(c) /\ Switches(c)
    BY <2>4 DEF Closure, Meant, Switches
  <2>6. Sound(Post(r, c)) /\ Good(Post(r, c), spawning, switched) /\ Post(r, c).next = r.next
    BY <2>3, <2>5, PostGood
  <2> QED BY <1>1, <2>1, <2>6
<1> HIDE DEF x
<1>4. Sound(y) /\ Good(y, spawning, switched) /\ y.next = x.next
  <2>1. x \in GuiState
    BY <1>3 DEF Sound
  <2>2. [w \in Window |-> IF w \in moves THEN new ELSE x.home[w]] \in [Window -> Workspace \cup {None}]
    BY <2>1 DEF GuiState
  <2>3. /\ h \in GuiState /\ h.queue = x.queue /\ h.known = x.known /\ h.shows = x.shows
        /\ h.closing = x.closing /\ h.dead = x.dead /\ h.filled = x.filled
        /\ h.home = [w \in Window |-> IF w \in moves THEN new ELSE x.home[w]]
        /\ h.next = x.next /\ h.switching = x.switching
    BY <2>1, <2>2 DEF GuiState
  <2>4. h.dead \subseteq h.filled /\ h.filled \subseteq Live(h)
    <3>1. x.dead \subseteq x.filled /\ x.filled \subseteq Live(x) /\ new # None
      BY <1>3 DEF Sound, Workspace, None
    <3> HIDE DEF h
    <3> QED BY <2>3, <3>1 DEF Live
  <2> HIDE DEF h
  <2>5. Sound(h) /\ Awaited(h, spawning) /\ Sparing(h, spawning, switched)
    BY <1>3, <2>3, <2>4, ChangeKeeps DEF Good, Sparing
  <2>6. /\ Plain("reconcile") \in Closure /\ Meant(Plain("reconcile"))
        /\ Plain("reconcile").do = "reconcile"
    BY PlainIs
  <2>7. /\ Sound(Post(h, Plain("reconcile"))) /\ Good(Post(h, Plain("reconcile")), spawning, switched)
        /\ Post(h, Plain("reconcile")).next = h.next
    BY <2>5, <2>6, PostGood
  <2> QED BY <1>3, <2>3, <2>7
<1> HIDE DEF y
<1>5. Sound(gui') /\ Good(gui', spawning, switched) /\ gui'.next = gui.next
  BY <1>2, <1>3, <1>4, SetActiveKeeps, SetActiveGood DEF Good, SameGui
<1> QED BY <1>1, <1>2, <1>5, InvKept

\* The program starts with one window, shown and filled.
LEMMA InitInv ==
    ASSUME Init
    PROVE  IInv
<1>1. 1 \in Window /\ 1 \in Gui /\ 1 \in Workspace /\ 2 \in 1..(MaxWindow + 1) /\ None # 1
  BY FrontEndAssumption DEF Window, Gui, Workspace, None
<1>2. /\ gui.home = [w \in Window |-> IF w = 1 THEN 1 ELSE None] /\ gui.filled = {1}
      /\ gui.dead = {} /\ gui.next = 2 /\ gui.active = 1 /\ gui.switching = FALSE
      /\ gui.spawned = {1} /\ gui.known = [g \in Gui |-> IF g = 1 THEN 1 ELSE None]
      /\ gui.shows = [g \in Gui |-> IF g = 1 THEN 1 ELSE None] /\ gui.closing = {}
      /\ gui.queue = <<>>
  BY DEF Init
<1>3. gui \in GuiState
  <2>1. /\ [w \in Window |-> IF w = 1 THEN 1 ELSE None] \in [Window -> Workspace \cup {None}]
        /\ [g \in Gui |-> IF g = 1 THEN 1 ELSE None] \in [Gui -> Window \cup {None}]
        /\ <<>> \in Seq(Closure)
    BY <1>1
  <2> QED BY <1>1, <2>1 DEF Init, GuiState
<1>4. DOMAIN gui.queue = {}
  BY <1>2
<1>5. \A g \in Gui : WillShow(gui, g)
  BY <1>2, <1>4 DEF WillShow
<1>6. gui.dead \subseteq gui.filled /\ gui.filled \subseteq Live(gui)
  BY <1>1, <1>2 DEF Live
<1>7. \A g \in Gui : /\ gui.known[g] # None => gui.shows[g] # None
                     /\ g \in gui.closing <=> gui.shows[g] # None /\ gui.known[g] = None
  BY <1>2
<1>8. Sound(gui)
  BY <1>3, <1>4, <1>5, <1>6, <1>7 DEF Sound
<1>9. Tidy(gui)
  BY <1>1, <1>2 DEF Tidy, Occupied
<1>10. Good(gui, spawning, switched)
  BY <1>2, <1>4, <1>9 DEF Good, Awaited, Heeded, Sparing
<1>11. SpawnsApart /\ building \in Seq(Build) /\ quit \in BOOLEAN /\ QuitSparesSwitch
  <2>1. spawning = {} /\ building = <<>> /\ switched = {} /\ quit = FALSE
    BY DEF Init
  <2>2. building \in Seq(Build)
    BY <2>1
  <2>3. SpawnsApart
    BY <2>1 DEF SpawnsApart
  <2> QED BY <2>1, <2>2, <2>3 DEF QuitSparesSwitch
<1> QED BY <1>8, <1>10, <1>11 DEF IInv

\* Every step keeps the invariant.
LEMMA NextInv ==
    ASSUME IInv, [Next]_vars
    PROVE  IInv'
<1>1. CASE RunQueue
  BY <1>1, RunQueueInv
<1>2. ASSUME NEW s \in spawning, NEW ok \in BOOLEAN, FinishSpawn(s, ok) PROVE IInv'
  BY <1>2, FinishSpawnInv
<1>3. ASSUME NEW i \in DOMAIN building, FailBuild(i) \/ \E g \in Gui : FinishBuild(i, g)
      PROVE  IInv'
  BY <1>3, BuildInv
<1>4. ASSUME NEW g \in Gui, Destroyed(g) PROVE IInv'
  BY <1>4, ActsInv
<1>5. CASE \/ SpawnWindow
           \/ \E ws \in Workspace : SwitchToWorkspace(ws) \/ SwitchWorkspaceRelative(ws)
           \/ \E w \in Window : PaneExits(w)
           \/ \E g \in Gui : CloseRequested(g) \/ ContextLost(g)
  BY <1>5, ActsInv
<1>6. ASSUME NEW old \in Workspace, NEW new \in Workspace, RenameWorkspace(old, new) PROVE IInv'
  BY <1>6, RenameInv
<1>7. CASE UNCHANGED vars
  <2>1. /\ gui' = gui /\ spawning' = spawning /\ building' = building /\ switched' = switched
        /\ quit' = quit
    BY <1>7 DEF vars
  <2>2. Sound(gui)'
    BY <2>1 DEF IInv, Sound, Shows, WillShow, Live, Meant, GuiState
  <2>3. Good(gui, spawning, switched)'
    BY <2>1 DEF IInv, Good, Awaited, Heeded, Sparing, SwitchPending, ReconcilePending, Tidy,
                Occupied, Switches
  <2>4. SpawnsApart' /\ QuitSparesSwitch'
    BY <2>1 DEF IInv, SpawnsApart, QuitSparesSwitch, Held
  <2> QED BY <2>1, <2>2, <2>3, <2>4 DEF IInv
<1> QED BY <1>1, <1>2, <1>3, <1>4, <1>5, <1>6, <1>7 DEF Next, Progress

----------------------------------------------------------------------------
(* The theorems.                                                           *)

\* The invariant holds of every reachable state.
THEOREM Invariant == Spec => []IInv
<1>1. Init => IInv
  BY InitInv
<1>2. IInv /\ [Next]_vars => IInv'
  BY NextInv
<1> QED BY <1>1, <1>2, PTL DEF Spec

\* Reconciled: with nothing left to do the GUI windows show what the front end thinks,
\* windows of the active workspace, each another, and no switch is pending.
THEOREM ReconciledCorrect == Spec => []Reconciled
<1>1. IInv => Reconciled
  <2> SUFFICES ASSUME IInv PROVE Reconciled
    OBVIOUS
  <2>1. Sound(gui) /\ gui \in GuiState /\ Good(gui, spawning, switched)
    BY DEF IInv, Sound
  <2>2. TypeOK
    <3>1. \A s \in spawning : s.win < gui.next
      BY DEF IInv, SpawnsApart
    <3> QED BY <2>1, <3>1 DEF TypeOK, Sound, GuiState, Open
  <2>3. ASSUME Settled
        PROVE  /\ ~gui.switching
               /\ gui.shows = gui.known
               /\ \A g \in Open :
                     /\ gui.home[gui.known[g]] = gui.active
                     /\ \A h \in Open : gui.known[g] = gui.known[h] => g = h
    <3>1. DOMAIN gui.queue = {} /\ spawning = {} /\ gui.closing = {}
      BY <2>3 DEF Settled
    <3>2. ~SwitchPending(gui, spawning) /\ ~ReconcilePending(gui)
      BY <3>1 DEF SwitchPending, ReconcilePending
    <3>3. ~gui.switching /\ Tidy(gui)
      BY <2>1, <3>2 DEF Good, Awaited, Heeded
    <3>4. ASSUME NEW g \in Gui PROVE gui.shows[g] = gui.known[g]
      <4>1. CASE gui.known[g] = None
        BY <2>1, <3>1, <4>1 DEF Sound
      <4>2. CASE gui.known[g] # None
        BY <2>1, <3>1, <4>2 DEF Sound, WillShow
      <4> QED BY <4>1, <4>2
    <3>5. gui.shows = gui.known
      BY <2>1, <3>4 DEF GuiState
    <3> QED BY <3>3, <3>4, <3>5 DEF Tidy, Open
  <2> QED BY <2>2, <2>3 DEF Reconciled
<1> QED BY <1>1, Invariant, PTL

\* ActiveIsOccupied: with nothing left to do the active workspace has panes if any has.
THEOREM ActiveCorrect == Spec => []ActiveIsOccupied
<1>1. IInv => ActiveIsOccupied
  <2> SUFFICES ASSUME IInv, Settled, gui.filled # {} PROVE Occupied(gui, gui.active)
    BY DEF ActiveIsOccupied
  <2>1. DOMAIN gui.queue = {} /\ spawning = {} /\ Good(gui, spawning, switched)
    BY DEF Settled, IInv
  <2>2. ~SwitchPending(gui, spawning) /\ ~ReconcilePending(gui)
    BY <2>1 DEF SwitchPending, ReconcilePending
  <2> QED BY <2>1, <2>2 DEF Good, Heeded, Tidy
<1> QED BY <1>1, Invariant, PTL

\* QuitSparesSwitch: the program does not end with a live window in it that a switch
\* has made, nor before it is made.
THEOREM QuitCorrect == Spec => []QuitSparesSwitch
<1>1. IInv => QuitSparesSwitch
  BY DEF IInv
<1> QED BY <1>1, Invariant, PTL

=============================================================================
